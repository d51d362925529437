SPECIFICATION TeamSpec
CONSTANTS
    c1 = c1
    c2 = c2
    c3 = c3
    p1 = p1
    p2 = p2
    p3 = p3
    agg = agg
    A = A
    d1 = d1
    d2 = d2
    d3 = d3
    n1 = n1
    n2 = n2
    n3 = n3
    s1 = s1
    s2 = s2
    Clients = {c1, c2, c3}
    Pushes = {p1, p2, p3}
    ClientOf <- MCClientOf
    Keys = {agg}
    Aggregates = {agg}
    Recent = {agg}
    Readings <- MCReadings
    Labels = {A}
    NoName = NoName
    Digests = {d1, d2, d3}
    OldNames = {n1, n2, n3}
    Digest <- MCDigest
    Secret <- MCSecret
    Config <- MCConfig
    OldName <- MCOldName
    Manifest <- MCManifest
    Legacy <- MCLegacy
    MaxCount = 2
    MaxFaults = 1
    MaxForgets = 1
    NoMember = NoMember
    NoRow = NoRow
    NoPush = NoPush
    Secrets = {s1, s2}
    Strangers = {x, y}
    PerMinute = 2
    Window = 2
    Anonymous = Anonymous
    NoWindow = NoWindow
    NoRequest = NoRequest
INVARIANTS
    RowsOwned
    CountedOnce
    ConfirmedStored
    CallersApart
PROPERTIES
    SyncedEventually
