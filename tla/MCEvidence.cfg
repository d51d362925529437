SPECIFICATION Spec
CHECK_DEADLOCK FALSE
SYMMETRY Sym
CONSTANTS
    s1 = s1
    p1 = p1
    p2 = p2
    r1 = r1
    r2 = r2
    Sessions = {s1}
    PRs = {p1, p2}
    MaxCommits = 4
    MaxWritten = 2
    MaxClock = 2
    MaxOthers = 1
    Gap = 1
    Since = 0
    None = None
    Pulls = {1, 2, 3}
    PageSize = 1
    MaxPages = 3
    From = 2
    LastSecond = 6
    MaxUpdates = 2
    Opened = {1, 3, 4}
    Top = Top
    NoCopy = NoCopy
    NamedPulls = {r1, r2}
    Heads = {1, 2}
    Verdicts = {"approved", "changes_requested"}
    MaxReviews = 2
    Bound = 1
    Counts <- MCCounts
    NoHead = NoHead
    Unknown = Unknown
INVARIANTS
    ReadComplete
    JoinedAlike
    DeliveryTrue
    WorkTrue
    LinksTrue
