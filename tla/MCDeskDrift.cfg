SPECIFICATION DeskDriftSpec
CONSTANTS
    s1 = s1
    s2 = s2
    task = task
    outcome = outcome
    v = v
    Sessions = {s1, s2}
    Tools = {t1}
    Axes = {task, outcome}
    Values = {v}
    None = None
    NoLabel = NoLabel
    Suggested <- MCSuggested
    Windows = {w7, w30}
    Kept = 1
    Commands = {k1, k2}
    Idle = Idle
    MayOverlap <- MCMayOverlap
    SameSecond = FALSE
    MaxClock = 2
    MaxClears = 1
    NoBasis = NoBasis
    Inputs = {i1, i2}
    Gone = Gone
    Shapes = {"ok", "renamed", "tokenless"}
    Healthy = {"ok"}
    Yields <- MCYields
    Scale = 6
    MaxMishaps = 3
    Retained = 4
    DiscoveryMin = 2
    YieldMin = 1
    SkippedMin = 2
    ZeroTokenMin = 2
SYMMETRY EitherSymmetry
INVARIANTS
    HistorySound
    SilenceIsHeard
PROPERTIES
    LabelsStand
    MovementOnly
    MarksOutliveLoss
CHECK_DEADLOCK FALSE
