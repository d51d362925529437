SPECIFICATION FairSpec
CONSTANTS
    main = main
    sub = sub
    m1 = m1
    m2 = m2
    x = x
    agg = agg
    t = t
    Runs = {r1}
    Builds = {1, 2}
    Files = {main, sub}
    SubFiles = {sub}
    Claude = claude
    Tools = {claude}
    ToolOf <- MCToolOf
    Keys = {m1, m2, x, agg, t}
    KeyTool <- MCKeyTool
    Yield <- MCYield
    Trace <- MCTrace
    Agg <- MCAgg
    Old = {m1}
    Horizon = {}
    MaxSize = 2
    Limit <- MCLimit
    MaxFaults = 1
    MaxClears = 1
    ClearOverlaps = FALSE
    NoInput = NoInput
    NoBuild = NoBuild
INVARIANTS
    TypeOK
    WatermarkSound
    NoAggregateBesideTranscript
PROPERTIES
    EventuallySettled
