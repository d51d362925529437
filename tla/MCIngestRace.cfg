SPECIFICATION Spec
CONSTANTS
    main = main
    m1 = m1
    m2 = m2
    o = o
    Runs = {r1, r2}
    Builds = {1}
    Files = {main, rollout}
    SubFiles = {}
    Claude = claude
    claude = claude
    codex = codex
    rollout = rollout
    Tools = {claude, codex}
    ToolOf <- MCToolOf
    Keys = {m1, m2, o}
    KeyTool <- MCKeyTool
    Yield <- MCYield
    Trace <- MCTrace
    Agg <- MCAgg
    Old = {m1}
    Horizon = {m1}
    MaxSize = 2
    Limit <- MCLimit
    MaxFaults = 1
    MaxClears = 1
    ClearOverlaps = FALSE
    NoInput = NoInput
    NoBuild = NoBuild
SYMMETRY RunSymmetry
PROPERTIES
    SkipSound
    ImplementsLedger
