SPECIFICATION Spec
CONSTANTS
    f = 1
    g = 2
    turn = turn
    agg = agg
    A = A
    B = B
    deep = deep
    r1 = r1
    r2 = r2
    Runs = {p1, p2}
    Builds = {1, 2}
    Files = {1, 2}
    Keys = {turn, agg}
    ClaudeKeys = {turn, agg}
    Aggregates = {agg}
    Old = {agg}
    Labels = {A, B}
    Roots = {r1, r2}
    Subpaths = {deep}
    Models = {}
    NoName = NoName
    NoRoot = NoRoot
    Places = {"repo", "plain", "gone"}
    Resolves <- MCResolves
    Parsed <- MCParsed
    MaxLen = 2
    Limit <- MCLimit
    MaxTime = 1
    MaxCount = 2
    MaxClears = 1
    ClearOverlaps = FALSE
    NoRow = NoRow
    NoInput = NoInput
    NoRun = NoRun
SYMMETRY RunSymmetry
INVARIANTS
    TypeOK
    RepoNamesLabel
    CountsAgree
    RegistryCurrent
    Unanimous
PROPERTIES
    NothingErased
