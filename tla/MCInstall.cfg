SPECIFICATION Spec
CHECK_DEADLOCK FALSE
CONSTANTS
    Parsers <- MCParsers
    Metrics <- MCMetrics
    RulePlugins <- MCRulePlugins
    Scripts <- MCScripts
    StdoutCap = 4
    Allow <- MCAllow
    Capabilities = {"usage", "sessions", "prices"}
    Sections <- MCSections
    Prepared <- MCPrepared
    Windows <- MCWindows
    Budgets <- MCBudgets
    Openers = {o1, o2}
    Bodies <- MCBodies
    Declared = {"d1", "d2"}
    OldGrain = "block"
    MaxFailures = 2
    Labellers = {l1, l2, l3}
    MaxDraws = 3
    RowPool <- MCRowPool
    Digits <- MCDigits
    ActiveGap = 1
    SmallTurn = 2
    MarkedSessions = {"s1"}
    MaxForgets = 1
INVARIANTS
    GateHonest
PROPERTIES
    AllOrNothing
    HostEnds
    OpensSafely
    LabelsSettle
    ReadsHold
