SPECIFICATION FiguresSpec
CONSTANTS
    Plugins = {}
    Models <- MCModels
    Unprefixed <- MCUnprefixed
    Normal <- MCNormal
    PremiumFloor = 9
    DayLen = 10
    Lowered <- MCLowered
    MonthDays = 30
    Ceiling <- MCCeiling
    RateScale = 60
    MinEdits = 3
    MinSequences = 5
    RecoveryWindow = 2
    RecoveryMinTurns = 1
    OpenTail = 1
    SampleFloor = 3
    NameOrder <- MCNameOrder
    LinesFloor = 4
    BurnMinDays = 4
    MinSessions = 3
    MinCalls = 3
    MinTurns = 3
    SkillMinTokens = 3
    LightMax = 3
    OneShotMax = 2
    MinTokenShare <- MCMinTokenShare
    Sides <- MCSides
    RowPool <- MCRowPool
    SessionPool <- MCSessionPool
    StepPool <- MCStepPool
    TracePool <- MCTracePool
    BillPool <- MCBillPool
    Columns <- MCColumns
    Snapshots <- MCSnapshots
    Frames <- MCFrames
    Today = 14
    LastDay = 15
    MaxRows <- MCMaxRows
    MaxSessions = 8
    MaxSteps = 4
    MaxLines = 2
INVARIANTS SpendConserved SilenceIsNotZero TracesExact LeadsHonest TrendInventsNothing
PROPERTY HistoryStaysPriced
CHECK_DEADLOCK FALSE
