SPECIFICATION ParserSpec
CONSTANTS
    ResponseIds = {A, B}
    CallIds = {c, d}
    AgentIds = {g}
    Files = {f}
    MaxSaid = 2
    MaxLines = 4
    MaxRetries = 1
    Nothing = Nothing
    Calls = {c}
    Paths = {p, q}
    Deltas <- MCDeltas
    MaxItems = 5
    IdleMidTurn = FALSE
    Sources = {"gemini", "cline", "copilot", "agy"}
    LogFiles = {f, g}
    Models = {A, B}
    MaxEntries = 4
    MaxInt = 7
PROPERTY LogsRead
CHECK_DEADLOCK FALSE
