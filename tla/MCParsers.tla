------------------------------ MODULE MCParsers ------------------------------
(* The parsers, each over the logs its tool can write: one of them per behaviour. *)
EXTENDS ClaudeLog, CodexLog, OtherLogs

VARIABLE parser     \* whose log this is

MCDeltas == {[input |-> 2, cached |-> 1, output |-> 1], [input |-> 1, cached |-> 2, output |-> 0]}

parserVars == <<claudeVars, codexVars, otherVars, parser>>

ParserInit ==
    /\ parser \in {"claude", "codex", "other"}
    /\ ClaudeInit /\ CodexInit /\ OtherInit
    /\ parser # "codex" => names
    /\ parser # "other" => source = CHOOSE s \in Sources : TRUE

ParserNext ==
    \/ parser = "claude" /\ ClaudeNext /\ UNCHANGED <<codexVars, otherVars, parser>>
    \/ parser = "codex" /\ CodexNext /\ UNCHANGED <<claudeVars, otherVars, parser>>
    \/ parser = "other" /\ OtherNext /\ UNCHANGED <<claudeVars, codexVars, parser>>

ParserSpec == ParserInit /\ [][ParserNext]_parserVars

\* Every prefix of every log is read whole and once, and a Codex rollout read again keeps
\* its keys (parser/claude, parser/codex, parser/gemini, cline, copilot, antigravity).
LogsRead == [](ClaudeRead /\ CodexRead /\ LogRead) /\ CodexGrows

=============================================================================
