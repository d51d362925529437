-------------------------------- MODULE Depth --------------------------------
(* What each source can say: the matrix every figure asks before it averages *)
(* a source's silence as a zero, and the classes a tool call falls into.     *)
EXTENDS Integers, FiniteSets, FiniteSetsExt

CONSTANT Plugins        \* names of out-of-tree sources, all with the plugin prefix

CostSignals == {"tokens_total", "tokens_input", "tokens_output", "cache_read", "cost", "sessions"}
PerTurn == {"turns", "active_minutes"}
LineSignals == {"lines_added", "lines_removed"}
EditSignals == {"edits", "tool_calls", "rework"}

Depths == [
    claude  |-> CostSignals \cup PerTurn \cup LineSignals \cup EditSignals
                  \cup {"cache_write", "compactions", "cache_write_1h", "miss_reason",
                        "steps", "step_outcome", "step_target",
                        "tool_errors", "rejected", "skill_tokens", "agent_tokens"},
    codex   |-> CostSignals \cup PerTurn \cup LineSignals \cup EditSignals
                  \cup {"reasoning", "compactions", "steps", "step_target"},
    gemini  |-> CostSignals \cup PerTurn \cup {"reasoning"},
    copilot |-> CostSignals \cup LineSignals \cup {"cache_write", "reasoning"},
    cline   |-> CostSignals \cup PerTurn \cup {"cache_write"},
    agy     |-> PerTurn \cup {"sessions", "tool_calls", "edits"}]

Tools == DOMAIN Depths

\* An out-of-tree source is given the floor of its protocol; a name outside both, nothing.
SignalsAnsweredBy(tool) ==
    IF tool \in Tools THEN Depths[tool]
    ELSE IF tool \in Plugins THEN CostSignals \cup {"reasoning"} ELSE {}

Answers(tool, signal) == signal \in SignalsAnsweredBy(tool)
AnswersAll(tool, signals) == signals \subseteq SignalsAnsweredBy(tool)

HasFullActivity(tool) == AnswersAll(tool, LineSignals \cup EditSignals)
RecordsLines(tool) == Answers(tool, "lines_added")
CreditsLinesPerSession(tool) == tool = "copilot"

=============================================================================
