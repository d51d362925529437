----------------------------- MODULE MCFigures -----------------------------
(* Small windows for Figures: a handful of rows of every kind of source and  *)
(* price beside a bill; weeks of usage and sessions; and two short sequences.*)
EXTENDS Figures

\* A name with a date stamp, and one a hub lists under its own prefix.
MCModels == {"opus", "haiku", "old", "old-dated", "hub/haiku", "lost", "other"}
MCUnprefixed == MCModels \ {"hub/haiku"}
MCNormal == [m \in MCModels |-> IF m = "old-dated" THEN "old" ELSE m]
MCLowered == [m \in MCModels \cup {"Opus"} |-> IF m = "Opus" THEN "opus" ELSE m]

Entry(in, out, write, long, read) == [input |-> in, output |-> out, write |-> write, long |-> long, read |-> read]
Cheap == Entry(1, 2, Absent, Absent, Absent)
MCSnapshots == <<[opus |-> Entry(3, 9, 4, 6, 1), haiku |-> Cheap, old |-> Entry(2, 4, 2, Absent, 1), lost |-> Entry(0, 0, Absent, Absent, Absent)]
                   @@ ("hub/haiku" :> Cheap),
                 [opus |-> Entry(4, 9, 4, 6, 1), haiku |-> Entry(0, 0, Absent, Absent, Absent)]>>

Row(day, tool, model, in, added) ==
    [day |-> day, tool |-> tool, model |-> model, project |-> "p", entrypoint |-> "cli", member |-> "",
     granularity |-> "turn", task |-> "", outcome |-> "", difficulty |-> "", in |-> in, out |-> 0, read |-> 0,
     write |-> 0, long |-> 0, reasoning |-> 0, added |-> added, removed |-> 0, rework |-> 0, edits |-> 0, calls |-> 0,
     rejected |-> 0, errors |-> 0, reads |-> 0, searches |-> 0, commands |-> 0, writes |-> 0, other |-> 0]

\* Three models of one session of a source that counts its lines once, a source that counts no
\* token, one that records no line, a model the vendor delists, and lines that cost no token.
MoneyRows ==
    {[Row(2, "copilot", "opus", 4, 3) EXCEPT !.write = 4, !.long = 2], Row(2, "copilot", "lost", 2, 3),
     Row(2, "copilot", "haiku", 3, 3), [Row(3, "claude", "opus", 2, 5) EXCEPT !.write = 4, !.long = 1],
     [Row(3, "agy", "lost", 0, 0) EXCEPT !.calls = 2], [Row(3, "gemini", "haiku", 5, 0) EXCEPT !.project = "q", !.task = "fix"],
     [Row(5, "claude", "old-dated", 3, 2) EXCEPT !.project = "q"], Row(2, "claude", "lost", 0, 4)}

\* Weeks of one source, and what interrupts them.
Weeks(tool, model, days, in, added) == {Row(d, tool, model, in, added) : d \in days}
ReadFragments ==
    {{[u EXCEPT !.out = 1] : u \in Weeks("claude", "opus", 9..14, 1, 2)},
     {[u EXCEPT !.project = "q"] : u \in Weeks("agy", "lost", 1..8, 0, 0)},
     {Row(13, "claude", "opus", 60, 6)},
     {[u EXCEPT !.out = 2, !.reasoning = 1] : u \in Weeks("codex", "opus", 12..14, 1, 9)},
     {[u EXCEPT !.added = IF u.day < 12 THEN 6 ELSE 1] : u \in Weeks("codex", "haiku", 9..14, 2, 0)},
     {[u EXCEPT !.calls = 4] : u \in Weeks("copilot", "other", 9..12, 2, 4)},
     {[Row(12, "claude", "opus", 1, 0) EXCEPT !.calls = 6, !.errors = 2, !.rejected = 1, !.commands = 6, !.rework = 1]}}

Session(id, tool, edits, task) ==
    [id |-> id, tool |-> tool, day |-> 12, turns |-> 1 + edits, minutes |-> 10, edits |-> edits, calls |-> edits,
     compactions |-> id % 2, out |-> 3, peak |-> 4, started |-> TRUE, task |-> task, outcome |-> "", difficulty |-> ""]
MCSessionPool ==
    {{Session(i, "claude", i, "fix") : i \in 1..5},
     {Session(i, "gemini", 0, "") : i \in 6..9} \cup {Session(i, "agy", 2, "") : i \in 10..12}}

Step(kind, ref, outcome, tokens, at) == [kind |-> kind, ref |-> ref, outcome |-> outcome, tokens |-> tokens, at |-> at]
Looping(i) == [session |-> i, member |-> "", timeline |-> "", entry |-> "cli", tool |-> "claude", project |-> "p",
               steps |-> [k \in 1..6 |-> IF k % 2 = 0 THEN Step("command", 0, "ok", 0, 120)
                                         ELSE Step("edit", IF i = 1 THEN 1 ELSE k, "ok", 0, 120)]]
MCTracePool == {<<>>, [i \in 1..6 |-> Looping(i)]}

MCStepPool == {Step("assistant", 0, "", 1, 0), Step("assistant", 0, "", 3, 0), Step("command", 0, "error", 0, 0),
               Step("command", 0, "ok", 0, 0), Step("edit", 1, "ok", 0, 0), Step("compaction", 0, "", 0, 0)}

Line(id, day, model, cost, currency) == [id |-> id, day |-> day, model |-> model, cost |-> cost, currency |-> currency]
MCBillPool == {Line(1, 2, "Opus", 40, "USD"), Line(2, 3, "lost", 5, ""), Line(3, Absent, "opus", 2, "EUR"),
               Line(4, 5, "other", 2, "EUR"), Line(5, 3, "opus", -3, "USD")}
MCColumns == {"day", "cost", "model", "currency"}

MCSides == {"money", "reads", "steps"}
MoneySide == {"money"}
MCRowPool == [money |-> {{u} : u \in MoneyRows}, reads |-> ReadFragments]
Frame(start, history) == [start |-> start, history |-> history, skills |-> {}, turnSizing |-> {}]
Attributed == [Frame(105, 0) EXCEPT !.skills = {[name |-> "s", tokens |-> 4], [name |-> "t", tokens |-> 2]},
                                    !.turnSizing = {[model |-> "opus", turns |-> 4], [model |-> "haiku", turns |-> 2]}]
MCFrames == [money |-> {Frame(0, 0), Frame(25, 0)}, reads |-> {Frame(0, 112), Attributed}, steps |-> {Frame(0, 0)}]
MCMaxRows == [money |-> 3, reads |-> 8]
Names == <<"adoption", "burn", "cache", "concentration", "context", "coverage", "edit_loops", "explore", "friction",
           "intent", "model_fit", "right_sizing", "reasoning", "recovery", "rework", "rhythm", "taxonomy", "skills",
           "subscription", "throughput", "turns">>
MCNameOrder == [n \in ToSet(Names) |-> CHOOSE i \in DOMAIN Names : Names[i] = n]
MCCeiling == <<1, 20>>
MCMinTokenShare == <<1, 20>>
============================================================================
