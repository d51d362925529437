------------------------------- MODULE Plugin -------------------------------
(* Out-of-tree plugins, run as subprocesses by two commands: a backfill     *)
(* asks parser plugins for records (`scan`), and `check` asks metric        *)
(* plugins what they read (`describe`) and for a verdict (`analyze`), then  *)
(* rule plugins for alerts over all verdicts (`evaluate`).                  *)
(*                                                                          *)
(* A plugin is a child process that writes lines to a pipe; it may fork,    *)
(* exit, crash or hang, and the host may reach its deadline, its limit on   *)
(* output or the end of its grace at any time in between.  What a plugin    *)
(* would say in full is its script; a line is a record with a kind          *)
(* ("handshake", "blank", "bad", or "record", "declaration", "verdict",     *)
(* "alerts") and, where the kind has one, a body.                           *)
EXTENDS Integers, Sequences, FiniteSets, SequencesExt

CONSTANTS
    Parsers, Metrics, RulePlugins,  \* the configured plugins, in the order they are run in
    Scripts,        \* verb -> the scripts plugins may have for it
    StdoutCap,      \* lines the host buffers (bytes in the code)
    Allow,          \* metric plugin -> capabilities its config entry names; {}: it names none
    Capabilities,
    Sections,       \* array of the envelope -> [capability, columns, texts: its string columns]
    Prepared,       \* section -> the window's rows, a sequence of functions of its columns
    Windows,        \* the windows check may gate on: sets of usage rows
    Budgets         \* the budgets check may be given; 0 is no budget

\* What a plugin says for each verb, after its handshake.
Kinds == [scan |-> "record", describe |-> "declaration", analyze |-> "verdict",
          evaluate |-> "alerts"]

ASSUME PluginAssumption ==
    /\ StdoutCap \in Nat
    /\ Parsers \in Seq(ToSet(Parsers)) /\ Metrics \in Seq(ToSet(Metrics))
    /\ RulePlugins \in Seq(ToSet(RulePlugins)) /\ DOMAIN Allow = ToSet(Metrics)
    /\ \A verb \in DOMAIN Kinds : \A script \in Scripts[verb] : script \in Seq(ToSet(script))
    /\ \A s \in DOMAIN Sections :
        /\ Sections[s].capability \in Capabilities
        /\ Sections[s].texts \subseteq Sections[s].columns
        /\ Prepared[s] \in Seq(ToSet(Prepared[s]))
        /\ \A i \in DOMAIN Prepared[s] : DOMAIN Prepared[s][i] = Sections[s].columns
    /\ \A rows \in Windows : IsFiniteSet(rows) /\ \A r \in rows :
        r.tokens \in Nat /\ r.worth \in Nat /\ (r.tokens = 0 => r.worth = 0)
    /\ \A b \in Budgets : b.tokens \in Nat /\ b.cost \in Nat

VARIABLES
    command,        \* "backfill", "check" or "idle"
    jobs,           \* subprocesses still to run: <<verb, plugin>>
    child,          \* the one that runs, or NoRun, which is none
    stored,         \* <<plugin, key>> of the records in the store
    verdicts,       \* verdicts of this check: [metric, partial]
    notRun,         \* plugins whose answer this check goes without
    alerts,         \* alerts of this check: [plugin, severity]
    gate,           \* [rows, budget] of this check
    exit,           \* how the last check ended
    answers         \* answers this check took: [verb, plugin, script, document, whole]

pluginVars == <<command, jobs, child, stored, verdicts, notRun, alerts, gate, exit, answers>>

(* The declaration and its projection *)

\* What validateDeclaration accepts: every address names a column of a section
\* whose capability is asked for, predicates only text columns, and nothing is empty.
ValidDeclaration(d) ==
    /\ d.needs # {} /\ d.needs \subseteq Capabilities
    /\ \A s \in DOMAIN d.fields :
        /\ s \in DOMAIN Sections /\ Sections[s].capability \in d.needs
        /\ d.fields[s] # {} /\ d.fields[s] \subseteq Sections[s].columns
    /\ \A w \in DOMAIN d.where :
        /\ w[1] \in DOMAIN Sections /\ Sections[w[1]].capability \in d.needs
        /\ w[2] \in Sections[w[1]].texts /\ d.where[w] # {}

Granted(d, allow) == IF allow = {} THEN d.needs ELSE d.needs \cap allow

\* negotiate: the config constrains what was asked for and never adds to it, and
\* addresses into a denied section go with it.
Negotiate(d, allow) ==
    LET granted == Granted(d, allow)
        kept(s) == Sections[s].capability \in granted
    IN  [needs    |-> granted,
         withheld |-> d.needs \ granted,
         fields   |-> [s \in {t \in DOMAIN d.fields : kept(t)} |-> d.fields[s]],
         where    |-> [w \in {v \in DOMAIN d.where : kept(v[1])} |-> d.where[w]]]

\* The rows of a section, by their places, that every predicate on it admits.
FilterRows(s, where) ==
    {i \in DOMAIN Prepared[s] :
        \A w \in DOMAIN where : w[1] = s => Prepared[s][i][w[2]] \in where[w]}

ProjectRow(s, row, fields) ==
    IF s \in DOMAIN fields THEN [c \in fields[s] |-> row[c]] ELSE row

\* Seeded fault: only predicates on the usage rows themselves count.
NarrowsUsageRows(where, c) == \E w \in DOMAIN where : w[1] = c

\* narrowsAnySection: the condition is what was declared, never what it happened to drop.
NarrowsAnySection(where, c) == \E w \in DOMAIN where : Sections[w[1]].capability = c

Document(p) ==
    LET carried == {s \in DOMAIN Sections : Sections[s].capability \in p.needs}
    IN  [sections |-> [s \in carried |-> [i \in FilterRows(s, p.where) |->
                        ProjectRow(s, Prepared[s][i], p.fields)]],
         rows     |-> [s \in carried |-> [sent      |-> Cardinality(FilterRows(s, p.where)),
                                          available |-> Len(Prepared[s])]],
         totals   |-> "usage" \in p.needs /\ ~NarrowsAnySection(p.where, "usage"),
         prices   |-> "prices" \in p.needs]

(* One child process *)

NoRun == [verb |-> "none"]

Started(verb, plugin, script, document) ==
    [verb |-> verb, plugin |-> plugin, script |-> script, document |-> document,
     said |-> 0, alive |-> TRUE, code |-> 0, held |-> FALSE, expired |-> FALSE,
     over |-> FALSE, torn |-> FALSE]

\* A line written to the pipe, by the plugin or by a descendant that holds it.
Say ==
    /\ child # NoRun /\ (child.alive \/ child.held)
    /\ child.said < Len(child.script) /\ ~child.over /\ ~child.torn
    /\ child' = IF child.said < StdoutCap
                THEN [child EXCEPT !.said = @ + 1]
                ELSE [child EXCEPT !.over = TRUE, !.expired = TRUE]
    /\ UNCHANGED <<command, jobs, stored, verdicts, notRun, alerts, gate, exit, answers>>

\* The plugin leaves a descendant behind that inherited its stdout.
Fork ==
    /\ child # NoRun /\ child.alive /\ ~child.held
    /\ child' = [child EXCEPT !.held = TRUE]
    /\ UNCHANGED <<command, jobs, stored, verdicts, notRun, alerts, gate, exit, answers>>

\* It exits: with 0 when it, or whoever it left behind, has said or will say
\* everything, and with another code at any time.
ChildExit ==
    /\ child # NoRun /\ child.alive
    /\ \E code \in {0, 1} :
        /\ code = 0 => child.said = Len(child.script) \/ child.held
        /\ child' = [child EXCEPT !.alive = FALSE, !.code = code]
    /\ UNCHANGED <<command, jobs, stored, verdicts, notRun, alerts, gate, exit, answers>>

\* A descendant ends once everything is said; until then it may hold the pipe forever.
LetGo ==
    /\ child # NoRun /\ child.held /\ child.said = Len(child.script)
    /\ child' = [child EXCEPT !.held = FALSE]
    /\ UNCHANGED <<command, jobs, stored, verdicts, notRun, alerts, gate, exit, answers>>

Deadline ==
    /\ child # NoRun /\ ~child.expired
    /\ child' = [child EXCEPT !.expired = TRUE]
    /\ UNCHANGED <<command, jobs, stored, verdicts, notRun, alerts, gate, exit, answers>>

\* A context that is done kills the plugin itself, not its descendants.
Kill ==
    /\ child # NoRun /\ child.expired /\ child.alive
    /\ child' = [child EXCEPT !.alive = FALSE, !.code = 9]
    /\ UNCHANGED <<command, jobs, stored, verdicts, notRun, alerts, gate, exit, answers>>

\* killGrace after the plugin ended, the pipe is closed under a descendant.
GraceEnds ==
    /\ child # NoRun /\ ~child.alive /\ child.held /\ ~child.torn
    /\ child' = [child EXCEPT !.torn = TRUE]
    /\ UNCHANGED <<command, jobs, stored, verdicts, notRun, alerts, gate, exit, answers>>

\* Seeded fault: no grace is set, and Wait waits for the pipe.
WaitedForPipe(c) == ~c.alive /\ ~c.held

\* Wait returns: the plugin is gone and the pipe was read to its end, or given up.
Waited(c) == ~c.alive /\ (~c.held \/ c.torn \/ c.over)

\* Seeded fault: exec's report that the pipe had to be closed is let pass.
EndedQuietly(c) == ~c.over /\ ~c.expired /\ c.code = 0

\* The order the host asks in: output limit, deadline, exit status, grace.
EndedWell(c) == ~c.over /\ ~c.expired /\ c.code = 0 /\ ~c.torn

Greeted(c) == c.said > 0 /\ c.script[1].kind = "handshake"

\* A document protocol takes exactly one document after the handshake.
Documents(c) == {i \in 2..c.said : c.script[i].kind # "blank"}

Answered(c) ==
    /\ EndedWell(c) /\ Greeted(c)
    /\ \E i \in 2..c.said :
        /\ Documents(c) = {i} /\ c.script[i].kind = Kinds[c.verb]
        /\ c.verb = "describe" => ValidDeclaration(c.script[i].body)

Answer(c) == c.script[CHOOSE i \in 2..c.said : i \in Documents(c)].body

Answering(c) ==
    [verb |-> c.verb, plugin |-> c.plugin, script |-> c.script, document |-> c.document,
     whole |-> c.said = Len(c.script)]

\* The records of a stream: lines that break an invariant of the boundary are skipped.
Records(c, upTo) ==
    {<<c.plugin, c.script[i].body>> : i \in {j \in 2..upTo : c.script[j].kind = "record"}}

(* The commands *)

NoGate == [rows |-> {}, tokens |-> 0, cost |-> 0]

PluginInit ==
    /\ command = "idle" /\ jobs = <<>> /\ child = NoRun /\ stored = {}
    /\ verdicts = {} /\ notRun = {} /\ alerts = {} /\ answers = {}
    /\ gate = NoGate /\ exit = "none"

\* What a command learns it keeps in memory only.
ForgetCommand == verdicts' = {} /\ notRun' = {} /\ alerts' = {} /\ answers' = {} /\ exit' = "none"

BackfillPlugins ==
    /\ command = "idle"
    /\ command' = "backfill" /\ ForgetCommand
    /\ jobs' = [i \in DOMAIN Parsers |-> <<"scan", Parsers[i]>>]
    /\ gate' = NoGate
    /\ UNCHANGED <<child, stored>>

\* Metric plugins run only for rules to read their verdicts.
Check ==
    /\ command = "idle"
    /\ command' = "check" /\ ForgetCommand
    /\ \E rows \in Windows, b \in Budgets :
        gate' = [rows |-> rows, tokens |-> b.tokens, cost |-> b.cost]
    /\ jobs' = IF RulePlugins = <<>> THEN <<>>
               ELSE [i \in DOMAIN Metrics |-> <<"describe", Metrics[i]>>]
                    \o [i \in DOMAIN RulePlugins |-> <<"evaluate", RulePlugins[i]>>]
    /\ UNCHANGED <<child, stored>>

Spawn ==
    /\ child = NoRun /\ jobs # <<>> /\ Head(jobs)[1] # "analyze"
    /\ \E script \in Scripts[Head(jobs)[1]] :
        child' = Started(Head(jobs)[1], Head(jobs)[2], script,
                         IF Head(jobs)[1] = "evaluate" THEN verdicts ELSE {})
    /\ jobs' = Tail(jobs)
    /\ UNCHANGED <<command, stored, verdicts, notRun, alerts, gate, exit, answers>>

\* Resolve fails: the command is not on the PATH, or the entry is not valid.
Unresolved ==
    /\ child = NoRun /\ jobs # <<>> /\ Head(jobs)[1] # "analyze"
    /\ jobs' = Tail(jobs)
    /\ notRun' = notRun \cup {Head(jobs)[2]}
    /\ UNCHANGED <<command, child, stored, verdicts, alerts, gate, exit, answers>>

Failed(c) == notRun' = notRun \cup {c.plugin} /\ UNCHANGED <<stored, verdicts, alerts>>

\* A parser plugin's stream is stored if the process ended well and greeted as itself.
FinishScan ==
    /\ child # NoRun /\ Waited(child) /\ child.verb = "scan"
    /\ IF EndedWell(child) /\ Greeted(child)
       THEN stored' = stored \cup Records(child, child.said) /\ UNCHANGED <<verdicts, notRun, alerts>>
       ELSE Failed(child)
    /\ child' = NoRun
    /\ UNCHANGED <<command, jobs, gate, exit, answers>>

\* The declaration is negotiated and the same plugin is run again on its document.
FinishDescribe ==
    /\ child # NoRun /\ Waited(child) /\ child.verb = "describe"
    /\ IF Answered(child)
       THEN \E script \in Scripts["analyze"] :
            /\ child' = Started("analyze", child.plugin, script,
                            [declared |-> Answer(child),
                             sent |-> Document(Negotiate(Answer(child), Allow[child.plugin]))])
            /\ UNCHANGED <<stored, verdicts, notRun, alerts>>
       ELSE Failed(child) /\ child' = NoRun
    /\ UNCHANGED <<command, jobs, gate, exit, answers>>

\* A verdict is taken whole; what the config denied is said beside it.
FinishAnalyze ==
    /\ child # NoRun /\ Waited(child) /\ child.verb = "analyze"
    /\ IF Answered(child)
       THEN /\ verdicts' = verdicts \cup
                {[metric  |-> child.plugin,
                  partial |-> Negotiate(child.document.declared, Allow[child.plugin]).withheld # {}]}
            /\ answers' = answers \cup {Answering(child)}
            /\ UNCHANGED <<stored, notRun, alerts>>
       ELSE Failed(child) /\ UNCHANGED answers
    /\ child' = NoRun
    /\ UNCHANGED <<command, jobs, gate, exit>>

FinishEvaluate ==
    /\ child # NoRun /\ Waited(child) /\ child.verb = "evaluate"
    /\ IF Answered(child)
       THEN /\ alerts' = alerts \cup {[plugin |-> child.plugin, severity |-> s] : s \in Answer(child)}
            /\ answers' = answers \cup {Answering(child)}
            /\ UNCHANGED <<stored, verdicts, notRun>>
       ELSE Failed(child) /\ UNCHANGED answers
    /\ child' = NoRun
    /\ UNCHANGED <<command, jobs, gate, exit>>

EndBackfill ==
    /\ command = "backfill" /\ child = NoRun /\ jobs = <<>>
    /\ command' = "idle"
    /\ UNCHANGED <<jobs, child, stored, verdicts, notRun, alerts, gate, exit, answers>>

\* A sum over rows, counted unit by unit.
Total(rows, column) == Cardinality(UNION {{r} \X (1..r[column]) : r \in rows})

\* evaluateBudget: a cost budget fails, too, when tokens in the window have no price.
Breached(g) ==
    \/ g.tokens > 0 /\ Total(g.rows, "tokens") > g.tokens
    \/ /\ g.cost > 0
       /\ \/ \E r \in g.rows : ~r.priced /\ r.tokens > 0
          \/ Total({r \in g.rows : r.priced}, "worth") > g.cost

\* An alert of severity error fails the gate, and so does every plugin that did not run.
EndCheck ==
    /\ command = "check" /\ child = NoRun /\ jobs = <<>>
    /\ command' = "idle"
    /\ exit' = IF Breached(gate) \/ notRun # {} \/ \E a \in alerts : a.severity = "error"
               THEN "fail" ELSE "pass"
    /\ UNCHANGED <<jobs, child, stored, verdicts, notRun, alerts, gate, answers>>

PluginNext ==
    \/ BackfillPlugins \/ Check \/ Spawn \/ Unresolved
    \/ Say \/ Fork \/ ChildExit \/ LetGo \/ Deadline \/ Kill \/ GraceEnds
    \/ FinishScan \/ FinishDescribe \/ FinishAnalyze \/ FinishEvaluate
    \/ EndBackfill \/ EndCheck

PluginSpec == PluginInit /\ [][PluginNext]_pluginVars

(* The host's clock and its own steps go on; nothing is assumed of a plugin. *)
Host == Spawn \/ Kill \/ GraceEnds \/ FinishScan \/ FinishDescribe
        \/ FinishAnalyze \/ FinishEvaluate \/ EndBackfill \/ EndCheck

HostFairness == WF_pluginVars(Host) /\ WF_pluginVars(Deadline)

-----------------------------------------------------------------------------
\* The store takes all the records of a plugin that ended well and had said
\* everything, or none of them: never the part a crash, a deadline, a limit or
\* a forgotten descendant left in the pipe (plugin/exec.go, ingest/plugins.go).
StoresWhole ==
    stored' # stored =>
        /\ child.verb = "scan" /\ child.code = 0 /\ child.said = Len(child.script)
        /\ stored' = stored \cup Records(child, Len(child.script))

AllOrNothing == [][StoresWhole]_pluginVars

\* A check passes only on what it knows: every rule was shown a verdict of every
\* metric plugin, answered in full and raised no error, and what the window is
\* really worth, models without a price included, is within the budget
\* (cli/check.go, cli/ruleplugins.go, cli/check_budget.go).
GateFailsClosed ==
    exit = "pass" =>
        /\ \A r \in ToSet(RulePlugins) : \E c \in answers :
            /\ c.plugin = r /\ c.verb = "evaluate" /\ c.whole
            /\ {v.metric : v \in c.document} = ToSet(Metrics)
            /\ \A i \in DOMAIN c.script : c.script[i].kind = "alerts" => "error" \notin c.script[i].body
        /\ gate.tokens > 0 => Total(gate.rows, "tokens") <= gate.tokens
        /\ gate.cost > 0 => Total(gate.rows, "worth") <= gate.cost

\* A metric plugin is sent what it declared and the config allows, no more and no
\* less; the window's totals come only with every row they are totals of; and a
\* verdict that rests on less than was declared says so (plugin/metric_document.go).
Sent(c) == c.document.sent

Allowed(c, need) == Allow[c.plugin] = {} \/ need \in Allow[c.plugin]

Deserved(c, need) == need \in c.document.declared.needs /\ Allowed(c, need)

DisclosureHonest ==
    LET analyzed == {c \in answers \cup ({child} \ {NoRun}) : c.verb = "analyze"}
        d(c) == c.document.declared
        Shown(c, s, i) == DOMAIN Sent(c).sections[s][i]
    IN  /\ \A c \in analyzed :
            /\ DOMAIN Sent(c).sections = {s \in DOMAIN Sections : Deserved(c, Sections[s].capability)}
            /\ Sent(c).prices <=> Deserved(c, "prices")
            /\ \A s \in DOMAIN Sent(c).sections :
                /\ Sent(c).rows[s] = [sent      |-> Cardinality(DOMAIN Sent(c).sections[s]),
                                      available |-> Len(Prepared[s])]
                /\ s \in DOMAIN d(c).fields =>
                    \A i \in DOMAIN Sent(c).sections[s] : Shown(c, s, i) = d(c).fields[s]
                /\ Sent(c).totals /\ Sections[s].capability = "usage" =>
                    Sent(c).rows[s].sent = Len(Prepared[s])
        /\ \A v \in verdicts : ~v.partial =>
            \E c \in analyzed : c.plugin = v.metric /\ \A need \in d(c).needs : Allowed(c, need)

\* What a check answers: it passes only on what it knows, and what it let a metric
\* plugin see is what was declared and allowed.
GateHonest == GateFailsClosed /\ DisclosureHonest

\* The host always gets its turn back, whatever a plugin or its descendants do
\* (plugin/exec.go: the deadline and killGrace).
HostEnds == command # "idle" ~> command = "idle"
=============================================================================
