------------------------------ MODULE ClaudeLog ------------------------------
(* A Claude Code transcript as it is written, and the two readings one pass *)
(* over it gives: usage records, one per response, and the sequence of      *)
(* steps behind them.  A response arrives as several lines that repeat its  *)
(* usage, a user's lines answer its calls later, context overflows leave a  *)
(* pair of markers, and the writer repeats lines verbatim.                  *)
(*                                                                          *)
(* The parser folds line after line and the log only grows, so reading it   *)
(* whole is one more step of the fold: `reading` is what a parse of the     *)
(* transcript as it is now returns.                                         *)
EXTENDS Counters, FiniteSets

CONSTANTS
    ResponseIds, CallIds, AgentIds,
    Files,          \* files calls name; two spellings of one are one file (targetKey)
    MaxSaid,        \* lines one response has at most
    MaxLines,       \* bound on the transcript
    MaxRetries,     \* bound on the lines that are written again
    Nothing         \* a field a line does not carry

VARIABLES
    log,            \* the transcript
    retries,        \* lines repeated so far
    reading         \* what ParseAll returns for it

claudeVars == <<log, retries, reading>>

BlankLine ==
    [uuid |-> 0, id |-> Nothing, tokens |-> 0, call |-> Nothing, file |-> Nothing,
     answers |-> Nothing, error |-> FALSE, denied |-> FALSE, marker |-> FALSE,
     edit |-> Nothing, agent |-> Nothing, done |-> FALSE]

(* The fold *)

NewReading ==
    [records |-> <<>>, steps |-> <<>>, seen |-> {}, last |-> 0, compacting |-> FALSE,
     added |-> [f \in Files |-> 0], refs |-> <<>>]

RecordOf(r, key) == {i \in DOMAIN r.records : r.records[i].key = key}
StepOf(r, key) == {i \in DOMAIN r.steps : r.steps[i].key = key}

AppendStep(r, key, kind, tokens, ref) ==
    [r EXCEPT !.steps = Append(@, [key |-> key, kind |-> kind, tokens |-> tokens,
                                   outcome |-> "", ref |-> ref])]

\* Outcomes go to the call a result names; one that names a call never seen is dropped.
Settle(r, call, outcome) ==
    [r EXCEPT !.steps = [i \in DOMAIN @ |->
        IF @[i].key = call THEN [@[i] EXCEPT !.outcome = outcome] ELSE @[i]]]

\* Attributed to the response of the latest assistant line, or dropped before any.
Credit(r, counts) ==
    IF r.last = 0 THEN r
    ELSE [r EXCEPT !.records[r.last] = [x \in DOMAIN @ |-> IF x \in DOMAIN counts THEN @[x] + counts[x] ELSE @[x]]]

Denial(r, l) ==
    Settle(Credit(r, [rejected |-> 1]), l.answers, "denied")

\* Two adjacent markers are one overflow, in the records and in the steps.
Compaction(r, l) ==
    IF r.compacting THEN r
    ELSE LET counted == Credit(r, [compactions |-> 1])
         IN  [IF r.last = 0 THEN counted ELSE AppendStep(counted, l.uuid, "compaction", 0, 0)
                EXCEPT !.compacting = TRUE]

Results(r, l) ==
    IF l.answers = Nothing THEN r ELSE Settle(r, l.answers, IF l.error THEN "error" ELSE "ok")

\* Rework is what an edit removes of lines added in this transcript and not yet undone.
EditResult(r, e) ==
    LET rework == Rework(r.added[e.file], e.removed)
        counted == Credit(r, [added |-> e.added, removed |-> e.removed, rework |-> rework])
    IN  IF r.last = 0 THEN r ELSE [counted EXCEPT !.added[e.file] = @ + e.added - rework]

TurnRecord(key, tokens, grain) ==
    [key |-> key, tokens |-> tokens, grain |-> grain, calls |-> 0, errors |-> 0, rejected |-> 0,
     compactions |-> 0, added |-> 0, removed |-> 0, rework |-> 0]

\* A completed sub-agent is a record of its own; its launch stub is none.
SubAgentRecord(r, l) ==
    IF l.done THEN [r EXCEPT !.records = Append(@, TurnRecord(l.agent, l.tokens, "session"))] ELSE r

\* The integer of a file, in the order files are first named.
Ref(r, file) ==
    IF file = Nothing THEN 0
    ELSE IF file \in ToSet(r.refs) THEN CHOOSE i \in DOMAIN r.refs : r.refs[i] = file
    ELSE Len(r.refs) + 1

ToolCall(r, l) ==
    IF l.call = Nothing THEN r
    ELSE [AppendStep(r, l.call, "call", 0, Ref(r, l.file))
            EXCEPT !.refs = IF l.file = Nothing \/ l.file \in ToSet(@) THEN @ ELSE Append(@, l.file)]

\* The step's tokens are read back off the record its response folded into.
RecordStep(r, l) ==
    LET total == r.records[r.last].tokens
        step == IF StepOf(r, l.id) = {} THEN AppendStep(r, l.id, "assistant", total, 0)
                ELSE [r EXCEPT !.steps[CHOOSE i \in StepOf(r, l.id) : TRUE].tokens = total]
    IN  ToolCall(step, l)

\* Seeded fault: usage is added up over the lines of a response.
MergedAdding(t, l) ==
    [t EXCEPT !.tokens = @ + l.tokens, !.calls = @ + (IF l.call = Nothing THEN 0 ELSE 1)]

\* Usage is repeated on a response's lines and grows to its total; activity is each line's own.
Merged(t, l) ==
    [t EXCEPT !.tokens = Max({@, l.tokens}), !.calls = @ + (IF l.call = Nothing THEN 0 ELSE 1)]

Assistant(r, l) ==
    IF l.id = Nothing THEN r
    ELSE LET known == RecordOf(r, l.id)
             at == IF known = {} THEN Len(r.records) + 1 ELSE CHOOSE i \in known : TRUE
             opened == IF known = {} THEN Append(r.records, TurnRecord(l.id, 0, "turn")) ELSE r.records
         IN  RecordStep([r EXCEPT !.records = [opened EXCEPT ![at] = Merged(@, l)], !.last = at], l)

\* applyLine: the order of its checks, and where each of them ends the line.
ApplyLine(r0, l) ==
    LET r == [r0 EXCEPT !.seen = @ \cup {l.uuid}]
        errors == IF l.error THEN Credit(r, [errors |-> 1]) ELSE r
        settled == Results([errors EXCEPT !.compacting = FALSE], l)
    IN  CASE l.uuid \in r0.seen     -> r0
          [] OTHER -> CASE l.denied            -> Denial(r, l)
                        [] l.marker            -> Compaction(errors, l)
                        [] l.agent # Nothing   -> SubAgentRecord(settled, l)
                        [] l.edit # Nothing    -> EditResult(settled, l.edit)
                        [] OTHER               -> Assistant(settled, l)

(* The writer *)

Told == ToSet(log)
Said(id) == {l \in Told : l.id = id}
Asked == {l.call : l \in {m \in Told : m.call # Nothing}}
Open == Asked \ {l.answers : l \in Told}

Transcribe(l) ==
    /\ Len(log) < MaxLines
    /\ log' = Append(log, l) /\ reading' = ApplyLine(reading, l)

Line == [BlankLine EXCEPT !.uuid = Len(log) + 1]

\* One more block of a response, with its usage so far, and at most one call.
SayBlock(id) ==
    /\ Cardinality(Said(id)) < MaxSaid
    /\ \E call \in {Nothing} \cup (CallIds \ Asked), file \in {Nothing} \cup Files :
        /\ call = Nothing => file = Nothing
        /\ Transcribe([Line EXCEPT !.id = id, !.tokens = Cardinality(Said(id)) + 1, !.call = call, !.file = file])
    /\ UNCHANGED retries

\* A call succeeds, maybe as an edit, or fails; or the person declines it.
AnswerCall(call) ==
    /\ call \in Open
    /\ \/ \E edit \in {Nothing} \cup [file : Files, added : {0, 2}, removed : {1}] :
            Transcribe([Line EXCEPT !.answers = call, !.edit = edit])
       \/ Transcribe([Line EXCEPT !.answers = call, !.error = TRUE])
       \/ Transcribe([Line EXCEPT !.answers = call, !.error = TRUE, !.denied = TRUE])
    /\ UNCHANGED retries

\* The context overflows: a boundary, and next to it, usually, the summary.  It takes a
\* response to fill a context.
Overflow ==
    /\ \/ log # <<>> /\ Last(log).marker /\ (Len(log) > 1 => ~log[Len(log) - 1].marker)
       \/ \E i \in DOMAIN log : log[i].id # Nothing /\ \A j \in i .. Len(log) : ~log[j].marker
       \/ log = <<>>
    /\ Transcribe([Line EXCEPT !.marker = TRUE]) /\ UNCHANGED retries

\* A sub-agent is launched, and is done later.
Agent(a) ==
    /\ \E done \in BOOLEAN :
        /\ ~\E l \in Told : l.agent = a /\ (l.done \/ ~done)
        /\ Transcribe([Line EXCEPT !.agent = a, !.done = done, !.tokens = 5])
    /\ UNCHANGED retries

RetryLine ==
    /\ retries < MaxRetries /\ retries' = retries + 1
    /\ \E i \in DOMAIN log : Transcribe(log[i])

ClaudeInit == log = <<>> /\ retries = 0 /\ reading = NewReading

ClaudeNext ==
    \/ \E id \in ResponseIds : SayBlock(id)
    \/ \E call \in CallIds : AnswerCall(call)
    \/ \E a \in AgentIds : Agent(a)
    \/ Overflow \/ RetryLine

-----------------------------------------------------------------------------
SumRecords(Part(_)) == FoldSeq(LAMBDA t, n : n + Part(t), 0, reading.records)
StepsOf(kind) == {i \in DOMAIN reading.steps : reading.steps[i].kind = kind}
Outcome(call) ==
    LET answer == {l \in Told : l.answers = call}
    IN  IF answer = {} THEN ""
        ELSE LET l == CHOOSE m \in answer : TRUE
             IN  IF l.denied THEN "denied" ELSE IF l.error THEN "error" ELSE "ok"

\* Whatever is repeated, split or answered late, a response is one record with its
\* whole usage and every call once; a call is one step that ends as it was answered;
\* failures, refusals and edits are counted once each; and the two readings agree on
\* turns, tokens, calls and overflows (parser/claude/claude.go: ParseAll).
ClaudeRead ==
    LET turns == {i \in DOMAIN reading.records : reading.records[i].grain = "turn"}
        lines == {l \in Told : l.edit # Nothing}
        runs == {i \in DOMAIN reading.steps : reading.steps[i].kind = "compaction"}
    IN  /\ {reading.records[i].key : i \in turns} = {l.id : l \in Told} \ {Nothing}
        /\ \A i \in turns :
            LET t == reading.records[i] IN
            /\ t.tokens = Max({l.tokens : l \in Said(t.key)})
            /\ t.calls = Cardinality({l \in Said(t.key) : l.call # Nothing})
            /\ t.rework <= t.removed
            /\ \E s \in StepsOf("assistant") :
                reading.steps[s].key = t.key /\ reading.steps[s].tokens = t.tokens
        /\ Cardinality(turns) = Cardinality(StepsOf("assistant"))
        /\ Cardinality(DOMAIN reading.records \ turns) = Cardinality({l \in Told : l.agent # Nothing /\ l.done})
        /\ Cardinality(StepsOf("call")) = Cardinality(Asked)
        /\ \A s \in StepsOf("call") : reading.steps[s].outcome = Outcome(reading.steps[s].key)
        /\ SumRecords(LAMBDA t : t.errors) = Cardinality({l \in Told : l.error /\ ~l.denied})
        /\ SumRecords(LAMBDA t : t.rejected) = Cardinality({l \in Told : l.denied})
        /\ SumRecords(LAMBDA t : t.removed) = Cardinality(lines)
        /\ SumRecords(LAMBDA t : t.rework) <= SumRecords(LAMBDA t : t.added)
        /\ SumRecords(LAMBDA t : t.compactions) = Cardinality(runs)
        /\ \A s, q \in StepsOf("call") :
            LET fileOf(x) == (CHOOSE l \in Told : l.call = reading.steps[x].key).file
            IN  reading.steps[s].ref # 0 =>
                    (reading.steps[s].ref = reading.steps[q].ref <=> fileOf(s) = fileOf(q))
=============================================================================
