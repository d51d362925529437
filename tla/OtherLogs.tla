------------------------------ MODULE OtherLogs ------------------------------
(* The four sources with smaller parsers -- Gemini CLI, Cline, Copilot CLI   *)
(* and Antigravity CLI -- each over a log that is read while it is written:  *)
(* a read sees a prefix, and the rows it stores are restated by the reads    *)
(* after it.  What keeps a turn one row is the key its parser gives it.      *)
EXTENDS Counters, FiniteSets, TLC

CONSTANTS
    Sources,        \* the sources of a run: "gemini", "cline", "copilot", "agy"
    LogFiles,       \* the logs of one source; Gemini resumes one session into another file
    Models,
    MaxEntries      \* bound on the lines of all logs together
ASSUME OtherLogsAssumption == Models # {} /\ MaxInt \in Nat

VARIABLES
    source,
    logs,           \* per log, its lines so far; Cline's model switches are among them
    rows,           \* the store's rows by key
    readTo          \* how much of each log the rows are known to hold

otherVars == <<source, logs, rows, readTo>>

Unnamed == "unnamed"

Blank == [kind |-> "", session |-> "", at |-> 0, model |-> Unnamed, input |-> 0, cached |-> 0, output |-> 0,
          thoughts |-> 0, step |-> 0, calls |-> 0, usage |-> <<>>]

Row(key, at, model, input, cached, output, reasoning) ==
    [key |-> key, at |-> at, model |-> model, input |-> input, cached |-> cached, output |-> output,
     reasoning |-> reasoning, calls |-> 0, lines |-> 0]

(* Gemini CLI: the session rides the header; a message without tokens is none; thinking is
   billed as output and kept as a part of it; the key is the file's own first line, the
   session and a position. *)

GeminiRow(f, r, l) ==
    LET output == SumNonNeg(<<l.output, l.thoughts>>)
        read == Subset(l.cached, NonNeg(l.input))
    IN  Row(<<f, r.session, r.index>>, l.at, l.model, NonNeg(l.input) - read, read, output,
            Subset(l.thoughts, output))

Gemini(f, ls) ==
    LET Line(r, l) ==
            CASE l.kind = "header"                                 -> [r EXCEPT !.session = l.session]
              [] l.kind = "message" /\ (l.input # 0 \/ l.output # 0) ->
                    [r EXCEPT !.out = Append(@, GeminiRow(f, r, l)), !.index = @ + 1]
              [] OTHER                                             -> r
    IN  FoldLeft(Line, [session |-> "", index |-> 0, out |-> <<>>], ls).out

(* Cline: a request is announced before it has tokens and filled in place; the model is the
   last switch at or before it, or the earliest known. *)

ModelAt(switches, at) ==
    LET before == SelectSeq(switches, LAMBDA e : e.at <= at)
    IN  IF switches = <<>> THEN Unnamed ELSE IF before = <<>> THEN switches[1].model ELSE Last(before).model

\* The switches are a file of their own, read before the messages are.
Cline(f, ls, switches) ==
    LET asked == SelectSeq(ls, LAMBDA l : l.kind = "request" /\ (l.input # 0 \/ l.output # 0))
    IN  [i \in DOMAIN asked |->
            Row(<<f, "task", i - 1>>, asked[i].at, ModelAt(switches, asked[i].at), NonNeg(asked[i].input),
                NonNeg(asked[i].cached), NonNeg(asked[i].output), 0)]

(* Copilot CLI: the totals of a session, one row per model, when it has shut down; the
   changed lines go whole to the model with most requests. *)

\* usage: one [model, requests, input, lines] per model, in the order of their names.
DominantModel(usage) ==
    LET named == SelectSeq(usage, LAMBDA u : u.model # Unnamed)
        Most(best, u) == IF u.requests > best.requests THEN u ELSE best
    IN  FoldLeft(Most, [model |-> Unnamed, requests |-> -1], named).model

Copilot(f, ls) ==
    LET of(kind) == SelectSeq(ls, LAMBDA l : l.kind = kind)
        shut == Last(of("shutdown"))
        usage == SelectSeq(shut.usage, LAMBDA u : u.model # Unnamed)
        at == IF of("start") = <<>> THEN shut.at ELSE Last(of("start")).at
    IN  IF of("shutdown") = <<>> THEN <<>>
        ELSE [i \in DOMAIN usage |->
                [Row(<<f, usage[i].model, 0>>, at, usage[i].model, NonNeg(usage[i].input), 0, 0, 0)
                    EXCEPT !.lines = IF usage[i].model = DominantModel(shut.usage) THEN NonNeg(shut.calls) ELSE 0]]

(* Antigravity CLI: no tokens; a response split over entries of one second is one turn,
   keyed by the first of them; a repeated position or an undatable entry is dropped. *)

AgyKey(r, l) == IF r.out # <<>> /\ Last(r.out).at = l.at THEN Last(r.out).key[3] ELSE l.step

Agy(f, ls) ==
    LET Line(r, l) ==
            LET key == <<f, "conversation", AgyKey(r, l)>>
                row == [Row(key, l.at, Unnamed, 0, 0, 0, 0) EXCEPT !.calls = l.calls]
                s == [r EXCEPT !.seen = @ \cup {l.step}]
            IN  IF l.kind # "model" \/ l.at = 0 \/ l.step \in r.seen THEN r
                ELSE IF r.out # <<>> /\ Last(r.out).at = l.at
                     THEN [s EXCEPT !.out[Len(r.out)].calls = @ + l.calls, !.out[Len(r.out)].key = key]
                     ELSE [s EXCEPT !.out = Append(@, row)]
    IN  FoldLeft(Line, [seen |-> {}, out |-> <<>>], ls).out

Switches(ls) == SelectSeq(ls, LAMBDA l : l.kind = "switch")

\* The records of the first n lines; Cline's metadata was read when it held the first m.
Parse(f, n, m) ==
    LET ls == SubSeq(logs[f], 1, n)
    IN  CASE source = "gemini"  -> Gemini(f, ls)
          [] source = "cline"   -> Cline(f, ls, Switches(SubSeq(logs[f], 1, m)))
          [] source = "copilot" -> Copilot(f, ls)
          [] source = "agy"     -> Agy(f, ls)

(* Reading: InsertLocal restates what is stored, tokens never lower, activity assigned. *)

RestateRow(old, new) ==
    [new EXCEPT !.input = Max({@, old.input}), !.cached = Max({@, old.cached}), !.output = Max({@, old.output}),
                !.reasoning = Max({@, old.reasoning}), !.model = IF @ = Unnamed THEN old.model ELSE @]

Insert(stored, records) ==
    FoldLeft(LAMBDA s, r : (r.key :> IF r.key \in DOMAIN s THEN RestateRow(s[r.key], r) ELSE r) @@ s,
             stored, records)

\* A read that races the writer sees a part of the file, and of the file beside it.
ReadLog(f) ==
    /\ \E n, m \in readTo[f] .. Len(logs[f]) :
        /\ n > 0 /\ (source # "cline" => m = n)
        /\ rows' = Insert(rows, Parse(f, n, m))
        /\ readTo' = [readTo EXCEPT ![f] = Min({n, m})]
    /\ UNCHANGED <<source, logs>>

(* The writers *)

Of(f, kind) == {i \in DOMAIN logs[f] : logs[f][i].kind = kind}

\* One log is enough for the sources that never resume a session into another file.
WriteEntry(f, l) ==
    /\ source = "gemini" \/ f = CHOOSE g \in LogFiles : TRUE
    /\ MapThenSumSet(LAMBDA g : Len(logs[g]), LogFiles) < MaxEntries
    /\ logs' = [logs EXCEPT ![f] = Append(@, [l EXCEPT !.at = IF l.kind = "model" THEN @ ELSE Len(logs[f]) + 1])]
    /\ UNCHANGED <<source, rows, readTo>>

GeminiWrites(f) ==
    /\ source = "gemini"
    /\ IF logs[f] = <<>> THEN WriteEntry(f, [Blank EXCEPT !.kind = "header", !.session = "s"])
       ELSE \E model \in Models, input \in {0, 2}, cached \in {0, 3}, thoughts \in 0 .. 1 :
                WriteEntry(f, [Blank EXCEPT !.kind = "message", !.model = model, !.input = input,
                                            !.cached = cached, !.output = thoughts, !.thoughts = thoughts])

\* The switch is recorded before the request it is for; a request has no tokens at first.
ClineWrites(f) ==
    /\ source = "cline"
    /\ \/ \E model \in Models : WriteEntry(f, [Blank EXCEPT !.kind = "switch", !.model = model])
       \/ Of(f, "switch") # {} /\ WriteEntry(f, [Blank EXCEPT !.kind = "request"])

ClineFills(f) ==
    /\ source = "cline" /\ Of(f, "request") # {}
    /\ LET i == Max(Of(f, "request")) IN
        /\ logs[f][i].input = 0
        /\ logs' = [logs EXCEPT ![f][i].input = 2, ![f][i].output = 1, ![f][i].cached = 1]
        /\ readTo' = [readTo EXCEPT ![f] = Min({@, i - 1})]
    /\ UNCHANGED <<source, rows>>

\* A session's totals so far, in the order of the models' names: a resumed session's only grow.
CopilotWrites(f) ==
    /\ source = "copilot"
    /\ \/ WriteEntry(f, [Blank EXCEPT !.kind = "start"])
       \/ /\ Of(f, "start") # {}
          /\ \E total \in [Models \cup {Unnamed} -> 0 .. 2], lines \in 1 .. 2 :
                LET order == SetToSeq({m \in Models : total[m] > 0})
                            \o (IF total[Unnamed] > 0 THEN <<Unnamed>> ELSE <<>>)
                    usage == [i \in DOMAIN order |->
                                [model |-> order[i], requests |-> total[order[i]], input |-> total[order[i]]]]
                IN  /\ usage # <<>>
                    /\ \A i \in Of(f, "shutdown") :
                        /\ lines >= logs[f][i].calls
                        /\ \A u \in ToSet(logs[f][i].usage) : total[u.model] >= u.input
                    /\ WriteEntry(f, [Blank EXCEPT !.kind = "shutdown", !.usage = usage, !.calls = lines])

\* An entry takes the next position, or, damaged, repeats one or has no time.
AgyWrites(f) ==
    /\ source = "agy"
    /\ \/ \E at \in 0 .. 2, calls \in 0 .. 1, step \in 1 .. Len(logs[f]) + 1 :
            WriteEntry(f, [Blank EXCEPT !.kind = "model", !.at = at, !.calls = calls, !.step = step])
       \/ WriteEntry(f, [Blank EXCEPT !.kind = "prompt"])

OtherInit ==
    /\ source \in Sources
    /\ logs = [f \in LogFiles |-> <<>>] /\ rows = <<>> /\ readTo = [f \in LogFiles |-> 0]

OtherNext ==
    \E f \in LogFiles :
        GeminiWrites(f) \/ ClineWrites(f) \/ ClineFills(f) \/ CopilotWrites(f) \/ AgyWrites(f) \/ ReadLog(f)

-----------------------------------------------------------------------------
RowsOf(f) == {rows[k] : k \in {key \in DOMAIN rows : key[1] = f}}
Total(rs, Part(_)) == MapThenSumSet(Part, rs)
Lines(f, Test(_)) == {i \in DOMAIN logs[f] : Test(logs[f][i])}

GeminiTold(f) ==
    LET told == Lines(f, LAMBDA l : l.kind = "message" /\ (l.input > 0 \/ l.output > 0))
    IN  /\ Cardinality(RowsOf(f)) = Cardinality(told)
        /\ Total(RowsOf(f), LAMBDA r : r.input + r.cached) = Total(told, LAMBDA i : logs[f][i].input)
        /\ Total(RowsOf(f), LAMBDA r : r.output) = Total(told, LAMBDA i : logs[f][i].output + logs[f][i].thoughts)
        /\ \A r \in RowsOf(f) : r.reasoning <= r.output

ClineTold(f) ==
    LET told == Lines(f, LAMBDA l : l.kind = "request" /\ l.input > 0)
        before(i) == {j \in Of(f, "switch") : j < i}
    IN  /\ Cardinality(RowsOf(f)) = Cardinality(told)
        /\ \A i \in told : \E r \in RowsOf(f) :
            r.at = i /\ r.model = logs[f][Max(before(i))].model /\ r.input = logs[f][i].input

CopilotTold(f) ==
    Of(f, "shutdown") # {} =>
        LET last == logs[f][Max(Of(f, "shutdown"))]
            named == {u \in ToSet(last.usage) : u.model # Unnamed}
        IN  /\ {<<r.model, r.input>> : r \in RowsOf(f)} = {<<u.model, u.input>> : u \in named}
            /\ Total(RowsOf(f), LAMBDA r : r.lines) = IF named = {} THEN 0 ELSE last.calls

AgyTold(f) ==
    LET kept == {i \in Of(f, "model") : logs[f][i].at > 0
                    /\ \A j \in Of(f, "model") : j < i /\ logs[f][j].at > 0 => logs[f][j].step # logs[f][i].step}
        opens == {i \in kept : LET earlier == {j \in kept : j < i}
                               IN  earlier = {} \/ logs[f][Max(earlier)].at # logs[f][i].at}
    IN  /\ Cardinality(RowsOf(f)) = Cardinality(opens)
        /\ Total(RowsOf(f), LAMBDA r : r.calls) = Total(kept, LAMBDA i : logs[f][i].calls)

\* Whatever prefixes were read before, and whatever a read that raced the writer stored,
\* once a log has been read whole its rows are its turns: each once, under one key, with
\* its whole usage (parser/gemini, cline, copilot, agy: the DedupeKey each gives).
LogRead ==
    \A f \in LogFiles :
        readTo[f] = Len(logs[f]) =>
            CASE source = "gemini"  -> GeminiTold(f)
              [] source = "cline"   -> ClineTold(f)
              [] source = "copilot" -> CopilotTold(f)
              [] source = "agy"     -> AgyTold(f)
=============================================================================
