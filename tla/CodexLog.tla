------------------------------- MODULE CodexLog -------------------------------
(* A Codex rollout as it is written, and the two readings of one pass over   *)
(* it: a record per token_count that carries new tokens, and the sequence of *)
(* steps behind them.  The counters are cumulative, usage is stated per turn *)
(* and after it, so activity waits in `pending` for the count that closes    *)
(* its turn and the turn's own step is provisional until then.  As in        *)
(* ClaudeLog the fold advances with the file.                                *)
EXTENDS Counters, FiniteSets

CONSTANTS
    Calls, Paths,
    Deltas,         \* [input, cached, output]: what a turn adds to the counters
    MaxItems,       \* bound on the rollout
    IdleMidTurn     \* whether a count without new tokens may fall inside a turn

VARIABLES
    rollout,        \* the lines of the file
    names,          \* whether the build that writes it names its patch calls
    scan            \* parseState after the last of them

codexVars == <<rollout, names, scan>>

\* pending activity, of a turn that is not closed.
NoActivity == [calls |-> 0, writes |-> 0, patches |-> 0, edits |-> 0, errors |-> 0, added |-> 0,
               removed |-> 0, rework |-> 0, compactions |-> 0]

NewScan ==
    [prev |-> [input |-> 0, cached |-> 0, output |-> 0], turn |-> 0, out |-> <<>>,
     pending |-> NoActivity, added |-> [p \in Paths |-> 0], steps |-> <<>>, turnAt |-> 0,
     dropped |-> {}, named |-> FALSE, patches |-> 0, refs |-> <<>>]

Step(key, kind) == [key |-> key, kind |-> kind, tokens |-> 0, outcome |-> "", ref |-> 0]

Plus(a, b) == [k \in DOMAIN a |-> a[k] + b[k]]

\* A build that names its patch calls has counted them, so the events' writes are dropped.
Flushed(a) ==
    LET patches == IF a.writes > 0 THEN 0 ELSE a.patches
    IN  [a EXCEPT !.calls = @ + a.writes + patches, !.writes = @ + patches, !.patches = 0]

OpenTurn(s) ==
    IF s.turnAt > 0 THEN s
    ELSE [s EXCEPT !.steps = Append(@, Step(<<"turn", s.turn>>, "assistant")), !.turnAt = Len(s.steps) + 1]

\* A turn whose count produced no record has no step either.
CloseTurn(s, tokens, produced) ==
    IF s.turnAt = 0 THEN s
    ELSE IF produced THEN [s EXCEPT !.named = FALSE, !.steps[s.turnAt].tokens = tokens, !.turnAt = 0]
    ELSE [s EXCEPT !.named = FALSE, !.dropped = @ \cup {s.turnAt}, !.turnAt = 0]

\* A call id seen before falls back to the position.
ToolStep(s, l) ==
    LET known == \E i \in DOMAIN s.steps : s.steps[i].key = <<"call", l.call>>
        key == IF known THEN <<"at", Len(s.steps)>> ELSE <<"call", l.call>>
    IN  [s EXCEPT !.steps = Append(@, [Step(key, IF l.write THEN "edit" ELSE "run")
                                         EXCEPT !.outcome = IF l.failed THEN "error" ELSE ""]),
                  !.named = @ \/ l.write]

ResponseItem(s0, l) ==
    LET s == OpenTurn(s0) IN
    CASE l.kind = "reasoning" -> s
      [] OTHER -> LET t == ToolStep(s, l) IN
            [t EXCEPT !.pending.calls = @ + (IF l.write THEN 0 ELSE 1),
                      !.pending.writes = @ + (IF l.write THEN 1 ELSE 0),
                      !.pending.errors = @ + (IF l.failed THEN 1 ELSE 0)]

\* The integer of a path, in the order paths are first seen.
WithRef(s, p) == IF p \in ToSet(s.refs) THEN s ELSE [s EXCEPT !.refs = Append(@, p)]

\* One step per file of a patch, unless this turn named its write.
EditSteps(s0, l) ==
    LET s == [s0 EXCEPT !.patches = @ + 1]
        paths == SetToSeq(l.paths)
        One(t, i) == LET u == WithRef(t, paths[i]) IN
            [u EXCEPT !.steps = Append(@,
                [Step(<<"patch", s.patches, i>>, "edit")
                    EXCEPT !.ref = CHOOSE r \in DOMAIN u.refs : u.refs[r] = paths[i],
                           !.outcome = IF l.failed THEN "error" ELSE "ok"])]
    IN  IF s.named THEN s ELSE FoldLeftDomain(LAMBDA t, i : One(t, i), s, paths)

\* Every file of an applied patch adds two lines and removes one, which is rework if this
\* rollout added lines to the file before.
PatchApplyEnd(s0, l) ==
    LET s == [EditSteps(s0, l) EXCEPT !.pending.patches = @ + 1]
        n == Cardinality(l.paths)
        undone == {p \in l.paths : Rework(s.added[p], 1) > 0}
    IN  IF l.failed THEN [s EXCEPT !.pending.errors = @ + 1]
        ELSE [s EXCEPT !.pending = Plus(@, [NoActivity EXCEPT !.edits = 1, !.added = 2 * n, !.removed = n,
                                                              !.rework = Cardinality(undone)]),
                       !.added = [p \in Paths |-> @[p] + (IF p \in l.paths THEN 2 ELSE 0)
                                                      - (IF p \in undone THEN 1 ELSE 0)]]

Compacted(s) ==
    [s EXCEPT !.pending.compactions = @ + 1,
              !.steps = Append(@, Step(<<"compaction", Cardinality({i \in DOMAIN s.steps :
                                          s.steps[i].kind = "compaction"}) + 1>>, "compaction"))]

\* The cached part is clamped to the input it is a part of.
TokenCountRecord(s, l) ==
    LET in == NonNeg(l.total.input - s.prev.input)
        read == Subset(l.total.cached - s.prev.cached, in)
    IN  [key |-> s.turn, input |-> in - read, cached |-> read, output |-> NonNeg(l.total.output - s.prev.output),
         did |-> NoActivity]

\* A count with no total is a rate limit; one with no new tokens ends the turn without a record.
TokenCount(s0, l) ==
    LET produced == \E c \in DOMAIN l.total : l.total[c] > s0.prev[c]
        rec == TokenCountRecord(s0, l)
        s == CloseTurn([s0 EXCEPT !.prev = l.total], SumNonNeg(<<rec.input, rec.cached, rec.output>>), produced)
    IN  IF ~produced THEN s
        ELSE [s EXCEPT !.out = Append(@, [rec EXCEPT !.did = Flushed(s.pending)]),
                       !.pending = NoActivity, !.turn = @ + 1]

ApplyItem(s, l) ==
    CASE l.kind \in {"reasoning", "call"} -> ResponseItem(s, l)
      [] l.kind = "patch"                 -> PatchApplyEnd(s, l)
      [] l.kind = "compacted"             -> Compacted(s)
      [] l.kind = "count"                 -> TokenCount(s, l)
      [] OTHER                            -> s

\* What a read of the file as it is returns: trailing activity goes to the last record,
\* a turn still open is dropped, and what is left is numbered in order.
Records(s) ==
    IF s.out = <<>> THEN s.out ELSE [s.out EXCEPT ![Len(s.out)].did = Plus(@, Flushed(s.pending))]

Steps(s) ==
    LET gone == s.dropped \cup {s.turnAt}
    IN  FoldLeftDomain(LAMBDA kept, i : IF i \in gone THEN kept ELSE Append(kept, s.steps[i]), <<>>, s.steps)

(* The writer *)

Item == [kind |-> "", call |-> 0, write |-> FALSE, failed |-> FALSE, paths |-> {}, total |-> scan.prev,
         moved |-> FALSE]

Roll(l) ==
    /\ Len(rollout) < MaxItems
    /\ rollout' = Append(rollout, l) /\ scan' = ApplyItem(scan, l)
    /\ UNCHANGED names

\* The lines since the counters last moved: the turn in progress.
Turn ==
    LET counts == {i \in DOMAIN rollout : rollout[i].kind = "count" /\ rollout[i].moved}
    IN  SubSeq(rollout, Max(counts \cup {0}) + 1, Len(rollout))
InTurn(kind) == {i \in DOMAIN Turn : Turn[i].kind = kind}
Awaited == Cardinality({i \in InTurn("call") : Turn[i].write /\ ~Turn[i].failed}) - Cardinality(InTurn("patch"))
Spoke == InTurn("reasoning") \cup InTurn("call") # {}

Reason == Roll([Item EXCEPT !.kind = "reasoning"])

\* Call ids are the vendor's to keep unique, and nothing makes it.
Call ==
    \E call \in Calls, write, failed \in BOOLEAN :
        /\ write => names
        /\ Roll([Item EXCEPT !.kind = "call", !.call = call, !.write = write, !.failed = failed])

\* A patch is reported in the turn that asked for it, after the call if the build names one.
Patch ==
    /\ IF names THEN Awaited > 0 ELSE Spoke
    /\ \E paths \in SUBSET Paths \ {{}}, failed \in BOOLEAN :
            Roll([Item EXCEPT !.kind = "patch", !.paths = paths, !.failed = failed])

Compact == Spoke /\ Roll([Item EXCEPT !.kind = "compacted"])

Count ==
    /\ Spoke /\ (names => Awaited = 0)
    /\ \E d \in Deltas : Roll([Item EXCEPT !.kind = "count", !.total = Plus(@, d), !.moved = TRUE])

\* The same totals again, when no turn is open or, if the environment allows, inside one.
IdleCount == (Spoke => IdleMidTurn) /\ Roll([Item EXCEPT !.kind = "count"])

RateLimit == Roll([Item EXCEPT !.kind = "limit"])

CodexInit == rollout = <<>> /\ names \in BOOLEAN /\ scan = NewScan

CodexNext == Reason \/ Call \/ Patch \/ Compact \/ Count \/ IdleCount \/ RateLimit

-----------------------------------------------------------------------------
SumSteps(steps, kind) == {i \in DOMAIN steps : steps[i].kind = kind}
Did(records, k) == FoldSeq(LAMBDA r, n : n + r.did[k], 0, records)
Written(Test(_)) == Cardinality({i \in DOMAIN rollout : Test(rollout[i])})

\* The two readings of one rollout agree: one assistant step per priced turn, with its
\* tokens, and an edit step for every write a record counts (parser/codex/steps.go:
\* closeTurn, edits, stamp).
ReadingsAgree ==
    LET records == Records(scan)
        turns == SumSteps(Steps(scan), "assistant")
    IN  /\ Cardinality(turns) = Len(records)
        /\ \A i \in DOMAIN records : \E t \in turns :
            LET r == records[i] IN
            /\ Steps(scan)[t].key = <<"turn", r.key>>
            /\ Steps(scan)[t].tokens = r.input + r.cached + r.output

\* Nothing of the file is lost or counted twice: the records' tokens are the counters, a
\* build's writes are counted once whether or not it names them, and activity after the
\* last count goes to the last record; keys tell the steps apart (parser/codex/codex.go: ParseAll).
CodexRead ==
    LET records == Records(scan)
        steps == Steps(scan)
    IN  /\ IdleMidTurn \/ ReadingsAgree
        /\ FoldSeq(LAMBDA r, n : n + r.input + r.cached, 0, records) = scan.prev.input
        /\ \A i \in DOMAIN records : records[i].did.rework <= records[i].did.removed
        /\ \A i, j \in DOMAIN steps : steps[i].key = steps[j].key => i = j
        /\ records # <<>> =>
            /\ Did(records, "writes") = IF names THEN Written(LAMBDA l : l.kind = "call" /\ l.write)
                                        ELSE Written(LAMBDA l : l.kind = "patch")
            /\ Did(records, "calls") = Written(LAMBDA l : l.kind = "call")
                                       + (IF names THEN 0 ELSE Did(records, "writes"))
            /\ Did(records, "compactions") = Cardinality(SumSteps(steps, "compaction"))
            /\ Did(records, "errors") = Written(LAMBDA l : l.failed)
            /\ names => Cardinality(SumSteps(steps, "edit")) = Did(records, "writes")

\* Reading a file again after it has grown keeps every record's key and tokens and every
\* step's key: what the store's restatement rests on.
CodexGrows ==
    [][/\ \A i \in DOMAIN Records(scan) :
            LET r == Records(scan)[i]
                q == Records(scan')[i]
            IN  q.key = r.key /\ q.input = r.input /\ q.cached = r.cached /\ q.output = r.output
       /\ {s.key : s \in ToSet(Steps(scan))} \subseteq {s.key : s \in ToSet(Steps(scan'))}]_scan
=============================================================================
