------------------------------- MODULE Traces -------------------------------
(* The step sequences of a window, the scope a detector reads of them and   *)
(* what asking for that scope leaves out, and the two detectors: edits that *)
(* return to a file after a command ran, and what follows a failure.        *)
(*                                                                          *)
(* A window's sequences are a function of their positions, and what is kept *)
(* of them its restriction to some.                                         *)
(* A sequence is [session, member, timeline, entry, tool, project, steps],  *)
(* a step [kind, ref, outcome, tokens, at]: ref 0 names no file, at 0 is an *)
(* unstamped step.  Rates are integers over RateScale, which the number of  *)
(* edits of every sequence checked divides.                                 *)
EXTENDS Integers, Sequences, FiniteSets, SequencesExt, FiniteSetsExt, Functions, Depth, Totals

CONSTANTS
    RateScale,          \* what a rate of 1 is written as
    MinEdits,           \* edits below which a sequence carries no rate (10)
    MinSequences,       \* judged sequences below which a window has no spread (7)
    RecoveryWindow,     \* steps after a failure that are its aftermath (10)
    RecoveryMinTurns,   \* turns below which the aftermath has no ratio worth reporting (30)
    OpenTail            \* how close to the newest step a sequence is still running (an hour)

SumOf(f(_), s) == TotalOf([i \in DOMAIN s |-> f(s[i])])
Count(s) == Cardinality(DOMAIN s)
Stamps(seqs) == {s \in UNION {{q.steps[i].at : i \in DOMAIN q.steps} : q \in Range(seqs)} : s # 0}
StepsOf(seqs) == TotalOf([q \in DOMAIN seqs |-> Len(seqs[q].steps)])

\* Every sequence of a window, with the horizon its stamped steps span (0: none is stamped).
NewSet(seqs) ==
    [sequences |-> seqs, steps |-> StepsOf(seqs),
     oldest |-> IF Stamps(seqs) = {} THEN 0 ELSE Min(Stamps(seqs)),
     newest |-> IF Stamps(seqs) = {} THEN 0 ELSE Max(Stamps(seqs))]

SessionOf(q) == <<q.session, q.member>>

\* A window narrowed to some sessions keeps its horizon: "now" is the store's, not the subset's.
ForSessions(set, sessions) ==
    LET kept == RestrictValues(set.sequences, LAMBDA q : SessionOf(q) \in sessions)
    IN  IF Count(kept) = Count(set.sequences) THEN set
        ELSE [NewSet(kept) EXCEPT !.oldest = set.oldest, !.newest = set.newest]

\* Who ran it: a sub-agent's run is one wherever it was launched from, and an entrypoint this
\* build was never shown is not promoted to a person's session.
ScopeOf(q) ==
    IF q.timeline # "" THEN "sub-agent"
    ELSE CASE q.entry = "cli" -> "interactive"
           [] q.entry \in {"sdk-py", "sdk-cli", "exec"} -> "programmatic"
           [] OTHER -> "unstated"

ScopeView(set, scope) ==
    LET kept == RestrictValues(set.sequences, LAMBDA q : ScopeOf(q) = scope)
    IN  [sequences |-> kept, steps |-> StepsOf(kept), oldest |-> NewSet(kept).oldest,
         excluded |-> Count(set.sequences) - Count(kept), excludedSteps |-> set.steps - StepsOf(kept),
         silent |-> 0, silentSteps |-> 0]

\* The sequences whose source never states what is counted leave the view, and are counted as
\* left out of it.
Answering(view, signal) ==
    LET kept == RestrictValues(view.sequences, LAMBDA q : Answers(q.tool, signal))
        dropped == Count(view.sequences) - Count(kept)
        lost == StepsOf(view.sequences) - StepsOf(kept)
    IN  [view EXCEPT !.sequences = kept, !.steps = @ - lost,
                     !.excluded = @ + dropped, !.excludedSteps = @ + lost,
                     !.silent = @ + dropped, !.silentSteps = @ + lost]

ExcludedStepShare(view) == <<view.excludedSteps, view.excludedSteps + view.steps>>

\* The whole days of the window the sequences reach back over, of its days.
CoveredDays(windowStart, now, oldest, day) ==
    LET days == (now - windowStart) \div day
        missing == IF oldest > windowStart THEN (oldest - windowStart) \div day ELSE 0
    IN  IF windowStart = 0 \/ oldest = 0 \/ days <= 0 THEN <<1, 1>>
        ELSE <<Max({days - missing, 0}), days>>

-----------------------------------------------------------------------------
(* Edits that return to a file. *)

\* One pass over the steps: a file's edit repeats an earlier one if more commands ran by now.
CountRepeatEdits(q) ==
    FoldLeft(LAMBDA acc, s :
                IF s.kind = "command" THEN [acc EXCEPT !.commands = @ + 1]
                ELSE IF s.kind # "edit" THEN acc
                ELSE IF s.ref = 0 THEN [acc EXCEPT !.untargeted = @ + 1]
                ELSE [acc EXCEPT !.edits = @ + 1,
                                 !.repeats = @ + (IF s.ref \in DOMAIN acc.at /\ acc.commands > acc.at[s.ref]
                                                  THEN 1 ELSE 0),
                                 !.at = [f \in DOMAIN acc.at \cup {s.ref} |->
                                            IF f = s.ref THEN acc.commands ELSE acc.at[f]]],
             [project |-> q.project, edits |-> 0, untargeted |-> 0, repeats |-> 0, commands |-> 0, at |-> <<>>],
             q.steps)

Rate(r) == IF r.edits = 0 THEN 0 ELSE (RateScale * r.repeats) \div r.edits

\* The k-th smallest of some values; twice their median; what they deviate from it by, doubled.
Kth(s, k) ==
    CHOOSE v \in Range(s) : /\ Cardinality({i \in DOMAIN s : s[i] < v}) < k
                            /\ Cardinality({i \in DOMAIN s : s[i] <= v}) >= k
Median2(s) ==
    LET n == Cardinality(DOMAIN s)
    IN  IF n = 0 THEN 0 ELSE Kth(s, (n + 1) \div 2) + Kth(s, n \div 2 + 1)
DeviationsFrom(s, median2) == [i \in DOMAIN s |-> LET d == 2 * s[i] - median2 IN IF d < 0 THEN -d ELSE d]

\* Three and a half standard deviations, in 40000ths, estimated from the median deviation or, if
\* that is zero, the mean one; -1 if no value deviates.
Spread(devs2) ==
    LET mad4 == Median2(devs2)
        sum2 == FoldFunction(LAMBDA d, n : d + n, 0, devs2)
    IN  IF mad4 > 0 THEN 51890 * mad4
        ELSE IF sum2 > 0 THEN (87732 * sum2) \div Cardinality(DOMAIN devs2) ELSE -1

\* What a value has to exceed to stand out; -1 if every value is the same.
OutlierFloor(s) ==
    LET spread == Spread(DeviationsFrom(s, Median2(s)))
    IN  IF spread < 0 THEN -1 ELSE 20000 * Median2(s) + spread

\* The first edit of a file is never a repeat.
ReachableRate(judged) == Max({(RateScale * (r.edits - 1)) \div r.edits : r \in Range(judged)} \cup {0})

\* A window's profile.  A floor nothing could cross finds nothing, and is not a clean window.
RepeatFloor(judged) ==
    IF Count(judged) < MinSequences THEN -1 ELSE OutlierFloor([i \in DOMAIN judged |-> Rate(judged[i])])
RepeatProfile(all, judged, floor) ==
    LET spread == floor >= 0 /\ floor < 40000 * ReachableRate(judged)
        thin == RestrictValues(all, LAMBDA r : r.edits < MinEdits /\ r.edits + r.untargeted > 0)
    IN  [judged |-> judged, thin |-> Count(thin),
         edits |-> SumOf(LAMBDA r : r.edits, all), repeats |-> SumOf(LAMBDA r : r.repeats, all),
         untargeted |-> SumOf(LAMBDA r : r.untargeted, all),
         spread |-> spread, unreachable |-> floor >= 0 /\ ~spread, floor |-> floor,
         outliers |-> IF spread THEN RestrictValues(judged, LAMBDA r : 40000 * Rate(r) > floor) ELSE <<>>]
BuildRepeats(view) ==
    LET all == [i \in DOMAIN view.sequences |-> CountRepeatEdits(view.sequences[i])]
        judged == RestrictValues(all, LAMBDA r : r.edits >= MinEdits)
    IN  RepeatProfile(all, judged, RepeatFloor(judged))

\* The projects a rate is shown of, with it; those of the highest rate first, then by name.
ByProject(profile) ==
    LET of(name) == RestrictValues(profile.judged, LAMBDA r : r.project = name)
        row(name) == [edits |-> SumOf(LAMBDA r : r.edits, of(name)), repeats |-> SumOf(LAMBDA r : r.repeats, of(name))]
        names == {r.project : r \in Range(profile.judged)} \ {""}
    IN  [name \in {n \in names : row(n).edits >= MinEdits} |-> row(name)]

\* What the panel says of its window.
EditLoopsRead(view, p) ==
    IF view.steps = 0 \/ p.edits = 0 \/ ~p.spread THEN "no-data"
    ELSE IF DOMAIN p.outliers = {} THEN "good" ELSE "watch"

\* The share of the editing outside the sequences that stand out.
EditLoopsPurity(p) ==
    IF ~p.spread THEN <<1, 2>> ELSE <<p.edits - SumOf(LAMBDA r : r.edits, p.outliers), p.edits>>

-----------------------------------------------------------------------------
(* What follows a failure. *)

FailedOutcome(outcome) == outcome \in {"error", "denied"}

\* One pass over a sequence: since counts the steps since the last failure or loss of context.
\* The turn that answers a failure is read before the step counts as one itself.
FoldSequence(q) ==
    FoldLeft(LAMBDA acc, s :
                LET turn == s.kind = "assistant"
                    after == turn /\ acc.since <= RecoveryWindow
                    lost == s.kind = "compaction"
                    failed == ~lost /\ FailedOutcome(s.outcome)
                IN  [steps |-> acc.steps + 1,
                     stepsAfter |-> acc.stepsAfter + (IF acc.compactions > 0 THEN 1 ELSE 0),
                     turns |-> acc.turns + (IF turn THEN 1 ELSE 0),
                     tokens |-> acc.tokens + (IF turn THEN s.tokens ELSE 0),
                     afterTurns |-> acc.afterTurns + (IF after THEN 1 ELSE 0),
                     afterTokens |-> acc.afterTokens + (IF after THEN s.tokens ELSE 0),
                     failures |-> acc.failures + (IF failed THEN 1 ELSE 0),
                     compactions |-> acc.compactions + (IF lost THEN 1 ELSE 0),
                     since |-> IF lost \/ failed THEN 1 ELSE acc.since + 1],
             [steps |-> 0, stepsAfter |-> 0, turns |-> 0, tokens |-> 0, afterTurns |-> 0, afterTokens |-> 0,
              failures |-> 0, compactions |-> 0, since |-> RecoveryWindow + 1],
             q.steps)

\* A sequence near the newest step has not ended; one that has may have ended on a failure.
Ending(q, newest) ==
    IF q.steps = <<>> THEN "none"
    ELSE IF Last(q.steps).at >= newest - OpenTail THEN "open"
    ELSE IF FailedOutcome(Last(q.steps).outcome) THEN "abandoned" ELSE "settled"

BuildAftermath(view, newest) ==
    LET folds == [i \in DOMAIN view.sequences |-> FoldSequence(view.sequences[i])]
        total(f(_)) == SumOf(f, folds)
        ended(how) == RestrictValues(view.sequences, LAMBDA q : Ending(q, newest) = how)
    IN  [sequences |-> Count(view.sequences), open |-> Count(ended("open")), abandoned |-> ended("abandoned"),
         steps |-> total(LAMBDA f : f.steps), stepsAfter |-> total(LAMBDA f : f.stepsAfter),
         turns |-> total(LAMBDA f : f.turns), tokens |-> total(LAMBDA f : f.tokens),
         afterTurns |-> total(LAMBDA f : f.afterTurns), afterTokens |-> total(LAMBDA f : f.afterTokens),
         failures |-> total(LAMBDA f : f.failures), compactions |-> total(LAMBDA f : f.compactions)]

\* Seeded fault: the baseline holds the aftermath it is compared with.
CostRatioOfAll(a) ==
    IF a.turns > 0 /\ a.tokens > 0 /\ a.afterTurns > 0
    THEN <<a.afterTokens * a.turns, a.tokens * a.afterTurns>> ELSE <<>>

\* The baseline is the window without the aftermath; a ratio needs turns and tokens on both sides.
CostRatio(a) ==
    LET turns == a.turns - a.afterTurns
        tokens == a.tokens - a.afterTokens
    IN  IF turns > 0 /\ tokens > 0 /\ a.afterTurns > 0
        THEN <<a.afterTokens * turns, tokens * a.afterTurns>> ELSE <<>>

RecoveryView(set) == Answering(ScopeView(set, "interactive"), "step_outcome")

RecoveryRead(view, a) ==
    IF view.steps > 0 /\ CostRatio(a) # <<>> /\ a.afterTurns >= RecoveryMinTurns THEN "reported" ELSE "no-data"
=============================================================================
