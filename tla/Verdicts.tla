------------------------------ MODULE Verdicts ------------------------------
(* What every verdict carries besides its figures: the confidence it rests   *)
(* on, the inputs it lacks, the two spans a trend compares, and which of a   *)
(* window's findings lead.                                                   *)
(*                                                                           *)
(* An input is BuildInput's record with now, start and history in instants   *)
(* (0: not known), recent in days, plan, skills, agents, turnSizing, misses, *)
(* delegation and trace.                                                     *)
EXTENDS Integers, Sequences, FiniteSets, FiniteSetsExt, Inputs, Traces

CONSTANTS
    SampleFloor,        \* samples below which no coverage rescues a verdict (3)
    NameOrder,          \* name of an analysis -> its place in the order of names
    LinesFloor          \* lines of a week below which no direction is stated (20)

\* No two analyses have one name.
ASSUME VerdictsAssumption ==
    /\ SampleFloor \in Nat \ {0} /\ LinesFloor \in Nat
    /\ IsFiniteSet(DOMAIN NameOrder) /\ \A n \in DOMAIN NameOrder : NameOrder[n] \in Nat
    /\ \A m, n \in DOMAIN NameOrder : NameOrder[m] = NameOrder[n] => m = n

Half == <<1, 2>>
Whole == <<1, 1>>
Nothing == <<0, 1>>
Strong == <<4, 5>>

Clamped(f) == IF f[1] <= 0 THEN Nothing ELSE IF f[1] >= f[2] THEN Whole ELSE f
Least(fs) == CHOOSE f \in fs : \A g \in fs : ~Below(g, f)

\* A verdict: what it says, how pure the window is of what it looks for, how many samples it
\* counted and what share of the window it covers (NoRate: undeclared).
Verdict(read, purity, samples, signal) ==
    [read |-> read, purity |-> purity, samples |-> samples, signal |-> signal, recorded |-> FALSE]
NoData(signal) == Verdict("no-data", Half, 0, signal)
ReadFor(ok) == IF ok THEN "good" ELSE "watch"
Reported(enough) == IF enough THEN "reported" ELSE "no-data"

-----------------------------------------------------------------------------
(* Confidence. *)

\* The share of the rows whose granularity is known that hold one turn each.
TurnGranularityShare(rows) ==
    LET turns == TokensIn({u \in rows : u.granularity = "turn"})
        known == TokensIn({u \in rows : u.granularity \in {"turn", "session"}})
    IN  IF known = 0 \/ turns = known THEN Whole ELSE <<turns, known>>

ActivityTokens(rows) == TokensIn({u \in rows : HasFullActivity(u.tool)})

CoverageShares(in) ==
    LET total == in.totals.tokens
        priced == TotalOf([m \in {n \in DOMAIN in.byModel : in.byModel[n].priced} |-> in.byModel[m].tokens])
    IN  IF total = 0 THEN [activity |-> Nothing, priced |-> Nothing, turn |-> Nothing]
        ELSE [activity |-> <<ActivityTokens(in.usage), total>>, priced |-> <<priced, total>>,
              turn |-> TurnGranularityShare(in.usage)]

\* Undeclared coverage claims the whole window.
SignalShare(c) == IF c.signal = NoRate THEN Whole ELSE Clamped(c.signal)
Axes(c) == {c.activity, c.priced, c.turn, SignalShare(c)}

\* Seeded fault: how much of the window the subject covers does not move the label.
DeriveWindowOnly(c) ==
    LET weakest == Least({c.activity, c.priced, c.turn})
    IN  IF c.samples <= 0 THEN "insufficient" ELSE IF c.samples < SampleFloor THEN "low"
        ELSE IF ~Below(weakest, Strong) THEN "high" ELSE IF ~Below(weakest, Half) THEN "medium" ELSE "low"

Derive(c) ==
    LET weakest == Least(Axes(c))
    IN  CASE c.samples <= 0 \/ SignalShare(c) = Nothing -> "insufficient"
          [] c.samples > 0 /\ SignalShare(c) # Nothing /\ c.samples < SampleFloor -> "low"
          [] c.samples >= SampleFloor /\ SignalShare(c) # Nothing ->
               IF ~Below(weakest, Strong) THEN "high" ELSE IF ~Below(weakest, Half) THEN "medium" ELSE "low"

\* Which of the ways to rest on nothing a verdict is of.
InsufficientReason(c, unit) ==
    IF SignalShare(c) = Nothing THEN IF c.recorded THEN "stale parse" ELSE "nothing can answer"
    ELSE IF unit # "" THEN "counted none" ELSE "no stated basis"

\* The axis that holds a label back, the first of the weakest; "" if none is below the floor.
WeakestAxis(c) ==
    LET weakest == Least(Axes(c))
        is(f) == ~Below(weakest, f)
    IN  IF ~Below(weakest, Strong) THEN "" ELSE IF is(c.activity) THEN "activity" ELSE IF is(c.priced) THEN "priced"
        ELSE IF is(c.turn) THEN "turn-level" ELSE "signal"

\* What an input carries of what an analysis may declare that it reads.
Capabilities == {"usage", "sessions", "trace", "attribution", "turn-sizing", "cache-misses", "prices"}
Has(in, cap) ==
    CASE cap = "usage" -> in.usage # {}
      [] cap = "sessions" -> in.sessions # {}
      [] cap = "trace" -> DOMAIN in.trace.sequences # {}
      [] cap = "attribution" -> in.skills # {} \/ in.agents # {}
      [] cap = "turn-sizing" -> in.turnSizing # {}
      [] cap = "cache-misses" -> in.misses # {}
      [] cap = "prices" -> DOMAIN in.prices # {}
Missing(needs, in) == {cap \in needs : ~Has(in, cap)}

\* The window's part of the confidence is the same for every verdict over it.
Stamp(v, in) ==
    LET shares == CoverageShares(in)
    IN  [samples |-> v.samples, signal |-> v.signal, activity |-> shares.activity, priced |-> shares.priced,
         turn |-> shares.turn, recorded |-> v.recorded]

\* A verdict with its layer, the inputs it lacks and its confidence.
Evaluate(name, v, needs, in) ==
    LET c == Stamp(v, in)
    IN  [name |-> name, read |-> v.read, purity |-> v.purity, withheld |-> Missing(needs, in),
         confidence |-> c, label |-> Derive(c)]

\* A sequence's share of the window, and the days the sequences reach back over.
OverScope(in, view) ==
    LET share == ExcludedStepShare(view)
        days == CoveredDays(in.start, in.now, view.oldest, DayLen)
    IN  <<(share[2] - share[1]) * days[1], Max({share[2], 1}) * days[2]>>

-----------------------------------------------------------------------------
(* Which findings lead. *)

Actionable(r) == r.read = "watch" /\ r.label \in {"high", "medium"}
WeakestShare(r) == LET c == r.confidence IN IF WeakestAxis(c) = "" THEN Whole ELSE Least(Axes(c))

\* By the evidence, then by what share of the window it covers, its thinnest axis, and the name.
MoreWorthAttention(a, b) ==
    LET sa == SignalShare(a.confidence)
        sb == SignalShare(b.confidence)
        same(f, g) == ~Below(f, g) /\ ~Below(g, f)
    IN  \/ a.label = "high" /\ b.label = "medium"
        \/ /\ a.label = b.label
           /\ \/ Below(sb, sa)
              \/ same(sa, sb) /\ Below(WeakestShare(b), WeakestShare(a))
              \/ same(sa, sb) /\ same(WeakestShare(a), WeakestShare(b)) /\ NameOrder[a.name] < NameOrder[b.name]

RankedMax == 3
PlaceOf(results, r) == 1 + Cardinality({o \in results : Actionable(o) /\ MoreWorthAttention(o, r)})
Rank(results) == {r \in results : Actionable(r) /\ PlaceOf(results, r) <= RankedMax}

\* A lead is the binary's to give: what a plugin's document says of one is dropped.
MarkLead(results) == [r \in results |-> IF r \in Rank(results) THEN PlaceOf(results, r) ELSE 0]

-----------------------------------------------------------------------------
(* Trends. *)

\* Whole days only: the day under way is in neither span.
TrendSpans(in) ==
    LET days == Max({in.recent, 1})
        today == in.now \div DayLen
    IN  [recent |-> (today - days)..(today - 1), prior |-> (today - 2 * days)..(today - days - 1),
         from |-> today - 2 * days]

HorizonCovers(in) == in.history \div DayLen <= TrendSpans(in).from
Horizon(in) == IF in.history = 0 THEN "unknown" ELSE IF HorizonCovers(in) THEN "covered" ELSE "not covered"

\* Seeded fault: a source counts from the week it is first read in.
SourcesInAny(in, signal) ==
    LET spans == TrendSpans(in)
        answering == UsageAnswering(in.usage, signal)
    IN  [counted |-> {u.tool : u \in {v \in answering : v.day \in spans.recent \cup spans.prior}}, excluded |-> {}]

\* A source in these weeks is counted if it had a row by the day the earlier one opens.
SourcesIn(in, signal) ==
    LET spans == TrendSpans(in)
        answering == UsageAnswering(in.usage, signal)
        running == {u.tool : u \in {v \in answering : v.day <= spans.from}}
        inSpans == {u.tool : u \in {v \in answering : v.day \in spans.recent \cup spans.prior}}
    IN  [counted |-> inSpans \cap running, excluded |-> inSpans \ running]

\* What a trend of a signal sums.
Quantity(signal, u) == IF signal = "tokens_total" THEN RowTokens(u) ELSE u.added

\* Why no direction can be stated, before anything is summed and after.
TrendGap(in, sources) ==
    IF in.start # 0 /\ in.start > TrendSpans(in).from * DayLen THEN "window"
    ELSE IF Horizon(in) = "not covered" THEN "history"
    ELSE IF sources.counted = {} THEN "no source" ELSE "none"
SumGap(now, was, floor) == IF was = 0 THEN "zero base" ELSE IF Max({now, was}) < floor THEN "thin" ELSE "read"

\* What two weeks add up to, of the sources counted.
TrendSums(rows, spans, sources, signal, floor) ==
    LET over(days, tools) == TotalOf([u \in {v \in rows : v.day \in days /\ v.tool \in tools} |-> Quantity(signal, u)])
        now == over(spans.recent, sources.counted)
        was == over(spans.prior, sources.counted)
    IN  [gap |-> SumGap(now, was, floor), now |-> now, was |-> was,
         left |-> over(spans.recent \cup spans.prior, sources.excluded), excluded |-> Cardinality(sources.excluded)]
TrendOf(in, spans, sources, signal, floor) ==
    LET gap == TrendGap(in, sources)
    IN  IF gap = "none" THEN TrendSums(UsageAnswering(in.usage, signal), spans, sources, signal, floor)
        ELSE [gap |-> gap, now |-> 0, was |-> 0, left |-> 0,
              excluded |-> IF gap = "no source" THEN Cardinality(sources.excluded) ELSE 0]
ReadTrend(in, signal, floor) == TrendOf(in, TrendSpans(in), SourcesIn(in, signal), signal, floor)

Readable(t) == t.gap = "read"
Change(t) == IF Readable(t) THEN <<t.now - t.was, t.was>> ELSE Nothing
LeftShare(t) == FracOf(t.left, t.left + t.now + t.was)
TrendPurity(t) == IF Readable(t) THEN Clamped(<<t.now, 2 * t.was>>) ELSE Half

\* What stands beside a trend: the sums it read, and the sources it left out.
TrendNote(t) == [sums |-> t.gap \in {"read", "zero base", "thin"}, leftOut |-> t.excluded > 0 /\ t.gap # "no source"]
=============================================================================
