------------------------------- MODULE Inputs -------------------------------
(* The bundle every analysis is given, with the views of the window computed *)
(* once: its totals, its models and its projects; the monthly pace; and the  *)
(* window priced again with its premium part on another model.               *)
(*                                                                           *)
(* A share is a pair <<part, whole>>, <<0, 1>> of an empty whole.            *)
EXTENDS Integers, FiniteSets, FiniteSetsExt, Reports

CONSTANTS
    MonthDays,          \* days a pace is projected onto (30)
    Ceiling             \* the unpriced share a total is acted on below (doctor --strict's)

FracOf(a, b) == IF b = 0 THEN <<0, 1>> ELSE <<a, b>>
Below(a, b) == a[1] * b[2] < b[1] * a[2]

\* A count a source cannot keep adds nothing, even when a row carries one.
RecordedLines(u) == IF RecordsLines(u.tool) THEN u.added ELSE 0

BuildTotals(prices, rows) ==
    LET sum(column) == ColumnSum(column, rows)
        in == sum("in")
        read == sum("read")
    IN  [tokens |-> TokensIn(rows), in |-> in, out |-> sum("out"), read |-> read,
         write |-> sum("write"), lines |-> TotalOf([u \in rows |-> RecordedLines(u)]),
         lineRate |-> LineRate(prices, NewLineCredit(prices, rows), rows, FALSE),
         cost |-> TotalCost(prices, rows), priced |-> rows # {} /\ PricedRows(prices, rows) = rows,
         cacheEfficiency |-> FracOf(read, read + in)]

SumTokens(rows) ==
    [in |-> ColumnSum("in", rows), out |-> ColumnSum("out", rows), write |-> ColumnSum("write", rows),
     read |-> ColumnSum("read", rows), long |-> ColumnSum("long", rows)]

\* A model's price is the same for every row of it, so it is priced once, after summing.
BuildModelStats(prices, rows) ==
    LET credit == NewLineCredit(prices, rows)
        groups == Grouped([u \in rows |-> u.model])
        stat(m, g) == [tokens |-> TokensIn(g), counts |-> SumTokens(g), lines |-> TotalOf([u \in g |-> RecordedLines(u)]),
                       tier |-> ModelTier(prices, m), cost |-> CostTokens(prices, m, SumTokens(g)),
                       priced |-> Knows(prices, m), tokenShare |-> FracOf(TokensIn(g), TokensIn(rows)),
                       lineRate |-> LineRate(prices, credit, g, TRUE)]
    IN  [m \in DOMAIN groups |-> stat(m, groups[m])]

\* A project can mix models with and without a price.
BuildProjectStats(prices, rows) ==
    LET credit == NewLineCredit(prices, rows)
        groups == Grouped([u \in rows |-> u.project])
        stat(g) == [lines |-> TotalOf([u \in g |-> RecordedLines(u)]), cost |-> TotalCost(prices, g),
                    priced |-> PricedRows(prices, g) = g, tokenShare |-> FracOf(TokensIn(g), TokensIn(rows)),
                    lineRate |-> LineRate(prices, credit, g, FALSE)]
    IN  [p \in DOMAIN groups |-> stat(groups[p])]

BuildInput(prices, rows, sessions) ==
    [usage |-> rows, sessions |-> sessions, prices |-> prices, totals |-> BuildTotals(prices, rows),
     byModel |-> BuildModelStats(prices, rows), byProject |-> BuildProjectStats(prices, rows)]

-----------------------------------------------------------------------------
(* The monthly pace. *)

\* Instants a projection divides by: the window's, if it opens after the evidence does, else
\* those of the days the evidence spans; never less than a day.
SpanOf(rows, windowStart, now) ==
    LET first == Min({u.day : u \in rows})
    IN  IF rows = {} THEN 0
        ELSE IF windowStart # 0 /\ windowStart >= first * DayLen THEN Max({now - windowStart, DayLen})
        ELSE DayLen * Max({now \div DayLen - first + 1, 1})
ProjectionSpan(rows, windowStart, now) == IF rows = {} THEN MonthDays * DayLen ELSE SpanOf(rows, windowStart, now)
MonthlyRate(value, span) == <<value * MonthDays * DayLen, span>>

-----------------------------------------------------------------------------
(* The window priced again. *)

Basis(in, windowStart, now) ==
    LET premium == {m \in DOMAIN in.byModel : in.byModel[m].tier = "premium" /\ in.byModel[m].priced}
        span == ProjectionSpan(in.usage, windowStart, now)
        cost == Max({in.totals.cost, 0})
        missing == in.usage \ PricedRows(in.prices, in.usage)
        sum(f) == TotalOf([m \in premium |-> in.byModel[m].counts[f]])
    IN  [days |-> IF in.usage = {} THEN 0 ELSE span, cost |-> cost, priced |-> in.totals.cost # Unpriced,
         monthly |-> IF in.totals.cost = Unpriced THEN <<0, 1>> ELSE MonthlyRate(cost, span),
         cacheReadShare |-> FracOf(in.totals.read, in.totals.tokens),
         models |-> premium, slice |-> [f \in DOMAIN NoTokens |-> sum(f)],
         sliceTokens |-> TotalOf([m \in premium |-> in.byModel[m].tokens]),
         sliceCost |-> TotalOf([m \in premium |-> in.byModel[m].cost]),
         unpriced |-> FracOf(TokensIn(missing), TokensIn(in.usage)),
         missingModels |-> UnpricedModels(in.prices, in.usage)]

Trustworthy(b) == Below(b.unpriced, Ceiling)
PremiumShare(b) == FracOf(b.sliceCost, b.cost)

\* A model of the window the vendor still lists and that is not in the slice, or one the caller
\* names, which may be.
Targets(b, in, against) ==
    {m \in DOMAIN in.byModel : in.byModel[m].priced /\ m \notin b.models /\ ~Retained(in.prices, m)} \cup (against \ {""})

\* The window with only its premium slice moved, and the targets the table has no rate for.
Routes(b, in, against) ==
    LET asked == IF b.priced /\ b.sliceCost > 0 THEN Targets(b, in, against) ELSE {}
        found == {t \in asked : Knows(in.prices, t)}
        route(t) == LET cost == CostTokens(in.prices, t, b.slice)
                    IN  [premium |-> cost, window |-> b.cost - b.sliceCost + cost, delta |-> b.sliceCost - cost,
                         share |-> FracOf(b.sliceCost - cost, b.cost), lastListed |-> Retained(in.prices, t)]
    IN  [found |-> [t \in found |-> route(t)], unpriceable |-> asked \ found]

\* A flat price beside the pace; nothing to compare it with when nothing is priced.
ParsedPlan(p) == p.name # "" /\ p.price > 0
Plans(b, configured, supplied) ==
    [p \in supplied \cup (IF configured > 0 THEN {[name |-> "configured plan", price |-> configured]} ELSE {}) |->
        IF b.priced THEN FracOf(b.monthly[1], b.monthly[2] * p.price) ELSE NoRate]

\* What the arithmetic holds fixed, and what it does not claim.
Assumptions(b, configured) ==
    {"estimate", "tokens held"} \cup (IF configured > 0 THEN {"flat plan"} ELSE {})
      \cup (IF b.cacheReadShare[1] > 0 THEN {"cache mix"} ELSE {})
      \cup (IF b.unpriced[1] > 0 THEN {"a floor"} ELSE {})
      \cup (IF Trustworthy(b) THEN {} ELSE {"not to act on"})
Refusals(hasPlans) == {"no output", "no counterfactual"} \cup (IF hasPlans THEN {"no entitlements"} ELSE {})

RouteAbsence(b, routes) ==
    IF DOMAIN routes.found # {} THEN "none" ELSE IF ~b.priced THEN "nothing priced"
    ELSE IF b.models = {} THEN "no premium model" ELSE IF routes.unpriceable # {} THEN "no rate for the target"
    ELSE "no other model"

Compute(in, windowStart, now, configured, supplied, against) ==
    LET b == Basis(in, windowStart, now)
        plans == Plans(b, configured, {p \in supplied : ParsedPlan(p)})
        routes == Routes(b, in, against)
    IN  [basis |-> b, routes |-> routes, plans |-> plans, absence |-> RouteAbsence(b, routes),
         assumptions |-> Assumptions(b, configured), refusals |-> Refusals(DOMAIN plans # {})]
=============================================================================
