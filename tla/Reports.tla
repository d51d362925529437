------------------------------- MODULE Reports -------------------------------
(* What the reports make of a window's usage rows: the table they print, the *)
(* part of it no price is known for, the lines a cost is divided by and what *)
(* is left out of that ratio, and the figures of the status page.            *)
(*                                                                           *)
(* A usage row is [day, tool, model, project, entrypoint, member, granularity*)
(* task, outcome, difficulty, in, out, read, write, long, reasoning, added,  *)
(* removed, rework, edits, calls, rejected, ...]; the store groups by the    *)
(* names, so a window's rows are a set.  A session is [id, tool, day, turns, *)
(* minutes, edits, calls, compactions, out, peak, ...].                      *)
EXTENDS Integers, FiniteSets, FiniteSetsExt, Functions, Depth, Pricing, Totals

CONSTANT DayLen         \* instants of a day

ASSUME DayAssumption == DayLen \in Nat \ {0}

Unlabeled == "unlabeled"
Mixed == "mixed"
NoRate == <<>>

LabelDims == {"task", "outcome", "difficulty"}

\* The sum of one column over some rows.
ColumnSum(column, rows) == TotalOf([u \in rows |-> u[column]])
Grouped(key) == [k \in Range(key) |-> {u \in DOMAIN key : key[u] = k}]

RowTokens(u) == u.in + u.out + u.read + u.write
TokensOf(u) == [in |-> u.in, out |-> u.out, write |-> u.write, read |-> u.read, long |-> u.long]
CostOf(prices, u) == CostTokens(prices, u.model, TokensOf(u))
IsPriced(prices, u) == CostOf(prices, u) # Unpriced
PricedRows(prices, rows) == {u \in rows : IsPriced(prices, u)}

\* A figure every row adds to: absent when no row is priced.
TotalCost(prices, rows) ==
    LET priced == PricedRows(prices, rows)
    IN  IF priced = {} THEN Unpriced ELSE TotalOf([u \in priced |-> CostOf(prices, u)])

Tokened(u) == Answers(u.tool, "tokens_total")
UsageAnswering(rows, signal) == {u \in rows : Answers(u.tool, signal)}
SessionsAnswering(sessions, signal) == {s \in sessions : Answers(s.tool, signal)}
TokensIn(rows) == TotalOf([u \in rows |-> RowTokens(u)])

-----------------------------------------------------------------------------
(* The report table. *)

DimValue(u, by) == IF by \in LabelDims /\ u[by] = "" THEN Unlabeled ELSE u[by]

FoldGranularity(rows) ==
    LET stated == {u.granularity : u \in rows} \ {""}
    IN  CASE stated = {} -> ""
          [] Cardinality(stated) = 1 -> CHOOSE g \in stated : TRUE
          [] OTHER -> Mixed

\* One row of the table.  What no source in it answers is absent: the long tier, the cache's
\* efficiency, the tokens themselves.
Accumulate(prices, rows) ==
    LET sum(column) == ColumnSum(column, rows)
        tiered == UsageAnswering(rows, "cache_write_1h")
        in == sum("in")
        read == sum("read")
    IN  [in |-> in, out |-> sum("out"), read |-> read, write |-> sum("write"),
         long |-> IF tiered = {} THEN Absent ELSE ColumnSum("long", tiered),
         tiered |-> ColumnSum("write", tiered),
         reasoning |-> sum("reasoning"),
         cost |-> TotalCost(prices, rows),
         hasUnpriced |-> PricedRows(prices, rows) # rows,
         unpricedTokens |-> TokensIn(rows \ PricedRows(prices, rows)),
         tokened |-> \E u \in rows : Tokened(u),
         granularity |-> FoldGranularity(rows),
         cacheEff |-> IF in + read = 0 THEN NoRate ELSE <<read, in + read>>]

\* One row per group; ungrouped, the table has a column for the day, the tool and the model only.
GroupedDim(by) == by \notin {"", "day"}
Table(prices, rows, by) ==
    LET groups == Grouped([u \in rows |-> IF GroupedDim(by) THEN DimValue(u, by) ELSE <<u.day, u.tool, u.model>>])
    IN  [k \in DOMAIN groups |-> Accumulate(prices, groups[k])]

\* How much of what is priced has no price, over the rows of a table.
BuildUnpriced(table) ==
    LET rows == DOMAIN table
        unpriced == {k \in rows : table[k].hasUnpriced}
        tokens(k) == table[k].in + table[k].out + table[k].read + table[k].write
    IN  [tokens |-> TotalOf([k \in rows |-> table[k].unpricedTokens]), total |-> TotalOf([k \in rows |-> tokens(k)]),
         rows |-> Cardinality(unpriced), untokened |-> Cardinality({k \in unpriced : ~table[k].tokened})]

\* The legend under a starred cost: what it says of the total, and whether it names a source
\* that counts no tokens.
UnpricedDisclosure(u) ==
    CASE u.tokens > 0 -> [total |-> "short", untokened |-> u.untokened > 0]
      [] u.tokens <= 0 /\ u.rows > 0 /\ u.rows = u.untokened -> [total |-> "unknown", untokened |-> TRUE]
      [] u.tokens <= 0 /\ u.rows > u.untokened -> [total |-> "complete", untokened |-> FALSE]
      [] OTHER -> [total |-> "whole", untokened |-> FALSE]

\* The models a refreshed table would have to carry.
UnpricedModels(prices, rows) ==
    {u.model : u \in {v \in rows : RowTokens(v) # 0 /\ ~IsPriced(prices, v)}}

-----------------------------------------------------------------------------
(* The cost of a hundred lines. *)

\* A source that counts lines once per session credits them to one of the session's models; a
\* row has no session, so its group without the model stands for one.
CreditKeyOf(u) ==
    <<u.day, u.tool, u.project, u.entrypoint, u.member, u.granularity, u.task, u.outcome, u.difficulty>>

NewLineCredit(prices, rows) ==
    LET groups == Grouped([u \in {v \in rows : CreditsLinesPerSession(v.tool)} |-> CreditKeyOf(u)])
    IN  [k \in DOMAIN groups |->
            [models |-> {u.model : u \in groups[k]}, unpriced |-> \E u \in groups[k] : ~Knows(prices, u.model)]]

\* What a row is to the ratio: priced usage from a source that records lines, or one of what is
\* left out of it.
Standing(prices, credit, u, perModel) ==
    CASE /\ CreditKeyOf(u) \in DOMAIN credit
         /\ Cardinality(credit[CreditKeyOf(u)].models) > 1
         /\ perModel \/ credit[CreditKeyOf(u)].unpriced -> "shared"
      [] OTHER -> IF ~RecordsLines(u.tool) THEN "blind" ELSE IF IsPriced(prices, u) THEN "own" ELSE "unpriced"

\* The sums of a ratio, over the rows of each standing.
LineSums(prices, part) ==
    LET lines(s) == ColumnSum("added", part[s])
    IN  [cost |-> TotalOf([u \in part["own"] |-> CostOf(prices, u)]), lines |-> lines("own"),
         tokens |-> TokensIn(part["own"]),
         lineRows |-> Cardinality(part["own"] \cup part["unpriced"] \cup part["shared"]),
         blindRows |-> Cardinality(part["blind"]), blindTokens |-> TokensIn(part["blind"]),
         blindCost |-> TotalOf([u \in PricedRows(prices, part["blind"]) |-> CostOf(prices, u)]),
         unpricedTokens |-> TokensIn(part["unpriced"]), unpricedLines |-> lines("unpriced"),
         sharedTokens |-> TokensIn(part["shared"]), sharedLines |-> lines("shared")]
LineRate(prices, credit, rows, perModel) ==
    LineSums(prices, [s \in {"own", "blind", "unpriced", "shared"} |->
                         {u \in rows : Standing(prices, credit, u, perModel) = s}])

\* Seeded fault: what the sessions of several models share is lost in the sum.
MergeOwn(bases) ==
    [f \in {"cost", "lines", "tokens", "lineRows", "blindRows", "blindTokens", "blindCost",
            "unpricedTokens", "unpricedLines", "sharedTokens", "sharedLines"} |->
        IF f \in {"sharedTokens", "sharedLines"} THEN 0 ELSE TotalOf([g \in DOMAIN bases |-> bases[g][f]])]

\* The bases of some groups, together.
Merge(bases) ==
    [f \in {"cost", "lines", "tokens", "lineRows", "blindRows", "blindTokens", "blindCost",
            "unpricedTokens", "unpricedLines", "sharedTokens", "sharedLines"} |->
        TotalOf([g \in DOMAIN bases |-> bases[g][f]])]

Per100(b) == IF b.lines = 0 \/ b.tokens = 0 THEN NoRate ELSE <<100 * b.cost, b.lines>>
LeavesOut(b) == b.blindTokens > 0 \/ b.unpricedTokens > 0 \/ b.sharedTokens > 0
Partial(b) == Per100(b) # NoRate /\ LeavesOut(b)
OwnTokens(b) == b.tokens + b.unpricedTokens

\* Why there is no ratio, or what the one there is leaves out.
LineRateDisclosure(b) ==
    LET pairless == b.tokens = 0 /\ (b.sharedTokens > 0 \/ b.unpricedTokens > 0)
        lineless == b.lines = 0 /\ (b.sharedLines > 0 \/ b.unpricedLines > 0)
    IN
    CASE b.lineRows = 0 /\ b.blindRows = 0 -> "nothing"
      [] b.lineRows = 0 /\ b.blindRows > 0 -> "no source records lines"
      [] b.lineRows > 0 /\ Partial(b) -> "leaves out"
      [] b.lineRows > 0 /\ Per100(b) # NoRate /\ ~LeavesOut(b) -> "nothing"
      [] OTHER -> CASE pairless -> "no usage it can pair"
                    [] ~pairless /\ lineless -> "no lines it can pair"
                    [] OTHER -> "nothing"

-----------------------------------------------------------------------------
(* The effectiveness table and what moved between two windows. *)

BuildEffectiveness(prices, rows, by) ==
    LET credit == NewLineCredit(prices, rows)
        groups == Grouped([u \in rows |-> DimValue(u, by)])
        row(g) ==
            [lineCapable |-> \E u \in g : RecordsLines(u.tool), editCapable |-> UsageAnswering(g, "edits") # {},
             refusable |-> UsageAnswering(g, "rejected") # {}, tokened |-> \E u \in g : Tokened(u),
             editBlind |-> Cardinality(g \ UsageAnswering(g, "edits")),
             lines |-> ColumnSum("added", g), removed |-> ColumnSum("removed", g),
             edits |-> ColumnSum("edits", g), calls |-> ColumnSum("calls", g),
             rejected |-> ColumnSum("rejected", g), tokens |-> TokensIn(g),
             cost |-> TotalCost(prices, g), hasUnpriced |-> PricedRows(prices, g) # g,
             unpricedTokens |-> TokensIn(g \ PricedRows(prices, g)),
             lineRate |-> LineRate(prices, credit, g, by = "model"),
             windowRate |-> LineRate(prices, credit, g, FALSE)]
    IN  [k \in DOMAIN groups |-> row(groups[k])]

\* The footer: a column no row can speak for is withheld.
EffTotals(table) ==
    LET rows == DOMAIN table
        over(S, figure) == TotalOf([k \in S |-> table[k][figure]])
        capable == {k \in rows : table[k].lineCapable}
        edited == {k \in rows : table[k].editCapable}
        refusable == {k \in rows : table[k].refusable}
        priced == {k \in rows : table[k].cost # Unpriced}
    IN  [lines |-> IF capable = {} THEN Absent ELSE over(capable, "lines"),
         edits |-> IF edited = {} THEN Absent ELSE over(edited, "edits"),
         rejected |-> IF refusable = {} THEN Absent ELSE over(refusable, "rejected"),
         cost |-> IF priced = {} THEN Unpriced ELSE over(priced, "cost"),
         editBlind |-> over(rows, "editBlind"),
         lineRate |-> Merge([k \in rows |-> table[k].windowRate])]

\* What the footer says of the columns a group shows nothing in.
EffCoverageNote(table) ==
    LET t == EffTotals(table)
        covered == OwnTokens(t.lineRate) + t.lineRate.sharedTokens
        total == TotalOf([k \in DOMAIN table |-> table[k].tokens])
    IN  CASE DOMAIN table = {} -> "none"
          [] DOMAIN table # {} /\ (t.lines = Absent \/ t.edits = Absent) -> "withheld"
          [] DOMAIN table # {} /\ t.lines # Absent /\ t.edits # Absent ->
               IF t.lineRate.blindRows = 0 /\ t.editBlind = 0 THEN "every source"
               ELSE IF total = 0 \/ covered = total THEN "some columns" ELSE "some tokens"

\* What each group cost and wrote in one window and the one before it.
Movers(recent, prior) ==
    LET cost(t, g) == IF g \in DOMAIN t /\ t[g].cost # Unpriced THEN t[g].cost ELSE 0
        of(t, g, f) == IF g \in DOMAIN t THEN t[g][f] ELSE 0
    IN  [g \in DOMAIN recent \cup DOMAIN prior |->
            [delta |-> cost(recent, g) - cost(prior, g), now |-> cost(recent, g),
             lines |-> of(recent, g, "lines") - of(prior, g, "lines"),
             starred |-> \E t \in {recent, prior} : g \in DOMAIN t /\ t[g].hasUnpriced]]

\* The legend a table of movers prints is that of the window whose cost knows less.
WorseWindow(recent, prior) ==
    LET of(t, f) == TotalOf([g \in DOMAIN t |-> t[g][f]])
    IN  IF of(prior, "unpricedTokens") * Max({of(recent, "tokens"), 1})
             > of(recent, "unpricedTokens") * Max({of(prior, "tokens"), 1})
        THEN "prior" ELSE "recent"

-----------------------------------------------------------------------------
(* The status page. *)

\* Seeded fault: the rows of a source that never recorded a reworked line dilute the rate.
BuildChurnUngated(rows) ==
    LET added == ColumnSum("added", rows)
        rework == ColumnSum("rework", rows)
    IN  [added |-> added, rework |-> rework, rows |-> Cardinality(rows), tokens |-> TokensIn(rows),
         rate |-> IF added = 0 THEN <<0, 1>> ELSE <<rework, added>>]

BuildChurn(rows) ==
    LET capable == UsageAnswering(rows, "rework")
        added == ColumnSum("added", capable)
        rework == ColumnSum("rework", capable)
    IN  [added |-> added, rework |-> rework, rows |-> Cardinality(capable), tokens |-> TokensIn(capable),
         rate |-> IF added = 0 THEN <<0, 1>> ELSE <<rework, added>>]

ExceedsItsWhole(churn) == churn.rework > churn.added

BuildInventory(prices, rows) ==
    LET tokened == {u \in rows : Tokened(u)}
        missing == rows \ PricedRows(prices, rows)
    IN  [projects |-> Cardinality({u.project : u \in rows} \ {""}),
         unattributed |-> Cardinality({u \in rows : u.project = ""}),
         models |-> Cardinality({u.model : u \in rows} \ {""}), tools |-> Cardinality({u.tool : u \in rows}),
         days |-> Cardinality({u.day : u \in rows}), tokenDays |-> Cardinality({u.day : u \in tokened}),
         cost |-> TotalCost(prices, rows), lines |-> ColumnSum("added", rows),
         unpriced |-> [tokens |-> TokensIn(missing), total |-> TokensIn(rows), rows |-> Cardinality(missing),
                       untokened |-> Cardinality(missing \ tokened)],
         lineRate |-> LineRate(prices, NewLineCredit(prices, rows), rows, FALSE)]

RecentCutoff(today, days) == today - (Max({days, 1}) - 1)
SplitRecent(rows, today, days) == {u \in rows : u.day >= RecentCutoff(today, days)}

\* The cost, the ratio and the last day of each group of some rows.
GroupStats(prices, rows, dim) ==
    LET credit == NewLineCredit(prices, rows)
        groups == Grouped([u \in rows |-> u[dim]])
    IN  [k \in DOMAIN groups |->
            [cost |-> TotalCost(prices, groups[k]), lines |-> ColumnSum("added", groups[k]),
             lineRate |-> LineRate(prices, credit, groups[k], FALSE),
             lastActive |-> Max({u.day : u \in groups[k]})]]

\* The costliest of some groups, at most so many.
CapTop(stats, topN) ==
    IF topN = 0 \/ Cardinality(DOMAIN stats) <= topN THEN DOMAIN stats
    ELSE CHOOSE top \in kSubset(topN, DOMAIN stats) :
             \A k \in top, o \in DOMAIN stats \ top : stats[k].cost >= stats[o].cost

\* Usage with no project is no project of its own; a group is stale, or a tool dormant, that
\* only earlier rows know.
BuildInsights(prices, rows, today, days, topN) ==
    LET recent == SplitRecent(rows, today, days)
        stale == {u \in rows \ recent : u.project # "" /\ u.project \notin {v.project : v \in recent}}
        silent == {u \in rows \ recent : u.tool \notin {v.tool : v \in recent}}
        hotStats == GroupStats(prices, {u \in recent : u.project # ""}, "project")
        staleStats == GroupStats(prices, stale, "project")
    IN  [hot |-> [p \in CapTop(hotStats, topN) |-> hotStats[p]],
         goingStale |-> [p \in CapTop(staleStats, topN) |-> staleStats[p]],
         dormant |-> GroupStats(prices, silent, "tool"),
         inventory |-> BuildInventory(prices, rows)]

\* The p/10 percentile of a figure over some sessions, in tenths, interpolated between the two
\* it falls between.
Percentile(S, figure, p) ==
    LET kth(k) == CHOOSE v \in {s[figure] : s \in S} : /\ Cardinality({s \in S : s[figure] < v}) < k
                                                       /\ Cardinality({s \in S : s[figure] <= v}) >= k
        rank == p * (Cardinality(S) - 1)
        lo == rank \div 10
    IN  IF S = {} THEN 0
        ELSE IF rank % 10 = 0 THEN 10 * kth(lo + 1)
        ELSE 10 * kth(lo + 1) + (rank % 10) * (kth(lo + 2) - kth(lo + 1))
Round(tenths) == (tenths + 5) \div 10

ShareWhere(S, figure) == IF S = {} THEN <<0, 1>> ELSE <<Cardinality({s \in S : s[figure] > 0}), Cardinality(S)>>

\* Every figure is over the sessions whose source records what it is of.
BuildSessionStats(sessions) ==
    LET of(signal) == SessionsAnswering(sessions, signal)
        contexted == {s \in of("turns") : Answers(s.tool, "tokens_total")}
    IN  [count |-> Cardinality(sessions), turned |-> Cardinality(of("turns")), paced |-> Cardinality(of("active_minutes")),
         edited |-> Cardinality(of("edits")), compacting |-> Cardinality(of("compactions")),
         tokened |-> Cardinality(of("tokens_total")), contexted |-> Cardinality(contexted),
         medianTurns |-> Round(Percentile(of("turns"), "turns", 5)),
         p90Turns |-> Round(Percentile(of("turns"), "turns", 9)),
         medianOut |-> Round(Percentile(of("tokens_total"), "out", 5)),
         medianPeak |-> Round(Percentile(contexted, "peak", 5)),
         medianMinutes |-> Percentile(of("active_minutes"), "minutes", 5),
         codeShare |-> ShareWhere(of("edits"), "edits"),
         compactionRate |-> ShareWhere(of("compactions"), "compactions"),
         perActiveDay |-> <<Cardinality(sessions), Max({Cardinality({s.day : s \in sessions}), 1})>>]

=============================================================================
