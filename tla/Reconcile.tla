------------------------------ MODULE Reconcile ------------------------------
(* A vendor's billing export beside the local estimate of the same days: the *)
(* days both cover, the causes of the difference that have evidence, and     *)
(* what is left unexplained.                                                 *)
(*                                                                           *)
(* A line of an export is [id, day, model, cost, currency], day and cost     *)
(* Absent where the text is not a date or an amount; a credit is below zero. *)
EXTENDS Integers, FiniteSets, Reports

CONSTANT Lowered        \* model name -> the name without case and surrounding space

\* The columns an export names, or the caller maps to them: a day and a cost are needed.
ReadableExport(exp) == "day" \in exp.columns /\ "cost" \in exp.columns

\* A line without a date or an amount is skipped and counted; the first of the others to state
\* a currency states it for all.
ExportRows(exp) == {l \in exp.lines : l.day # Absent /\ l.cost # Absent}
Currency(exp) ==
    LET stating == {l \in ExportRows(exp) : "currency" \in exp.columns /\ l.currency # ""}
    IN  IF stating = {} THEN "" ELSE (CHOOSE l \in stating : \A o \in stating : l.id <= o.id).currency
Skipped(exp) == Cardinality(exp.lines \ ExportRows(exp))
ExportCost(lines) == BalanceOf([l \in lines |-> l.cost])
ExportDays(exp) == {l.day : l \in ExportRows(exp)}

\* A window that opens within a day covers it from the next one.
FirstWholeDay(start) == IF start % DayLen = 0 THEN start \div DayLen ELSE start \div DayLen + 1

\* The days of the comparison: a day of the window the export has lines of, or that lies within
\* the export's span.  The cost of every other day is set aside, on each side.
BuildScope(prices, exp, rows, start, end) ==
    LET first == FirstWholeDay(start)
        last == end \div DayLen
        inWindow(d) == d >= first /\ d <= last
        days == ExportDays(exp)
        spanned(d) == days # {} /\ d >= Min(days) /\ d <= Max(days)
        local == {u.day : u \in rows}
        overlap == {d \in days : inWindow(d)} \cup {d \in local : inWindow(d) /\ spanned(d)}
    IN  [overlap |-> overlap, exportOnly |-> Cardinality(days \ overlap), windowOnly |-> Cardinality(local \ overlap),
         exportOutside |-> ExportCost({l \in ExportRows(exp) : l.day \notin overlap}),
         estimateOutside |-> Max({TotalCost(prices, {u \in rows : u.day \notin overlap}), 0})]

\* The priced cost of those days, by model, and what the rest would cost at the same rate.
BuildEstimate(prices, rows, scope) ==
    LET within == {u \in rows : u.day \in scope.overlap}
        priced == PricedRows(prices, within)
        cost == Max({TotalCost(prices, priced), 0})
        unpriced == TokensIn(within \ priced)
        byModel == Grouped([u \in priced |-> Lowered[u.model]])
    IN  [priced |-> cost, tokens |-> TokensIn(within), unpricedTokens |-> unpriced,
         unpricedRows |-> Cardinality(within \ priced),
         extrapolated |-> IF TokensIn(priced) > 0 /\ unpriced > 0
                          THEN <<cost * unpriced, TokensIn(priced)>> ELSE <<0, 1>>,
         byModel |-> [m \in DOMAIN byModel |-> TotalCost(prices, byModel[m])]]

SumMissing(a, b) == BalanceOf([m \in DOMAIN a \ DOMAIN b |-> a[m]])

\* The causes there is evidence for, and why others could not be computed.
Explain(exp, est, scope) ==
    LET billed == Grouped([l \in {r \in ExportRows(exp) : r.day \in scope.overlap /\ r.model # ""} |-> Lowered[l.model]])
        exported == [m \in DOMAIN billed |-> ExportCost(billed[m])]
        named == "model" \in exp.columns
        shared == DOMAIN exported \cap DOMAIN est.byModel # {}
        amount(a, b) == IF named /\ shared THEN Max({SumMissing(a, b), 0}) ELSE 0
    IN  [extrapolated |-> est.extrapolated,
         neverRecorded |-> amount(exported, est.byModel), notCovered |-> amount(est.byModel, exported),
         limits |-> (IF named THEN {} ELSE {"no model column"})
                      \cup (IF named /\ ~shared THEN {"no name in common"} ELSE {})
                      \cup (IF Skipped(exp) > 0 THEN {"lines skipped"} ELSE {})
                      \cup (IF Currency(exp) = "" THEN {"no currency stated"} ELSE {})
                      \cup (IF "tokens" \in exp.columns THEN {} ELSE {"no token column"})]

\* The whole comparison, or the refusal to make it; what is unexplained is over the same
\* denominator as what was extrapolated.
Comparison(exp, scope, est) ==
    LET exportCost == ExportCost({l \in ExportRows(exp) : l.day \in scope.overlap})
        causes == Explain(exp, est, scope)
        delta == exportCost - est.priced
    IN  [refused |-> FALSE, scope |-> scope, estimate |-> est, exportCost |-> exportCost, delta |-> delta,
         causes |-> causes,
         unexplained |-> <<(delta - causes.neverRecorded + causes.notCovered) * est.extrapolated[2]
                               - est.extrapolated[1], est.extrapolated[2]>>,
         inBand |-> /\ exportCost >= est.priced
                    /\ (exportCost - est.priced) * est.extrapolated[2] <= est.extrapolated[1]]
Compare(prices, exp, rows, start, end) ==
    LET scope == BuildScope(prices, exp, rows, start, end)
    IN  IF ~ReadableExport(exp) \/ Currency(exp) \notin {"", "USD"} THEN [refused |-> TRUE]
        ELSE Comparison(exp, scope, BuildEstimate(prices, rows, scope))
=============================================================================
