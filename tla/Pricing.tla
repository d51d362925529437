------------------------------- MODULE Pricing -------------------------------
(* The vendored price table: the current snapshot, filled from a ledger of   *)
(* the last prices of models a later snapshot no longer lists, and what a    *)
(* model's tokens cost by it.                                                *)
(*                                                                           *)
(* An entry of a snapshot is [input, output, write, long, read], the last    *)
(* three Absent where the vendor publishes none; rates are whole numbers.    *)
EXTENDS Integers, FiniteSets, FiniteSetsExt

CONSTANTS
    Models,             \* the names a log or a table may give a model
    Unprefixed,         \* those of them without a routing prefix
    Normal,             \* name -> the name without its tag and its date stamp
    PremiumFloor        \* the output rate a premium model starts at

Absent == -1
Unpriced == -1          \* the cost of what the table cannot price
NoTokens == [in |-> 0, out |-> 0, write |-> 0, read |-> 0, long |-> 0]

NormalizeModel(m) == Normal[m]

\* An entry with no token rate is listed and not priced.  A vendor that publishes one cache-write
\* rate charges it for both lifetimes.
Parse(snapshot) ==
    [m \in {n \in DOMAIN snapshot : snapshot[n].input # 0 \/ snapshot[n].output # 0} |->
        LET e == snapshot[m]
            write == IF e.write = Absent THEN 0 ELSE e.write
        IN  [input |-> e.input, output |-> e.output, write |-> write,
             long |-> IF e.long = Absent THEN write ELSE e.long,
             read |-> IF e.read = Absent THEN 0 ELSE e.read, retained |-> FALSE]]

\* The ledger answers only for a model the snapshot no longer lists.
FillFrom(table, ledger, listed) ==
    LET added == DOMAIN ledger \ listed
    IN  [m \in DOMAIN table \cup added |->
            IF m \in added THEN [ledger[m] EXCEPT !.retained = TRUE] ELSE table[m]]

Load(snapshot, ledger) == FillFrom(Parse(snapshot), ledger, DOMAIN snapshot)

\* Seeded fault: the ledger is written from the latest snapshot alone.
FoldLatest(ledger, snapshot) ==
    LET priced == Parse(snapshot) IN [m \in {n \in DOMAIN priced : n \in Unprefixed} |-> priced[m]]

\* A refresh folds what the snapshot prices into the ledger: it adds and reprices, never removes.
Fold(ledger, snapshot) ==
    LET priced == Parse(snapshot)
        kept == {m \in DOMAIN priced : m \in Unprefixed}
    IN  [m \in DOMAIN ledger \cup kept |-> IF m \in kept THEN priced[m] ELSE ledger[m]]

\* The exact name first, then the normalized one.
PricedAs(prices, model) == IF model \in DOMAIN prices THEN model ELSE NormalizeModel(model)
Knows(prices, model) == PricedAs(prices, model) \in DOMAIN prices
Retained(prices, model) == Knows(prices, model) /\ prices[PricedAs(prices, model)].retained

\* A cache write is billed in two parts; the long one is never more than the write it is part of.
CostTokens(prices, model, tk) ==
    IF ~Knows(prices, model) THEN Unpriced
    ELSE LET p == prices[PricedAs(prices, model)]
             long == Min({Max({tk.long, 0}), Max({tk.write, 0})})
         IN  tk.in * p.input + tk.out * p.output + (tk.write - long) * p.write
               + long * p.long + tk.read * p.read

ModelTier(prices, model) ==
    IF ~Knows(prices, model) THEN "unknown"
    ELSE IF prices[PricedAs(prices, model)].output >= PremiumFloor THEN "premium" ELSE "cheaper"
=============================================================================
