--------------------------- MODULE Figures_proofs ---------------------------
(* What the figures of a window promise, whatever rows, sessions and price   *)
(* tables it is given.                                                       *)
EXTENDS Figures, SetFacts, FiniteSetTheorems, TLAPS

-----------------------------------------------------------------------------
(* The price table. *)

Rates == [input : Nat, output : Nat, write : Nat, long : Nat, read : Nat, retained : BOOLEAN]

\* A parsed snapshot prices what it lists with a token rate, and retains nothing.
LEMMA ParseGives ==
    ASSUME NEW snapshot, \A m \in DOMAIN snapshot : snapshot[m] \in Listed
    PROVE  /\ DOMAIN Parse(snapshot) \in SUBSET DOMAIN snapshot
           /\ \A m \in DOMAIN Parse(snapshot) : Parse(snapshot)[m] \in Rates /\ ~Parse(snapshot)[m].retained
BY DEF Parse, Listed, Rates, Absent

\* The ledger knows every model the snapshot prices, at its rate, and every entry of it is one.
LedgerHolds ==
    /\ refreshes \in 0 .. Len(Snapshots) - 1
    /\ \A m \in DOMAIN ledger : ledger[m] \in Rates
    /\ \A m \in DOMAIN Parse(Snapshot) : m \in Unprefixed => m \in DOMAIN ledger /\ ledger[m] = Parse(Snapshot)[m]

Listings == {Snapshots[i] : i \in 1 .. Len(Snapshots)}

LEMMA IndexBefore == ASSUME NEW n \in Nat, NEW r \in 0 .. n - 1 PROVE r + 1 \in 1 .. n
OBVIOUS

LEMMA ListingsParse ==
    ASSUME NEW s \in Listings
    PROVE  /\ DOMAIN Parse(s) \in SUBSET DOMAIN s
           /\ \A m \in DOMAIN Parse(s) : Parse(s)[m] \in Rates /\ ~Parse(s)[m].retained
BY FiguresAssumption, ParseGives DEF Listings

LEMMA SnapshotListed ==
    ASSUME LedgerHolds
    PROVE  Snapshot \in Listings /\ Snapshot = Snapshots[refreshes + 1]
<1>1. PICK n \in Nat : n = Len(Snapshots)
  BY FiguresAssumption
<1>2. refreshes \in 0 .. n - 1
  BY <1>1 DEF LedgerHolds
<1>3. refreshes + 1 \in 1 .. n
  BY <1>2, IndexBefore
<1> QED BY <1>1, <1>3 DEF Snapshot, Listings

LEMMA LedgerInit == Init => LedgerHolds
<1> SUFFICES ASSUME Init PROVE LedgerHolds
  OBVIOUS
<1>1. refreshes = 0 /\ ledger = Fold(<<>>, Snapshots[1]) /\ Snapshot = Snapshots[1]
  BY DEF Init, Snapshot
<1>2. Snapshots[1] \in Listings /\ refreshes \in 0 .. Len(Snapshots) - 1
  BY <1>1, FiguresAssumption DEF Listings
<1>3. \A m \in DOMAIN Parse(Snapshots[1]) : Parse(Snapshots[1])[m] \in Rates
  BY <1>2, ListingsParse
<1>4. DOMAIN <<>> = {}
  OBVIOUS
<1> QED BY <1>1, <1>2, <1>3, <1>4 DEF LedgerHolds, Fold

\* What a refresh does: the next snapshot, folded into the ledger.
LEMMA RefreshGives ==
    ASSUME LedgerHolds, RefreshPrices
    PROVE  Snapshot' \in Listings /\ ledger' = Fold(ledger, Snapshot') /\ refreshes' \in 0 .. Len(Snapshots) - 1
<1>1. PICK n \in Nat : n = Len(Snapshots)
  BY FiguresAssumption
<1>2. /\ refreshes' = refreshes + 1 /\ refreshes + 1 < n /\ refreshes \in 0 .. n - 1
      /\ ledger' = Fold(ledger, Snapshots[refreshes + 2])
  BY <1>1 DEF RefreshPrices, LedgerHolds
<1>3. refreshes + 2 \in 1 .. n /\ refreshes' \in 0 .. n - 1 /\ refreshes' + 1 = refreshes + 2
  BY <1>2
<1> QED BY <1>1, <1>2, <1>3 DEF Snapshot, Listings

LEMMA LedgerNext == LedgerHolds /\ [Next]_vars => LedgerHolds'
<1> SUFFICES ASSUME LedgerHolds, [Next]_vars PROVE LedgerHolds'
  OBVIOUS
<1>1. CASE RefreshPrices
  <2>1. PICK new : new = Snapshot'
    OBVIOUS
  <2>2. new \in Listings /\ ledger' = Fold(ledger, new) /\ refreshes' \in 0 .. Len(Snapshots) - 1
    BY <1>1, <2>1, RefreshGives
  <2>3. \A m \in DOMAIN Parse(new) : Parse(new)[m] \in Rates
    BY <2>2, ListingsParse
  <2>4. \A m \in DOMAIN ledger' : ledger'[m] \in Rates
    BY <2>2, <2>3 DEF LedgerHolds, Fold
  <2>5. \A m \in DOMAIN Parse(new) : m \in Unprefixed => m \in DOMAIN ledger' /\ ledger'[m] = Parse(new)[m]
    BY <2>2 DEF Fold
  <2> QED BY <2>1, <2>2, <2>4, <2>5 DEF LedgerHolds
<1>2. CASE refreshes' = refreshes /\ ledger' = ledger
  BY <1>2 DEF LedgerHolds, Snapshot
<1>3. RefreshPrices \/ (refreshes' = refreshes /\ ledger' = ledger)
  BY DEF Next, vars, ImportUsage, ImportSessions, ImportStep, ReadBill, Elapse
<1> QED BY <1>1, <1>2, <1>3

\* An entry the ledger keeps.
AsRetained(e) == [e EXCEPT !.retained = TRUE]

\* What the table knows of a model: its entry of the snapshot, or the ledger's for one no longer
\* listed, marked as such.
LEMMA LoadGives ==
    ASSUME NEW s \in Listings, NEW known, NEW t, t = Load(s, known), NEW m
    PROVE  /\ m \in DOMAIN s /\ m \in DOMAIN t => m \in DOMAIN Parse(s) /\ t[m] = Parse(s)[m] /\ ~t[m].retained
           /\ m \notin DOMAIN s => /\ m \in DOMAIN t <=> m \in DOMAIN known
                                   /\ m \in DOMAIN known => t[m] = AsRetained(known[m])
<1>1. PICK p : p = Parse(s)
  OBVIOUS
<1>2. DOMAIN p \in SUBSET DOMAIN s /\ \A n \in DOMAIN p : ~p[n].retained
  BY <1>1, ListingsParse
<1>3. t = [n \in DOMAIN p \cup (DOMAIN known \ DOMAIN s) |->
              IF n \in DOMAIN known \ DOMAIN s THEN AsRetained(known[n]) ELSE p[n]]
  BY <1>1 DEF Load, FillFrom, AsRetained
<1>4. DOMAIN t = DOMAIN p \cup (DOMAIN known \ DOMAIN s)
  BY <1>3
<1>5. m \in DOMAIN s /\ m \in DOMAIN t => m \in DOMAIN p /\ t[m] = p[m] /\ ~t[m].retained
  BY <1>2, <1>3, <1>4
<1>6. m \notin DOMAIN s => (m \in DOMAIN t <=> m \in DOMAIN known)
  BY <1>2, <1>4
<1>7. m \notin DOMAIN s /\ m \in DOMAIN known => t[m] = AsRetained(known[m])
  BY <1>3, Zenon
<1> QED BY <1>1, <1>5, <1>6, <1>7

LEMMA RefreshKeeps ==
    ASSUME LedgerHolds, RefreshPrices, NEW m \in Unprefixed, m \in DOMAIN Prices, m \notin DOMAIN Snapshot'
    PROVE  m \in DOMAIN Prices' /\ [Prices'[m] EXCEPT !.retained = FALSE] = [Prices[m] EXCEPT !.retained = FALSE]
<1>1. PICK old, new, was, now :
          old = Snapshot /\ new = Snapshot' /\ was = Load(old, ledger) /\ now = Load(new, ledger')
  OBVIOUS
<1>2. was = Prices /\ now = Prices'
  BY <1>1 DEF Prices
<1>3. m \notin DOMAIN new /\ m \in DOMAIN was
  BY <1>1, <1>2
<1>4. old \in Listings /\ new \in Listings /\ ledger' = Fold(ledger, new)
  BY <1>1, SnapshotListed, RefreshGives
<1>5. /\ m \in DOMAIN now <=> m \in DOMAIN ledger'
      /\ m \in DOMAIN ledger' => now[m] = AsRetained(ledger'[m])
  BY <1>1, <1>3, <1>4, LoadGives
<1>6. m \in DOMAIN ledger => m \in DOMAIN ledger' /\ ledger'[m] = ledger[m]
  <2>1. m \notin DOMAIN Parse(new)
    BY <1>3, <1>4, ListingsParse
  <2> QED BY <1>4, <2>1 DEF Fold
<1>7. m \in DOMAIN ledger /\ (was[m] = ledger[m] \/ was[m] = AsRetained(ledger[m]))
  <2>1. CASE m \in DOMAIN old
    <3>1. m \in DOMAIN Parse(old) /\ was[m] = Parse(old)[m]
      BY <1>1, <1>3, <1>4, <2>1, LoadGives
    <3> QED BY <1>1, <3>1 DEF LedgerHolds
  <2>2. CASE m \notin DOMAIN old
    BY <1>1, <1>3, <1>4, <2>2, LoadGives
  <2> QED BY <2>1, <2>2
<1>8. PICK e \in Rates : e = ledger[m]
  BY <1>7 DEF LedgerHolds
<1>9. m \in DOMAIN now /\ now[m] = [e EXCEPT !.retained = TRUE] /\ (was[m] = e \/ was[m] = [e EXCEPT !.retained = TRUE])
  BY <1>5, <1>6, <1>7, <1>8 DEF AsRetained
<1>10. PICK w, n : w = was[m] /\ n = now[m]
  OBVIOUS
<1>11. [n EXCEPT !.retained = FALSE] = [w EXCEPT !.retained = FALSE]
  BY <1>9, <1>10 DEF Rates
<1> QED BY <1>2, <1>9, <1>10, <1>11

\* A refreshed table never unprices the history (pricing/retained.go): a model priced before is
\* priced after at the rate it was last listed at, since the ledger holds what every snapshot
\* priced.
THEOREM PricesOutliveListing == FiguresSpec => HistoryStaysPriced
<1>1. ASSUME LedgerHolds, LedgerHolds', [Next]_vars PROVE [PricesStay]_vars
  <2> SUFFICES PricesStay
    OBVIOUS
  <2>1. RefreshPrices \/ (refreshes' = refreshes /\ ledger' = ledger)
    BY <1>1 DEF Next, vars, ImportUsage, ImportSessions, ImportStep, ReadBill, Elapse
  <2>2. ASSUME NEW m \in Models, m \in DOMAIN Prices, m \in Unprefixed, m \notin DOMAIN Snapshot'
        PROVE  m \in DOMAIN Prices' /\ [Prices'[m] EXCEPT !.retained = FALSE] = [Prices[m] EXCEPT !.retained = FALSE]
    <3>1. CASE RefreshPrices
      BY <1>1, <2>2, <3>1, RefreshKeeps
    <3>2. CASE refreshes' = refreshes /\ ledger' = ledger
      <4>1. Prices' = Prices
        BY <3>2 DEF Prices, Snapshot
      <4> QED BY <2>2, <4>1
    <3> QED BY <2>1, <3>1, <3>2
  <2>3. ASSUME NEW m \in Models, m \in DOMAIN Snapshot', m \in DOMAIN Prices' PROVE ~Prices'[m].retained
    <3>1. PICK new, now : new = Snapshot' /\ now = Prices'
      OBVIOUS
    <3>2. now = Load(new, ledger')
      BY <3>1 DEF Prices
    <3>3. new \in Listings
      <4>1. CASE RefreshPrices
        BY <1>1, <3>1, <4>1, RefreshGives
      <4>2. CASE refreshes' = refreshes
        BY <1>1, <3>1, <4>2, SnapshotListed DEF Snapshot
      <4> QED BY <2>1, <4>1, <4>2
    <3> QED BY <2>3, <3>1, <3>2, <3>3, LoadGives
  <2> QED BY <2>2, <2>3 DEF PricesStay
<1> QED BY <1>1, LedgerInit, LedgerNext, PTL DEF FiguresSpec, HistoryStaysPriced

-----------------------------------------------------------------------------
(* The window. *)

\* What is imported is of the pools: a window is finite, and its rows count naturals.
WindowTyped ==
    /\ IsFiniteSet(usage) /\ IsFiniteSet(sessions)
    /\ \A u \in usage : Counts(u)

LEMMA WindowInit == Init => WindowTyped
BY FS_EmptySet DEF Init, WindowTyped

LEMMA WindowNext == side \in Sides /\ WindowTyped /\ [Next]_vars => WindowTyped'
<1> SUFFICES ASSUME side \in Sides, WindowTyped, [Next]_vars PROVE WindowTyped'
  OBVIOUS
<1>1. CASE ImportUsage
  <2>1. PICK rows \in RowPool[side] : usage' = usage \cup rows /\ sessions' = sessions /\ side # "steps"
    BY <1>1 DEF ImportUsage
  <2>2. IsFiniteSet(rows) /\ \A u \in rows : Counts(u)
    BY <2>1, FiguresAssumption
  <2>3. IsFiniteSet(usage \cup rows)
    BY <2>2, FS_Union DEF WindowTyped
  <2> QED BY <2>1, <2>2, <2>3 DEF WindowTyped
<1>2. CASE ImportSessions
  <2>1. PICK group \in SessionPool : sessions' = sessions \cup group /\ usage' = usage
    BY <1>2 DEF ImportSessions
  <2>2. IsFiniteSet(sessions \cup group)
    BY <2>1, FiguresAssumption, FS_Union DEF WindowTyped
  <2> QED BY <2>1, <2>2 DEF WindowTyped
<1>3. CASE usage' = usage /\ sessions' = sessions
  BY <1>3 DEF WindowTyped
<1>4. ImportUsage \/ ImportSessions \/ (usage' = usage /\ sessions' = sessions)
  BY DEF Next, vars, ImportStep, ReadBill, RefreshPrices, Elapse
<1> QED BY <1>1, <1>2, <1>3, <1>4

\* A column of counts sums to a natural; a part of the rows sums to no more.
LEMMA ColumnOf ==
    ASSUME NEW rows, IsFiniteSet(rows), \A u \in rows : Counts(u), NEW c \in Counted, NEW some \in SUBSET rows
    PROVE  /\ ColumnSum(c, some) \in Nat /\ ColumnSum(c, rows) \in Nat
           /\ ColumnSum(c, some) <= ColumnSum(c, rows)
<1> DEFINE f == [u \in rows |-> u[c]]
<1>1. Summable(f) /\ DOMAIN f = rows
  BY DEF Summable, Counts
<1>2. Part(f, some) = [u \in some |-> u[c]]
  BY DEF Part
<1> HIDE DEF f
<1>3. TotalOf(Part(f, some)) \in Nat /\ TotalOf(Part(f, some)) <= TotalOf(f) /\ TotalOf(f) \in Nat
  BY <1>1, PartTotal, UnitsAre
<1> QED BY <1>2, <1>3 DEF ColumnSum, f

-----------------------------------------------------------------------------
(* What a source cannot record is no zero. *)

\* The rows that answer a signal are among those that are heard of it, and so are the sessions.
LEMMA HeardAnswers ==
    ASSUME NEW rows, NEW signals, NEW signal \in signals,
           NEW heard, heard = {u \in rows : SignalsAnsweredBy(u.tool) \cap signals # {}}
    PROVE  /\ heard \in SUBSET rows
           /\ UsageAnswering(heard, signal) = UsageAnswering(rows, signal)
           /\ SessionsAnswering(heard, signal) = SessionsAnswering(rows, signal)
<1>1. \A u \in rows : Answers(u.tool, signal) => u \in heard
  BY DEF Answers
<1> QED BY <1>1 DEF UsageAnswering, SessionsAnswering

\* Two inputs one of which hears of some signals only.
Hears(in, h, signals) ==
    /\ \A signal \in signals : /\ UsageAnswering(h.usage, signal) = UsageAnswering(in.usage, signal)
                               /\ SessionsAnswering(h.sessions, signal) = SessionsAnswering(in.sessions, signal)

LEMMA BurnHears ==
    ASSUME NEW in, NEW h, Hears(in, h, {"tokens_total"})
    PROVE  Said(Burn(h)) = Said(Burn(in))
<1>1. UsageAnswering(h.usage, "tokens_total") = UsageAnswering(in.usage, "tokens_total")
  BY DEF Hears
<1>2. PICK days, n : days = TokensPerDay(UsageAnswering(in.usage, "tokens_total")) /\ n = Cardinality(DOMAIN days)
  OBVIOUS
<1>3. PICK spikes : spikes = Cardinality(BurnSpikes(days))
  OBVIOUS
<1>4. ASSUME NEW i, UsageAnswering(i.usage, "tokens_total") = UsageAnswering(in.usage, "tokens_total")
      PROVE  Said(Burn(i)) = [read |-> IF n < BurnMinDays THEN "no-data" ELSE ReadFor(spikes = 0),
                              purity |-> IF n < BurnMinDays THEN Half ELSE <<n - spikes, n>>]
  <2>1. PICK s : s = ShareOf(n, Cardinality(ActiveDays(i)))
    OBVIOUS
  <2>2. Burn(i) = IF n < BurnMinDays THEN Verdict("no-data", Half, n, s)
                  ELSE Verdict(ReadFor(spikes = 0), <<n - spikes, n>>, n, s)
    BY <1>2, <1>3, <1>4, <2>1 DEF Burn
  <2> QED BY <2>2 DEF Said, Verdict, ReadFor
<1> QED BY <1>1, <1>4

\* With nothing to read there is no data, whichever way that is found.
Spoke(enough) == [read |-> Reported(enough), purity |-> Half]

LEMMA NoDataSaid == ASSUME NEW signal PROVE Said(NoData(signal)) = Spoke(FALSE)
BY DEF Said, NoData, Verdict, Spoke, Reported

LEMMA ReportedSaid ==
    ASSUME NEW enough \in BOOLEAN, NEW n, NEW signal
    PROVE  Said(Verdict(Reported(enough), Half, n, signal)) = Spoke(enough)
BY DEF Said, Verdict, Spoke, Reported

LEMMA NothingAnswers ==
    ASSUME NEW signal
    PROVE UsageAnswering({}, signal) = {} /\ SessionsAnswering({}, signal) = {}
BY DEF UsageAnswering, SessionsAnswering

LEMMA EmptySum == ASSUME NEW c PROVE ColumnSum(c, {}) = 0
<1>1. PICK f : f = [u \in {} |-> u[c]]
  OBVIOUS
<1>2. DOMAIN f = {}
  BY <1>1
<1> QED BY <1>1, <1>2, NothingTotal DEF ColumnSum

LEMMA ExploreHears ==
    ASSUME NEW in, NEW h, Hears(in, h, {"tool_calls"})
    PROVE  Said(ExploreProduce(h)) = Said(ExploreProduce(in)) /\ ToolMix(h.usage) = ToolMix(in.usage)
<1>1. UsageAnswering(h.usage, "tool_calls") = UsageAnswering(in.usage, "tool_calls")
  BY DEF Hears
<1>2. ToolMix(h.usage) = ToolMix(in.usage)
  BY <1>1 DEF ToolMix
<1>3. ASSUME NEW i PROVE Said(ExploreProduce(i)) = Spoke(ToolMix(i.usage).classified >= MinCalls)
  <2>1. CASE i.usage = {}
    <3>1. UsageAnswering(i.usage, "tool_calls") = {}
      BY <2>1, NothingAnswers
    <3>2. PICK f : f = [u \in {} |-> Classified(u)]
      OBVIOUS
    <3>3. DOMAIN f = {}
      BY <3>2
    <3>4. ToolMix(i.usage).classified = 0
      BY <3>1, <3>2, <3>3, NothingTotal DEF ToolMix
    <3>5. ~(0 >= MinCalls)
      BY FloorsAssumption
    <3>6. ExploreProduce(i) = NoData(NoRate)
      BY <2>1 DEF ExploreProduce
    <3> QED BY <3>4, <3>5, <3>6, NoDataSaid DEF Spoke, Reported
  <2>2. CASE i.usage # {}
    <3>0. PICK m : m = ToolMix(i.usage)
      OBVIOUS
    <3>1. PICK enough \in BOOLEAN : enough <=> m.classified >= MinCalls
      OBVIOUS
    <3>2. ExploreProduce(i) = [Verdict(Reported(enough), Half, m.classified, ShareOf(m.classified, m.calls))
                                  EXCEPT !.recorded = m.calls > 0]
      BY <2>2, <3>0, <3>1 DEF ExploreProduce
    <3>3. Said(ExploreProduce(i)) = Spoke(enough)
      BY <3>2 DEF Said, Verdict, Spoke, Reported
    <3> QED BY <3>0, <3>1, <3>3 DEF Spoke, Reported
  <2> QED BY <2>1, <2>2
<1> QED BY <1>2, <1>3

LEMMA FrictionHears ==
    ASSUME NEW in, NEW h, Hears(in, h, {"tool_calls"})
    PROVE  Said(Friction(h)) = Said(Friction(in)) /\ BuildFriction(h.usage) = BuildFriction(in.usage)
<1>1. UsageAnswering(h.usage, "tool_calls") = UsageAnswering(in.usage, "tool_calls")
  BY DEF Hears
<1>2. BuildFriction(h.usage) = BuildFriction(in.usage)
  BY <1>1 DEF BuildFriction
<1>3. ASSUME NEW i, NEW f, f = BuildFriction(i.usage)
      PROVE Said(Friction(i)) = Spoke(f.observed >= MinCalls /\ f.errors <= f.observed)
  <2>1. CASE i.usage = {}
    <3>1. f.observed = 0
      <4>1. UsageAnswering(i.usage, "tool_calls") = {}
        BY <2>1, NothingAnswers
      <4>2. PICK g : g = {u \in UsageAnswering({}, "tool_errors") : Classified(u) # 0}
        OBVIOUS
      <4>3. g = {}
        BY <4>2, NothingAnswers
      <4>4. f.observed = ColumnSum("calls", g)
        BY <1>3, <4>1, <4>2 DEF BuildFriction
      <4> QED BY <4>3, <4>4, EmptySum
    <3>2. ~(f.observed >= MinCalls)
      BY <3>1, FloorsAssumption
    <3>3. Friction(i) = NoData(NoRate)
      BY <2>1 DEF Friction, FrictionVerdict
    <3>4. Said(NoData(NoRate)) = Spoke(FALSE)
      BY NoDataSaid
    <3> QED BY <3>2, <3>3, <3>4
  <2>2. CASE i.usage # {}
    <3>1. PICK enough \in BOOLEAN : enough = (f.observed >= MinCalls /\ f.errors <= f.observed)
      OBVIOUS
    <3>2. Friction(i) = [Verdict(Reported(enough), Half, f.observed, ShareOf(f.observed, f.calls))
                            EXCEPT !.recorded = f.capable > 0]
      BY <1>3, <2>2, <3>1 DEF Friction, FrictionVerdict
    <3>3. Said(Friction(i)) = Spoke(enough)
      BY <3>2 DEF Said, Verdict, Spoke, Reported
    <3> QED BY <3>1, <3>3 DEF Spoke, Reported
  <2> QED BY <2>1, <2>2
<1> QED BY <1>2, <1>3

LEMMA ReworkHears ==
    ASSUME NEW in, NEW h, Hears(in, h, {"rework"}),
           BuildFriction(h.usage).refusable = BuildFriction(in.usage).refusable
    PROVE  Said(Rework(h)) = Said(Rework(in)) /\ BuildChurn(h.usage).rate = BuildChurn(in.usage).rate
<1>1. UsageAnswering(h.usage, "rework") = UsageAnswering(in.usage, "rework")
  BY DEF Hears
<1>2. BuildChurn(h.usage) = BuildChurn(in.usage)
  BY <1>1 DEF BuildChurn
<1>3. ASSUME NEW i, NEW c, c = BuildChurn(i.usage), NEW refusable, refusable = BuildFriction(i.usage).refusable
      PROVE Said(Rework(i)) = Spoke((c.rows > 0 /\ c.added > 0 /\ ~ExceedsItsWhole(c)) /\ refusable > 0)
  <2>1. CASE i.usage = {}
    <3>1. c.rows = 0
      BY <1>3, <2>1, NothingAnswers, FS_EmptySet DEF BuildChurn
    <3>2. Rework(i) = NoData(NoRate)
      BY <2>1 DEF Rework
    <3> QED BY <3>1, <3>2, NoDataSaid DEF Spoke, Reported
  <2>2. CASE i.usage # {}
    <3>1. PICK enough \in BOOLEAN : enough = ((c.rows > 0 /\ c.added > 0 /\ ~ExceedsItsWhole(c)) /\ refusable > 0)
      OBVIOUS
    <3>0. PICK n, signal : n = Cardinality(ActiveDays(i)) /\ signal = ShareOf(c.tokens, i.totals.tokens)
      OBVIOUS
    <3>2. Rework(i) = Verdict(Reported(enough), Half, n, signal)
      BY <1>3, <2>2, <3>0, <3>1 DEF Rework
    <3>3. Said(Rework(i)) = Spoke(enough)
      BY <3>2, ReportedSaid
    <3> QED BY <3>1, <3>3 DEF Spoke, Reported
  <2> QED BY <2>1, <2>2
<1> QED BY <1>2, <1>3

LEMMA ReasoningHears ==
    ASSUME NEW in, NEW h, Hears(in, h, {"reasoning"}),
           \A i \in {in, h} : /\ IsFiniteSet(i.usage) /\ \A u \in i.usage : Counts(u)
                              /\ i.totals.out = ColumnSum("out", i.usage)
    PROVE  Said(Reasoning(h)) = Said(Reasoning(in)) /\ ReasoningShare(h.usage) = ReasoningShare(in.usage)
<1>1. UsageAnswering(h.usage, "reasoning") = UsageAnswering(in.usage, "reasoning")
  BY DEF Hears
<1>2. ReasoningShare(h.usage) = ReasoningShare(in.usage)
  BY <1>1 DEF ReasoningShare
<1>3. ASSUME NEW i \in {in, h}, NEW out, out = ColumnSum("out", UsageAnswering(i.usage, "reasoning"))
      PROVE Said(Reasoning(i)) = Spoke(out > 0)
  <2>1. out \in Nat /\ i.totals.out \in Nat /\ out <= i.totals.out
    <3>1. UsageAnswering(i.usage, "reasoning") \in SUBSET i.usage /\ "out" \in Counted
      BY DEF UsageAnswering, Counted
    <3> QED BY <1>3, <3>1, ColumnOf
  <2>2. CASE i.totals.out = 0
    <3>1. Reasoning(i) = NoData(NoRate)
      BY <2>2 DEF Reasoning
    <3>2. Said(NoData(NoRate)) = Spoke(FALSE)
      BY NoDataSaid
    <3> QED BY <2>1, <2>2, <3>1, <3>2 DEF Spoke, Reported
  <2>3. CASE i.totals.out # 0
    <3>1. PICK n, signal : n = Cardinality(ActiveDays(i)) /\ signal = ShareOf(out, i.totals.out)
      OBVIOUS
    <3>2. Reasoning(i) = Verdict(Reported(out > 0), IF out > 0 THEN Half ELSE Nothing, n, signal)
      BY <1>3, <2>3, <3>1 DEF Reasoning
    <3> QED BY <3>2 DEF Said, Verdict, Spoke, Reported
  <2> QED BY <2>2, <2>3
<1>4. PICK out : out = ColumnSum("out", UsageAnswering(in.usage, "reasoning"))
  OBVIOUS
<1>5. Said(Reasoning(h)) = Spoke(out > 0)
  BY <1>1, <1>3, <1>4
<1>6. Said(Reasoning(in)) = Spoke(out > 0)
  BY <1>3, <1>4
<1> QED BY <1>2, <1>5, <1>6

LEMMA ContextHears ==
    ASSUME NEW in, NEW h, Hears(in, h, {"compactions"})
    PROVE  /\ Said(ContextHealth(h)) = Said(ContextHealth(in))
           /\ BuildSessionStats(h.sessions).compactionRate = BuildSessionStats(in.sessions).compactionRate
<1>1. SessionsAnswering(h.sessions, "compactions") = SessionsAnswering(in.sessions, "compactions")
  BY DEF Hears
<1>2. \A S : /\ BuildSessionStats(S).compactionRate = ShareWhere(SessionsAnswering(S, "compactions"), "compactions")
             /\ BuildSessionStats(S).compacting = Cardinality(SessionsAnswering(S, "compactions"))
  BY DEF BuildSessionStats
<1>3. ASSUME NEW i, NEW n, n = Cardinality(SessionsAnswering(i.sessions, "compactions"))
      PROVE Said(ContextHealth(i)) = Spoke(n >= SampleFloor)
  <2>1. CASE i.sessions = {}
    <3>1. n = 0
      BY <1>3, <2>1, NothingAnswers, FS_EmptySet
    <3>2. ContextHealth(i) = NoData(NoRate) /\ ~(n >= SampleFloor)
      BY <2>1, <3>1, VerdictsAssumption DEF ContextHealth, ContextVerdict
    <3> QED BY <3>2, NoDataSaid DEF Spoke, Reported
  <2>2. CASE i.sessions # {}
    <3>1. PICK signal : signal = ShareOf(n, BuildSessionStats(i.sessions).count)
      OBVIOUS
    <3>2. ContextHealth(i) = Verdict(Reported(n >= SampleFloor), Half, n, signal)
      BY <1>2, <1>3, <2>2, <3>1 DEF ContextHealth, ContextVerdict
    <3> QED BY <3>2 DEF Said, Verdict, Spoke, Reported
  <2> QED BY <2>1, <2>2
<1> QED BY <1>1, <1>2, <1>3

LEMMA TaxonomyHears ==
    ASSUME NEW in, NEW h, Hears(in, h, {"edits"})
    PROVE  Said(Taxonomy(h)) = Said(Taxonomy(in)) /\ EditMix(h.sessions) = EditMix(in.sessions)
<1>1. SessionsAnswering(h.sessions, "edits") = SessionsAnswering(in.sessions, "edits")
  BY DEF Hears
<1>2. EditMix(h.sessions) = EditMix(in.sessions)
  BY <1>1 DEF EditMix
<1>3. ASSUME NEW i, NEW edited, edited = SessionsAnswering(i.sessions, "edits"),
             NEW n, n = Cardinality(edited), NEW talked, talked = Cardinality({s \in edited : s.edits = 0})
      PROVE  Said(Taxonomy(i)) =
                [read |-> IF n < MinSessions THEN "no-data" ELSE IF 2 * talked > n THEN "chat-led"
                          ELSE IF 2 * (n - talked) > n THEN "edit-led" ELSE "mixed", purity |-> Half]
  <2>1. CASE i.sessions = {}
    <3>1. n = 0
      BY <1>3, <2>1, NothingAnswers, FS_EmptySet
    <3>2. Taxonomy(i) = NoData(NoRate) /\ n < MinSessions
      BY <2>1, <3>1, FloorsAssumption DEF Taxonomy
    <3> QED BY <3>2, NoDataSaid DEF Spoke, Reported
  <2>2. CASE i.sessions # {}
    <3>1. PICK signal : signal = ShareOf(n, Cardinality(i.sessions))
      OBVIOUS
    <3>2. Taxonomy(i) = Verdict(IF n < MinSessions THEN "no-data" ELSE IF 2 * talked > n THEN "chat-led"
                                ELSE IF 2 * (n - talked) > n THEN "edit-led" ELSE "mixed", Half, n, signal)
      BY <1>3, <2>2, <3>1 DEF Taxonomy
    <3> QED BY <3>2 DEF Said, Verdict
  <2> QED BY <2>1, <2>2
<1>4. PICK edited : edited = SessionsAnswering(in.sessions, "edits")
  OBVIOUS
<1>5. PICK n, talked : n = Cardinality(edited) /\ talked = Cardinality({s \in edited : s.edits = 0})
  OBVIOUS
<1>6. PICK said : said = [read |-> IF n < MinSessions THEN "no-data" ELSE IF 2 * talked > n THEN "chat-led"
                                   ELSE IF 2 * (n - talked) > n THEN "edit-led" ELSE "mixed", purity |-> Half]
  OBVIOUS
<1>7. Said(Taxonomy(in)) = said
  BY <1>3, <1>4, <1>5, <1>6
<1>8. Said(Taxonomy(h)) = said
  BY <1>1, <1>3, <1>4, <1>5, <1>6
<1> QED BY <1>2, <1>7, <1>8

LEMMA TurnsHear ==
    ASSUME NEW in, NEW h, Hears(in, h, {"edits"})
    PROVE  Said(TurnEfficiency(h)) = Said(TurnEfficiency(in)) /\ OneShotRate(h) = OneShotRate(in)
<1>1. SessionsAnswering(h.sessions, "edits") = SessionsAnswering(in.sessions, "edits")
  BY DEF Hears
<1>2. OneShotRate(h) = OneShotRate(in)
  BY <1>1 DEF OneShotRate
<1>3. ASSUME NEW i, NEW measured, measured = SessionsAnswering(SessionsAnswering(i.sessions, "edits"), "turns"),
             NEW n, n = Cardinality({s \in measured : s.edits # 0})
      PROVE  Said(TurnEfficiency(i)) = Spoke(n # 0 /\ n >= MinSessions)
  <2>1. PICK signal : signal = ShareOf(Cardinality(measured), Cardinality(i.sessions))
    OBVIOUS
  <2>2. TurnEfficiency(i) = IF n = 0 THEN NoData(signal) ELSE Verdict(Reported(n >= MinSessions), Half, n, signal)
    BY <1>3, <2>1 DEF TurnEfficiency
  <2> QED BY <2>2 DEF NoData, Said, Verdict, Spoke, Reported
<1>4. PICK measured : measured = SessionsAnswering(SessionsAnswering(in.sessions, "edits"), "turns")
  OBVIOUS
<1>5. PICK n : n = Cardinality({s \in measured : s.edits # 0})
  OBVIOUS
<1>6. Said(TurnEfficiency(in)) = Spoke(n # 0 /\ n >= MinSessions)
  BY <1>3, <1>4, <1>5
<1>7. Said(TurnEfficiency(h)) = Spoke(n # 0 /\ n >= MinSessions)
  BY <1>1, <1>3, <1>4, <1>5
<1> QED BY <1>2, <1>6, <1>7

LEMMA LongTierHears ==
    ASSUME NEW in, NEW h, Hears(in, h, {"cache_write_1h"})
    PROVE  LongTier(h) = LongTier(in)
BY DEF Hears, LongTier

\* The input of a window and what is heard of it.
LEMMA InputFields ==
    ASSUME NEW signals
    PROVE  LET in == Input
               h == Heard(Input, signals)
           IN  /\ in.usage = usage /\ in.sessions = sessions /\ in.totals = BuildTotals(Prices, usage)
               /\ h.usage = {u \in usage : SignalsAnsweredBy(u.tool) \cap signals # {}}
               /\ h.sessions = {s \in sessions : SignalsAnsweredBy(s.tool) \cap signals # {}}
               /\ h.totals = BuildTotals(Prices, h.usage)
<1>1. PICK b : b = BuildInput(Prices, usage, sessions)
  OBVIOUS
<1>2. b.totals = BuildTotals(Prices, usage)
  BY <1>1 DEF BuildInput
<1>3. Input = Bundle(b)
  BY <1>1 DEF Input
<1>4. Bundle(b).usage = usage /\ Bundle(b).sessions = sessions /\ Bundle(b).totals = b.totals
  BY DEF Bundle
<1>5. /\ Heard(Bundle(b), signals).usage = {u \in usage : SignalsAnsweredBy(u.tool) \cap signals # {}}
      /\ Heard(Bundle(b), signals).sessions = {s \in sessions : SignalsAnsweredBy(s.tool) \cap signals # {}}
      /\ Heard(Bundle(b), signals).totals
           = BuildTotals(Prices, {u \in usage : SignalsAnsweredBy(u.tool) \cap signals # {}})
  BY DEF Heard, Bundle
<1> QED BY <1>2, <1>3, <1>4, <1>5

LEMMA InputHears ==
    ASSUME WindowTyped, NEW signals
    PROVE  /\ \A some \in SUBSET signals : Hears(Input, Heard(Input, signals), some)
           /\ \A i \in {Input, Heard(Input, signals)} :
                 /\ IsFiniteSet(i.usage) /\ \A u \in i.usage : Counts(u)
                 /\ i.totals.out = ColumnSum("out", i.usage)
<1>1. PICK in, h : in = Input /\ h = Heard(Input, signals)
  OBVIOUS
<1>2. /\ in.usage = usage /\ in.sessions = sessions /\ in.totals = BuildTotals(Prices, usage)
      /\ h.usage = {u \in usage : SignalsAnsweredBy(u.tool) \cap signals # {}}
      /\ h.sessions = {s \in sessions : SignalsAnsweredBy(s.tool) \cap signals # {}}
      /\ h.totals = BuildTotals(Prices, h.usage)
  BY <1>1, InputFields
<1>3. \A some \in SUBSET signals : Hears(in, h, some)
  BY <1>2, HeardAnswers DEF Hears
<1>4. \A rows : BuildTotals(Prices, rows).out = ColumnSum("out", rows)
  BY DEF BuildTotals
<1>5. IsFiniteSet(h.usage) /\ \A u \in h.usage : Counts(u)
  BY <1>2, FS_Subset DEF WindowTyped
<1> QED BY <1>1, <1>2, <1>3, <1>4, <1>5 DEF WindowTyped

LEMMA RefusableHeard ==
    ASSUME NEW in, NEW h, Hears(in, h, {"rejected"})
    PROVE  BuildFriction(h.usage).refusable = BuildFriction(in.usage).refusable
<1>1. \A rows : UsageAnswering(UsageAnswering(rows, "tool_calls"), "rejected")
                  = UsageAnswering(UsageAnswering(rows, "rejected"), "tool_calls")
  BY DEF UsageAnswering
<1>2. \A rows : BuildFriction(rows).refusable = ColumnSum("calls", UsageAnswering(UsageAnswering(rows, "tool_calls"), "rejected"))
  BY DEF BuildFriction
<1>3. UsageAnswering(h.usage, "rejected") = UsageAnswering(in.usage, "rejected")
  BY DEF Hears
<1> QED BY <1>1, <1>2, <1>3

\* Every verdict that names what it is about says the same of what is heard of it.
LEMMA SpokenHeard ==
    ASSUME WindowTyped, NEW verdict \in DOMAIN About, NEW in, NEW h, in = Input, h = Heard(Input, About[verdict])
    PROVE  Spoken(h, verdict) = Spoken(in, verdict)
<1>1. \A some \in SUBSET About[verdict] : Hears(in, h, some)
  BY InputHears
<1>2. CASE verdict = "burn"
  <2>1. Hears(in, h, {"tokens_total"})
    BY <1>1, <1>2 DEF About
  <2>2. UsageAnswering(h.usage, "tokens_total") = UsageAnswering(in.usage, "tokens_total")
    BY <2>1 DEF Hears
  <2> QED BY <1>2, <2>1, <2>2, BurnHears DEF Spoken, SpokenFigures, VerdictOf
<1>3. CASE verdict = "explore"
  <2>1. Hears(in, h, {"tool_calls"})
    BY <1>1, <1>3 DEF About
  <2> QED BY <1>3, <2>1, ExploreHears DEF Spoken, SpokenFigures, VerdictOf
<1>4. CASE verdict = "friction"
  <2>1. Hears(in, h, {"tool_calls"})
    BY <1>1, <1>4 DEF About
  <2> QED BY <1>4, <2>1, FrictionHears DEF Spoken, SpokenFigures, VerdictOf
<1>5. CASE verdict = "rework"
  <2>1. Hears(in, h, {"rework"}) /\ Hears(in, h, {"rejected"})
    BY <1>1, <1>5 DEF About
  <2> QED BY <1>5, <2>1, RefusableHeard, ReworkHears DEF Spoken, SpokenFigures, VerdictOf
<1>6. CASE verdict = "reasoning"
  <2>1. Hears(in, h, {"reasoning"})
    BY <1>1, <1>6 DEF About
  <2>2. \A i \in {in, h} : /\ IsFiniteSet(i.usage) /\ \A u \in i.usage : Counts(u)
                           /\ i.totals.out = ColumnSum("out", i.usage)
    BY InputHears
  <2> QED BY <1>6, <2>1, <2>2, ReasoningHears DEF Spoken, SpokenFigures, VerdictOf
<1>7. CASE verdict = "context"
  <2>1. Hears(in, h, {"compactions"})
    BY <1>1, <1>7 DEF About
  <2> QED BY <1>7, <2>1, ContextHears DEF Spoken, SpokenFigures, VerdictOf
<1>8. CASE verdict = "taxonomy"
  <2>1. Hears(in, h, {"edits"})
    BY <1>1, <1>8 DEF About
  <2> QED BY <1>8, <2>1, TaxonomyHears DEF Spoken, SpokenFigures, VerdictOf
<1>9. CASE verdict = "turns"
  <2>1. Hears(in, h, {"edits"})
    BY <1>1, <1>9 DEF About
  <2> QED BY <1>9, <2>1, TurnsHear DEF Spoken, SpokenFigures, VerdictOf
<1>10. CASE verdict = "long_tier"
  <2>1. Hears(in, h, {"cache_write_1h"})
    BY <1>1, <1>10 DEF About
  <2> QED BY <1>10, <2>1, LongTierHears DEF Spoken, SpokenFigures
<1>11. verdict \in {"burn", "explore", "friction", "rework", "reasoning", "context", "taxonomy", "turns", "long_tier"}
  BY DEF About
<1> QED BY <1>2, <1>3, <1>4, <1>5, <1>6, <1>7, <1>8, <1>9, <1>10, <1>11

\* The read's frame: when it is made, when its window and its store's history start.
Frame == UNION {Frames[s] : s \in Sides}
FrameTyped ==
    frame \in [now : Nat, start : Nat, history : Nat, skills : {f.skills : f \in Frame},
               turnSizing : {f.turnSizing : f \in Frame}]
WindowInv == side \in Sides /\ WindowTyped /\ FrameTyped

LEMMA FrameInit == Init => FrameTyped
<1> SUFFICES ASSUME Init PROVE FrameTyped
  OBVIOUS
<1>1. PICK f \in Frames[side] :
          side \in Sides /\ frame = [now |-> Today * DayLen + 1, start |-> f.start, history |-> f.history,
                                     skills |-> f.skills, turnSizing |-> f.turnSizing]
  BY DEF Init
<1>2. Today * DayLen + 1 \in Nat
  <2>1. Today \in Nat /\ DayLen \in Nat
    BY FiguresAssumption, DayAssumption
  <2> QED BY <2>1, Multiples
<1>3. f.start \in Nat /\ f.history \in Nat /\ f \in Frame
  BY <1>1, FiguresAssumption DEF Frame
<1> QED BY <1>1, <1>2, <1>3 DEF FrameTyped

LEMMA FrameNext == FrameTyped /\ [Next]_vars => FrameTyped'
<1> SUFFICES ASSUME FrameTyped, [Next]_vars PROVE FrameTyped'
  OBVIOUS
<1>1. CASE Elapse
  <2>1. frame' = [frame EXCEPT !.now = @ + DayLen]
    BY <1>1 DEF Elapse
  <2>2. DayLen \in Nat
    BY DayAssumption
  <2> QED BY <2>1, <2>2 DEF FrameTyped
<1>2. CASE frame' = frame
  BY <1>2 DEF FrameTyped
<1>3. Elapse \/ frame' = frame
  BY DEF Next, vars, ImportUsage, ImportSessions, ImportStep, ReadBill, RefreshPrices
<1> QED BY <1>1, <1>2, <1>3

LEMMA WindowHolds == FiguresSpec => []WindowInv
<1>1. Init => WindowInv
  BY WindowInit, FrameInit DEF Init, WindowInv
<1>2. WindowInv /\ [Next]_vars => side' \in Sides
  BY DEF WindowInv, Next, vars, ImportUsage, ImportSessions, ImportStep, ReadBill, RefreshPrices, Elapse
<1>3. WindowInv /\ [Next]_vars => WindowInv'
  BY <1>2, WindowNext, FrameNext DEF WindowInv
<1> QED BY <1>1, <1>3, PTL DEF FiguresSpec

\* A source's silence is never a zero (analyze/capability.go, report/answering.go): no verdict
\* that names its subject changes, and none of its figures, when the usage and the sessions of
\* the sources that cannot record the subject are taken away.
THEOREM SilenceStaysSilence == FiguresSpec => []SilenceIsNotZero
<1>1. WindowTyped => SilenceIsNotZero
  <2> SUFFICES ASSUME WindowTyped, NEW verdict \in DOMAIN About
               PROVE  Cardinality({Spoken(i, verdict) : i \in {Input, Heard(Input, About[verdict])}}) = 1
    BY DEF SilenceIsNotZero, SilentOf
  <2>1. PICK in, h : in = Input /\ h = Heard(Input, About[verdict])
    OBVIOUS
  <2>2. Spoken(h, verdict) = Spoken(in, verdict)
    BY <2>1, SpokenHeard
  <2>3. {Spoken(i, verdict) : i \in {in, h}} = {Spoken(in, verdict)}
    BY <2>2
  <2> QED BY <2>1, <2>3, FS_Singleton
<1>2. WindowInv => SilenceIsNotZero
  BY <1>1 DEF WindowInv
<1> QED BY <1>2, WindowHolds, PTL

-----------------------------------------------------------------------------
(* Trends. *)

\* A sum over some rows of what a trend adds up.
SumOver(rows, signal) == TotalOf([u \in rows |-> Quantity(signal, u)])

LEMMA QuantityTyped ==
    ASSUME NEW rows, IsFiniteSet(rows), \A u \in rows : Counts(u), NEW signal, NEW some \in SUBSET rows
    PROVE  /\ Summable([u \in rows |-> Quantity(signal, u)])
           /\ Part([u \in rows |-> Quantity(signal, u)], some) = [u \in some |-> Quantity(signal, u)]
           /\ SumOver(some, signal) \in Nat
<1> DEFINE f == [u \in rows |-> Quantity(signal, u)]
<1>1. \A u \in rows : Quantity(signal, u) \in Nat
  BY DEF Counts, Counted, Quantity, RowTokens
<1>2. Summable(f) /\ DOMAIN f = rows
  BY <1>1 DEF Summable
<1>3. Part(f, some) = [u \in some |-> Quantity(signal, u)]
  BY DEF Part
<1> HIDE DEF f
<1>4. TotalOf(Part(f, some)) \in Nat
  BY <1>2, PartTotal
<1> QED BY <1>2, <1>3, <1>4 DEF SumOver, f

\* What is summed in two disjoint parts is summed whole.
LEMMA TwoParts ==
    ASSUME NEW rows, IsFiniteSet(rows), \A u \in rows : Counts(u), NEW signal,
           NEW a \in SUBSET rows, NEW b \in SUBSET rows, a \cap b = {}
    PROVE  SumOver(a \cup b, signal) = SumOver(a, signal) + SumOver(b, signal)
<1> DEFINE f == [u \in a \cup b |-> Quantity(signal, u)]
<1>1. IsFiniteSet(a \cup b) /\ a \cup b \in SUBSET rows
  BY FS_Subset
<1>2. Summable(f) /\ Part(f, a) = [u \in a |-> Quantity(signal, u)] /\ Part(f, b) = [u \in b |-> Quantity(signal, u)]
  BY <1>1, QuantityTyped
<1>3. DOMAIN f = a \cup b /\ DOMAIN f \ a = b
  OBVIOUS
<1> HIDE DEF f
<1>4. TotalOf(f) = TotalOf(Part(f, a)) + TotalOf(Part(f, b))
  BY <1>2, <1>3, SplitTotal
<1> QED BY <1>2, <1>4 DEF SumOver, f

\* The sources a trend counts and leaves out are those with a row in its weeks, apart.
LEMMA SourcesApart ==
    ASSUME NEW in, NEW signal, NEW spans, spans = TrendSpans(in), NEW sources, sources = SourcesIn(in, signal),
           IsFiniteSet(in.usage)
    PROVE  /\ sources.counted \cap sources.excluded = {}
           /\ \A u \in UsageAnswering(in.usage, signal) :
                 u.day \in spans.recent \cup spans.prior => u.tool \in sources.counted \cup sources.excluded
           /\ \A v \in sources.counted :
                 \E u \in UsageAnswering(in.usage, signal) : u.tool = v /\ u.day <= spans.from
           /\ IsFiniteSet(sources.excluded)
<1> DEFINE answering == UsageAnswering(in.usage, signal)
           running == {u.tool : u \in {v \in answering : v.day <= spans.from}}
           inSpans == {u.tool : u \in {v \in answering : v.day \in spans.recent \cup spans.prior}}
<1>1. sources.counted = inSpans \cap running /\ sources.excluded = inSpans \ running
  BY DEF SourcesIn
<1>2. \A u \in answering : u.day \in spans.recent \cup spans.prior => u.tool \in inSpans
  OBVIOUS
<1>3. \A v \in running : \E u \in answering : u.tool = v /\ u.day <= spans.from
  OBVIOUS
<1>4. IsFiniteSet(inSpans)
  <2>1. PICK W : W = {v \in answering : v.day \in spans.recent \cup spans.prior}
    OBVIOUS
  <2>2. IsFiniteSet(W)
    BY <2>1, FS_Subset DEF UsageAnswering
  <2>3. PICK g : g = [u \in W |-> u.tool]
    OBVIOUS
  <2>4. inSpans = {g[u] : u \in W} /\ DOMAIN g = W
    BY <2>1, <2>3
  <2> HIDE DEF inSpans
  <2> QED BY <2>2, <2>4, ValuesFinite
<1>5. IsFiniteSet(sources.excluded)
  BY <1>1, <1>4, FS_Subset
<1> QED BY <1>1, <1>2, <1>3, <1>5

LEMMA MaxOfTwo ==
    ASSUME NEW a \in Int, NEW b \in Int
    PROVE  Max({a, b}) \in {a, b} /\ Max({a, b}) >= a /\ Max({a, b}) >= b
<1>1. \E m \in {a, b} : \A n \in {a, b} : m >= n
  OBVIOUS
<1> QED BY <1>1 DEF Max

LEMMA SpansOf ==
    ASSUME NEW in, in.recent = 2, in.now \in Nat, NEW today, today = in.now \div DayLen
    PROVE  /\ today \in Nat
           /\ TrendSpans(in).recent = (today - 2) .. (today - 1)
           /\ TrendSpans(in).prior = (today - 4) .. (today - 3)
           /\ TrendSpans(in).from = today - 4
<1>1. DayLen \in Nat \ {0}
  BY DayAssumption
<1>2. today \in Nat
  BY <1>1
<1>3. Max({2, 1}) = 2
  <2>1. 2 \in Int /\ 1 \in Int
    OBVIOUS
  <2>2. Max({2, 1}) \in {2, 1} /\ Max({2, 1}) >= 2
    BY <2>1, MaxOfTwo
  <2> QED BY <2>2
<1> QED BY <1>2, <1>3 DEF TrendSpans

\* What a trend that read sums read: rows of the sources it counts, over days the window holds.
SumsRead(in, signal, t, today, sources, rows) ==
    /\ t.now = SumOver({u \in rows : u.day \in (today - 2) .. (today - 1) /\ u.tool \in sources.counted}, signal)
    /\ t.was = SumOver({u \in rows : u.day \in (today - 4) .. (today - 3) /\ u.tool \in sources.counted}, signal)
    /\ t.left = SumOver({u \in rows : u.day \in (today - 4) .. (today - 1) /\ u.tool \in sources.excluded}, signal)
    /\ TrendNote(t).sums /\ t.excluded = Cardinality(sources.excluded)
    /\ sources.counted # {}
    /\ in.start # 0 => ~ (in.start > (today - 4) * DayLen)
    /\ in.history # 0 => in.history \div DayLen <= today - 4

LEMMA TrendReads ==
    ASSUME NEW in, in.recent = 2, in.now \in Nat,
           NEW signal, NEW floor, NEW t, t = ReadTrend(in, signal, floor), TrendNote(t).sums \/ t.left # 0
    PROVE  SumsRead(in, signal, t, in.now \div DayLen, SourcesIn(in, signal), UsageAnswering(in.usage, signal))
<1>0. PICK today, sources, rows :
         today = in.now \div DayLen /\ sources = SourcesIn(in, signal) /\ rows = UsageAnswering(in.usage, signal)
  OBVIOUS
<1>1. PICK spans : spans = TrendSpans(in)
  OBVIOUS
<1>2. /\ today \in Nat /\ spans.recent = (today - 2) .. (today - 1) /\ spans.prior = (today - 4) .. (today - 3)
      /\ spans.from = today - 4
  BY <1>0, <1>1, SpansOf
<1>3. t = TrendOf(in, spans, sources, signal, floor)
  BY <1>0, <1>1 DEF ReadTrend
<1>4. TrendGap(in, sources) = "none"
  <2>1. TrendGap(in, sources) \in {"window", "history", "no source", "none"}
    BY DEF TrendGap
  <2>2. ASSUME TrendGap(in, sources) # "none" PROVE ~TrendNote(t).sums /\ t.left = 0
    <3>1. PICK gap : gap = TrendGap(in, sources)
      OBVIOUS
    <3>2. PICK x : t = [gap |-> gap, now |-> 0, was |-> 0, left |-> 0, excluded |-> x]
      BY <1>3, <2>2, <3>1 DEF TrendOf
    <3>3. gap \in {"window", "history", "no source"}
      BY <2>1, <2>2, <3>1
    <3>4. t.gap = gap /\ t.left = 0
      BY <3>2
    <3> QED BY <3>3, <3>4 DEF TrendNote
  <2> QED BY <2>2
<1>5. t = TrendSums(rows, spans, sources, signal, floor)
  BY <1>0, <1>3, <1>4 DEF TrendOf
<1>6. spans.recent \cup spans.prior = (today - 4) .. (today - 1)
  BY <1>2
<1>7. /\ t.now = SumOver({u \in rows : u.day \in (today - 2) .. (today - 1) /\ u.tool \in sources.counted}, signal)
      /\ t.was = SumOver({u \in rows : u.day \in (today - 4) .. (today - 3) /\ u.tool \in sources.counted}, signal)
      /\ t.left = SumOver({u \in rows : u.day \in (today - 4) .. (today - 1) /\ u.tool \in sources.excluded}, signal)
      /\ t.excluded = Cardinality(sources.excluded)
  BY <1>2, <1>5, <1>6 DEF TrendSums, SumOver
<1>8. TrendNote(t).sums
  <2>1. t.gap = SumGap(t.now, t.was, floor)
    BY <1>5 DEF TrendSums
  <2>2. \A x, y : SumGap(x, y, floor) \in {"read", "zero base", "thin"}
    BY DEF SumGap
  <2> QED BY <2>1, <2>2 DEF TrendNote
<1>9. sources.counted # {} /\ (in.start # 0 => ~ (in.start > spans.from * DayLen))
  BY <1>1, <1>4 DEF TrendGap
<1>10. in.history # 0 => in.history \div DayLen <= spans.from
  BY <1>1, <1>4 DEF TrendGap, Horizon, HorizonCovers
<1> QED BY <1>0, <1>2, <1>7, <1>8, <1>9, <1>10 DEF SumsRead

\* A sum a trend read is of its rows; with what it left out it is the two weeks whole.
LEMMA TrendSumsWhole ==
    ASSUME NEW in, IsFiniteSet(in.usage), \A u \in in.usage : Counts(u), in.recent = 2, in.now \in Nat,
           NEW signal, NEW floor, NEW t, t = ReadTrend(in, signal, floor), TrendNote(t).sums,
           NEW today, today = in.now \div DayLen
    PROVE  t.now + t.was + t.left
             = SumOver({u \in UsageAnswering(in.usage, signal) : u.day \in (today - 4) .. (today - 1)}, signal)
<1>1. PICK spans, sources, rows :
         spans = TrendSpans(in) /\ sources = SourcesIn(in, signal) /\ rows = UsageAnswering(in.usage, signal)
  OBVIOUS
<1>2. today \in Nat /\ spans.recent = (today - 2) .. (today - 1) /\ spans.prior = (today - 4) .. (today - 3)
  BY <1>1, SpansOf
<1>3. rows \in SUBSET in.usage /\ IsFiniteSet(rows) /\ \A u \in rows : Counts(u)
  BY <1>1, FS_Subset DEF UsageAnswering
<1>4. PICK a, b, l \in SUBSET rows :
         /\ a = {u \in rows : u.day \in (today - 2) .. (today - 1) /\ u.tool \in sources.counted}
         /\ b = {u \in rows : u.day \in (today - 4) .. (today - 3) /\ u.tool \in sources.counted}
         /\ l = {u \in rows : u.day \in (today - 4) .. (today - 1) /\ u.tool \in sources.excluded}
  OBVIOUS
<1>5. t.now = SumOver(a, signal) /\ t.was = SumOver(b, signal) /\ t.left = SumOver(l, signal)
  <2>1. /\ t.now = SumOver({u \in rows : u.day \in (today - 2) .. (today - 1) /\ u.tool \in sources.counted}, signal)
        /\ t.was = SumOver({u \in rows : u.day \in (today - 4) .. (today - 3) /\ u.tool \in sources.counted}, signal)
        /\ t.left = SumOver({u \in rows : u.day \in (today - 4) .. (today - 1) /\ u.tool \in sources.excluded}, signal)
    <3>1. SumsRead(in, signal, t, today, sources, rows)
      BY <1>1, TrendReads
    <3> QED BY <3>1 DEF SumsRead
  <2> QED BY <1>4, <2>1
<1>6. /\ sources.counted \cap sources.excluded = {}
      /\ \A u \in rows : u.day \in spans.recent \cup spans.prior => u.tool \in sources.counted \cup sources.excluded
  BY <1>1, SourcesApart
<1>7. (today - 4) .. (today - 1) = spans.recent \cup spans.prior /\ spans.recent \cap spans.prior = {}
  BY <1>2
<1>8. a \cap b = {} /\ (a \cup b) \cap l = {} /\ a \cup b \in SUBSET rows
  BY <1>2, <1>4, <1>6, <1>7
<1>9. (a \cup b) \cup l = {u \in rows : u.day \in (today - 4) .. (today - 1)}
  BY <1>2, <1>4, <1>6, <1>7
<1>10. SumOver((a \cup b) \cup l, signal) = SumOver(a, signal) + SumOver(b, signal) + SumOver(l, signal)
  <2>1. SumOver(a \cup b, signal) = SumOver(a, signal) + SumOver(b, signal)
    BY <1>3, <1>8, TwoParts
  <2>2. PICK ab \in SUBSET rows : ab = a \cup b
    BY <1>8
  <2>3. SumOver(ab \cup l, signal) = SumOver(ab, signal) + SumOver(l, signal)
    BY <1>3, <1>8, <2>2, TwoParts
  <2> QED BY <2>1, <2>2, <2>3
<1> QED BY <1>1, <1>5, <1>9, <1>10

\* What some tools wrote on some days, tool by tool.
Tally(rows, tools, days) ==
    [v \in {u.tool : u \in {w \in rows : w.tool \in tools}} |->
        ColumnSum("added", {u \in rows : u.tool = v /\ u.day \in days})]
Together(rows, tools, days) == ColumnSum("added", {u \in rows : u.tool \in tools /\ u.day \in days})

LEMMA ByTool ==
    ASSUME NEW rows, IsFiniteSet(rows), \A u \in rows : Counts(u), NEW tools, NEW days
    PROVE  /\ Summable(Tally(rows, tools, days))
           /\ TotalOf(Tally(rows, tools, days)) = Together(rows, tools, days)
<1>1. PICK S \in SUBSET rows : S = {w \in rows : w.tool \in tools}
  OBVIOUS
<1>2. IsFiniteSet(S) /\ \A u \in S : u.added \in Nat
  BY <1>1, FS_Subset DEF Counts, Counted
<1> DEFINE f == [u \in S |-> IF u.day \in days THEN u.added ELSE 0]
           c == [u \in S |-> u.tool]
           h == [v \in {u.tool : u \in {w \in rows : w.tool \in tools}} |->
                   ColumnSum("added", {u \in rows : u.tool = v /\ u.day \in days})]
<1>3. Summable(f) /\ DOMAIN f = S /\ DOMAIN c = S
  BY <1>2 DEF Summable
<1>4. \A u \in S : f[u] = (IF u.day \in days THEN u.added ELSE 0) /\ c[u] = u.tool
  OBVIOUS
<1> HIDE DEF f, c
<1>5. ASSUME NEW P \in SUBSET S
      PROVE  TotalOf(Part(f, P)) = ColumnSum("added", {u \in P : u.day \in days})
  <2>1. Summable(Part(f, P)) /\ DOMAIN Part(f, P) = P /\ \A u \in P : Part(f, P)[u] = f[u]
    BY <1>3, PartSummable
  <2>2. PICK D \in SUBSET P : D = {u \in P : u.day \in days}
    OBVIOUS
  <2>3. \A u \in P \ D : Part(f, P)[u] = 0
    BY <1>4, <2>1, <2>2
  <2>4. TotalOf(Part(Part(f, P), D)) = TotalOf(Part(f, P))
    BY <2>1, <2>3, SupportTotal
  <2>5. Part(Part(f, P), D) = [u \in D |-> u.added]
    <3>1. \A u \in D : Part(f, P)[u] = u.added
      BY <1>4, <2>1, <2>2
    <3> QED BY <3>1 DEF Part
  <2>6. ColumnSum("added", D) = TotalOf([u \in D |-> u.added])
    BY DEF ColumnSum
  <2> QED BY <2>2, <2>4, <2>5, <2>6
<1>6. ASSUME NEW v \in DOMAIN h PROVE h[v] = TotalOf(Part(f, {u \in DOMAIN f : c[u] = v}))
  <2>1. PICK P \in SUBSET S : P = {u \in S : u.tool = v}
    OBVIOUS
  <2>2. P = {u \in DOMAIN f : c[u] = v}
    BY <1>3, <1>4, <2>1
  <2>3. v \in tools
    BY <1>6
  <2>4. {u \in P : u.day \in days} = {u \in rows : u.tool = v /\ u.day \in days}
    BY <1>1, <2>1, <2>3
  <2> QED BY <1>5, <2>2, <2>4
<1>7. DOMAIN h = {c[u] : u \in DOMAIN f}
  <2>1. DOMAIN h = {u.tool : u \in S}
    BY <1>1
  <2>2. {u.tool : u \in S} = {c[u] : u \in S}
    BY <1>4
  <2> QED BY <1>3, <2>1, <2>2
<1> HIDE DEF h
<1>8. Summable(h) /\ TotalOf(h) = TotalOf(f)
  BY <1>3, <1>6, <1>7, GroupsTotal
<1>9. TotalOf(f) = ColumnSum("added", {u \in S : u.day \in days})
  <2>1. TotalOf(Part(f, S)) = TotalOf(f)
    BY <1>3, SupportTotal
  <2> QED BY <1>5, <2>1
<1>10. {u \in S : u.day \in days} = {u \in rows : u.tool \in tools /\ u.day \in days}
  BY <1>1
<1> QED BY <1>8, <1>9, <1>10 DEF h, Tally, Together

LEMMA DayOf ==
    ASSUME NEW n \in Nat, NEW k \in Nat, NEW len \in Nat \ {0}, n \div len <= k
    PROVE  n < (k + 1) * len
<1>1. n >= (k + 1) * len => n \div len > k
  BY SMTT(30)
<1>2. (k + 1) * len \in Nat /\ n \div len \in Nat
  BY Multiples
<1> QED BY <1>1, <1>2

LEMMA InputFrame ==
    /\ Input.usage = usage /\ Input.recent = 2 /\ Input.now = frame.now
    /\ Input.start = frame.start /\ Input.history = frame.history
<1>1. PICK b : b = BuildInput(Prices, usage, sessions)
  OBVIOUS
<1>2. Input = Bundle(b)
  BY <1>1 DEF Input
<1>3. /\ Bundle(b).usage = usage /\ Bundle(b).recent = 2 /\ Bundle(b).now = frame.now
      /\ Bundle(b).start = frame.start /\ Bundle(b).history = frame.history
  BY DEF Bundle
<1> QED BY <1>2, <1>3

LEMMA TokensWhole == WindowInv => TrendOfTokens(BurnTrend(Input))
<1> SUFFICES ASSUME WindowInv PROVE TrendOfTokens(BurnTrend(Input))
  OBVIOUS
<1>1. PICK in, today, floor :
         /\ in = Input /\ today = frame.now \div DayLen
         /\ floor = MedianTokens(TokensPerDay(UsageAnswering(Input.usage, "tokens_total")))
  OBVIOUS
<1>2. PICK t : t = BurnTrend(in)
  OBVIOUS
<1>3. in.usage = usage /\ in.recent = 2 /\ in.now = frame.now
  BY <1>1, InputFrame
<1>4. IsFiniteSet(usage) /\ (\A u \in usage : Counts(u)) /\ frame.now \in Nat
  BY DEF WindowInv, WindowTyped, FrameTyped
<1>5. t = ReadTrend(in, "tokens_total", floor)
  BY <1>1, <1>2 DEF BurnTrend
<1>6. ASSUME TrendNote(t).sums
      PROVE  t.now + t.was + t.left
               = SumOver({u \in UsageAnswering(usage, "tokens_total") : u.day \in (today - 4) .. (today - 1)}, "tokens_total")
  <2>1. IsFiniteSet(in.usage) /\ (\A u \in in.usage : Counts(u)) /\ in.now \in Nat /\ today = in.now \div DayLen
    BY <1>1, <1>3, <1>4
  <2> QED BY <1>3, <1>5, <1>6, <2>1, TrendSumsWhole
<1>7. {u \in UsageAnswering(usage, "tokens_total") : u.day \in (today - 4) .. (today - 1)}
        = {u \in usage : Tokened(u) /\ u.day \in (today - 4) .. (today - 1)}
  BY DEF UsageAnswering, Tokened
<1>8. \A S : SumOver(S, "tokens_total") = TokensIn(S)
  BY DEF SumOver, TokensIn, Quantity
<1> QED BY <1>1, <1>2, <1>6, <1>7, <1>8 DEF TrendOfTokens

\* What every tool that records lines wrote is what its rows did.
LEMMA LinesByTool ==
    ASSUME WindowTyped, NEW days
    PROVE  TotalOf([v \in {u.tool : u \in usage} \cap {v \in Tools : RecordsLines(v)} |-> Wrote(v, days)])
             = SumOver({u \in UsageAnswering(usage, "lines_added") : u.day \in days}, "lines_added")
<1>1. PICK tools : tools = {v \in Tools : RecordsLines(v)}
  OBVIOUS
<1>2. \A v : RecordsLines(v) => v \in Tools
  BY DEF RecordsLines, Answers, SignalsAnsweredBy, CostSignals
<1>3. {u.tool : u \in usage} \cap tools = {u.tool : u \in {w \in usage : w.tool \in tools}}
  OBVIOUS
<1>4. {u \in usage : u.tool \in tools /\ u.day \in days} = {u \in UsageAnswering(usage, "lines_added") : u.day \in days}
  BY <1>1, <1>2 DEF UsageAnswering, RecordsLines
<1>5. \A S : SumOver(S, "lines_added") = ColumnSum("added", S)
  <2>1. \A u : Quantity("lines_added", u) = u.added
    BY DEF Quantity
  <2> QED BY <2>1 DEF SumOver, ColumnSum
<1>6. TotalOf(Tally(usage, tools, days)) = Together(usage, tools, days)
  BY ByTool DEF WindowTyped
<1>7. [v \in {u.tool : u \in usage} \cap tools |-> Wrote(v, days)] = Tally(usage, tools, days)
  BY <1>3 DEF Wrote, Tally
<1> QED BY <1>1, <1>4, <1>5, <1>6, <1>7 DEF Together

\* What a trend leaves out is said beside it.
LEMMA LeftOutTold == WindowInv => LET t == LinesTrend(Input) IN LeftShare(t)[1] > 0 => TrendNote(t).leftOut
<1> SUFFICES ASSUME WindowInv PROVE LeftShare(LinesTrend(Input))[1] > 0 => TrendNote(LinesTrend(Input)).leftOut
  OBVIOUS
<1>1. PICK in, t, today : in = Input /\ t = LinesTrend(Input) /\ today = Input.now \div DayLen
  OBVIOUS
<1>2. PICK sources, rows : sources = SourcesIn(in, "lines_added") /\ rows = UsageAnswering(in.usage, "lines_added")
  OBVIOUS
<1>3. in.usage = usage /\ in.recent = 2 /\ in.now \in Nat /\ IsFiniteSet(usage)
  BY <1>1, InputFrame DEF WindowInv, WindowTyped, FrameTyped
<1>4. t = ReadTrend(in, "lines_added", LinesFloor)
  BY <1>1 DEF LinesTrend
<1>5. SUFFICES ASSUME t.left # 0 PROVE TrendNote(t).leftOut
  <2>1. ASSUME t.left = 0 PROVE LeftShare(t)[1] = 0
    <3>1. PICK n : LeftShare(t) = FracOf(0, n)
      BY <2>1 DEF LeftShare
    <3>2. FracOf(0, n)[1] = 0
      BY DEF FracOf
    <3> QED BY <3>1, <3>2
  <2> QED BY <1>1, <2>1
<1>6. SumsRead(in, "lines_added", t, today, sources, rows)
  BY <1>1, <1>2, <1>3, <1>4, <1>5, TrendReads
<1>7. TrendNote(t).sums /\ t.excluded = Cardinality(sources.excluded)
      /\ t.left = SumOver({u \in rows : u.day \in (today - 4) .. (today - 1) /\ u.tool \in sources.excluded}, "lines_added")
  BY <1>6 DEF SumsRead
<1>8. sources.excluded # {}
  <2>1. ASSUME sources.excluded = {} PROVE FALSE
    <3>1. {u \in rows : u.day \in (today - 4) .. (today - 1) /\ u.tool \in sources.excluded} = {}
      BY <2>1
    <3>2. SumOver({}, "lines_added") = 0
      <4>1. DOMAIN [u \in {} |-> Quantity("lines_added", u)] = {}
        OBVIOUS
      <4> QED BY <4>1, NothingTotal DEF SumOver
    <3> QED BY <1>5, <1>7, <3>1, <3>2
  <2> QED BY <2>1
<1>9. IsFiniteSet(sources.excluded)
  <2>1. PICK spans : spans = TrendSpans(in)
    OBVIOUS
  <2> QED BY <1>2, <1>3, <2>1, SourcesApart
<1>10. Cardinality(sources.excluded) > 0
  BY <1>8, <1>9, FS_EmptySet, FS_CardinalityType
<1> QED BY <1>7, <1>10 DEF TrendNote

\* A direction is one some source took.
LEMMA SourceMoved ==
    ASSUME WindowTyped, NEW counted, NEW week, NEW before,
           Together(usage, counted, week) > Together(usage, counted, before)
    PROVE  \E tool \in counted : Wrote(tool, week) > Wrote(tool, before)
<1>1. \A days : /\ Summable(Tally(usage, counted, days))
                /\ TotalOf(Tally(usage, counted, days)) = Together(usage, counted, days)
  BY ByTool DEF WindowTyped
<1>2. PICK S \in SUBSET counted : S = {u.tool : u \in {w \in usage : w.tool \in counted}}
  OBVIOUS
<1>3. \A days : /\ DOMAIN Tally(usage, counted, days) = S
                /\ \A v \in S : Tally(usage, counted, days)[v] = Wrote(v, days)
  BY <1>2 DEF Tally, Wrote
<1>4. PICK f, g : f = Tally(usage, counted, week) /\ g = Tally(usage, counted, before)
  OBVIOUS
<1>5. Summable(f) /\ Summable(g) /\ TotalOf(f) > TotalOf(g)
  BY <1>1, <1>4
<1>6. DOMAIN f = S /\ DOMAIN g = S /\ \A v \in S : f[v] = Wrote(v, week) /\ g[v] = Wrote(v, before)
  BY <1>3, <1>4
<1>7. ~ \A v \in S : f[v] <= g[v]
  <2>1. ASSUME \A v \in S : f[v] <= g[v] PROVE FALSE
    <3>1. TotalOf(f) <= TotalOf(g)
      BY <1>5, <1>6, <2>1, LessTotal
    <3>2. TotalOf(f) \in Nat /\ TotalOf(g) \in Nat
      BY <1>5, UnitsAre
    <3> QED BY <1>5, <3>1, <3>2
  <2> QED BY <2>1
<1>8. \A v \in S : f[v] \in Nat /\ g[v] \in Nat
  BY <1>5, <1>6 DEF Summable
<1> QED BY <1>6, <1>7, <1>8

\* A readable direction is over whole days the window and the history hold, of a source that ran
\* when the earlier week opened.
LEMMA DirectionTaken ==
    ASSUME WindowInv, NEW t, t = LinesTrend(Input), Readable(t), NEW today, today = frame.now \div DayLen,
           NEW week, week = (today - 2) .. (today - 1), NEW before, before = (today - 4) .. (today - 3)
    PROVE  LET old == {u.tool : u \in {v \in usage : v.day <= today - 4 /\ RecordsLines(v.tool)}}
           IN  /\ frame.start <= (today - 4) * DayLen
               /\ frame.history # 0 => frame.history < (today - 3) * DayLen
               /\ t.now > t.was => \E tool \in old : Wrote(tool, week) > Wrote(tool, before)
               /\ t.now < t.was => \E tool \in old : Wrote(tool, week) < Wrote(tool, before)
<1>1. PICK in, sources, rows : /\ in = Input /\ sources = SourcesIn(Input, "lines_added")
                               /\ rows = UsageAnswering(usage, "lines_added")
  OBVIOUS
<1>2. /\ in.usage = usage /\ in.recent = 2 /\ in.now = frame.now /\ in.start = frame.start /\ in.history = frame.history
      /\ frame.now \in Nat /\ frame.start \in Nat /\ frame.history \in Nat
      /\ IsFiniteSet(usage) /\ (\A u \in usage : Counts(u)) /\ DayLen \in Nat \ {0} /\ today \in Nat
  BY <1>1, InputFrame, DayAssumption DEF WindowInv, WindowTyped, FrameTyped
<1>3. SumsRead(in, "lines_added", t, today, sources, rows)
  <2>1. t = ReadTrend(in, "lines_added", LinesFloor)
    BY <1>1 DEF LinesTrend
  <2>2. TrendNote(t).sums
    BY DEF Readable, TrendNote
  <2> QED BY <1>1, <1>2, <2>1, <2>2, TrendReads
<1>4. \A v \in sources.counted : \E u \in rows : u.tool = v /\ u.day <= today - 4
  <2>1. PICK spans : spans = TrendSpans(in)
    OBVIOUS
  <2>2. spans.from = today - 4
    BY <1>2, <2>1, SpansOf
  <2> QED BY <1>1, <1>2, <2>1, <2>2, SourcesApart
<1>5. PICK old : old = {u.tool : u \in {v \in usage : v.day <= today - 4 /\ RecordsLines(v.tool)}}
  OBVIOUS
<1>6. sources.counted \in SUBSET old /\ \A u \in usage : u.tool \in sources.counted => u \in rows
  BY <1>1, <1>4, <1>5 DEF UsageAnswering, RecordsLines
<1>7. today - 4 \in Nat
  <2>1. PICK v \in sources.counted : TRUE
    BY <1>3 DEF SumsRead
  <2>2. PICK u \in usage : u.day <= today - 4
    BY <1>1, <1>4, <2>1 DEF UsageAnswering
  <2> QED BY <1>2, <2>2 DEF Counts
<1>8. frame.start <= (today - 4) * DayLen
  <2>1. (today - 4) * DayLen \in Nat
    BY <1>2, <1>7, Multiples
  <2> QED BY <1>2, <1>3, <2>1 DEF SumsRead
<1>9. ASSUME frame.history # 0 PROVE frame.history < (today - 3) * DayLen
  <2>1. PICK k \in Nat : k = today - 4
    BY <1>7
  <2>2. frame.history \div DayLen <= k
    BY <1>2, <1>3, <1>9, <2>1 DEF SumsRead
  <2>3. frame.history < (k + 1) * DayLen
    BY <1>2, <2>2, DayOf
  <2>4. k + 1 = today - 3
    BY <1>2, <2>1
  <2> QED BY <2>3, <2>4
<1>10. t.now = Together(usage, sources.counted, week) /\ t.was = Together(usage, sources.counted, before)
  <2>1. \A S : SumOver(S, "lines_added") = ColumnSum("added", S)
    <3>1. \A u : Quantity("lines_added", u) = u.added
      BY DEF Quantity
    <3> QED BY <3>1 DEF SumOver, ColumnSum
  <2>2. \A days : {u \in rows : u.day \in days /\ u.tool \in sources.counted}
                    = {u \in usage : u.tool \in sources.counted /\ u.day \in days}
    BY <1>1, <1>6 DEF UsageAnswering
  <2>3. /\ t.now = SumOver({u \in rows : u.day \in week /\ u.tool \in sources.counted}, "lines_added")
        /\ t.was = SumOver({u \in rows : u.day \in before /\ u.tool \in sources.counted}, "lines_added")
    BY <1>3 DEF SumsRead
  <2> QED BY <2>1, <2>2, <2>3 DEF Together
<1>11. ASSUME t.now > t.was PROVE \E tool \in old : Wrote(tool, week) > Wrote(tool, before)
  <2>1. \E tool \in sources.counted : Wrote(tool, week) > Wrote(tool, before)
    BY <1>2, <1>10, <1>11, SourceMoved DEF WindowInv
  <2> QED BY <1>6, <2>1
<1>12. ASSUME t.now < t.was PROVE \E tool \in old : Wrote(tool, week) < Wrote(tool, before)
  <2>1. /\ \A c, days : Together(usage, c, days) \in Nat
        /\ \A v, days : Wrote(v, days) \in Nat
    BY <1>2, ColumnOf DEF Wrote, Together, Counted
  <2>2. \E tool \in sources.counted : Wrote(tool, before) > Wrote(tool, week)
    <3>1. t.was > t.now
      BY <1>10, <1>12, <2>1
    <3> QED BY <1>10, <3>1, SourceMoved DEF WindowInv
  <2> QED BY <1>6, <2>1, <2>2
<1> QED BY <1>5, <1>8, <1>9, <1>11, <1>12

\* A trend invents nothing (analyze/trend.go, trend_figure.go): its sums and what it leaves out
\* are the two weeks whole, what it leaves out is said, and a direction is one some source that
\* was already running took, over days the window and the history hold.
THEOREM TrendsInventNothing == FiguresSpec => []TrendInventsNothing
<1>1. WindowInv => TrendInventsNothing
  <2> SUFFICES ASSUME WindowInv PROVE TrendOfLines(LinesTrend(Input)) /\ TrendOfTokens(BurnTrend(Input))
    BY DEF TrendInventsNothing, TrendsOf
  <2>1. TrendOfTokens(BurnTrend(Input))
    BY TokensWhole
  <2>2. PICK t, today : t = LinesTrend(Input) /\ today = frame.now \div DayLen
    OBVIOUS
  <2>3. PICK week, before : week = (today - 2) .. (today - 1) /\ before = (today - 4) .. (today - 3)
    OBVIOUS
  <2>4. TrendNote(t).sums => t.now + t.was + t.left
          = TotalOf([v \in {u.tool : u \in usage} \cap {v \in Tools : RecordsLines(v)} |-> Wrote(v, week \cup before)])
    <3>1. PICK in : in = Input
      OBVIOUS
    <3>2. in.usage = usage /\ in.recent = 2 /\ in.now = frame.now /\ frame.now \in Nat /\ today \in Nat
      BY <2>2, <3>1, InputFrame, DayAssumption DEF WindowInv, FrameTyped
    <3>3. t = ReadTrend(in, "lines_added", LinesFloor)
      BY <2>2, <3>1 DEF LinesTrend
    <3>4. TrendNote(t).sums => t.now + t.was + t.left
            = SumOver({u \in UsageAnswering(usage, "lines_added") : u.day \in (today - 4) .. (today - 1)}, "lines_added")
      <4>1. IsFiniteSet(in.usage) /\ (\A u \in in.usage : Counts(u)) /\ in.now \in Nat /\ today = in.now \div DayLen
        BY <2>2, <3>2 DEF WindowInv, WindowTyped
      <4> QED BY <3>2, <3>3, <4>1, TrendSumsWhole
    <3>5. week \cup before = (today - 4) .. (today - 1)
      BY <2>3, <3>2
    <3> QED BY <3>4, <3>5, LinesByTool DEF WindowInv
  <2>5. LeftShare(t)[1] > 0 => TrendNote(t).leftOut
    BY <2>2, LeftOutTold
  <2>6. Readable(t) =>
          LET old == {u.tool : u \in {v \in usage : v.day <= today - 4 /\ RecordsLines(v.tool)}}
          IN  /\ frame.start <= (today - 4) * DayLen
              /\ frame.history # 0 => frame.history < (today - 3) * DayLen
              /\ t.now > t.was => \E tool \in old : Wrote(tool, week) > Wrote(tool, before)
              /\ t.now < t.was => \E tool \in old : Wrote(tool, week) < Wrote(tool, before)
    BY <2>2, <2>3, DirectionTaken
  <2>7. TrendOfLines(t)
    BY <2>2, <2>3, <2>4, <2>5, <2>6 DEF TrendOfLines
  <2> QED BY <2>1, <2>2, <2>7
<1> QED BY <1>1, WindowHolds, PTL

-----------------------------------------------------------------------------
(* Shares, and which is the smaller. *)

Fractions == Int \X (Nat \ {0})

LEMMA TimesLess == ASSUME NEW k \in Nat \ {0}, NEW x \in Int, NEW y \in Int PROVE k * x < k * y <=> x < y
BY SMTT(30)

LEMMA TimesInt == ASSUME NEW x \in Int, NEW y \in Int PROVE x * y \in Int
OBVIOUS

LEMMA Regroup ==
    ASSUME NEW x \in Int, NEW y \in Int, NEW z \in Int
    PROVE  z * (x * y) = y * (x * z) /\ z * (x * y) = x * (y * z)
BY SMTT(30)

LEMMA CrossLess ==
    ASSUME NEW a \in Int, NEW a2 \in Nat \ {0}, NEW b \in Int, NEW b2 \in Nat \ {0}, NEW c \in Int, NEW c2 \in Nat \ {0}
    PROVE  /\ a * b2 < b * a2 /\ ~(c * b2 < b * c2) => a * c2 < c * a2
           /\ ~(b * a2 < a * b2) /\ b * c2 < c * b2 => a * c2 < c * a2
           /\ ~(b * a2 < a * b2) /\ ~(c * b2 < b * c2) => ~(c * a2 < a * c2)
<1>1. /\ a * b2 \in Int /\ b * a2 \in Int /\ b * c2 \in Int /\ c * b2 \in Int /\ a * c2 \in Int /\ c * a2 \in Int
      /\ c2 * (a * b2) \in Int /\ c2 * (b * a2) \in Int /\ a2 * (b * c2) \in Int /\ a2 * (c * b2) \in Int
      /\ b2 * (a * c2) \in Int /\ b2 * (c * a2) \in Int
  BY TimesInt
<1>2. /\ c2 * (a * b2) = b2 * (a * c2) /\ a2 * (c * b2) = b2 * (c * a2) /\ c2 * (b * a2) = a2 * (b * c2)
  BY Regroup
<1>3. /\ a * b2 < b * a2 <=> c2 * (a * b2) < c2 * (b * a2)
      /\ b * a2 < a * b2 <=> c2 * (b * a2) < c2 * (a * b2)
      /\ b * c2 < c * b2 <=> a2 * (b * c2) < a2 * (c * b2)
      /\ c * b2 < b * c2 <=> a2 * (c * b2) < a2 * (b * c2)
      /\ a * c2 < c * a2 <=> b2 * (a * c2) < b2 * (c * a2)
      /\ c * a2 < a * c2 <=> b2 * (c * a2) < b2 * (a * c2)
  BY <1>1, TimesLess
<1>4. PICK ab, ba, bc, cb, ac, ca :
          /\ ab = c2 * (a * b2) /\ ba = c2 * (b * a2) /\ bc = a2 * (b * c2) /\ cb = a2 * (c * b2)
          /\ ac = b2 * (a * c2) /\ ca = b2 * (c * a2)
  OBVIOUS
<1>5. ab = ac /\ cb = ca /\ ba = bc /\ ab \in Int /\ cb \in Int /\ ba \in Int
  BY <1>1, <1>2, <1>4
<1>6. /\ a * b2 < b * a2 <=> ab < ba
      /\ b * a2 < a * b2 <=> ba < ab
      /\ b * c2 < c * b2 <=> ba < cb
      /\ c * b2 < b * c2 <=> cb < ba
      /\ a * c2 < c * a2 <=> ab < cb
      /\ c * a2 < a * c2 <=> cb < ab
  BY <1>3, <1>4, <1>5
<1> QED BY <1>5, <1>6

\* Shares are ordered.
LEMMA FractionsOrdered ==
    /\ \A x, y \in Fractions : ~Below(x, x) /\ (Below(x, y) => ~Below(y, x))
    /\ \A x, y, z \in Fractions : /\ Below(x, y) /\ ~Below(z, y) => Below(x, z)
                                  /\ ~Below(y, x) /\ Below(y, z) => Below(x, z)
                                  /\ ~Below(y, x) /\ ~Below(z, y) => ~Below(z, x)
<1>1. ASSUME NEW x \in Fractions, NEW y \in Fractions PROVE ~Below(x, x) /\ (Below(x, y) => ~Below(y, x))
  <2>1. x[1] \in Int /\ x[2] \in Int /\ y[1] \in Int /\ y[2] \in Int
    BY DEF Fractions
  <2>2. x[1] * x[2] \in Int /\ x[1] * y[2] \in Int /\ y[1] * x[2] \in Int
    BY <2>1, TimesInt
  <2> QED BY <2>2 DEF Below
<1>2. ASSUME NEW x \in Fractions, NEW y \in Fractions, NEW z \in Fractions
      PROVE  /\ Below(x, y) /\ ~Below(z, y) => Below(x, z)
             /\ ~Below(y, x) /\ Below(y, z) => Below(x, z)
             /\ ~Below(y, x) /\ ~Below(z, y) => ~Below(z, x)
  <2>1. /\ x[1] \in Int /\ x[2] \in Nat \ {0} /\ y[1] \in Int /\ y[2] \in Nat \ {0}
        /\ z[1] \in Int /\ z[2] \in Nat \ {0}
    BY DEF Fractions
  <2>2. PICK a, a2, b, b2, c, c2 : a = x[1] /\ a2 = x[2] /\ b = y[1] /\ b2 = y[2] /\ c = z[1] /\ c2 = z[2]
    OBVIOUS
  <2>3. /\ a * b2 < b * a2 /\ ~(c * b2 < b * c2) => a * c2 < c * a2
        /\ ~(b * a2 < a * b2) /\ b * c2 < c * b2 => a * c2 < c * a2
        /\ ~(b * a2 < a * b2) /\ ~(c * b2 < b * c2) => ~(c * a2 < a * c2)
    <3>1. a \in Int /\ a2 \in Nat \ {0} /\ b \in Int /\ b2 \in Nat \ {0} /\ c \in Int /\ c2 \in Nat \ {0}
      BY <2>1, <2>2
    <3> HIDE <2>1, <2>2
    <3> QED BY <3>1, CrossLess
  <2> QED BY <2>2, <2>3, Zenon DEF Below
<1> QED BY <1>1, <1>2

LEMMA KnownShares == Half \in Fractions /\ Whole \in Fractions /\ Nothing \in Fractions /\ Strong \in Fractions /\ Below(Half, Strong)
BY DEF Half, Whole, Nothing, Strong, Fractions, Below

\* The least of four is one of them, and none is below it.
LEMMA LeastOfTwo ==
    ASSUME NEW a \in Fractions, NEW b \in Fractions
    PROVE  \E m \in {a, b} : ~Below(a, m) /\ ~Below(b, m)
<1>1. CASE Below(b, a)
  BY <1>1, FractionsOrdered
<1>2. CASE ~Below(b, a)
  BY <1>2, FractionsOrdered
<1> QED BY <1>1, <1>2

LEMMA LeastOfFour ==
    ASSUME NEW a \in Fractions, NEW b \in Fractions, NEW c \in Fractions, NEW d \in Fractions, NEW S, S = {a, b, c, d}
    PROVE  Least(S) \in S /\ Least(S) \in Fractions /\ \A f \in S : ~Below(f, Least(S))
<1>1. PICK m \in {a, b} : ~Below(a, m) /\ ~Below(b, m)
  BY LeastOfTwo
<1>2. PICK n \in {c, d} : ~Below(c, n) /\ ~Below(d, n)
  BY LeastOfTwo
<1>3. m \in Fractions /\ n \in Fractions
  OBVIOUS
<1>4. PICK l \in {m, n} : ~Below(m, l) /\ ~Below(n, l)
  BY <1>3, LeastOfTwo
<1>5. \A f \in S : ~Below(f, l)
  BY <1>1, <1>2, <1>3, <1>4, FractionsOrdered
<1>6. \E f \in S : \A g \in S : ~Below(g, f)
  BY <1>5
<1>7. Least(S) \in S /\ \A f \in S : ~Below(f, Least(S))
  BY <1>6 DEF Least
<1> QED BY <1>7

-----------------------------------------------------------------------------
(* Leads. *)

\* A confidence whose samples are counted and whose axes are shares.
Sound(c) ==
    /\ c.samples \in Nat /\ c.activity \in Fractions /\ c.priced \in Fractions /\ c.turn \in Fractions
    /\ SignalShare(c) \in Fractions

LEMMA WeakestOf ==
    ASSUME NEW c, Sound(c)
    PROVE  Least(Axes(c)) \in Fractions /\ \A axis \in Axes(c) : ~Below(axis, Least(Axes(c)))
<1>1. PICK a, b, t, s : a = c.activity /\ b = c.priced /\ t = c.turn /\ s = SignalShare(c)
  OBVIOUS
<1>2. a \in Fractions /\ b \in Fractions /\ t \in Fractions /\ s \in Fractions
  BY <1>1 DEF Sound
<1>3. PICK S : S = {a, b, t, s}
  OBVIOUS
<1>4. Axes(c) = S
  BY <1>1, <1>3 DEF Axes
<1>5. Least(S) \in Fractions /\ \A f \in S : ~Below(f, Least(S))
  BY <1>2, <1>3, LeastOfFour
<1> QED BY <1>4, <1>5

\* What a label above "low" is given for.
LEMMA LabelEarned ==
    ASSUME NEW c, Sound(c), Derive(c) \in {"high", "medium"}
    PROVE  c.samples >= SampleFloor /\ \A axis \in Axes(c) : ~Below(axis, Half)
<1>1. PICK weakest, share, n : weakest = Least(Axes(c)) /\ share = SignalShare(c) /\ n = c.samples
  OBVIOUS
<1>2. n \in Nat /\ SampleFloor \in Nat \ {0} /\ weakest \in Fractions
  BY <1>1, WeakestOf, VerdictsAssumption DEF Sound
<1>3. ~(n <= 0 \/ share = Nothing)
  <2>1. SUFFICES ASSUME n <= 0 \/ share = Nothing PROVE FALSE
    OBVIOUS
  <2>2. Derive(c) = "insufficient"
    BY <1>1, <1>2, <2>1 DEF Derive
  <2> QED BY <2>2
<1>4. n >= SampleFloor
  <2>1. SUFFICES ASSUME n < SampleFloor PROVE FALSE
    BY <1>2
  <2>2. Derive(c) = "low"
    BY <1>1, <1>2, <1>3, <2>1 DEF Derive
  <2> QED BY <2>2
<1>5. Derive(c) = IF ~Below(weakest, Strong) THEN "high" ELSE IF ~Below(weakest, Half) THEN "medium" ELSE "low"
  BY <1>1, <1>2, <1>3, <1>4 DEF Derive
<1>6. ~Below(weakest, Half)
  <2>1. CASE ~Below(weakest, Strong)
    <3>1. ~Below(weakest, Half)
      BY <1>2, <2>1, KnownShares, FractionsOrdered
    <3> QED BY <3>1
  <2>2. CASE Below(weakest, Strong)
    BY <1>5, <2>2
  <2> QED BY <2>1, <2>2
<1>7. \A axis \in Axes(c) : ~Below(axis, weakest) /\ axis \in Fractions
  <2>1. Axes(c) \in SUBSET Fractions
    BY DEF Axes, Sound
  <2> QED BY <1>1, <2>1, WeakestOf
<1>8. ASSUME NEW axis \in Axes(c) PROVE ~Below(axis, Half)
  BY <1>2, <1>6, <1>7, KnownShares, FractionsOrdered
<1> QED BY <1>1, <1>4, <1>8

\* A finding that may lead.
Graded(r) == Sound(r.confidence) /\ r.label \in {"high", "medium"} /\ NameOrder[r.name] \in Nat

LEMMA WeakestShareIs == ASSUME NEW r, Graded(r) PROVE WeakestShare(r) \in Fractions
BY WeakestOf, KnownShares DEF WeakestShare, Graded

\* Which of two findings is worth more attention is a strict order, and total on names apart.
LEMMA AttentionOrdered ==
    ASSUME NEW x, NEW y, NEW z, Graded(x), Graded(y), Graded(z)
    PROVE  /\ ~MoreWorthAttention(x, x)
           /\ MoreWorthAttention(x, y) /\ MoreWorthAttention(y, z) => MoreWorthAttention(x, z)
           /\ NameOrder[x.name] # NameOrder[y.name] => MoreWorthAttention(x, y) \/ MoreWorthAttention(y, x)
<1>1. PICK sx, sy, sz, wx, wy, wz, nx, ny, nz :
          /\ sx = SignalShare(x.confidence) /\ sy = SignalShare(y.confidence) /\ sz = SignalShare(z.confidence)
          /\ wx = WeakestShare(x) /\ wy = WeakestShare(y) /\ wz = WeakestShare(z)
          /\ nx = NameOrder[x.name] /\ ny = NameOrder[y.name] /\ nz = NameOrder[z.name]
  OBVIOUS
<1>2. /\ sx \in Fractions /\ sy \in Fractions /\ sz \in Fractions
      /\ wx \in Fractions /\ wy \in Fractions /\ wz \in Fractions
      /\ nx \in Nat /\ ny \in Nat /\ nz \in Nat
      /\ x.label \in {"high", "medium"} /\ y.label \in {"high", "medium"} /\ z.label \in {"high", "medium"}
  BY <1>1, WeakestShareIs DEF Graded, Sound
<1> DEFINE More(la, sa, wa, na, lb, sb, wb, nb) ==
              \/ la = "high" /\ lb = "medium"
              \/ /\ la = lb
                 /\ \/ Below(sb, sa)
                    \/ ~Below(sa, sb) /\ ~Below(sb, sa) /\ Below(wb, wa)
                    \/ ~Below(sa, sb) /\ ~Below(sb, sa) /\ ~Below(wa, wb) /\ ~Below(wb, wa) /\ na < nb
<1>3. /\ MoreWorthAttention(x, x) <=> More(x.label, sx, wx, nx, x.label, sx, wx, nx)
      /\ MoreWorthAttention(x, y) <=> More(x.label, sx, wx, nx, y.label, sy, wy, ny)
      /\ MoreWorthAttention(y, x) <=> More(y.label, sy, wy, ny, x.label, sx, wx, nx)
      /\ MoreWorthAttention(y, z) <=> More(y.label, sy, wy, ny, z.label, sz, wz, nz)
      /\ MoreWorthAttention(x, z) <=> More(x.label, sx, wx, nx, z.label, sz, wz, nz)
  BY <1>1, Zenon DEF MoreWorthAttention
<1>4. ~More(x.label, sx, wx, nx, x.label, sx, wx, nx)
  BY <1>2, FractionsOrdered
<1>5. nx # ny => \/ More(x.label, sx, wx, nx, y.label, sy, wy, ny)
                 \/ More(y.label, sy, wy, ny, x.label, sx, wx, nx)
  BY <1>2, FractionsOrdered
<1>6. More(x.label, sx, wx, nx, y.label, sy, wy, ny) /\ More(y.label, sy, wy, ny, z.label, sz, wz, nz)
        => More(x.label, sx, wx, nx, z.label, sz, wz, nz)
  BY <1>2, FractionsOrdered
<1> QED BY <1>1, <1>3, <1>4, <1>5, <1>6

\* The leads of some results are actionable, and hold the first places, each once.
LEMMA LeadsInPlace ==
    ASSUME NEW R, IsFiniteSet(R), \A r \in R : Actionable(r) => Graded(r),
           \A x, y \in R : x # y => NameOrder[x.name] # NameOrder[y.name],
           NEW lead, lead = MarkLead(R), NEW led, led = {r \in DOMAIN lead : lead[r] > 0}
    PROVE  /\ led \in SUBSET R /\ \A r \in led : Actionable(r)
           /\ {lead[r] : r \in led} = 1 .. Cardinality(led)
<1> DEFINE A == {r \in R : Actionable(r)}
           W == {p \in A \X A : MoreWorthAttention(p[1], p[2])}
           place == Places(A, W)
           T == {r \in A : place[r] <= RankedMax}
<1>1. IsFiniteSet(A) /\ A \in SUBSET R
  BY FS_Subset
<1>2. \A x, y \in A : <<x, y>> \in W <=> MoreWorthAttention(x, y)
  OBVIOUS
<1>3. \A r \in A : Graded(r)
  OBVIOUS
<1>4. ASSUME NEW r \in A PROVE PlaceOf(R, r) = place[r]
  <2>1. {o \in R : Actionable(o) /\ MoreWorthAttention(o, r)} = {o \in A : <<o, r>> \in W}
    OBVIOUS
  <2>2. place[r] = 1 + Cardinality({o \in A : <<o, r>> \in W})
    BY DEF Places
  <2> QED BY <2>1, <2>2 DEF PlaceOf
<1>5. Rank(R) = T
  <2>1. \A r \in R : r \in Rank(R) <=> Actionable(r) /\ PlaceOf(R, r) <= RankedMax
    BY DEF Rank
  <2>2. Rank(R) \in SUBSET R
    BY DEF Rank
  <2> HIDE DEF place, W
  <2> QED BY <1>4, <2>1, <2>2
<1> HIDE DEF W
<1>6. \A x \in A : <<x, x>> \notin W
  BY <1>2, <1>3, AttentionOrdered
<1>7. \A x, y, z \in A : <<x, y>> \in W /\ <<y, z>> \in W => <<x, z>> \in W
  BY <1>2, <1>3, AttentionOrdered
<1>8. \A x, y \in A : x # y => <<x, y>> \in W \/ <<y, x>> \in W
  BY <1>2, <1>3, AttentionOrdered
<1>9. place \in Bijection(A, 1 .. Cardinality(A))
  BY <1>1, <1>6, <1>7, <1>8, PlacesFill
<1>10. \A r \in A : place[r] > 0 /\ place[r] \in Nat
  <2>1. Cardinality(A) \in Nat
    BY <1>1, FS_CardinalityType
  <2>2. place \in [A -> 1 .. Cardinality(A)]
    BY <1>9 DEF Bijection, Injection
  <2> HIDE DEF place, A
  <2> QED BY <2>1, <2>2
<1> HIDE DEF A, place
<1>11. {place[r] : r \in T} = 1 .. Cardinality(T)
  BY <1>1, <1>9, FirstPlaces DEF RankedMax
<1>12. DOMAIN lead = R /\ \A r \in R : lead[r] = IF r \in T THEN place[r] ELSE 0
  BY <1>4, <1>5 DEF MarkLead
<1>13. led = T
  BY <1>1, <1>10, <1>12
<1>14. {lead[r] : r \in led} = {place[r] : r \in T}
  BY <1>1, <1>12, <1>13
<1> QED BY <1>1, <1>11, <1>13, <1>14 DEF A

\* The other analyses report, or say that there is no data: none gives a finding to watch.
LEMMA OverRowsReports ==
    ASSUME NEW in, NEW n \in {"cache", "explore", "friction", "reasoning", "rework", "throughput"}
    PROVE  VerdictOf(in, n).read # "watch"
<1>1. CASE n = "cache"
  <2>1. Cache(in).read # "watch"
    BY DEF Cache, Verdict, NoData
  <2> QED BY <1>1, <2>1 DEF VerdictOf
<1>2. CASE n = "explore"
  <2>1. ExploreProduce(in).read # "watch"
    BY DEF ExploreProduce, Verdict, NoData, Reported
  <2> QED BY <1>2, <2>1 DEF VerdictOf
<1>3. CASE n = "friction"
  <2>1. Friction(in).read # "watch"
    BY DEF Friction, FrictionVerdict, Verdict, NoData, Reported
  <2> QED BY <1>3, <2>1 DEF VerdictOf
<1>4. CASE n = "reasoning"
  <2>1. Reasoning(in).read # "watch"
    BY DEF Reasoning, Verdict, NoData, Reported
  <2> QED BY <1>4, <2>1 DEF VerdictOf
<1>5. CASE n = "rework"
  <2>1. Rework(in).read # "watch"
    BY DEF Rework, Verdict, NoData, Reported
  <2> QED BY <1>5, <2>1 DEF VerdictOf
<1>6. CASE n = "throughput"
  <2>1. Throughput(in).read # "watch"
    BY DEF Throughput, Verdict, NoData
  <2> QED BY <1>6, <2>1 DEF VerdictOf
<1> QED BY <1>1, <1>2, <1>3, <1>4, <1>5, <1>6

LEMMA OverModelsReports ==
    ASSUME NEW in, NEW n \in {"concentration", "model_fit", "right_sizing", "skills", "recovery"}
    PROVE  VerdictOf(in, n).read # "watch"
<1>1. CASE n = "concentration"
  <2>1. Concentration(in).read # "watch"
    BY DEF Concentration, Verdict, NoData, Reported
  <2> QED BY <1>1, <2>1 DEF VerdictOf
<1>2. CASE n = "model_fit"
  <2>1. ModelFit(in).read # "watch"
    BY DEF ModelFit, Verdict, NoData, Reported
  <2> QED BY <1>2, <2>1 DEF VerdictOf
<1>3. CASE n = "right_sizing"
  <2>1. RightSizing(in).read # "watch"
    BY DEF RightSizing, Verdict, NoData, Reported
  <2> QED BY <1>3, <2>1 DEF VerdictOf
<1>4. CASE n = "skills"
  <2>1. SkillEconomics(in).read # "watch"
    BY DEF SkillEconomics, Verdict, NoData, Reported
  <2> QED BY <1>4, <2>1 DEF VerdictOf
<1>5. CASE n = "recovery"
  <2>1. Recovery(in).read # "watch"
    BY DEF Recovery, RecoveryVerdict, RecoveryRead, Verdict, NoData
  <2> QED BY <1>5, <2>1 DEF VerdictOf
<1> QED BY <1>1, <1>2, <1>3, <1>4, <1>5

LEMMA OverSessionsReports ==
    ASSUME NEW in, NEW n \in {"context", "intent", "rhythm", "taxonomy", "turns"}
    PROVE  VerdictOf(in, n).read # "watch"
<1>1. CASE n = "context"
  <2>1. ContextHealth(in).read # "watch"
    BY DEF ContextHealth, ContextVerdict, Verdict, NoData, Reported
  <2> QED BY <1>1, <2>1 DEF VerdictOf
<1>2. CASE n = "intent"
  <2>1. Intent(in).read # "watch"
    BY DEF Intent, Verdict, NoData
  <2> QED BY <1>2, <2>1 DEF VerdictOf
<1>3. CASE n = "rhythm"
  <2>1. Rhythm(in).read # "watch"
    BY DEF Rhythm, Verdict, NoData, Reported
  <2> QED BY <1>3, <2>1 DEF VerdictOf
<1>4. CASE n = "taxonomy"
  <2>1. Taxonomy(in).read # "watch"
    BY DEF Taxonomy, Verdict, NoData
  <2> QED BY <1>4, <2>1 DEF VerdictOf
<1>5. CASE n = "turns"
  <2>1. TurnEfficiency(in).read # "watch"
    BY DEF TurnEfficiency, Verdict, NoData, Reported
  <2> QED BY <1>5, <2>1 DEF VerdictOf
<1> QED BY <1>1, <1>2, <1>3, <1>4, <1>5

LEMMA OthersReport == ASSUME NEW in, NEW n \in Named \ Watching PROVE VerdictOf(in, n).read # "watch"
BY OverRowsReports, OverModelsReports, OverSessionsReports DEF Named, Watching

\* What a verdict claims: samples it counted, and a share of the window, if it states one.
Claim(v) == v.samples \in Nat /\ (v.signal = NoRate \/ v.signal \in Fractions)

LEMMA DaysCounted ==
    ASSUME NEW rows, IsFiniteSet(rows)
    PROVE  IsFiniteSet({u.day : u \in rows}) /\ Cardinality({u.day : u \in rows}) \in Nat
<1>1. PICK f : f = [u \in rows |-> u.day]
  OBVIOUS
<1>2. DOMAIN f = rows
  BY <1>1
<1>3. IsFiniteSet({f[u] : u \in rows})
  BY <1>2, ValuesFinite
<1>4. {u.day : u \in rows} = {f[u] : u \in rows}
  BY <1>1
<1> QED BY <1>3, <1>4, FS_CardinalityType

LEMMA NoDataClaims == Claim(NoData(NoRate))
BY DEF Claim, NoData, Verdict

LEMMA AdoptionClaims == ASSUME NEW in, IsFiniteSet(in.usage) PROVE Claim(Adoption(in))
<1>1. PICK i, t : i = BuildInsights(in.prices, in.usage, in.now \div DayLen, in.recent, 0).inventory /\ t = LinesTrend(in)
  OBVIOUS
<1>2. Cardinality(ActiveDays(in)) \in Nat
  BY DaysCounted DEF ActiveDays
<1>3. Claim(AdoptionVerdict(in, i, t))
  BY <1>2, NoDataClaims DEF AdoptionVerdict, Claim, Verdict
<1> QED BY <1>1, <1>3 DEF Adoption

LEMMA CoverageClaims == ASSUME NEW in, IsFiniteSet(in.usage) PROVE Claim(CoverageOf(in))
<1>1. Cardinality(ActiveDays(in)) \in Nat
  BY DaysCounted DEF ActiveDays
<1> QED BY <1>1, NoDataClaims DEF CoverageOf, Claim, Verdict

LEMMA SubscriptionClaims == ASSUME NEW in, IsFiniteSet(in.usage) PROVE Claim(Subscription(in))
<1>1. Cardinality(ActiveDays(in)) \in Nat
  BY DaysCounted DEF ActiveDays
<1> QED BY <1>1, NoDataClaims, KnownShares DEF Subscription, Claim, Verdict

LEMMA BurnClaims == ASSUME NEW in, IsFiniteSet(in.usage) PROVE Claim(Burn(in))
<1>1. PICK days : days = TokensPerDay(UsageAnswering(in.usage, "tokens_total"))
  OBVIOUS
<1>2. PICK n, m, signal : n = Cardinality(DOMAIN days) /\ m = Cardinality(ActiveDays(in)) /\ signal = ShareOf(n, m)
  OBVIOUS
<1>3. m \in Nat
  BY <1>2, DaysCounted DEF ActiveDays
<1>4. n \in Nat
  <2>1. IsFiniteSet(UsageAnswering(in.usage, "tokens_total"))
    BY FS_Subset DEF UsageAnswering
  <2>2. DOMAIN days = {u.day : u \in UsageAnswering(in.usage, "tokens_total")}
    BY <1>1 DEF TokensPerDay
  <2> QED BY <1>2, <2>1, <2>2, DaysCounted
<1>5. signal \in Fractions
  BY <1>2, <1>3, <1>4 DEF ShareOf, FracOf, Fractions
<1>6. Burn(in) \in {Verdict(r, p, n, signal) : r \in {"no-data", "good", "watch"}, p \in {Half, <<n - Cardinality(BurnSpikes(days)), n>>}}
  BY <1>1, <1>2 DEF Burn, ReadFor
<1> QED BY <1>4, <1>5, <1>6 DEF Claim, Verdict

\* Sequences as they are read: finitely many, of stamped steps.
TraceTyped(t) == IsFiniteSet(DOMAIN t) /\ \A q \in DOMAIN t : Timed(t[q].steps)

LEMMA PartTyped ==
    ASSUME NEW t, TraceTyped(t), NEW S \in SUBSET DOMAIN t, NEW part, part = Restrict(t, S)
    PROVE  DOMAIN part = S /\ TraceTyped(part) /\ StepsOf(part) \in Nat
<1>1. DOMAIN part = S /\ \A q \in S : part[q] = t[q]
  BY DEF Restrict
<1>2. IsFiniteSet(S)
  BY FS_Subset DEF TraceTyped
<1>3. TraceTyped(part)
  BY <1>1, <1>2 DEF TraceTyped
<1>4. PICK f : f = [q \in DOMAIN part |-> Len(part[q].steps)]
  OBVIOUS
<1>5. Summable(f)
  BY <1>1, <1>3, <1>4 DEF Summable, TraceTyped, Timed
<1> QED BY <1>1, <1>3, <1>4, <1>5, UnitsAre DEF StepsOf

LEMMA OldestTyped == ASSUME NEW t, TraceTyped(t) PROVE NewSet(t).oldest \in Nat
<1>1. Stamps(t) \in SUBSET Nat
  <2> SUFFICES ASSUME NEW s \in Stamps(t) PROVE s \in Nat
    OBVIOUS
  <2>1. PICK r \in Range(t) : \E i \in DOMAIN r.steps : s = r.steps[i].at
    BY DEF Stamps
  <2>2. PICK q \in DOMAIN t : r = t[q]
    BY DEF Range
  <2> QED BY <2>1, <2>2 DEF TraceTyped, Timed
<1>2. Stamps(t) # {} => Min(Stamps(t)) \in Nat
  BY <1>1, MinIs
<1> QED BY <1>2 DEF NewSet

LEMMA DivInt == ASSUME NEW x \in Int, NEW d \in Nat \ {0} PROVE x \div d \in Int
BY SMTT(30)

LEMMA DaysCovered ==
    ASSUME NEW start \in Nat, NEW now \in Nat, NEW oldest \in Nat, NEW days, days = CoveredDays(start, now, oldest, DayLen)
    PROVE  days[1] \in Int /\ days[2] \in Nat \ {0}
<1>1. PICK all, missing : /\ all = (now - start) \div DayLen
                          /\ missing = IF oldest > start THEN (oldest - start) \div DayLen ELSE 0
  OBVIOUS
<1>2. all \in Int /\ missing \in Int
  BY <1>1, DivInt, DayAssumption
<1>3. days = IF start = 0 \/ oldest = 0 \/ all <= 0 THEN <<1, 1>> ELSE <<Max({all - missing, 0}), all>>
  BY <1>1 DEF CoveredDays
<1>4. Max({all - missing, 0}) \in Int
  <2>1. all - missing \in Int /\ 0 \in Int
    BY <1>2
  <2>2. Max({all - missing, 0}) \in {all - missing, 0}
    BY <2>1, MaxOfTwo
  <2> QED BY <2>1, <2>2
<1>5. CASE start = 0 \/ oldest = 0 \/ all <= 0
  BY <1>3, <1>5
<1>6. CASE ~(start = 0 \/ oldest = 0 \/ all <= 0)
  BY <1>2, <1>3, <1>4, <1>6
<1> QED BY <1>5, <1>6

LEMMA PositiveTimes == ASSUME NEW x \in Nat \ {0}, NEW y \in Nat \ {0} PROVE x * y \in Nat \ {0}
BY SMTT(30)

\* The scope a detector reads: part of the window's sequences, and a share of it.
LEMMA ScopeTyped ==
    ASSUME NEW in, NEW t, TraceTyped(t), in.trace = NewSet(t), in.start \in Nat, in.now \in Nat,
           NEW view, view = ScopeView(in.trace, "interactive")
    PROVE  /\ IsFiniteSet(DOMAIN view.sequences) /\ DOMAIN view.sequences \in SUBSET DOMAIN in.trace.sequences
           /\ OverScope(in, view) \in Fractions
<1>1. PICK S : S = {q \in DOMAIN t : ScopeOf(t[q]) = "interactive"}
  OBVIOUS
<1>2. PICK part : part = Restrict(t, S)
  OBVIOUS
<1>3. in.trace.sequences = t /\ in.trace.steps = StepsOf(t)
  BY DEF NewSet
<1>4. RestrictValues(t, LAMBDA q : ScopeOf(q) = "interactive") = part
  BY <1>1, <1>2 DEF RestrictValues
<1>5. /\ view.sequences = part /\ view.steps = StepsOf(part) /\ view.oldest = NewSet(part).oldest
      /\ view.excludedSteps = StepsOf(t) - StepsOf(part)
  BY <1>3, <1>4 DEF ScopeView
<1>6. DOMAIN part = S /\ TraceTyped(part) /\ StepsOf(part) \in Nat
  BY <1>1, <1>2, PartTyped
<1>7. StepsOf(t) \in Nat
  <2>1. PICK all : all = Restrict(t, DOMAIN t)
    OBVIOUS
  <2>2. StepsOf(all) \in Nat
    BY <2>1, PartTyped
  <2>3. [q \in DOMAIN all |-> Len(all[q].steps)] = [q \in DOMAIN t |-> Len(t[q].steps)]
    BY <2>1 DEF Restrict
  <2> QED BY <2>2, <2>3 DEF StepsOf
<1>8. view.oldest \in Nat
  BY <1>5, <1>6, OldestTyped
<1>9. PICK days, share : days = CoveredDays(in.start, in.now, view.oldest, DayLen) /\ share = ExcludedStepShare(view)
  OBVIOUS
<1>10. days[1] \in Int /\ days[2] \in Nat \ {0}
  BY <1>8, <1>9, DaysCovered
<1>11. share[2] \in Nat /\ share[2] - share[1] \in Int
  BY <1>5, <1>6, <1>7, <1>9 DEF ExcludedStepShare
<1>12. Max({share[2], 1}) \in Nat \ {0}
  <2>1. share[2] \in Int /\ 1 \in Int
    BY <1>11
  <2>2. Max({share[2], 1}) \in {share[2], 1} /\ Max({share[2], 1}) >= 1
    BY <2>1, MaxOfTwo
  <2> QED BY <1>11, <2>2
<1>13. (share[2] - share[1]) * days[1] \in Int /\ Max({share[2], 1}) * days[2] \in Nat \ {0}
  BY <1>10, <1>11, <1>12, TimesInt, PositiveTimes
<1>14. OverScope(in, view) \in Fractions
  BY <1>9, <1>13 DEF OverScope, Fractions
<1> QED BY <1>1, <1>3, <1>5, <1>6, <1>14 DEF TraceTyped

LEMMA EditLoopsClaims ==
    ASSUME NEW in, NEW t, TraceTyped(t), in.trace = NewSet(t), in.start \in Nat, in.now \in Nat
    PROVE  Claim(EditLoops(in)) /\ (EditLoops(in).read = "watch" => DOMAIN in.trace.sequences # {})
<1>1. PICK view, profile : view = ScopeView(in.trace, "interactive") /\ profile = BuildRepeats(view)
  OBVIOUS
<1>2. /\ IsFiniteSet(DOMAIN view.sequences) /\ DOMAIN view.sequences \in SUBSET DOMAIN in.trace.sequences
      /\ OverScope(in, view) \in Fractions
  BY <1>1, ScopeTyped
<1>3. Count(view.sequences) \in Nat
  BY <1>2, FS_CardinalityType DEF Count
<1>4. EditLoops(in) = EditLoopsVerdict(in, view, profile)
  BY <1>1 DEF EditLoops
<1>5. Claim(EditLoopsVerdict(in, view, profile))
  BY <1>2, <1>3, NoDataClaims DEF EditLoopsVerdict, Claim, NoData, Verdict
<1>6. EditLoopsVerdict(in, view, profile).read = "watch" => DOMAIN view.sequences # {}
  BY DEF EditLoopsVerdict, NoData, Verdict
<1> QED BY <1>2, <1>4, <1>5, <1>6

LEMMA TokensTyped ==
    ASSUME NEW rows, IsFiniteSet(rows), \A u \in rows : Counts(u), NEW some \in SUBSET rows
    PROVE  TokensIn(some) \in Nat
<1>1. SumOver(some, "tokens_total") \in Nat
  BY QuantityTyped
<1>2. \A u \in some : Quantity("tokens_total", u) = RowTokens(u)
  BY DEF Quantity
<1>3. [u \in some |-> Quantity("tokens_total", u)] = [u \in some |-> RowTokens(u)]
  BY <1>2
<1> QED BY <1>1, <1>3 DEF SumOver, TokensIn

\* An input as its shares of the window need it.
Weighed(in) ==
    /\ IsFiniteSet(in.usage) /\ \A u \in in.usage : Counts(u)
    /\ in.totals.tokens = TokensIn(in.usage)
    /\ IsFiniteSet(DOMAIN in.byModel) /\ \A m \in DOMAIN in.byModel : in.byModel[m].tokens \in Nat

LEMMA SharesTyped ==
    ASSUME NEW in, Weighed(in), NEW shares, shares = CoverageShares(in)
    PROVE  shares.activity \in Fractions /\ shares.priced \in Fractions /\ shares.turn \in Fractions
<1>1. PICK total, priced, active, turns, known :
         /\ total = in.totals.tokens
         /\ priced = TotalOf([m \in {n \in DOMAIN in.byModel : in.byModel[n].priced} |-> in.byModel[m].tokens])
         /\ active = ActivityTokens(in.usage)
         /\ turns = TokensIn({u \in in.usage : u.granularity = "turn"})
         /\ known = TokensIn({u \in in.usage : u.granularity \in {"turn", "session"}})
  OBVIOUS
<1>2. total \in Nat /\ active \in Nat /\ turns \in Nat /\ known \in Nat
  <2>1. \A some \in SUBSET in.usage : TokensIn(some) \in Nat
    BY TokensTyped DEF Weighed
  <2> QED BY <1>1, <2>1 DEF Weighed, ActivityTokens
<1>3. priced \in Nat
  <2>1. PICK f, T : f = [m \in DOMAIN in.byModel |-> in.byModel[m].tokens] /\ T = {n \in DOMAIN in.byModel : in.byModel[n].priced}
    OBVIOUS
  <2>2. Summable(f) /\ T \in SUBSET DOMAIN f
    BY <2>1 DEF Summable, Weighed
  <2>3. Part(f, T) = [m \in T |-> in.byModel[m].tokens]
    BY <2>1 DEF Part
  <2>4. TotalOf(Part(f, T)) \in Nat
    BY <2>2, PartTotal
  <2> QED BY <1>1, <2>1, <2>3, <2>4
<1>4. TurnGranularityShare(in.usage) = IF known = 0 \/ turns = known THEN Whole ELSE <<turns, known>>
  BY <1>1 DEF TurnGranularityShare
<1>5. TurnGranularityShare(in.usage) \in Fractions
  BY <1>2, <1>4, KnownShares DEF Fractions
<1>6. CASE total = 0
  BY <1>1, <1>6, KnownShares DEF CoverageShares
<1>7. CASE total # 0
  <2>1. <<active, total>> \in Fractions /\ <<priced, total>> \in Fractions
    BY <1>2, <1>3, <1>7 DEF Fractions
  <2>2. shares = [activity |-> <<active, total>>, priced |-> <<priced, total>>, turn |-> TurnGranularityShare(in.usage)]
    BY <1>1, <1>7 DEF CoverageShares
  <2> QED BY <1>5, <2>1, <2>2
<1> QED BY <1>6, <1>7

LEMMA ClaimSounds ==
    ASSUME NEW in, Weighed(in), NEW v, Claim(v)
    PROVE  Sound(Stamp(v, in))
<1>1. PICK shares, c : shares = CoverageShares(in) /\ c = Stamp(v, in)
  OBVIOUS
<1>2. shares.activity \in Fractions /\ shares.priced \in Fractions /\ shares.turn \in Fractions
  BY <1>1, SharesTyped
<1>3. /\ c.samples = v.samples /\ c.signal = v.signal /\ c.activity = shares.activity /\ c.priced = shares.priced
      /\ c.turn = shares.turn
  BY <1>1 DEF Stamp
<1>4. SignalShare(c) \in Fractions
  <2>1. CASE c.signal = NoRate
    BY <2>1, KnownShares DEF SignalShare
  <2>2. CASE c.signal # NoRate
    <3>1. c.signal \in Fractions
      BY <1>3, <2>2 DEF Claim
    <3>2. Clamped(c.signal) \in {Nothing, Whole, c.signal}
      BY DEF Clamped
    <3> QED BY <2>2, <3>1, <3>2, KnownShares DEF SignalShare
  <2> QED BY <2>1, <2>2
<1> QED BY <1>1, <1>2, <1>3, <1>4 DEF Sound, Claim

\* The read of a window weighs, and reads its sequences.
LEMMA InputWeighs ==
    ASSUME WindowInv
    PROVE  Weighed(Input) /\ Input.trace = NewSet(trace) /\ Input.start \in Nat /\ Input.now \in Nat
<1>1. PICK b : b = BuildInput(Prices, usage, sessions)
  OBVIOUS
<1>2. Input = Bundle(b)
  BY <1>1 DEF Input
<1>3. /\ Bundle(b).usage = usage /\ Bundle(b).totals = b.totals /\ Bundle(b).byModel = b.byModel
      /\ Bundle(b).trace = NewSet(trace) /\ Bundle(b).start = frame.start /\ Bundle(b).now = frame.now
  BY DEF Bundle
<1>4. b.totals.tokens = TokensIn(usage) /\ b.byModel = BuildModelStats(Prices, usage)
  BY <1>1 DEF BuildInput, BuildTotals
<1>5. IsFiniteSet(usage) /\ \A u \in usage : Counts(u)
  BY DEF WindowInv, WindowTyped
<1>6. PICK key : key = [u \in usage |-> u.model]
  OBVIOUS
<1>7. DOMAIN BuildModelStats(Prices, usage) = Range(key)
  BY <1>6 DEF BuildModelStats, Grouped
<1>8. IsFiniteSet(Range(key))
  <2>1. DOMAIN key = usage
    BY <1>6
  <2>2. IsFiniteSet({key[u] : u \in usage})
    BY <1>5, <2>1, ValuesFinite
  <2> QED BY <2>1, <2>2 DEF Range
<1>9. ASSUME NEW m \in Range(key) PROVE BuildModelStats(Prices, usage)[m].tokens \in Nat
  <2>1. PICK some : some = {u \in DOMAIN key : key[u] = m}
    OBVIOUS
  <2>2. some \in SUBSET usage
    BY <1>6, <2>1
  <2>3. BuildModelStats(Prices, usage)[m].tokens = TokensIn(some)
    BY <1>6, <2>1 DEF BuildModelStats, Grouped
  <2> QED BY <1>5, <2>2, <2>3, TokensTyped
<1> QED BY <1>2, <1>3, <1>4, <1>5, <1>7, <1>8, <1>9 DEF Weighed, WindowInv, FrameTyped

\* The sources that record a failure count calls.
LEMMA FailuresAreOfCalls ==
    ASSUME NEW rows
    PROVE  UsageAnswering(UsageAnswering(rows, "tool_calls"), "tool_errors") = UsageAnswering(rows, "tool_errors")
<1>1. ASSUME NEW tool, Answers(tool, "tool_errors") PROVE Answers(tool, "tool_calls")
  <2>1. tool = "claude"
    BY <1>1 DEF Answers, SignalsAnsweredBy, Depths, Tools, CostSignals, PerTurn, LineSignals, EditSignals
  <2> QED BY <2>1 DEF Answers, SignalsAnsweredBy, Depths, Tools, EditSignals
<1> QED BY <1>1 DEF UsageAnswering

LEMMA BlameMeans ==
    ASSUME NEW c, NEW unit
    PROVE  /\ InsufficientReason(c, unit) = "stale parse" => SignalShare(c) = Nothing /\ c.recorded
           /\ InsufficientReason(c, unit) = "nothing can answer" => SignalShare(c) = Nothing /\ ~c.recorded
BY Zenon DEF InsufficientReason

\* A friction that rests on nothing blames what its rows show.
LEMMA FrictionBlames ==
    ASSUME WindowInv, NEW r, r = Evaluate("friction", Friction(Input), {}, Input)
    PROVE  BlamesTrue(r)
<1>1. PICK c, v, f : c = r.confidence /\ v = Friction(Input) /\ f = BuildFriction(usage)
  OBVIOUS
<1>2. Input.usage = usage
  BY InputFrame
<1>3. c.recorded = v.recorded /\ c.signal = v.signal
  BY <1>1 DEF Evaluate, Stamp
<1>4. v = FrictionVerdict(Input, f)
  BY <1>1, <1>2 DEF Friction
<1>5. CASE usage = {}
  <2>1. c.signal = NoRate
    BY <1>2, <1>3, <1>4, <1>5 DEF FrictionVerdict, NoData, Verdict
  <2>2. SignalShare(c) # Nothing
    BY <2>1 DEF SignalShare, Whole, Nothing
  <2> QED BY <1>1, <2>2, BlameMeans, Zenon DEF BlamesTrue, Blames
<1>6. CASE usage # {}
  <2>1. PICK of, observed : of = UsageAnswering(usage, "tool_errors") /\ observed = {u \in of : Classified(u) # 0}
    OBVIOUS
  <2>2. /\ f.capable = ColumnSum("calls", of) /\ f.observed = ColumnSum("calls", observed)
        /\ f.calls = ColumnSum("calls", UsageAnswering(usage, "tool_calls"))
    BY <1>1, <2>1, FailuresAreOfCalls DEF BuildFriction
  <2>3. c.recorded = (f.capable > 0) /\ c.signal = ShareOf(f.observed, f.calls)
    BY <1>2, <1>3, <1>4, <1>6 DEF FrictionVerdict, Verdict
  <2>4. /\ f.capable \in Nat /\ f.observed \in Nat /\ f.calls \in Nat /\ f.capable <= f.calls
        /\ (f.capable = 0 <=> \A u \in of : u.calls = 0)
        /\ (f.observed = 0 <=> \A u \in observed : u.calls = 0)
    <3>1. IsFiniteSet(usage) /\ \A u \in usage : Counts(u)
      BY DEF WindowInv, WindowTyped
    <3>2. PICK counting : counting = UsageAnswering(usage, "tool_calls")
      OBVIOUS
    <3>3. counting \in SUBSET usage /\ of \in SUBSET counting /\ observed \in SUBSET counting
      BY <2>1, <3>2, FailuresAreOfCalls DEF UsageAnswering
    <3>4. IsFiniteSet(counting) /\ \A u \in counting : Counts(u)
      BY <3>1, <3>3, FS_Subset
    <3>5. "calls" \in Counted
      BY DEF Counted
    <3>6. /\ ColumnSum("calls", of) \in Nat /\ ColumnSum("calls", observed) \in Nat
          /\ ColumnSum("calls", counting) \in Nat /\ ColumnSum("calls", of) <= ColumnSum("calls", counting)
      BY <3>3, <3>4, <3>5, ColumnOf
    <3>7. ASSUME NEW some \in SUBSET counting
          PROVE  ColumnSum("calls", some) = 0 <=> \A u \in some : u.calls = 0
      <4>1. PICK g : g = [u \in some |-> u["calls"]]
        OBVIOUS
      <4>2. IsFiniteSet(some)
        BY <3>4, FS_Subset
      <4>3. Summable(g) /\ DOMAIN g = some /\ \A u \in some : g[u] = u.calls
        BY <3>4, <3>5, <4>1, <4>2 DEF Summable, Counts
      <4>4. ColumnSum("calls", some) = TotalOf(g)
        BY <4>1 DEF ColumnSum
      <4> QED BY <4>3, <4>4, ZeroTotal
    <3> QED BY <2>2, <3>2, <3>3, <3>6, <3>7
  <2>5. SignalShare(c) = Nothing /\ c.recorded => \E u \in of : u.calls > 0 /\ Classified(u) = 0
    <3> SUFFICES ASSUME SignalShare(c) = Nothing, c.recorded PROVE \E u \in of : u.calls > 0 /\ Classified(u) = 0
      OBVIOUS
    <3>0. f.capable > 0
      BY <2>3, Zenon
    <3>1. f.capable > 0 /\ f.calls > 0
      BY <2>4, <3>0
    <3>2. c.signal = <<f.observed, f.calls>> /\ c.signal # NoRate
      BY <2>3, <3>1 DEF ShareOf, FracOf, NoRate
    <3>3. f.observed = 0
      <4>1. SUFFICES ASSUME f.observed # 0 PROVE FALSE
        OBVIOUS
      <4>2. Clamped(c.signal) = Whole \/ Clamped(c.signal) = <<f.observed, f.calls>>
        BY <2>4, <3>2, <4>1 DEF Clamped
      <4>3. Clamped(c.signal) = Nothing
        BY <3>2 DEF SignalShare
      <4> QED BY <2>4, <4>1, <4>2, <4>3 DEF Whole, Nothing
    <3>4. PICK u \in of : u.calls # 0
      BY <2>4, <3>1
    <3>5. u \notin observed
      BY <2>4, <3>3, <3>4
    <3>6. u.calls \in Nat
      BY <2>1 DEF WindowInv, WindowTyped, Counts, Counted, UsageAnswering
    <3> QED BY <2>1, <3>4, <3>5, <3>6
  <2>6. ~c.recorded => \A u \in of : u.calls = 0
    <3> SUFFICES ASSUME ~c.recorded PROVE \A u \in of : u.calls = 0
      OBVIOUS
    <3>1. ~(f.capable > 0)
      BY <2>3, Zenon
    <3>2. f.capable = 0
      BY <2>4, <3>1
    <3> QED BY <2>4, <3>2
  <2> QED BY <1>1, <2>1, <2>5, <2>6, BlameMeans, Zenon DEF BlamesTrue, Blames
<1> QED BY <1>5, <1>6

\* What is read of sequences is of a pool: only the window of steps appends to them.
TraceRead == side = "reads" => TraceTyped(trace)

LEMMA TraceInit == Init => TraceRead
<1> SUFFICES ASSUME Init, side = "reads" PROVE TraceTyped(trace)
  BY DEF TraceRead
<1>1. trace \in TracePool
  BY DEF Init
<1> QED BY <1>1, FiguresAssumption DEF TraceTyped

LEMMA TraceNext == TraceRead /\ [Next]_vars => TraceRead'
<1> SUFFICES ASSUME TraceRead, [Next]_vars PROVE TraceRead'
  OBVIOUS
<1>1. CASE ImportStep
  BY <1>1 DEF ImportStep, TraceRead
<1>2. CASE side' = side /\ trace' = trace
  BY <1>2 DEF TraceRead, TraceTyped
<1>3. ImportStep \/ (side' = side /\ trace' = trace)
  BY DEF Next, vars, ImportUsage, ImportSessions, ReadBill, RefreshPrices, Elapse
<1> QED BY <1>1, <1>2, <1>3

\* What a verdict needs of its input.
NeedsOf(n) == IF n \in DOMAIN Needs THEN Needs[n] ELSE {}

\* A finding that may lead has earned it, and lacks nothing.
LEMMA ResultEarned ==
    ASSUME WindowInv, TraceTyped(trace), NEW n \in Named, NEW r,
           r = Evaluate(n, VerdictOf(Input, n), NeedsOf(n), Input), Actionable(r)
    PROVE  /\ Sound(r.confidence) /\ r.confidence.samples >= SampleFloor
           /\ \A axis \in Axes(r.confidence) : ~Below(axis, Half)
           /\ r.withheld = {}
<1>1. PICK in, v : in = Input /\ v = VerdictOf(Input, n)
  OBVIOUS
<1>2. /\ r.read = v.read /\ r.confidence = Stamp(v, in) /\ r.label = Derive(Stamp(v, in))
      /\ r.withheld = Missing(NeedsOf(n), in)
  BY <1>1 DEF Evaluate
<1>3. v.read = "watch" /\ Derive(Stamp(v, in)) \in {"high", "medium"}
  BY <1>2 DEF Actionable
<1>4. n \in Watching
  BY <1>1, <1>3, OthersReport
<1>5. Weighed(in) /\ in.trace = NewSet(trace) /\ in.start \in Nat /\ in.now \in Nat /\ IsFiniteSet(in.usage)
  BY <1>1, InputWeighs DEF Weighed
<1>6. /\ n = "adoption" => v = Adoption(in)
      /\ n = "burn" => v = Burn(in)
      /\ n = "coverage" => v = CoverageOf(in)
      /\ n = "edit_loops" => v = EditLoops(in)
      /\ n = "subscription" => v = Subscription(in)
  BY <1>1 DEF VerdictOf
<1>7. n \in {"adoption", "burn", "coverage", "edit_loops", "subscription"}
  BY <1>4 DEF Watching
<1>8. Claim(v)
  BY <1>5, <1>6, <1>7, AdoptionClaims, BurnClaims, CoverageClaims, SubscriptionClaims, EditLoopsClaims
<1>9. Sound(Stamp(v, in))
  BY <1>5, <1>8, ClaimSounds
<1>10. r.withheld = {}
  <2>1. CASE n = "edit_loops"
    <3>1. DOMAIN in.trace.sequences # {}
      BY <1>3, <1>5, <1>6, <2>1, EditLoopsClaims
    <3>2. Has(in, "trace")
      BY <3>1 DEF Has
    <3>3. NeedsOf(n) = {"trace"}
      BY <2>1 DEF NeedsOf, Needs
    <3> QED BY <1>2, <3>2, <3>3 DEF Missing
  <2>2. CASE n # "edit_loops"
    <3>1. NeedsOf(n) = {}
      BY <1>7, <2>2 DEF NeedsOf, Needs
    <3> QED BY <1>2, <3>1 DEF Missing
  <2> QED BY <2>1, <2>2
<1> QED BY <1>2, <1>3, <1>9, <1>10, LabelEarned

LEMMA LeadsEarned == WindowInv /\ TraceTyped(trace) => AllLeads(Input)
<1> SUFFICES ASSUME WindowInv, TraceTyped(trace) PROVE AllLeads(Input)
  OBVIOUS
<1> DEFINE Result(n) == Evaluate(n, VerdictOf(Input, n), NeedsOf(n), Input)
<1>1. PICK R, lead, led : R = AllResults(Input) /\ lead = MarkLead(R) /\ led = {r \in DOMAIN lead : lead[r] > 0}
  OBVIOUS
<1>2. R = {Result(n) : n \in DOMAIN NameOrder}
  BY <1>1, Zenon DEF AllResults, NeedsOf
<1>3. \A n : Result(n).name = n
  BY DEF Evaluate
<1>4. \A n \in DOMAIN NameOrder : n \in Named /\ NameOrder[n] \in Nat
  BY FloorsAssumption, VerdictsAssumption
<1>5. ASSUME NEW r \in R, Actionable(r)
      PROVE  /\ Graded(r) /\ r.withheld = {} /\ r.read = "watch"
             /\ r.confidence.samples >= SampleFloor /\ \A axis \in Axes(r.confidence) : ~Below(axis, Half)
  <2>1. PICK n \in DOMAIN NameOrder : r = Result(n)
    BY <1>2
  <2>2. r.name = n /\ n \in Named /\ NameOrder[n] \in Nat
    BY <1>3, <1>4, <2>1
  <2>3. /\ Sound(r.confidence) /\ r.withheld = {}
        /\ r.confidence.samples >= SampleFloor /\ \A axis \in Axes(r.confidence) : ~Below(axis, Half)
    BY <1>5, <2>1, <2>2, ResultEarned
  <2> QED BY <1>5, <2>2, <2>3 DEF Graded, Actionable
<1>6. IsFiniteSet(R)
  <2>1. PICK f : f = [n \in DOMAIN NameOrder |-> Result(n)]
    OBVIOUS
  <2>2. DOMAIN f = DOMAIN NameOrder
    BY <2>1
  <2>3. IsFiniteSet({f[n] : n \in DOMAIN NameOrder})
    BY <2>2, VerdictsAssumption, ValuesFinite
  <2>4. {f[n] : n \in DOMAIN NameOrder} = {Result(n) : n \in DOMAIN NameOrder}
    BY <2>1
  <2> QED BY <1>2, <2>3, <2>4
<1> HIDE DEF Result
<1>7. \A x, y \in R : x # y => NameOrder[x.name] # NameOrder[y.name]
  <2> SUFFICES ASSUME NEW x \in R, NEW y \in R, NameOrder[x.name] = NameOrder[y.name] PROVE x = y
    OBVIOUS
  <2>1. PICK m, n \in DOMAIN NameOrder : x = Result(m) /\ y = Result(n)
    BY <1>2
  <2>2. x.name = m /\ y.name = n
    BY <1>3, <2>1
  <2>3. m = n
    BY <2>1, <2>2, VerdictsAssumption
  <2> QED BY <2>1, <2>3
<1>8. /\ led \in SUBSET R /\ \A r \in led : Actionable(r)
      /\ {lead[r] : r \in led} = 1 .. Cardinality(led)
  <2>1. \A r \in R : Actionable(r) => Graded(r)
    BY <1>5
  <2>2. lead = MarkLead(R) /\ led = {r \in DOMAIN lead : lead[r] > 0}
    BY <1>1
  <2> HIDE <1>1
  <2> QED BY <1>6, <1>7, <2>1, <2>2, LeadsInPlace
<1>9. DOMAIN lead = R
  BY <1>1 DEF MarkLead
<1>10. ASSUME NEW r \in R PROVE BlamesTrue(r)
  <2>1. PICK n \in DOMAIN NameOrder : r = Result(n)
    BY <1>2
  <2>2. CASE n = "friction"
    <3>1. VerdictOf(Input, "friction") = Friction(Input)
      BY DEF VerdictOf
    <3>2. NeedsOf("friction") = {}
      BY DEF NeedsOf, Needs
    <3>3. r = Evaluate("friction", Friction(Input), {}, Input)
      BY <2>1, <2>2, <3>1, <3>2 DEF Result
    <3> QED BY <3>3, FrictionBlames
  <2>3. CASE n # "friction"
    <3>1. r.name # "friction"
      BY <1>3, <2>1, <2>3
    <3> QED BY <3>1 DEF BlamesTrue
  <2> QED BY <2>2, <2>3
<1>11. LeadsOf(lead)
  <2>1. \A r \in led : /\ r.read = "watch" /\ r.confidence.samples >= SampleFloor
                       /\ \A axis \in Axes(r.confidence) : ~Below(axis, Half)
                       /\ r.withheld = {}
    BY <1>5, <1>8
  <2> QED BY <1>1, <1>8, <1>9, <1>10, <2>1 DEF LeadsOf
<1> QED BY <1>1, <1>11 DEF AllLeads

\* A finding leads only on evidence (analyze/ranking.go, confidence.go): enough samples, no axis
\* of its confidence below half the window, no input lacking; the leads hold the first places,
\* each once; and what a failure rate that rests on nothing blames is what the rows show.
THEOREM LeadsAreEarned == FiguresSpec => []LeadsHonest
<1>1. WindowInv /\ TraceRead => LeadsHonest
  BY LeadsEarned DEF TraceRead, LeadsHonest
<1>2. FiguresSpec => []TraceRead
  BY TraceInit, TraceNext, PTL DEF FiguresSpec
<1> QED BY <1>1, <1>2, WindowHolds, PTL
-----------------------------------------------------------------------------
(* What a window costs. *)

LEMMA AtLeastZero == ASSUME NEW a \in Int PROVE Max({a, 0}) = IF a >= 0 THEN a ELSE 0
<1>1. PICK z \in Int : z = 0
  OBVIOUS
<1>2. Max({a, z}) \in {a, z} /\ Max({a, z}) >= a /\ Max({a, z}) >= z
  BY MaxOfTwo
<1>3. Max({a, z}) = IF a >= 0 THEN a ELSE 0
  BY <1>1, <1>2
<1> QED BY <1>1, <1>3

Window(rows) == IsFiniteSet(rows) /\ \A u \in rows : Counts(u)

\* Every entry of a price table charges naturals.
Charging(e) == e.input \in Nat /\ e.output \in Nat /\ e.write \in Nat /\ e.long \in Nat /\ e.read \in Nat
Rated(prices) == \A m \in DOMAIN prices : Charging(prices[m])

\* Token counts as a row has them, the long cache writes among the writes.
Metered(tk) ==
    /\ tk.in \in Nat /\ tk.out \in Nat /\ tk.read \in Nat /\ tk.write \in Nat /\ tk.long \in Nat
    /\ tk.long <= tk.write
Charged(e, tk) ==
    tk.in * e.input + tk.out * e.output + (tk.write - tk.long) * e.write + tk.long * e.long + tk.read * e.read

LEMMA ChargedNat == ASSUME NEW e, Charging(e), NEW tk, Metered(tk) PROVE Charged(e, tk) \in Nat
<1>1. tk.write - tk.long \in Nat
  BY DEF Metered
<1>2. /\ tk.in * e.input \in Nat /\ tk.out * e.output \in Nat /\ (tk.write - tk.long) * e.write \in Nat
      /\ tk.long * e.long \in Nat /\ tk.read * e.read \in Nat
  BY <1>1, Multiples DEF Metered, Charging
<1> QED BY <1>2 DEF Charged

\* Such counts are charged whole: no long write is cut off.
LEMMA CostTokensIs ==
    ASSUME NEW prices, Rated(prices), NEW model, NEW tk, Metered(tk)
    PROVE  /\ Knows(prices, model) => /\ CostTokens(prices, model, tk) = Charged(prices[PricedAs(prices, model)], tk)
                                      /\ CostTokens(prices, model, tk) \in Nat
           /\ ~Knows(prices, model) => CostTokens(prices, model, tk) = Unpriced
<1>1. Max({tk.long, 0}) = tk.long /\ Max({tk.write, 0}) = tk.write
  <2>1. tk.long \in Int /\ tk.write \in Int /\ tk.long >= 0 /\ tk.write >= 0
    BY DEF Metered
  <2> QED BY <2>1, AtLeastZero
<1>2. Min({tk.long, tk.write}) = tk.long
  <2>1. PICK long, write : long = tk.long /\ write = tk.write
    OBVIOUS
  <2>2. long \in Nat /\ write \in Nat /\ long <= write
    BY <2>1 DEF Metered
  <2>3. Min({long, write}) \in {long, write} /\ \A n \in {long, write} : Min({long, write}) <= n
    BY <2>2, MinIs
  <2> QED BY <2>1, <2>2, <2>3
<1>3. ASSUME Knows(prices, model)
      PROVE  CostTokens(prices, model, tk) = Charged(prices[PricedAs(prices, model)], tk)
  BY <1>1, <1>2, <1>3 DEF CostTokens, Charged
<1>4. ASSUME Knows(prices, model) PROVE Charging(prices[PricedAs(prices, model)])
  BY <1>4 DEF Knows, Rated
<1>5. ~Knows(prices, model) => CostTokens(prices, model, tk) = Unpriced
  BY DEF CostTokens
<1> QED BY <1>3, <1>4, <1>5, ChargedNat

\* A row is priced when its model is known, and then charged whole.
LEMMA CostOfRow ==
    ASSUME NEW prices, Rated(prices), NEW u, Counts(u)
    PROVE  /\ IsPriced(prices, u) <=> Knows(prices, u.model)
           /\ IsPriced(prices, u) => CostOf(prices, u) \in Nat
           /\ Metered(TokensOf(u)) /\ RowTokens(u) \in Nat
           /\ Knows(prices, u.model) =>
                  CostOf(prices, u) = Charged(prices[PricedAs(prices, u.model)], TokensOf(u))
<1>1. u.in \in Nat /\ u.out \in Nat /\ u.read \in Nat /\ u.write \in Nat /\ u.long \in Nat /\ u.long <= u.write
  BY DEF Counts, Counted
<1>2. Metered(TokensOf(u)) /\ RowTokens(u) \in Nat
  BY <1>1 DEF Metered, TokensOf, RowTokens
<1>3. /\ Knows(prices, u.model) => /\ CostOf(prices, u) = Charged(prices[PricedAs(prices, u.model)], TokensOf(u))
                                   /\ CostOf(prices, u) \in Nat
      /\ ~Knows(prices, u.model) => CostOf(prices, u) = Unpriced
  BY <1>2, CostTokensIs DEF CostOf
<1> QED BY <1>2, <1>3 DEF IsPriced, Unpriced

\* What a window's rows count: what is priced of them, their tokens, one column, themselves.
Costs(prices, rows) == [u \in rows |-> IF IsPriced(prices, u) THEN CostOf(prices, u) ELSE 0]
Tokens(rows) == [u \in rows |-> RowTokens(u)]
Column(c, rows) == [u \in rows |-> u[c]]
Ones(rows) == [u \in rows |-> 1]

LEMMA RowsCount ==
    ASSUME NEW prices, Rated(prices), NEW rows, Window(rows)
    PROVE  /\ Summable(Costs(prices, rows)) /\ DOMAIN Costs(prices, rows) = rows
           /\ Summable(Tokens(rows)) /\ DOMAIN Tokens(rows) = rows
           /\ \A c \in Counted : Summable(Column(c, rows)) /\ DOMAIN Column(c, rows) = rows
           /\ Summable(Ones(rows)) /\ DOMAIN Ones(rows) = rows
<1>1. IsFiniteSet(rows) /\ \A u \in rows : Counts(u)
  BY DEF Window
<1>2. \A u \in rows : (IF IsPriced(prices, u) THEN CostOf(prices, u) ELSE 0) \in Nat /\ RowTokens(u) \in Nat
  BY <1>1, CostOfRow
<1>3. Summable(Costs(prices, rows)) /\ DOMAIN Costs(prices, rows) = rows
  BY <1>1, <1>2 DEF Summable, Costs
<1>4. Summable(Tokens(rows)) /\ DOMAIN Tokens(rows) = rows
  BY <1>1, <1>2 DEF Summable, Tokens
<1>5. \A c \in Counted : Summable(Column(c, rows)) /\ DOMAIN Column(c, rows) = rows
  BY <1>1 DEF Summable, Column, Counts
<1>6. Summable(Ones(rows)) /\ DOMAIN Ones(rows) = rows
  BY <1>1 DEF Summable, Ones
<1> QED BY <1>3, <1>4, <1>5, <1>6

\* Every sum over some of the rows is such a part.
LEMMA SumsAre ==
    ASSUME NEW prices, Rated(prices), NEW rows, Window(rows), NEW some \in SUBSET rows
    PROVE  /\ TokensIn(some) = PartSum(Tokens(rows), some)
           /\ \A c \in Counted : ColumnSum(c, some) = PartSum(Column(c, rows), some)
           /\ Cardinality(some) = PartSum(Ones(rows), some)
           /\ TotalOf([u \in PricedRows(prices, some) |-> CostOf(prices, u)]) = PartSum(Costs(prices, rows), some)
<1>1. TokensIn(some) = PartSum(Tokens(rows), some)
  <2>1. [u \in some |-> RowTokens(u)] = Part(Tokens(rows), some)
    BY DEF Part, Tokens
  <2> QED BY <2>1 DEF TokensIn, PartSum
<1>2. ASSUME NEW c \in Counted PROVE ColumnSum(c, some) = PartSum(Column(c, rows), some)
  <2>1. [u \in some |-> u[c]] = Part(Column(c, rows), some)
    BY DEF Part, Column
  <2> QED BY <2>1 DEF ColumnSum, PartSum
<1>3. Cardinality(some) = PartSum(Ones(rows), some)
  <2>1. IsFiniteSet(some) /\ DOMAIN Part(Ones(rows), some) = some /\ \A u \in some : Part(Ones(rows), some)[u] = 1
    BY FS_Subset DEF Part, Ones, Window
  <2> QED BY <2>1, CountTotal DEF PartSum
<1>4. TotalOf([u \in PricedRows(prices, some) |-> CostOf(prices, u)]) = PartSum(Costs(prices, rows), some)
  <2>1. PICK f, p : f = Costs(prices, rows) /\ p = PricedRows(prices, some)
    OBVIOUS
  <2>2. Summable(f) /\ DOMAIN f = rows
    BY <2>1, RowsCount
  <2>3. p \in SUBSET some /\ (\A u \in some \ p : f[u] = 0) /\ (\A u \in p : f[u] = CostOf(prices, u))
    BY <2>1 DEF Costs, PricedRows
  <2>4. Summable(Part(f, some)) /\ DOMAIN Part(f, some) = some /\ \A u \in some : Part(f, some)[u] = f[u]
    BY <2>2, PartSummable
  <2>5. TotalOf(Part(Part(f, some), p)) = TotalOf(Part(f, some))
    BY <2>3, <2>4, SupportTotal
  <2>6. Part(Part(f, some), p) = [u \in p |-> CostOf(prices, u)]
    BY <2>3, <2>4 DEF Part
  <2> QED BY <2>1, <2>5, <2>6 DEF PartSum
<1> QED BY <1>1, <1>2, <1>3, <1>4

\* The priced part of a window: absent when no row is priced.
Paid(prices, rows) == Max({TotalCost(prices, rows), 0})

LEMMA TotalCostIs ==
    ASSUME NEW prices, Rated(prices), NEW rows, Window(rows), NEW some \in SUBSET rows
    PROVE  /\ PartSum(Costs(prices, rows), some) \in Nat
           /\ TotalCost(prices, some) = IF PricedRows(prices, some) = {} THEN Unpriced
                                        ELSE PartSum(Costs(prices, rows), some)
           /\ TotalCost(prices, some) = Unpriced <=> PricedRows(prices, some) = {}
           /\ PricedRows(prices, some) = {} => PartSum(Costs(prices, rows), some) = 0
           /\ Paid(prices, some) = PartSum(Costs(prices, rows), some)
<1>1. PICK f, n : f = Costs(prices, rows) /\ n = PartSum(f, some)
  OBVIOUS
<1>2. Summable(f) /\ DOMAIN f = rows
  BY <1>1, RowsCount
<1>3. n \in Nat
  BY <1>1, <1>2, PartSumNat
<1>4. TotalOf([u \in PricedRows(prices, some) |-> CostOf(prices, u)]) = n
  BY <1>1, SumsAre
<1>5. TotalCost(prices, some) = IF PricedRows(prices, some) = {} THEN Unpriced ELSE n
  BY <1>4 DEF TotalCost
<1>6. PricedRows(prices, some) = {} => n = 0
  <2> SUFFICES ASSUME PricedRows(prices, some) = {} PROVE n = 0
    OBVIOUS
  <2>1. \A u \in some : f[u] = 0
    BY <1>1 DEF PricedRows, Costs
  <2> QED BY <1>1, <1>2, <2>1, PartSumZero
<1>7. PICK c : c = TotalCost(prices, some)
  OBVIOUS
<1>8. (c = -1 /\ n = 0) \/ c = n
  BY <1>5, <1>6, <1>7 DEF Unpriced
<1>9. Max({c, 0}) = n
  BY <1>3, <1>8, AtLeastZero
<1> QED BY <1>1, <1>3, <1>5, <1>6, <1>7, <1>9 DEF Paid, Unpriced
-----------------------------------------------------------------------------
(* The ratio of cost to lines. *)

Kinds == {"own", "blind", "unpriced", "shared"}
RateFields == {"cost", "lines", "tokens", "lineRows", "blindRows", "blindTokens", "blindCost",
               "unpricedTokens", "unpricedLines", "sharedTokens", "sharedLines"}

\* Of which standing are the rows a figure sums, and what it sums of them.
KindsOf == [cost |-> {"own"}, lines |-> {"own"}, tokens |-> {"own"}, lineRows |-> {"own", "unpriced", "shared"},
            blindRows |-> {"blind"}, blindTokens |-> {"blind"}, blindCost |-> {"blind"},
            unpricedTokens |-> {"unpriced"}, unpricedLines |-> {"unpriced"},
            sharedTokens |-> {"shared"}, sharedLines |-> {"shared"}]
Weighing(prices, rows) ==
    [cost |-> Costs(prices, rows), lines |-> Column("added", rows), tokens |-> Tokens(rows), lineRows |-> Ones(rows),
     blindRows |-> Ones(rows), blindTokens |-> Tokens(rows), blindCost |-> Costs(prices, rows),
     unpricedTokens |-> Tokens(rows), unpricedLines |-> Column("added", rows),
     sharedTokens |-> Tokens(rows), sharedLines |-> Column("added", rows)]
RateOf(prices, credit, some) == LineRate(prices, credit, some, FALSE)
ByField(r) == [f \in RateFields |-> r[f]]
Stands(prices, credit, some, kinds) == {u \in some : Standing(prices, credit, u, FALSE) \in kinds}
Held(prices, credit, some, f) == Stands(prices, credit, some, KindsOf[f])

LEMMA StandingIs ==
    ASSUME NEW prices, NEW credit, NEW u
    PROVE  /\ Standing(prices, credit, u, FALSE) \in Kinds
           /\ Standing(prices, credit, u, FALSE) = "own" => IsPriced(prices, u)
BY DEF Standing, Kinds

LEMMA WeighingIs ==
    ASSUME NEW prices, Rated(prices), NEW rows, Window(rows), NEW f \in RateFields
    PROVE  Summable(Weighing(prices, rows)[f]) /\ DOMAIN Weighing(prices, rows)[f] = rows
<1>1. "added" \in Counted
  BY DEF Counted
<1>2. PICK a, b, c, d : a = Costs(prices, rows) /\ b = Column("added", rows) /\ c = Tokens(rows) /\ d = Ones(rows)
  OBVIOUS
<1>3. \A x \in {a, b, c, d} : Summable(x) /\ DOMAIN x = rows
  BY <1>1, <1>2, RowsCount
<1>4. Weighing(prices, rows)[f] \in {a, b, c, d}
  BY <1>2 DEF Weighing, RateFields
<1> QED BY <1>3, <1>4

\* The ratio of some of a window's rows sums, for each figure, the rows of its standing.
LEMMA LineRateIs ==
    ASSUME NEW prices, Rated(prices), NEW rows, Window(rows), NEW some \in SUBSET rows, NEW credit
    PROVE  /\ DOMAIN RateOf(prices, credit, some) = RateFields
           /\ RateOf(prices, credit, some) = ByField(RateOf(prices, credit, some))
           /\ \A f \in RateFields : RateOf(prices, credit, some)[f]
                                      = PartSum(Weighing(prices, rows)[f], Held(prices, credit, some, f))
<1>1. PICK own, blind, unpriced, shared :
          /\ own = Stands(prices, credit, some, {"own"}) /\ blind = Stands(prices, credit, some, {"blind"})
          /\ unpriced = Stands(prices, credit, some, {"unpriced"}) /\ shared = Stands(prices, credit, some, {"shared"})
  OBVIOUS
<1>2. own \cup unpriced \cup shared = Stands(prices, credit, some, {"own", "unpriced", "shared"})
  BY <1>1 DEF Stands
<1>3. own \in SUBSET rows /\ blind \in SUBSET rows /\ unpriced \in SUBSET rows /\ shared \in SUBSET rows
  BY <1>1 DEF Stands
<1>4. PricedRows(prices, own) = own
  BY <1>1, StandingIs DEF PricedRows, Stands
<1>5. PICK r : r = [cost |-> TotalOf([u \in own |-> CostOf(prices, u)]), lines |-> ColumnSum("added", own),
         tokens |-> TokensIn(own),
         lineRows |-> Cardinality(own \cup unpriced \cup shared),
         blindRows |-> Cardinality(blind), blindTokens |-> TokensIn(blind),
         blindCost |-> TotalOf([u \in PricedRows(prices, blind) |-> CostOf(prices, u)]),
         unpricedTokens |-> TokensIn(unpriced), unpricedLines |-> ColumnSum("added", unpriced),
         sharedTokens |-> TokensIn(shared), sharedLines |-> ColumnSum("added", shared)]
  OBVIOUS
<1>6. RateOf(prices, credit, some) = r
  <2>1. PICK part : part = [s \in {"own", "blind", "unpriced", "shared"} |->
                               {u \in some : Standing(prices, credit, u, FALSE) = s}]
    OBVIOUS
  <2>2. part["own"] = own /\ part["blind"] = blind /\ part["unpriced"] = unpriced /\ part["shared"] = shared
    BY <1>1, <2>1 DEF Stands
  <2>3. LineSums(prices, part) = r
    BY <1>5, <2>2 DEF LineSums
  <2> QED BY <2>1, <2>3 DEF RateOf, LineRate
<1>7. "added" \in Counted
  BY DEF Counted
<1>8. TotalOf([u \in own |-> CostOf(prices, u)]) = PartSum(Costs(prices, rows), own)
  BY <1>3, <1>4, SumsAre
<1>9. /\ ColumnSum("added", own) = PartSum(Column("added", rows), own) /\ TokensIn(own) = PartSum(Tokens(rows), own)
      /\ Cardinality(own \cup unpriced \cup shared) = PartSum(Ones(rows), own \cup unpriced \cup shared)
  BY <1>3, <1>7, SumsAre
<1>10. /\ Cardinality(blind) = PartSum(Ones(rows), blind) /\ TokensIn(blind) = PartSum(Tokens(rows), blind)
       /\ TotalOf([u \in PricedRows(prices, blind) |-> CostOf(prices, u)]) = PartSum(Costs(prices, rows), blind)
  BY <1>3, SumsAre
<1>11. /\ TokensIn(unpriced) = PartSum(Tokens(rows), unpriced)
       /\ ColumnSum("added", unpriced) = PartSum(Column("added", rows), unpriced)
       /\ TokensIn(shared) = PartSum(Tokens(rows), shared)
       /\ ColumnSum("added", shared) = PartSum(Column("added", rows), shared)
  BY <1>3, <1>7, SumsAre
<1>12. DOMAIN r = RateFields /\ r = ByField(r)
  BY <1>5 DEF RateFields, ByField
<1>13. ASSUME NEW f \in RateFields
       PROVE  r[f] = PartSum(Weighing(prices, rows)[f], Held(prices, credit, some, f))
  <2>1. CASE f = "cost"
    BY <1>1, <1>5, <1>8, <2>1 DEF Weighing, Held, KindsOf
  <2>2. CASE f = "lines"
    BY <1>1, <1>5, <1>9, <2>2 DEF Weighing, Held, KindsOf
  <2>3. CASE f = "tokens"
    BY <1>1, <1>5, <1>9, <2>3 DEF Weighing, Held, KindsOf
  <2>4. CASE f = "lineRows"
    BY <1>2, <1>5, <1>9, <2>4 DEF Weighing, Held, KindsOf
  <2>5. CASE f = "blindRows"
    BY <1>1, <1>5, <1>10, <2>5 DEF Weighing, Held, KindsOf
  <2>6. CASE f = "blindTokens"
    BY <1>1, <1>5, <1>10, <2>6 DEF Weighing, Held, KindsOf
  <2>7. CASE f = "blindCost"
    BY <1>1, <1>5, <1>10, <2>7 DEF Weighing, Held, KindsOf
  <2>8. CASE f = "unpricedTokens"
    BY <1>1, <1>5, <1>11, <2>8 DEF Weighing, Held, KindsOf
  <2>9. CASE f = "unpricedLines"
    BY <1>1, <1>5, <1>11, <2>9 DEF Weighing, Held, KindsOf
  <2>10. CASE f = "sharedTokens"
    BY <1>1, <1>5, <1>11, <2>10 DEF Weighing, Held, KindsOf
  <2>11. CASE f = "sharedLines"
    BY <1>1, <1>5, <1>11, <2>11 DEF Weighing, Held, KindsOf
  <2> QED BY <2>1, <2>2, <2>3, <2>4, <2>5, <2>6, <2>7, <2>8, <2>9, <2>10, <2>11 DEF RateFields
<1> QED BY <1>6, <1>12, <1>13

\* The ratios of a window's groups merge to the window's, whatever the groups.
LEMMA RatesMerge ==
    ASSUME NEW prices, Rated(prices), NEW rows, Window(rows), NEW credit, NEW c, DOMAIN c = rows, NEW bases,
           \A g : g \in DOMAIN bases <=> \E u \in rows : c[u] = g,
           \A g \in DOMAIN bases : bases[g] = RateOf(prices, credit, Fiber(c, rows, g))
    PROVE  Merge(bases) = RateOf(prices, credit, rows)
<1>1. ASSUME NEW f \in RateFields
      PROVE  TotalOf([g \in DOMAIN bases |-> bases[g][f]]) = RateOf(prices, credit, rows)[f]
  <2>1. PICK w, m, h : /\ w = Weighing(prices, rows)[f] /\ m = Held(prices, credit, rows, f)
                       /\ h = [g \in DOMAIN bases |-> bases[g][f]]
    OBVIOUS
  <2>2. Summable(w) /\ DOMAIN w = rows
    BY <2>1, WeighingIs
  <2>3. m \in SUBSET rows
    BY <2>1 DEF Held, Stands
  <2>4. ASSUME NEW g \in DOMAIN h PROVE h[g] = PartSum(w, Fiber(c, m, g))
    <3>1. PICK s : s = Fiber(c, rows, g)
      OBVIOUS
    <3>2. s \in SUBSET rows
      BY <3>1 DEF Fiber
    <3>3. h[g] = RateOf(prices, credit, s)[f]
      BY <2>1, <3>1
    <3>4. h[g] = PartSum(w, Held(prices, credit, s, f))
      BY <2>1, <3>2, <3>3, LineRateIs
    <3>5. Held(prices, credit, s, f) = Fiber(c, m, g)
      BY <2>1, <3>1 DEF Held, Stands, Fiber
    <3> QED BY <3>4, <3>5
  <2>5. \A g : g \in DOMAIN h <=> \E u \in DOMAIN w : c[u] = g
    BY <2>1, <2>2
  <2>6. DOMAIN c = DOMAIN w
    BY <2>2
  <2>7. TotalOf(h) = PartSum(w, m)
    BY <2>2, <2>3, <2>4, <2>5, <2>6, PartSumGroups
  <2>8. RateOf(prices, credit, rows)[f] = PartSum(w, m)
    BY <2>1, LineRateIs
  <2> QED BY <2>1, <2>7, <2>8
<1>2. PICK r : r = RateOf(prices, credit, rows)
  OBVIOUS
<1>3. r = ByField(r)
  BY <1>2, LineRateIs
<1>4. Merge(bases) = [f \in RateFields |-> TotalOf([g \in DOMAIN bases |-> bases[g][f]])]
  BY DEF Merge, RateFields
<1>5. [f \in RateFields |-> TotalOf([g \in DOMAIN bases |-> bases[g][f]])] = ByField(r)
  BY <1>1, <1>2 DEF ByField
<1> QED BY <1>2, <1>3, <1>4, <1>5

\* Every token of a window stands in one of four ways.
LEMMA RateOfWhole ==
    ASSUME NEW prices, Rated(prices), NEW rows, Window(rows), NEW credit, NEW r, r = RateOf(prices, credit, rows)
    PROVE  /\ \A f \in RateFields : r[f] \in Nat
           /\ r.tokens + r.blindTokens + r.unpricedTokens + r.sharedTokens = TokensIn(rows)
<1>1. PICK w, a, b, c, d : /\ w = Tokens(rows)
                           /\ a = Stands(prices, credit, rows, {"own"}) /\ b = Stands(prices, credit, rows, {"blind"})
                           /\ c = Stands(prices, credit, rows, {"unpriced"}) /\ d = Stands(prices, credit, rows, {"shared"})
  OBVIOUS
<1>2. Summable(w) /\ DOMAIN w = rows
  BY <1>1, RowsCount
<1>3. a \in SUBSET rows /\ b \in SUBSET rows /\ c \in SUBSET rows /\ d \in SUBSET rows
  BY <1>1 DEF Stands
<1>4. a \cap b = {} /\ (a \cup b) \cap c = {} /\ (a \cup b \cup c) \cap d = {}
  BY <1>1 DEF Stands
<1>5. a \cup b \cup c \cup d = rows
  BY <1>1, StandingIs DEF Stands, Kinds
<1>6. \A f \in RateFields : r[f] = PartSum(Weighing(prices, rows)[f], Held(prices, credit, rows, f))
  BY LineRateIs
<1>7. /\ r.tokens = PartSum(w, a) /\ r.blindTokens = PartSum(w, b)
      /\ r.unpricedTokens = PartSum(w, c) /\ r.sharedTokens = PartSum(w, d)
  <2>1. /\ r["tokens"] = PartSum(Weighing(prices, rows)["tokens"], Held(prices, credit, rows, "tokens"))
        /\ r["blindTokens"] = PartSum(Weighing(prices, rows)["blindTokens"], Held(prices, credit, rows, "blindTokens"))
    BY <1>6 DEF RateFields
  <2>2. /\ r["unpricedTokens"] = PartSum(Weighing(prices, rows)["unpricedTokens"], Held(prices, credit, rows, "unpricedTokens"))
        /\ r["sharedTokens"] = PartSum(Weighing(prices, rows)["sharedTokens"], Held(prices, credit, rows, "sharedTokens"))
    BY <1>6 DEF RateFields
  <2>3. r.tokens = PartSum(w, a) /\ r.blindTokens = PartSum(w, b)
    BY <1>1, <2>1 DEF Weighing, Held, KindsOf
  <2>4. r.unpricedTokens = PartSum(w, c) /\ r.sharedTokens = PartSum(w, d)
    BY <1>1, <2>2 DEF Weighing, Held, KindsOf
  <2> QED BY <2>3, <2>4
<1>8. PartSum(w, a \cup b) = PartSum(w, a) + PartSum(w, b)
  BY <1>2, <1>3, <1>4, PartSumUnion
<1>9. PartSum(w, (a \cup b) \cup c) = PartSum(w, a \cup b) + PartSum(w, c)
  BY <1>2, <1>3, <1>4, PartSumUnion
<1>10. PartSum(w, (a \cup b \cup c) \cup d) = PartSum(w, a \cup b \cup c) + PartSum(w, d)
  BY <1>2, <1>3, <1>4, PartSumUnion
<1>11. TokensIn(rows) = PartSum(w, rows)
  BY <1>1, SumsAre
<1>12. ASSUME NEW f \in RateFields PROVE r[f] \in Nat
  <2>1. Summable(Weighing(prices, rows)[f]) /\ DOMAIN Weighing(prices, rows)[f] = rows
    BY WeighingIs
  <2>2. Held(prices, credit, rows, f) \in SUBSET rows
    BY DEF Held, Stands
  <2> QED BY <1>6, <2>1, <2>2, PartSumNat
<1> QED BY <1>5, <1>7, <1>8, <1>9, <1>10, <1>11, <1>12

\* What is held: lines only where a row stands among those that record them, and no ratio when
\* nothing is paid for.
LEMMA RateHolds ==
    ASSUME NEW prices, Rated(prices), NEW rows, Window(rows), NEW credit, NEW r, r = RateOf(prices, credit, rows)
    PROVE  /\ r.lineRows = 0 => r.lines = 0 /\ r.unpricedLines = 0 /\ r.sharedLines = 0 /\ r.tokens = 0
           /\ r.blindRows = 0 => \A u \in rows : Standing(prices, credit, u, FALSE) # "blind"
<1>1. PICK m, b, n, l, k : /\ m = Held(prices, credit, rows, "lineRows") /\ b = Held(prices, credit, rows, "blindRows")
                           /\ n = Ones(rows) /\ l = Column("added", rows) /\ k = Tokens(rows)
  OBVIOUS
<1>2. "added" \in Counted
  BY DEF Counted
<1>3. /\ Summable(n) /\ DOMAIN n = rows /\ \A u \in rows : n[u] = 1
      /\ Summable(l) /\ DOMAIN l = rows /\ Summable(k) /\ DOMAIN k = rows
  BY <1>1, <1>2, RowsCount DEF Ones
<1>4. m \in SUBSET rows /\ b \in SUBSET rows
  BY <1>1 DEF Held, Stands
<1>5. \A f \in RateFields : r[f] = PartSum(Weighing(prices, rows)[f], Held(prices, credit, rows, f))
  BY LineRateIs
<1>6. r["lineRows"] = PartSum(n, m) /\ r["blindRows"] = PartSum(n, b)
  BY <1>1, <1>5 DEF RateFields, Weighing
<1>7. ASSUME r["lineRows"] = 0
      PROVE  r["lines"] = 0 /\ r["unpricedLines"] = 0 /\ r["sharedLines"] = 0 /\ r["tokens"] = 0
  <2>1. m = {}
    <3>1. \A u \in m : n[u] = 0
      BY <1>3, <1>4, <1>6, <1>7, PartSumZero
    <3> QED BY <1>3, <1>4, <3>1
  <2>2. \A f \in {"lines", "tokens", "unpricedLines", "sharedLines"} : Held(prices, credit, rows, f) = {}
    <3>1. \A f \in {"lines", "tokens", "unpricedLines", "sharedLines"} : KindsOf[f] \subseteq KindsOf["lineRows"]
      BY DEF KindsOf
    <3> QED BY <1>1, <2>1, <3>1 DEF Held, Stands
  <2>3. PartSum(l, {}) = 0 /\ PartSum(k, {}) = 0
    BY <1>3, PartSumZero
  <2>4. r["lines"] = PartSum(l, {}) /\ r["tokens"] = PartSum(k, {})
    BY <1>1, <1>5, <2>2 DEF RateFields, Weighing
  <2>5. r["unpricedLines"] = PartSum(l, {})
    BY <1>1, <1>5, <2>2 DEF RateFields, Weighing
  <2>6. r["sharedLines"] = PartSum(l, {})
    BY <1>1, <1>5, <2>2 DEF RateFields, Weighing
  <2> QED BY <2>3, <2>4, <2>5, <2>6
<1>8. ASSUME r["blindRows"] = 0 PROVE \A u \in rows : Standing(prices, credit, u, FALSE) # "blind"
  <2>1. \A u \in b : n[u] = 0
    BY <1>3, <1>4, <1>6, <1>8, PartSumZero
  <2>2. b = {}
    BY <1>3, <1>4, <2>1
  <2> QED BY <1>1, <2>2 DEF Held, Stands, KindsOf
<1> QED BY <1>7, <1>8

\* What the disclosure says of a ratio of naturals: it is silent only of one that divides the
\* whole window, or where lines were priced and no source that records lines has a token.
LEMMA DisclosureTells ==
    ASSUME NEW r, \A f \in RateFields : r[f] \in Nat, NEW total,
           r.tokens + r.blindTokens + r.unpricedTokens + r.sharedTokens = total,
           r.lineRows = 0 => r.lines = 0 /\ r.unpricedLines = 0 /\ r.sharedLines = 0 /\ r.tokens = 0,
           NEW told, told = LineRateDisclosure(r)
    PROVE  /\ Per100(r) # NoRate /\ told = "nothing" => r.tokens = total
           /\ Per100(r) = NoRate /\ r.lines + r.unpricedLines + r.sharedLines > 0
                /\ (r.lines = 0 \/ OwnTokens(r) + r.sharedTokens > 0) => told # "nothing"
<1>1. /\ r.lines \in Nat /\ r.tokens \in Nat /\ r.lineRows \in Nat /\ r.blindRows \in Nat /\ r.blindTokens \in Nat
      /\ r.unpricedTokens \in Nat /\ r.unpricedLines \in Nat /\ r.sharedTokens \in Nat /\ r.sharedLines \in Nat
  BY DEF RateFields
<1>2. Per100(r) = NoRate <=> r.lines = 0 \/ r.tokens = 0
  BY DEF Per100, NoRate
<1>3. ASSUME Per100(r) # NoRate, told = "nothing" PROVE r.tokens = total
  <2>1. r.lineRows > 0
    BY <1>1, <1>2, <1>3
  <2>2. ~Partial(r)
    <3> SUFFICES ASSUME Partial(r) PROVE FALSE
      OBVIOUS
    <3>1. ~ (r.lineRows = 0) /\ Per100(r) # NoRate /\ LeavesOut(r)
      BY <1>1, <2>1 DEF Partial
    <3>2. told = "leaves out"
      BY <2>1, <3>1 DEF LineRateDisclosure
    <3> QED BY <1>3, <3>2
  <2>3. r.blindTokens = 0 /\ r.unpricedTokens = 0 /\ r.sharedTokens = 0
    BY <1>1, <1>3, <2>2 DEF Partial, LeavesOut
  <2> QED BY <1>1, <2>3
<1>4. ASSUME Per100(r) = NoRate, r.lines + r.unpricedLines + r.sharedLines > 0,
             r.lines = 0 \/ OwnTokens(r) + r.sharedTokens > 0
      PROVE  told # "nothing"
  <2>1. r.lineRows > 0 /\ ~Partial(r)
    BY <1>1, <1>4 DEF Partial
  <2>2. \/ r.tokens = 0 /\ (r.sharedTokens > 0 \/ r.unpricedTokens > 0)
        \/ r.lines = 0 /\ (r.sharedLines > 0 \/ r.unpricedLines > 0)
    BY <1>1, <1>2, <1>4 DEF OwnTokens
  <2>3. ~ (r.lineRows = 0) /\ ~ (Per100(r) # NoRate)
    BY <1>4, <2>1
  <2>4. PICK pairless, lineless : /\ pairless = (r.tokens = 0 /\ (r.sharedTokens > 0 \/ r.unpricedTokens > 0))
                                  /\ lineless = (r.lines = 0 /\ (r.sharedLines > 0 \/ r.unpricedLines > 0))
    OBVIOUS
  <2>5. told = (CASE pairless -> "no usage it can pair"
                  [] ~pairless /\ lineless -> "no lines it can pair"
                  [] OTHER -> "nothing")
    BY <2>1, <2>3, <2>4 DEF LineRateDisclosure
  <2> QED BY <2>2, <2>4, <2>5
<1> QED BY <1>3, <1>4

-----------------------------------------------------------------------------
(* The effectiveness table. *)

\* A row of the table is of one group of the window's rows, by the value of a dimension.
KeyOf(rows, by) == [u \in rows |-> DimValue(u, by)]

\* What such a row says of its group.
RowSays(prices, rows, row, group) ==
    /\ row.windowRate = RateOf(prices, NewLineCredit(prices, rows), group)
    /\ row.cost = TotalCost(prices, group) /\ row.tokens = TokensIn(group)
    /\ row.unpricedTokens = TokensIn(group \ PricedRows(prices, group))
    /\ row.editBlind = Cardinality(group \ UsageAnswering(group, "edits"))

LEMMA EffectivenessIs ==
    ASSUME NEW prices, NEW rows, NEW by, NEW table, table = BuildEffectiveness(prices, rows, by),
           NEW c, c = KeyOf(rows, by)
    PROVE  /\ \A k : k \in DOMAIN table <=> \E u \in rows : c[u] = k
           /\ \A k \in DOMAIN table : RowSays(prices, rows, table[k], Fiber(c, rows, k))
<1>1. PICK groups : groups = Grouped(c)
  OBVIOUS
<1>2. /\ \A k : k \in DOMAIN groups <=> \E u \in rows : c[u] = k
      /\ \A k \in DOMAIN groups : groups[k] = Fiber(c, rows, k)
  <2>1. DOMAIN c = rows
    BY DEF KeyOf
  <2>2. groups = [k \in {c[u] : u \in rows} |-> Fiber(c, rows, k)]
    BY <1>1, <2>1 DEF Grouped, Range, Fiber
  <2> QED BY <2>2
<1>3. DOMAIN table = DOMAIN groups
  BY <1>1 DEF BuildEffectiveness, KeyOf
<1>4. ASSUME NEW k \in DOMAIN table PROVE RowSays(prices, rows, table[k], groups[k])
  <2>1. /\ table[k].windowRate = LineRate(prices, NewLineCredit(prices, rows), groups[k], FALSE)
        /\ table[k].cost = TotalCost(prices, groups[k]) /\ table[k].tokens = TokensIn(groups[k])
        /\ table[k].unpricedTokens = TokensIn(groups[k] \ PricedRows(prices, groups[k]))
        /\ table[k].editBlind = Cardinality(groups[k] \ UsageAnswering(groups[k], "edits"))
    BY <1>1, <1>3 DEF BuildEffectiveness, KeyOf
  <2> QED BY <2>1 DEF RowSays, RateOf
<1> QED BY <1>2, <1>3, <1>4

\* A source whose lines are shared between rows records lines.
LEMMA SharedRecords ==
    ASSUME NEW prices, NEW rows, NEW u,
           Standing(prices, NewLineCredit(prices, rows), u, FALSE) # "blind"
    PROVE  RecordsLines(u.tool)
<1>1. PICK credit : credit = NewLineCredit(prices, rows)
  OBVIOUS
<1>2. CreditKeyOf(u) \in DOMAIN credit \/ RecordsLines(u.tool)
  BY <1>1 DEF Standing
<1>3. ASSUME CreditKeyOf(u) \in DOMAIN credit PROVE RecordsLines(u.tool)
  <2>1. PICK key : key = [v \in {x \in rows : CreditsLinesPerSession(x.tool)} |-> CreditKeyOf(v)]
    OBVIOUS
  <2>2. DOMAIN credit = DOMAIN Grouped(key)
    BY <1>1, <2>1 DEF NewLineCredit
  <2>3. DOMAIN Grouped(key) = {key[v] : v \in DOMAIN key}
    BY DEF Grouped, Range
  <2>4. PICK v \in rows : CreditsLinesPerSession(v.tool) /\ CreditKeyOf(v) = CreditKeyOf(u)
    BY <1>3, <2>1, <2>2, <2>3
  <2>5. u.tool = v.tool
    BY <2>4 DEF CreditKeyOf
  <2>6. u.tool = "copilot"
    BY <2>4, <2>5 DEF CreditsLinesPerSession
  <2>7. "copilot" \in Tools /\ "lines_added" \in Depths["copilot"]
    BY DEF Tools, Depths, LineSignals
  <2> QED BY <2>6, <2>7 DEF RecordsLines, Answers, SignalsAnsweredBy
<1> QED BY <1>2, <1>3

LEMMA EverySource ==
    ASSUME NEW table, EffCoverageNote(table) = "every source"
    PROVE  EffTotals(table).lineRate.blindRows = 0 /\ EffTotals(table).editBlind = 0
<1>1. PICK t : t = EffTotals(table)
  OBVIOUS
<1>2. DOMAIN table # {}
  <2> SUFFICES ASSUME DOMAIN table = {} PROVE FALSE
    OBVIOUS
  <2>1. EffCoverageNote(table) = "none"
    BY Zenon DEF EffCoverageNote
  <2> QED BY <2>1
<1>3. t.lines # Absent /\ t.edits # Absent
  <2> SUFFICES ASSUME t.lines = Absent \/ t.edits = Absent PROVE FALSE
    OBVIOUS
  <2>1. EffCoverageNote(table) = "withheld"
    BY <1>1, <1>2, Zenon DEF EffCoverageNote
  <2> QED BY <2>1
<1>4. PICK covered, total : /\ covered = OwnTokens(t.lineRate) + t.lineRate.sharedTokens
                            /\ total = TotalOf([k \in DOMAIN table |-> table[k].tokens])
  OBVIOUS
<1>5. EffCoverageNote(table)
        = IF t.lineRate.blindRows = 0 /\ t.editBlind = 0 THEN "every source"
          ELSE IF total = 0 \/ covered = total THEN "some columns" ELSE "some tokens"
  BY <1>1, <1>2, <1>3, <1>4, Zenon DEF EffCoverageNote
<1> QED BY <1>1, <1>5

\* The table's ratios merge to the window's; "every source" is only said when every source
\* records lines and edits.
LEMMA EffectivenessHolds ==
    ASSUME NEW prices, Rated(prices), NEW rows, Window(rows), NEW by,
           NEW table, table = BuildEffectiveness(prices, rows, by),
           NEW r, r = RateOf(prices, NewLineCredit(prices, rows), rows)
    PROVE  /\ EffTotals(table).lineRate = r
           /\ EffCoverageNote(table) = "every source" =>
                 \A u \in rows : RecordsLines(u.tool) /\ Answers(u.tool, "edits")
<1>1. PICK c, credit, bases : /\ c = KeyOf(rows, by) /\ credit = NewLineCredit(prices, rows)
                              /\ bases = [k \in DOMAIN table |-> table[k].windowRate]
  OBVIOUS
<1>2. DOMAIN c = rows
  BY <1>1 DEF KeyOf
<1>3. /\ \A k : k \in DOMAIN table <=> \E u \in rows : c[u] = k
      /\ \A k \in DOMAIN table :
           /\ table[k].windowRate = RateOf(prices, credit, Fiber(c, rows, k))
           /\ table[k].editBlind = Cardinality(Fiber(c, rows, k) \ UsageAnswering(Fiber(c, rows, k), "edits"))
  <2>1. c = KeyOf(rows, by) /\ credit = NewLineCredit(prices, rows)
    BY <1>1
  <2>2. \A k : k \in DOMAIN table <=> \E u \in rows : c[u] = k
    BY <2>1, EffectivenessIs
  <2>3. ASSUME NEW k \in DOMAIN table
        PROVE  /\ table[k].windowRate = RateOf(prices, credit, Fiber(c, rows, k))
               /\ table[k].editBlind = Cardinality(Fiber(c, rows, k) \ UsageAnswering(Fiber(c, rows, k), "edits"))
    <3>1. RowSays(prices, rows, table[k], Fiber(c, rows, k))
      BY <2>1, EffectivenessIs
    <3> QED BY <2>1, <3>1 DEF RowSays
  <2> QED BY <2>2, <2>3
<1>4. DOMAIN bases = DOMAIN table /\ \A k \in DOMAIN bases : bases[k] = RateOf(prices, credit, Fiber(c, rows, k))
  BY <1>1, <1>3
<1>5. Merge(bases) = RateOf(prices, credit, rows)
  BY <1>2, <1>3, <1>4, RatesMerge
<1>6. EffTotals(table).lineRate = r
  BY <1>1, <1>5 DEF EffTotals
<1>7. ASSUME EffCoverageNote(table) = "every source", NEW u \in rows
      PROVE  RecordsLines(u.tool) /\ Answers(u.tool, "edits")
  <2>1. r.blindRows = 0 /\ EffTotals(table).editBlind = 0
    BY <1>6, <1>7, EverySource
  <2>2. RecordsLines(u.tool)
    BY <1>1, <2>1, RateHolds, SharedRecords
  <2>3. PICK h : h = [k \in DOMAIN table |-> table[k]["editBlind"]]
    OBVIOUS
  <2>4. TotalOf(h) = 0
    BY <2>1, <2>3 DEF EffTotals
  <2>5. PICK S : S = {c[x] : x \in rows}
    OBVIOUS
  <2>6. DOMAIN h = S /\ IsFiniteSet(S)
    <3>1. IsFiniteSet(S)
      BY <1>2, <2>5, ValuesFinite DEF Window
    <3> QED BY <1>3, <2>3, <2>5, <3>1
  <2>7. ASSUME NEW k \in DOMAIN h
        PROVE  /\ IsFiniteSet(Fiber(c, rows, k) \ UsageAnswering(Fiber(c, rows, k), "edits"))
               /\ h[k] = Cardinality(Fiber(c, rows, k) \ UsageAnswering(Fiber(c, rows, k), "edits"))
    <3>1. Fiber(c, rows, k) \ UsageAnswering(Fiber(c, rows, k), "edits") \in SUBSET rows
      BY DEF Fiber
    <3> QED BY <1>3, <2>3, <3>1, FS_Subset DEF Window
  <2>8. Summable(h)
    BY <2>6, <2>7, FS_CardinalityType DEF Summable
  <2>9. c[u] \in DOMAIN h
    BY <2>5, <2>6
  <2>10. h[c[u]] = 0
    BY <2>4, <2>8, <2>9, ZeroTotal
  <2>11. PICK k : k = c[u]
    OBVIOUS
  <2>12. Fiber(c, rows, k) \ UsageAnswering(Fiber(c, rows, k), "edits") = {}
    BY <2>7, <2>9, <2>10, <2>11, FS_EmptySet
  <2>13. u \in Fiber(c, rows, k)
    BY <2>11 DEF Fiber
  <2> QED BY <2>2, <2>12, <2>13 DEF UsageAnswering
<1> QED BY <1>6, <1>7

-----------------------------------------------------------------------------
(* The table. *)

\* The groups of a key.
LEMMA GroupsAre ==
    ASSUME NEW rows, NEW c, DOMAIN c = rows
    PROVE  /\ \A k : k \in DOMAIN Grouped(c) <=> \E u \in rows : c[u] = k
           /\ \A k \in DOMAIN Grouped(c) : Grouped(c)[k] = Fiber(c, rows, k)
<1>1. Grouped(c) = [k \in {c[u] : u \in rows} |-> Fiber(c, rows, k)]
  BY DEF Grouped, Range, Fiber
<1> QED BY <1>1

\* The four columns of tokens add up to the tokens.
LEMMA ColumnsAdd ==
    ASSUME NEW rows, Window(rows), NEW some \in SUBSET rows
    PROVE  ColumnSum("in", some) + ColumnSum("out", some) + ColumnSum("read", some) + ColumnSum("write", some)
             = TokensIn(some)
<1>1. PICK a, b, c, d : /\ a = [u \in some |-> u["in"]] /\ b = [u \in some |-> u["out"]]
                        /\ c = [u \in some |-> u["read"]] /\ d = [u \in some |-> u["write"]]
  OBVIOUS
<1>2. PICK e, f, t : /\ e = [u \in some |-> u["in"] + u["out"]] /\ f = [u \in some |-> u["in"] + u["out"] + u["read"]]
                     /\ t = [u \in some |-> RowTokens(u)]
  OBVIOUS
<1>3. /\ IsFiniteSet(some) /\ DOMAIN a = some /\ DOMAIN b = some /\ DOMAIN c = some /\ DOMAIN d = some
      /\ DOMAIN e = some /\ DOMAIN f = some /\ DOMAIN t = some
  BY <1>1, <1>2, FS_Subset DEF Window
<1>4. ASSUME NEW u \in some
      PROVE  /\ a[u] \in Nat /\ b[u] \in Nat /\ c[u] \in Nat /\ d[u] \in Nat
             /\ e[u] = a[u] + b[u] /\ f[u] = e[u] + c[u] /\ t[u] = f[u] + d[u]
  BY <1>1, <1>2 DEF RowTokens, Window, Counts, Counted
<1>5. Summable(a) /\ Summable(b) /\ Summable(c) /\ Summable(d) /\ Summable(e) /\ Summable(f) /\ Summable(t)
  BY <1>3, <1>4 DEF Summable
<1>6. TotalOf(e) = TotalOf(a) + TotalOf(b)
  BY <1>3, <1>4, <1>5, SumTotal
<1>7. TotalOf(f) = TotalOf(e) + TotalOf(c)
  BY <1>3, <1>4, <1>5, SumTotal
<1>8. TotalOf(t) = TotalOf(f) + TotalOf(d)
  BY <1>3, <1>4, <1>5, SumTotal
<1>9. /\ ColumnSum("in", some) = TotalOf(a) /\ ColumnSum("out", some) = TotalOf(b)
      /\ ColumnSum("read", some) = TotalOf(c) /\ ColumnSum("write", some) = TotalOf(d)
      /\ TokensIn(some) = TotalOf(t)
  BY <1>1, <1>2 DEF ColumnSum, TokensIn
<1> QED BY <1>6, <1>7, <1>8, <1>9

\* What a row of the table says of its group.
Entered(prices, row, group) ==
    /\ row.in + row.out + row.read + row.write = TokensIn(group)
    /\ row.cost = TotalCost(prices, group)
    /\ row.unpricedTokens = TokensIn(group \ PricedRows(prices, group))
    /\ row.hasUnpriced <=> PricedRows(prices, group) # group
    /\ row.tokened <=> \E u \in group : Tokened(u)
TableOf(prices, rows, c, table) ==
    /\ \A k : k \in DOMAIN table <=> \E u \in rows : c[u] = k
    /\ \A k \in DOMAIN table : Entered(prices, table[k], Fiber(c, rows, k))
TableKey(rows, by) == [u \in rows |-> IF GroupedDim(by) THEN DimValue(u, by) ELSE <<u.day, u.tool, u.model>>]

LEMMA AccumulateIs ==
    ASSUME NEW prices, NEW rows, Window(rows), NEW some \in SUBSET rows
    PROVE  Entered(prices, Accumulate(prices, some), some)
<1>1. PICK a : a = Accumulate(prices, some)
  OBVIOUS
<1>2. /\ a.in = ColumnSum("in", some) /\ a.out = ColumnSum("out", some)
      /\ a.read = ColumnSum("read", some) /\ a.write = ColumnSum("write", some)
  BY <1>1 DEF Accumulate
<1>3. /\ a.cost = TotalCost(prices, some) /\ a.unpricedTokens = TokensIn(some \ PricedRows(prices, some))
      /\ a.hasUnpriced = (PricedRows(prices, some) # some) /\ a.tokened = (\E u \in some : Tokened(u))
  BY <1>1 DEF Accumulate
<1>4. a.in + a.out + a.read + a.write = TokensIn(some)
  BY <1>2, ColumnsAdd
<1> QED BY <1>1, <1>3, <1>4 DEF Entered

LEMMA TableIs ==
    ASSUME NEW prices, NEW rows, Window(rows), NEW by
    PROVE  TableOf(prices, rows, TableKey(rows, by), Table(prices, rows, by))
<1>0. PICK c, table : c = TableKey(rows, by) /\ table = Table(prices, rows, by)
  OBVIOUS
<1>1. DOMAIN c = rows
  BY <1>0 DEF TableKey
<1>2. PICK groups : groups = Grouped(c)
  OBVIOUS
<1>3. /\ \A k : k \in DOMAIN groups <=> \E u \in rows : c[u] = k
      /\ \A k \in DOMAIN groups : groups[k] = Fiber(c, rows, k)
  BY <1>1, <1>2, GroupsAre
<1>4. table = [k \in DOMAIN groups |-> Accumulate(prices, groups[k])]
  BY <1>0, <1>2 DEF Table, TableKey
<1>5. ASSUME NEW k \in DOMAIN table PROVE Entered(prices, table[k], Fiber(c, rows, k))
  <2>1. PICK s : s = Fiber(c, rows, k)
    OBVIOUS
  <2>2. s \in SUBSET rows
    BY <2>1 DEF Fiber
  <2>3. table[k] = Accumulate(prices, s)
    BY <1>3, <1>4, <2>1
  <2> QED BY <2>1, <2>2, <2>3, AccumulateIs
<1> QED BY <1>0, <1>3, <1>4, <1>5 DEF TableOf

PricedGroups(table) == {k \in DOMAIN table : table[k].cost # Unpriced}
PaidBy(table) == [k \in PricedGroups(table) |-> table[k].cost]

Tabled(prices, rows, table) ==
    /\ BuildUnpriced(table).total = TokensIn(rows)
    /\ BuildUnpriced(table).tokens = TokensIn(rows \ PricedRows(prices, rows))
    /\ TotalOf(PaidBy(table)) = Paid(prices, rows)
    /\ PricedGroups(table) = {} <=> PricedRows(prices, rows) = {}

\* The table's tokens and cost are the window's, whatever its rows are grouped by.
LEMMA TableHolds ==
    ASSUME NEW prices, Rated(prices), NEW rows, Window(rows), NEW by
    PROVE  Tabled(prices, rows, Table(prices, rows, by))
<1>0. PICK table, u, priced, paid : /\ table = Table(prices, rows, by) /\ u = BuildUnpriced(table)
                                    /\ priced = PricedGroups(table) /\ paid = PaidBy(table)
  OBVIOUS
<1>1. PICK c, w, f, m : /\ c = TableKey(rows, by) /\ w = Tokens(rows) /\ f = Costs(prices, rows)
                        /\ m = rows \ PricedRows(prices, rows)
  OBVIOUS
<1>2. /\ DOMAIN c = rows /\ Summable(w) /\ DOMAIN w = rows /\ Summable(f) /\ DOMAIN f = rows
      /\ m \in SUBSET rows /\ rows \in SUBSET rows
  BY <1>1, RowsCount DEF TableKey
<1>3. /\ \A k : k \in DOMAIN table <=> \E x \in rows : c[x] = k
      /\ \A k \in DOMAIN table : Entered(prices, table[k], Fiber(c, rows, k))
  <2>1. TableOf(prices, rows, c, table)
    BY <1>0, <1>1, TableIs
  <2> QED BY <2>1 DEF TableOf
<1>4. \A k : Fiber(c, rows, k) \in SUBSET rows
  BY DEF Fiber
<1>5. \A k : Fiber(c, rows, k) \ PricedRows(prices, Fiber(c, rows, k)) = Fiber(c, m, k)
  BY <1>1 DEF Fiber, PricedRows
<1>6. PICK h, n : /\ h = [k \in DOMAIN table |-> table[k].unpricedTokens]
                  /\ n = [k \in DOMAIN table |-> table[k].in + table[k].out + table[k].read + table[k].write]
  OBVIOUS
<1>7. u.tokens = TotalOf(h) /\ u.total = TotalOf(n)
  BY <1>0, <1>6 DEF BuildUnpriced
<1>8. TotalOf(h) = PartSum(w, m)
  <2>1. ASSUME NEW k \in DOMAIN h PROVE h[k] = PartSum(w, Fiber(c, m, k))
    <3>1. h[k] = TokensIn(Fiber(c, m, k))
      BY <1>3, <1>5, <1>6, <2>1 DEF Entered
    <3>2. Fiber(c, m, k) \in SUBSET rows
      BY <1>2 DEF Fiber
    <3> QED BY <1>1, <3>1, <3>2, SumsAre
  <2>2. \A k : k \in DOMAIN h <=> \E x \in DOMAIN w : c[x] = k
    BY <1>2, <1>3, <1>6
  <2> QED BY <1>2, <2>1, <2>2, PartSumGroups
<1>9. TotalOf(n) = PartSum(w, rows)
  <2>1. ASSUME NEW k \in DOMAIN n PROVE n[k] = PartSum(w, Fiber(c, rows, k))
    <3>1. n[k] = TokensIn(Fiber(c, rows, k))
      BY <1>3, <1>6, <2>1 DEF Entered
    <3> QED BY <1>1, <1>4, <3>1, SumsAre
  <2>2. \A k : k \in DOMAIN n <=> \E x \in DOMAIN w : c[x] = k
    BY <1>2, <1>3, <1>6
  <2> QED BY <1>2, <2>1, <2>2, PartSumGroups
<1>10. TokensIn(rows) = PartSum(w, rows) /\ TokensIn(m) = PartSum(w, m)
  BY <1>1, <1>2, SumsAre
<1>11. ASSUME NEW k \in DOMAIN table
       PROVE  /\ table[k].cost # Unpriced <=> PricedRows(prices, Fiber(c, rows, k)) # {}
              /\ table[k].cost # Unpriced => table[k].cost = PartSum(f, Fiber(c, rows, k))
              /\ table[k].cost = Unpriced => PartSum(f, Fiber(c, rows, k)) = 0
  <2>1. table[k].cost = TotalCost(prices, Fiber(c, rows, k))
    BY <1>3 DEF Entered
  <2> QED BY <1>1, <1>4, <2>1, TotalCostIs
<1>12. TotalOf(paid) = PartSum(f, rows)
  <2>1. PICK g : g = [k \in DOMAIN table |-> PartSum(f, Fiber(c, rows, k))]
    OBVIOUS
  <2>2. \A k : k \in DOMAIN g <=> \E x \in DOMAIN f : c[x] = k
    BY <1>2, <1>3, <2>1
  <2>3. Summable(g) /\ TotalOf(g) = PartSum(f, rows)
    <3>1. \A k \in DOMAIN g : g[k] = PartSum(f, Fiber(c, rows, k))
      BY <2>1
    <3>2. Summable(f) /\ rows \in SUBSET DOMAIN f /\ DOMAIN c = DOMAIN f
      BY <1>2
    <3> QED BY <2>2, <3>1, <3>2, PartSumGroups
  <2>4. priced \in SUBSET DOMAIN g /\ \A k \in DOMAIN g \ priced : g[k] = 0
    BY <1>0, <1>11, <2>1 DEF PricedGroups
  <2>5. paid = Part(g, priced)
    BY <1>0, <1>11, <2>1, <2>4 DEF Part, PaidBy, PricedGroups
  <2> QED BY <2>3, <2>4, <2>5, SupportTotal
<1>13. Paid(prices, rows) = PartSum(f, rows)
  BY <1>1, <1>2, TotalCostIs
<1>14. priced = {} <=> PricedRows(prices, rows) = {}
  <2>1. ASSUME NEW k \in priced PROVE PricedRows(prices, rows) # {}
    BY <1>0, <1>4, <1>11, <2>1 DEF PricedRows, PricedGroups
  <2>2. ASSUME NEW x \in PricedRows(prices, rows) PROVE priced # {}
    <3>1. PICK k : k = c[x]
      OBVIOUS
    <3>2. x \in rows /\ k \in DOMAIN table /\ x \in Fiber(c, rows, k) /\ IsPriced(prices, x)
      BY <1>3, <2>2, <3>1 DEF PricedRows, Fiber
    <3>3. PricedRows(prices, Fiber(c, rows, k)) # {}
      BY <3>2 DEF PricedRows
    <3> QED BY <1>0, <1>11, <3>2, <3>3 DEF PricedGroups
  <2> QED BY <2>1, <2>2
<1>15. u.tokens = TokensIn(m) /\ u.total = TokensIn(rows) /\ TotalOf(paid) = Paid(prices, rows)
  BY <1>7, <1>8, <1>9, <1>10, <1>12, <1>13
<1> QED BY <1>0, <1>1, <1>14, <1>15 DEF Tabled

\* A part of a finite set, counted.
LEMMA PartCount ==
    ASSUME NEW S, IsFiniteSet(S), NEW T \in SUBSET S
    PROVE  /\ Cardinality(S) \in Nat /\ Cardinality(T) \in Nat /\ Cardinality(T) <= Cardinality(S)
           /\ Cardinality(S) = 0 <=> S = {}
           /\ Cardinality(T) = 0 <=> T = {}
           /\ Cardinality(T) = Cardinality(S) <=> T = S
<1>1. IsFiniteSet(T) /\ Cardinality(T) <= Cardinality(S) /\ (Cardinality(S) = Cardinality(T) => S = T)
  BY FS_Subset
<1> QED BY <1>1, FS_CardinalityType, FS_EmptySet

\* What the legend says, of tokens, rows and rows without tokens.
LegendOf(k, a, b) ==
    CASE k > 0 -> [total |-> "short", untokened |-> b > 0]
      [] k <= 0 /\ a > 0 /\ a = b -> [total |-> "unknown", untokened |-> TRUE]
      [] k <= 0 /\ a > b -> [total |-> "complete", untokened |-> FALSE]
      [] OTHER -> [total |-> "whole", untokened |-> FALSE]

\* Ungrouped, the rows of one group are all priced or none is, and of one source: the legend of
\* the table is that of the window.
LEMMA LegendHolds ==
    ASSUME NEW prices, Rated(prices), NEW rows, Window(rows)
    PROVE  UnpricedDisclosure(BuildUnpriced(Table(prices, rows, ""))) = UnpricedDisclosure(BuildInventory(prices, rows).unpriced)
<1>0. PICK by, table, u, page : /\ by = "" /\ table = Table(prices, rows, by) /\ u = BuildUnpriced(table)
                                /\ page = BuildInventory(prices, rows).unpriced
  OBVIOUS
<1>1. PICK c, A, B, C, D :
          /\ c = TableKey(rows, by)
          /\ A = {k \in DOMAIN table : table[k].hasUnpriced} /\ B = {k \in A : ~table[k].tokened}
          /\ C = rows \ PricedRows(prices, rows) /\ D = {x \in C : ~Tokened(x)}
  OBVIOUS
<1>2. u.rows = Cardinality(A) /\ u.untokened = Cardinality(B)
  BY <1>0, <1>1 DEF BuildUnpriced
<1>3. page.rows = Cardinality(C) /\ page.untokened = Cardinality(D) /\ page.tokens = TokensIn(C)
  <2>1. C \ {x \in rows : Tokened(x)} = D
    BY <1>1
  <2> QED BY <1>0, <1>1, <2>1 DEF BuildInventory
<1>4. u.tokens = page.tokens
  <2>1. Tabled(prices, rows, table)
    BY <1>0, TableHolds
  <2> QED BY <1>0, <1>1, <1>3, <2>1 DEF Tabled
<1>5. /\ \A k : k \in DOMAIN table <=> \E x \in rows : c[x] = k
      /\ \A k \in DOMAIN table : Entered(prices, table[k], Fiber(c, rows, k))
  <2>1. TableOf(prices, rows, c, table)
    BY <1>0, <1>1, TableIs
  <2> QED BY <2>1 DEF TableOf
<1>6. \A x \in rows : c[x] = <<x.day, x.tool, x.model>>
  BY <1>0, <1>1 DEF TableKey, GroupedDim
<1>7. \A x \in rows, y \in rows : c[x] = c[y] => (IsPriced(prices, x) <=> IsPriced(prices, y)) /\ (Tokened(x) <=> Tokened(y))
  <2> SUFFICES ASSUME NEW x \in rows, NEW y \in rows, c[x] = c[y]
               PROVE  (IsPriced(prices, x) <=> IsPriced(prices, y)) /\ (Tokened(x) <=> Tokened(y))
    OBVIOUS
  <2>1. <<x.day, x.tool, x.model>> = <<y.day, y.tool, y.model>>
    BY <1>6
  <2>2. x.tool = y.tool /\ x.model = y.model
    BY <2>1
  <2> QED BY <2>2, CostOfRow DEF Tokened, Window
<1>8. ASSUME NEW x \in rows
      PROVE  /\ c[x] \in DOMAIN table
             /\ c[x] \in A <=> x \in C
             /\ c[x] \in B <=> x \in D
  <2>1. PICK k : k = c[x]
    OBVIOUS
  <2>2. k \in DOMAIN table /\ Entered(prices, table[k], Fiber(c, rows, k)) /\ x \in Fiber(c, rows, k)
    BY <1>5, <2>1 DEF Fiber
  <2>3. \A y \in Fiber(c, rows, k) : y \in rows /\ (IsPriced(prices, x) <=> IsPriced(prices, y)) /\ (Tokened(x) <=> Tokened(y))
    BY <1>7, <2>1 DEF Fiber
  <2>4. table[k].hasUnpriced <=> ~IsPriced(prices, x)
    BY <2>2, <2>3 DEF Entered, PricedRows
  <2>5. table[k].tokened <=> Tokened(x)
    BY <2>2, <2>3 DEF Entered
  <2> QED BY <1>1, <2>1, <2>2, <2>4, <2>5 DEF PricedRows
<1>9. (A = {} <=> C = {}) /\ (B = {} <=> D = {}) /\ (B = A <=> D = C)
  <2>1. C \in SUBSET rows /\ D \in SUBSET C /\ B \in SUBSET A /\ A \in SUBSET DOMAIN table
    BY <1>1
  <2>2. \A k \in A : \E x \in rows : c[x] = k
    BY <1>5, <2>1
  <2> QED BY <1>8, <2>1, <2>2
<1>10. IsFiniteSet(A) /\ IsFiniteSet(C) /\ B \in SUBSET A /\ D \in SUBSET C
  <2>1. IsFiniteSet(DOMAIN table)
    <3>1. PICK S : S = {c[x] : x \in rows}
      OBVIOUS
    <3>2. DOMAIN c = rows
      BY <1>1 DEF TableKey
    <3>3. IsFiniteSet(S)
      BY <3>1, <3>2, ValuesFinite DEF Window
    <3>4. DOMAIN table = S
      BY <1>5, <3>1
    <3> QED BY <3>3, <3>4
  <2>2. A \in SUBSET DOMAIN table /\ C \in SUBSET rows /\ IsFiniteSet(rows)
    BY <1>1 DEF Window
  <2> QED BY <1>1, <2>1, <2>2, FS_Subset
<1>11. PICK a, b, x, y : a = Cardinality(A) /\ b = Cardinality(B) /\ x = Cardinality(C) /\ y = Cardinality(D)
  OBVIOUS
<1>12. a \in Nat /\ b \in Nat /\ b <= a /\ (a = 0 <=> A = {}) /\ (b = 0 <=> B = {}) /\ (b = a <=> B = A)
  BY <1>10, <1>11, PartCount
<1>13. x \in Nat /\ y \in Nat /\ y <= x /\ (x = 0 <=> C = {}) /\ (y = 0 <=> D = {}) /\ (y = x <=> D = C)
  BY <1>10, <1>11, PartCount
<1>14. (a = 0 <=> x = 0) /\ (b = 0 <=> y = 0) /\ (b = a <=> y = x)
  BY <1>9, <1>12, <1>13, Zenon
<1>15. (a > 0 <=> x > 0) /\ (b > 0 <=> y > 0) /\ (a = b <=> x = y) /\ (a > b <=> x > y)
  <2>1. a \in Nat /\ b \in Nat /\ b <= a /\ x \in Nat /\ y \in Nat /\ y <= x
    BY <1>12, <1>13
  <2> QED BY <1>14, <2>1
<1>16. u.rows = a /\ u.untokened = b /\ page.rows = x /\ page.untokened = y
  BY <1>2, <1>3, <1>11
<1>17. PICK k : k = u.tokens
  OBVIOUS
<1>18. UnpricedDisclosure(u) = LegendOf(k, a, b) /\ UnpricedDisclosure(page) = LegendOf(k, x, y)
  BY <1>4, <1>16, <1>17 DEF UnpricedDisclosure, LegendOf
<1>19. LegendOf(k, a, b) = LegendOf(k, x, y)
  <2>1. (b > 0) = (y > 0) /\ (a > 0) = (x > 0) /\ (a = b) = (x = y) /\ (a > b) = (x > y)
    BY <1>15
  <2> QED BY <2>1, Zenon DEF LegendOf
<1> QED BY <1>0, <1>18, <1>19

\* What the effectiveness table says of the window's ratio.
LEMMA RateSays ==
    ASSUME Rated(Prices), Window(usage), NEW by, NEW table, table = BuildEffectiveness(Prices, usage, by),
           NEW rate, rate = BuildInventory(Prices, usage).lineRate
    PROVE  SameRate(table, rate) /\ RateTold(table, rate)
<1>1. PICK credit : credit = NewLineCredit(Prices, usage)
  OBVIOUS
<1>2. rate = RateOf(Prices, credit, usage)
  BY <1>1 DEF BuildInventory, RateOf
<1>3. /\ EffTotals(table).lineRate = rate
      /\ EffCoverageNote(table) = "every source" =>
            \A u \in usage : RecordsLines(u.tool) /\ Answers(u.tool, "edits")
  BY <1>1, <1>2, EffectivenessHolds
<1>4. /\ \A f \in RateFields : rate[f] \in Nat
      /\ rate.tokens + rate.blindTokens + rate.unpricedTokens + rate.sharedTokens = TokensIn(usage)
  BY <1>2, RateOfWhole
<1>5. rate.lineRows = 0 => rate.lines = 0 /\ rate.unpricedLines = 0 /\ rate.sharedLines = 0 /\ rate.tokens = 0
  BY <1>2, RateHolds
<1>6. PICK told, total : told = LineRateDisclosure(rate) /\ total = TokensIn(usage)
  OBVIOUS
<1>7. /\ Per100(rate) # NoRate /\ told = "nothing" => rate.tokens = total
      /\ Per100(rate) = NoRate /\ rate.lines + rate.unpricedLines + rate.sharedLines > 0
           /\ (rate.lines = 0 \/ OwnTokens(rate) + rate.sharedTokens > 0) => told # "nothing"
  BY <1>4, <1>5, <1>6, DisclosureTells
<1>8. SameRate(table, rate)
  BY <1>3, <1>4 DEF SameRate
<1>9. RateTold(table, rate)
  BY <1>3, <1>6, <1>7 DEF RateTold
<1> QED BY <1>8, <1>9

\* The projects' ratios merge to the window's.
LEMMA ProjectsHold ==
    ASSUME Rated(Prices), Window(usage), NEW in, in = Input
    PROVE  SameProjects(in)
<1>1. PICK c, credit, stats : /\ c = [u \in usage |-> u.project] /\ credit = NewLineCredit(Prices, usage)
                              /\ stats = BuildProjectStats(Prices, usage)
  OBVIOUS
<1>2. in.byProject = stats /\ in.totals.lineRate = RateOf(Prices, credit, usage)
  <2>1. in.byProject = stats /\ in.totals = BuildTotals(Prices, usage)
    BY <1>1 DEF Input, Bundle, BuildInput
  <2>2. BuildTotals(Prices, usage).lineRate = LineRate(Prices, credit, usage, FALSE)
    BY <1>1 DEF BuildTotals
  <2> QED BY <2>1, <2>2 DEF RateOf
<1>3. DOMAIN c = usage
  BY <1>1
<1>4. PICK groups : groups = Grouped(c)
  OBVIOUS
<1>5. /\ \A k : k \in DOMAIN groups <=> \E u \in usage : c[u] = k
      /\ \A k \in DOMAIN groups : groups[k] = Fiber(c, usage, k)
  BY <1>3, <1>4, GroupsAre
<1>6. DOMAIN stats = DOMAIN groups /\ \A p \in DOMAIN stats : stats[p].lineRate = RateOf(Prices, credit, groups[p])
  BY <1>1, <1>4 DEF BuildProjectStats, RateOf
<1>7. PICK bases : bases = [p \in DOMAIN stats |-> stats[p].lineRate]
  OBVIOUS
<1>8. Merge(bases) = RateOf(Prices, credit, usage)
  BY <1>3, <1>5, <1>6, <1>7, RatesMerge
<1> QED BY <1>2, <1>7, <1>8 DEF SameProjects

-----------------------------------------------------------------------------
(* What moved. *)

\* What a group of the table cost: nothing when none of it is priced, or it is not there.
GroupCost(t, g) == IF g \in DOMAIN t /\ t[g].cost # Unpriced THEN t[g].cost ELSE 0
GroupCosts(t, U) == [g \in U |-> GroupCost(t, g)]
FieldOf(t, field) == [g \in DOMAIN t |-> t[g][field]]
Summed(prices, rows, t, U) ==
    /\ Summable(GroupCosts(t, U)) /\ TotalOf(GroupCosts(t, U)) = Paid(prices, rows)
    /\ TotalOf(FieldOf(t, "tokens")) = TokensIn(rows)
    /\ TotalOf(FieldOf(t, "unpricedTokens")) = TokensIn(rows \ PricedRows(prices, rows))

\* The table's costs, its tokens and those without a price add up to the window's, whatever
\* groups of another window stand beside them.
LEMMA GroupsSum ==
    ASSUME NEW prices, Rated(prices), NEW rows, Window(rows), NEW by,
           NEW U, IsFiniteSet(U), DOMAIN BuildEffectiveness(prices, rows, by) \in SUBSET U
    PROVE  Summed(prices, rows, BuildEffectiveness(prices, rows, by), U)
<1>0. PICK table, f, n, h : /\ table = BuildEffectiveness(prices, rows, by) /\ f = GroupCosts(table, U)
                            /\ n = FieldOf(table, "tokens") /\ h = FieldOf(table, "unpricedTokens")
  OBVIOUS
<1>1. PICK c, w, v, m : /\ c = KeyOf(rows, by) /\ w = Tokens(rows) /\ v = Costs(prices, rows)
                        /\ m = rows \ PricedRows(prices, rows)
  OBVIOUS
<1>2. /\ DOMAIN c = rows /\ Summable(w) /\ DOMAIN w = rows /\ Summable(v) /\ DOMAIN v = rows
      /\ m \in SUBSET rows /\ rows \in SUBSET rows
  BY <1>1, RowsCount DEF KeyOf
<1>3. /\ \A k : k \in DOMAIN table <=> \E u \in rows : c[u] = k
      /\ \A k \in DOMAIN table : RowSays(prices, rows, table[k], Fiber(c, rows, k))
  BY <1>0, <1>1, EffectivenessIs
<1>4. /\ \A k : Fiber(c, rows, k) \in SUBSET rows /\ Fiber(c, m, k) \in SUBSET rows
      /\ \A k : Fiber(c, rows, k) \ PricedRows(prices, Fiber(c, rows, k)) = Fiber(c, m, k)
  BY <1>1 DEF Fiber, PricedRows
<1>5. TotalOf(n) = TokensIn(rows)
  <2>1. ASSUME NEW k \in DOMAIN n PROVE n[k] = PartSum(w, Fiber(c, rows, k))
    <3>1. n[k] = TokensIn(Fiber(c, rows, k))
      BY <1>0, <1>3, <2>1 DEF RowSays, FieldOf
    <3> QED BY <1>1, <1>4, <3>1, SumsAre
  <2>2. \A k : k \in DOMAIN n <=> \E x \in DOMAIN w : c[x] = k
    BY <1>0, <1>2, <1>3 DEF FieldOf
  <2>3. TotalOf(n) = PartSum(w, rows)
    BY <1>2, <2>1, <2>2, PartSumGroups
  <2> QED BY <1>1, <1>2, <2>3, SumsAre
<1>6. TotalOf(h) = TokensIn(m)
  <2>1. ASSUME NEW k \in DOMAIN h PROVE h[k] = PartSum(w, Fiber(c, m, k))
    <3>1. h[k] = TokensIn(Fiber(c, m, k))
      BY <1>0, <1>3, <1>4, <2>1 DEF RowSays, FieldOf
    <3> QED BY <1>1, <1>4, <3>1, SumsAre
  <2>2. \A k : k \in DOMAIN h <=> \E x \in DOMAIN w : c[x] = k
    BY <1>0, <1>2, <1>3 DEF FieldOf
  <2>3. TotalOf(h) = PartSum(w, m)
    BY <1>2, <2>1, <2>2, PartSumGroups
  <2> QED BY <1>1, <1>2, <2>3, SumsAre
<1>7. ASSUME NEW k \in DOMAIN table PROVE GroupCost(table, k) = PartSum(v, Fiber(c, rows, k))
  <2>1. table[k].cost = TotalCost(prices, Fiber(c, rows, k))
    BY <1>3 DEF RowSays
  <2>2. /\ table[k].cost # Unpriced => table[k].cost = PartSum(v, Fiber(c, rows, k))
        /\ table[k].cost = Unpriced => PartSum(v, Fiber(c, rows, k)) = 0
    BY <1>1, <1>4, <2>1, TotalCostIs
  <2> QED BY <2>2 DEF GroupCost
<1>8. PICK t, T : T = DOMAIN table /\ t = Part(f, T)
  OBVIOUS
<1>9. DOMAIN t = T /\ \A k \in DOMAIN t : t[k] = PartSum(v, Fiber(c, rows, k))
  BY <1>0, <1>7, <1>8 DEF Part, GroupCosts
<1>10. Summable(t) /\ TotalOf(t) = PartSum(v, rows)
  <2>1. \A k : k \in DOMAIN t <=> \E x \in DOMAIN v : c[x] = k
    BY <1>2, <1>3, <1>8, <1>9
  <2>2. ASSUME NEW k \in DOMAIN t PROVE t[k] = PartSum(v, Fiber(c, rows, k))
    BY <1>9, <2>2
  <2>3. Summable(t)
    BY <1>2, <2>1, <2>2, PartSumGroups
  <2>4. TotalOf(t) = PartSum(v, rows)
    BY <1>2, <2>1, <2>2, PartSumGroups
  <2> QED BY <2>3, <2>4
<1>11. \A k \in U \ T : f[k] = 0
  BY <1>0, <1>8 DEF GroupCost, GroupCosts
<1>12. Summable(f) /\ DOMAIN f = U
  <2>1. \A k \in T : t[k] \in Nat /\ t[k] = f[k]
    BY <1>8, <1>9, <1>10 DEF Summable, Part
  <2> QED BY <1>0, <1>8, <1>11, <2>1 DEF Summable, GroupCosts
<1>13. TotalOf(f) = PartSum(v, rows)
  BY <1>0, <1>8, <1>10, <1>11, <1>12, SupportTotal
<1>14. Paid(prices, rows) = PartSum(v, rows)
  BY <1>1, <1>2, TotalCostIs
<1> QED BY <1>0, <1>1, <1>5, <1>6, <1>12, <1>13, <1>14 DEF Summed

\* Of two parts of which one lacks something, the one said to know less does.
LEMMA LessKnown ==
    ASSUME NEW a \in Nat, NEW b \in Nat, NEW x \in Nat, NEW y \in Nat, x >= 1, y >= 1, a + b > 0
    PROVE  /\ b * x > a * y => b > 0
           /\ ~ (b * x > a * y) => a > 0
<1>1. b * x \in Nat /\ a * y \in Nat /\ 0 * x = 0 /\ 0 * y = 0
  BY Multiples
<1>2. b > 0 => b * x >= 1
  <2> SUFFICES ASSUME b > 0 PROVE b * x >= 1
    OBVIOUS
  <2>1. PICK k \in Nat : b = k + 1
    <3>1. b - 1 \in Nat /\ b = (b - 1) + 1
      OBVIOUS
    <3> QED BY <3>1
  <2>2. b * x = x * b /\ x * (k + 1) = x * k + x * 1 /\ x * k \in Nat
    BY <2>1, Multiples, Distributes
  <2> QED BY <2>1, <2>2
<1> QED BY <1>1, <1>2

LEMMA MovesHold ==
    ASSUME Rated(Prices), Window(usage), NEW recent \in SUBSET usage,
           NEW now, now = BuildEffectiveness(Prices, recent, "tool"),
           NEW was, was = BuildEffectiveness(Prices, usage \ recent, "tool")
    PROVE  SameMoves(now, was, recent)
<1>1. PICK prior, U : prior = usage \ recent /\ U = DOMAIN now \cup DOMAIN was
  OBVIOUS
<1>2. Window(recent) /\ Window(prior)
  <2>1. IsFiniteSet(recent) /\ IsFiniteSet(prior)
    BY <1>1, FS_Subset DEF Window
  <2> QED BY <1>1, <2>1 DEF Window
<1>3. IsFiniteSet(U)
  <2>1. ASSUME NEW rows, Window(rows), NEW t, t = BuildEffectiveness(Prices, rows, "tool") PROVE IsFiniteSet(DOMAIN t)
    <3>1. PICK c, S : c = KeyOf(rows, "tool") /\ S = {c[x] : x \in rows}
      OBVIOUS
    <3>2. DOMAIN c = rows
      BY <3>1 DEF KeyOf
    <3>3. IsFiniteSet(S)
      BY <2>1, <3>1, <3>2, ValuesFinite DEF Window
    <3>4. \A k : k \in DOMAIN t <=> \E u \in rows : c[u] = k
      BY <2>1, <3>1, EffectivenessIs
    <3>5. DOMAIN t = S
      BY <3>1, <3>4
    <3> QED BY <3>3, <3>5
  <2>2. IsFiniteSet(DOMAIN now) /\ IsFiniteSet(DOMAIN was)
    BY <1>1, <1>2, <2>1
  <2> QED BY <1>1, <2>2, FS_Union
<1>4. PICK f, g, d, n, m, h, k :
          /\ f = GroupCosts(now, U) /\ g = GroupCosts(was, U)
          /\ d = [x \in U |-> GroupCost(now, x) - GroupCost(was, x)]
          /\ n = FieldOf(now, "tokens") /\ m = FieldOf(was, "tokens")
          /\ h = FieldOf(now, "unpricedTokens") /\ k = FieldOf(was, "unpricedTokens")
  OBVIOUS
<1>5. /\ Summable(f) /\ TotalOf(f) = Paid(Prices, recent) /\ TotalOf(n) = TokensIn(recent)
      /\ TotalOf(h) = TokensIn(recent \ PricedRows(Prices, recent))
  <2>1. DOMAIN now \in SUBSET U
    BY <1>1
  <2>2. Summed(Prices, recent, now, U)
    BY <1>2, <1>3, <2>1, GroupsSum
  <2> QED BY <1>4, <2>2 DEF Summed
<1>6. /\ Summable(g) /\ TotalOf(g) = Paid(Prices, prior) /\ TotalOf(m) = TokensIn(prior)
      /\ TotalOf(k) = TokensIn(prior \ PricedRows(Prices, prior))
  <2>1. DOMAIN was \in SUBSET U /\ was = BuildEffectiveness(Prices, prior, "tool")
    BY <1>1
  <2>2. Summed(Prices, prior, was, U)
    BY <1>2, <1>3, <2>1, GroupsSum
  <2> QED BY <1>4, <2>2 DEF Summed
<1>7. BalanceOf(d) = TotalOf(f) - TotalOf(g)
  <2>1. DOMAIN g = DOMAIN f /\ DOMAIN d = DOMAIN f /\ \A x \in DOMAIN f : d[x] = f[x] - g[x]
    BY <1>4 DEF GroupCosts
  <2> QED BY <1>5, <1>6, <2>1, BalanceIs
<1>8. PICK moved : moved = Movers(now, was)
  OBVIOUS
<1>9. d = [x \in DOMAIN moved |-> moved[x].delta]
  <2>1. DOMAIN moved = U
    BY <1>1, <1>8 DEF Movers
  <2>2. \A x \in U : moved[x].delta = GroupCost(now, x) - GroupCost(was, x)
    BY <1>1, <1>8 DEF Movers, GroupCost
  <2> QED BY <1>4, <2>1, <2>2
<1>10. PICK a, b, r, p : /\ a = TokensIn(recent \ PricedRows(Prices, recent)) /\ b = TokensIn(prior \ PricedRows(Prices, prior))
                         /\ r = TokensIn(recent) /\ p = TokensIn(prior)
  OBVIOUS
<1>11. /\ a \in Nat /\ b \in Nat /\ r \in Nat /\ p \in Nat
       /\ TokensIn(usage \ PricedRows(Prices, usage)) = a + b
  <2>1. PICK w, A, B : /\ w = Tokens(usage) /\ A = recent \ PricedRows(Prices, recent)
                       /\ B = prior \ PricedRows(Prices, prior)
    OBVIOUS
  <2>2. Summable(w) /\ DOMAIN w = usage
    BY <2>1, RowsCount
  <2>3. /\ A \in SUBSET usage /\ B \in SUBSET usage /\ A \cap B = {} /\ prior \in SUBSET usage
        /\ A \cup B = usage \ PricedRows(Prices, usage) /\ A \cup B \in SUBSET usage
    BY <1>1, <2>1 DEF PricedRows
  <2>4. /\ a = PartSum(w, A) /\ b = PartSum(w, B) /\ r = PartSum(w, recent) /\ p = PartSum(w, prior)
        /\ TokensIn(A \cup B) = PartSum(w, A \cup B)
    BY <1>10, <2>1, <2>3, SumsAre
  <2>5. PartSum(w, A \cup B) = PartSum(w, A) + PartSum(w, B)
    BY <2>2, <2>3, PartSumUnion
  <2> QED BY <2>2, <2>3, <2>4, <2>5, PartSumNat
<1>12. PICK x, y : x = Max({r, 1}) /\ y = Max({p, 1})
  OBVIOUS
<1>13. x \in Nat /\ y \in Nat /\ x >= 1 /\ y >= 1
  <2>1. PICK one \in Nat : one = 1
    OBVIOUS
  <2>2. /\ Max({r, one}) \in {r, one} /\ Max({r, one}) >= one
        /\ Max({p, one}) \in {p, one} /\ Max({p, one}) >= one
    <3>1. r \in Int /\ p \in Int /\ one \in Int
      BY <1>11, <2>1
    <3> QED BY <3>1, MaxOfTwo
  <2> QED BY <1>11, <1>12, <2>1, <2>2
<1>14. WorseWindow(now, was) = IF b * x > a * y THEN "prior" ELSE "recent"
  BY <1>4, <1>5, <1>6, <1>10, <1>12 DEF WorseWindow, FieldOf
<1>15. a + b > 0 => (WorseWindow(now, was) = "prior" /\ b > 0) \/ (WorseWindow(now, was) # "prior" /\ a > 0)
  BY <1>11, <1>13, <1>14, LessKnown
<1>16. BalanceOf([z \in DOMAIN moved |-> moved[z].delta]) = Paid(Prices, recent) - Paid(Prices, prior)
  BY <1>5, <1>6, <1>7, <1>9
<1>17. PICK named : named = IF WorseWindow(now, was) = "prior" THEN prior ELSE recent
  OBVIOUS
<1>18. TokensIn(usage \ PricedRows(Prices, usage)) > 0 => TokensIn(named \ PricedRows(Prices, named)) > 0
  BY <1>10, <1>11, <1>15, <1>17
<1> QED BY <1>1, <1>8, <1>16, <1>17, <1>18 DEF SameMoves, Paid

-----------------------------------------------------------------------------
(* The window priced again. *)

\* The counts of some rows, summed, are counts a row could have.
LEMMA SumsMetered ==
    ASSUME NEW rows, Window(rows), NEW some \in SUBSET rows, NEW t, t = SumTokens(some)
    PROVE  Metered(t)
<1>1. PICK a, b, c, d, e : /\ a = [u \in some |-> u["in"]] /\ b = [u \in some |-> u["out"]]
                           /\ c = [u \in some |-> u["read"]] /\ d = [u \in some |-> u["write"]]
                           /\ e = [u \in some |-> u["long"]]
  OBVIOUS
<1>2. IsFiniteSet(some)
  BY FS_Subset DEF Window
<1>3. /\ DOMAIN a = some /\ DOMAIN b = some /\ DOMAIN c = some /\ DOMAIN d = some /\ DOMAIN e = some
      /\ \A u \in some : a[u] \in Nat /\ b[u] \in Nat /\ c[u] \in Nat /\ d[u] \in Nat /\ e[u] \in Nat /\ e[u] <= d[u]
  BY <1>1 DEF Window, Counts, Counted
<1>4. Summable(a) /\ Summable(b) /\ Summable(c) /\ Summable(d) /\ Summable(e)
  BY <1>2, <1>3 DEF Summable
<1>5. TotalOf(e) <= TotalOf(d)
  BY <1>3, <1>4, LessTotal
<1>6. t.in = TotalOf(a) /\ t.out = TotalOf(b) /\ t.read = TotalOf(c) /\ t.write = TotalOf(d) /\ t.long = TotalOf(e)
  BY <1>1 DEF SumTokens, ColumnSum
<1>7. TotalOf(a) \in Nat /\ TotalOf(b) \in Nat /\ TotalOf(c) \in Nat /\ TotalOf(d) \in Nat /\ TotalOf(e) \in Nat
  BY <1>4, UnitsAre
<1> QED BY <1>5, <1>6, <1>7 DEF Metered

\* Rows charged by one entry cost what their summed counts are charged.
LEMMA ChargedTogether ==
    ASSUME NEW rows, Window(rows), NEW some \in SUBSET rows, NEW e, Charging(e), NEW t, t = SumTokens(some),
           NEW h, DOMAIN h = some, \A u \in some : h[u] = Charged(e, TokensOf(u))
    PROVE  TotalOf(h) = Charged(e, t)
<1>1. PICK a, b, c, d, l, r : /\ a = [u \in some |-> u["in"]] /\ b = [u \in some |-> u["out"]]
                              /\ c = [u \in some |-> u["read"]] /\ d = [u \in some |-> u["write"]]
                              /\ l = [u \in some |-> u["long"]] /\ r = [u \in some |-> u["write"] - u["long"]]
  OBVIOUS
<1>2. IsFiniteSet(some)
  BY FS_Subset DEF Window
<1>3. /\ DOMAIN a = some /\ DOMAIN b = some /\ DOMAIN c = some /\ DOMAIN d = some /\ DOMAIN l = some /\ DOMAIN r = some
      /\ \A u \in some : /\ a[u] \in Nat /\ b[u] \in Nat /\ c[u] \in Nat /\ d[u] \in Nat /\ l[u] \in Nat /\ r[u] \in Nat
                         /\ d[u] = l[u] + r[u]
  BY <1>1 DEF Window, Counts, Counted
<1>4. Summable(a) /\ Summable(b) /\ Summable(c) /\ Summable(d) /\ Summable(l) /\ Summable(r)
  BY <1>2, <1>3 DEF Summable
<1>5. TotalOf(d) = TotalOf(l) + TotalOf(r)
  BY <1>3, <1>4, SumTotal
<1>6. PICK i, o, x, y, z : /\ i = e.input /\ o = e.output /\ x = e.write /\ y = e.long /\ z = e.read
  OBVIOUS
<1>7. i \in Nat /\ o \in Nat /\ x \in Nat /\ y \in Nat /\ z \in Nat
  BY <1>6 DEF Charging
<1>8. PICK A, B, C, L, R : /\ A = [u \in some |-> i * a[u]] /\ B = [u \in some |-> o * b[u]]
                           /\ C = [u \in some |-> z * c[u]] /\ L = [u \in some |-> y * l[u]]
                           /\ R = [u \in some |-> x * r[u]]
  OBVIOUS
<1>9. /\ DOMAIN A = some /\ DOMAIN B = some /\ DOMAIN C = some /\ DOMAIN L = some /\ DOMAIN R = some
      /\ \A u \in some : /\ A[u] = i * a[u] /\ B[u] = o * b[u] /\ C[u] = z * c[u]
                         /\ L[u] = y * l[u] /\ R[u] = x * r[u]
  BY <1>8
<1>10. Summable(A) /\ TotalOf(A) = i * TotalOf(a)
  BY <1>3, <1>4, <1>7, <1>9, ScaleTotal
<1>11. Summable(B) /\ TotalOf(B) = o * TotalOf(b)
  BY <1>3, <1>4, <1>7, <1>9, ScaleTotal
<1>12. Summable(C) /\ TotalOf(C) = z * TotalOf(c)
  BY <1>3, <1>4, <1>7, <1>9, ScaleTotal
<1>13. Summable(L) /\ TotalOf(L) = y * TotalOf(l)
  BY <1>3, <1>4, <1>7, <1>9, ScaleTotal
<1>14. Summable(R) /\ TotalOf(R) = x * TotalOf(r)
  BY <1>3, <1>4, <1>7, <1>9, ScaleTotal
<1>15. PICK p, q, s : /\ p = [u \in some |-> A[u] + B[u]] /\ q = [u \in some |-> p[u] + R[u]]
                      /\ s = [u \in some |-> q[u] + L[u]]
  OBVIOUS
<1>16. /\ DOMAIN p = some /\ DOMAIN q = some /\ DOMAIN s = some
       /\ \A u \in some : p[u] = A[u] + B[u] /\ q[u] = p[u] + R[u] /\ s[u] = q[u] + L[u]
  BY <1>15
<1>17. \A u \in some : /\ A[u] \in Nat /\ B[u] \in Nat /\ C[u] \in Nat /\ L[u] \in Nat /\ R[u] \in Nat
                       /\ p[u] \in Nat /\ q[u] \in Nat /\ s[u] \in Nat
  BY <1>9, <1>10, <1>11, <1>12, <1>13, <1>14, <1>16 DEF Summable
<1>18. ASSUME NEW u \in some PROVE h[u] = s[u] + C[u]
  <2>1. PICK tk : tk = TokensOf(u)
    OBVIOUS
  <2>2. tk.in = a[u] /\ tk.out = b[u] /\ tk.read = c[u] /\ tk.write - tk.long = r[u] /\ tk.long = l[u]
    BY <1>1, <2>1 DEF TokensOf
  <2>3. h[u] = a[u] * i + b[u] * o + r[u] * x + l[u] * y + c[u] * z
    BY <1>6, <2>1, <2>2 DEF Charged
  <2>4. /\ a[u] * i = i * a[u] /\ b[u] * o = o * b[u] /\ r[u] * x = x * r[u]
        /\ l[u] * y = y * l[u] /\ c[u] * z = z * c[u]
    BY <1>3, <1>7, Multiples
  <2>5. h[u] = A[u] + B[u] + R[u] + L[u] + C[u]
    BY <1>9, <2>3, <2>4
  <2> QED BY <1>16, <2>5
<1>19. Summable(p) /\ Summable(q) /\ Summable(s) /\ Summable(h)
  BY <1>2, <1>16, <1>17, <1>18 DEF Summable
<1>20. TotalOf(p) = TotalOf(A) + TotalOf(B)
  BY <1>9, <1>10, <1>11, <1>16, <1>19, SumTotal
<1>21. TotalOf(q) = TotalOf(p) + TotalOf(R)
  BY <1>9, <1>14, <1>16, <1>19, SumTotal
<1>22. TotalOf(s) = TotalOf(q) + TotalOf(L)
  BY <1>9, <1>13, <1>16, <1>19, SumTotal
<1>23. TotalOf(h) = TotalOf(s) + TotalOf(C)
  BY <1>9, <1>12, <1>16, <1>18, <1>19, SumTotal
<1>24. /\ TotalOf(a) \in Nat /\ TotalOf(b) \in Nat /\ TotalOf(c) \in Nat /\ TotalOf(d) \in Nat /\ TotalOf(l) \in Nat
       /\ TotalOf(r) \in Nat
  BY <1>4, UnitsAre
<1>25. t.in = TotalOf(a) /\ t.out = TotalOf(b) /\ t.read = TotalOf(c) /\ t.write = TotalOf(d) /\ t.long = TotalOf(l)
  BY <1>1 DEF SumTokens, ColumnSum
<1>26. t.write - t.long = TotalOf(r)
  BY <1>5, <1>24, <1>25
<1>27. /\ i * TotalOf(a) = TotalOf(a) * i /\ o * TotalOf(b) = TotalOf(b) * o /\ z * TotalOf(c) = TotalOf(c) * z
       /\ y * TotalOf(l) = TotalOf(l) * y /\ x * TotalOf(r) = TotalOf(r) * x
  BY <1>7, <1>24, Multiples
<1>28. Charged(e, t) = TotalOf(a) * i + TotalOf(b) * o + TotalOf(r) * x + TotalOf(l) * y + TotalOf(c) * z
  BY <1>6, <1>25, <1>26 DEF Charged
<1> QED BY <1>10, <1>11, <1>12, <1>13, <1>14, <1>20, <1>21, <1>22, <1>23, <1>27, <1>28

\* A model is priced once, after summing, and its rows each: to the same cost.
LEMMA ModelCosts ==
    ASSUME NEW prices, Rated(prices), NEW rows, Window(rows), NEW m, Knows(prices, m),
           NEW some \in SUBSET rows, \A u \in some : u.model = m
    PROVE  CostTokens(prices, m, SumTokens(some)) = PartSum(Costs(prices, rows), some)
<1>1. PICK e, t, h : e = prices[PricedAs(prices, m)] /\ t = SumTokens(some) /\ h = Part(Costs(prices, rows), some)
  OBVIOUS
<1>2. Charging(e)
  BY <1>1 DEF Knows, Rated
<1>3. Metered(t)
  BY <1>1, SumsMetered
<1>4. CostTokens(prices, m, t) = Charged(e, t)
  BY <1>1, <1>3, CostTokensIs
<1>5. DOMAIN h = some
  BY <1>1 DEF Part
<1>6. ASSUME NEW u \in some PROVE h[u] = Charged(e, TokensOf(u))
  <2>1. Counts(u) /\ u.model = m
    BY DEF Window
  <2>2. IsPriced(prices, u) /\ CostOf(prices, u) = Charged(e, TokensOf(u))
    BY <1>1, <2>1, CostOfRow
  <2> QED BY <1>1, <2>2 DEF Part, Costs
<1>7. TotalOf(h) = Charged(e, t)
  BY <1>1, <1>2, <1>5, <1>6, ChargedTogether
<1> QED BY <1>1, <1>4, <1>7 DEF PartSum

\* A model's row: its counts, and their cost when it has a price.
Modelled(prices, row, m, group) ==
    /\ row.counts = SumTokens(group) /\ row.cost = CostTokens(prices, m, SumTokens(group))
    /\ row.priced <=> Knows(prices, m)
ModelKey(rows) == [u \in rows |-> u.model]

\* What some models count and cost.
SliceOf(stats, some) == [f \in DOMAIN NoTokens |-> TotalOf([m \in some |-> stats[m].counts[f]])]
CostsOf(stats, some) == [m \in some |-> stats[m]["cost"]]

LEMMA ModelsAre ==
    ASSUME NEW prices, NEW rows, NEW stats, stats = BuildModelStats(prices, rows), NEW c, c = ModelKey(rows)
    PROVE  /\ \A m : m \in DOMAIN stats <=> \E u \in rows : c[u] = m
           /\ \A m \in DOMAIN stats : Modelled(prices, stats[m], m, Fiber(c, rows, m))
<1>1. DOMAIN c = rows
  BY DEF ModelKey
<1>2. PICK groups : groups = Grouped(c)
  OBVIOUS
<1>3. /\ \A k : k \in DOMAIN groups <=> \E u \in rows : c[u] = k
      /\ \A k \in DOMAIN groups : groups[k] = Fiber(c, rows, k)
  BY <1>1, <1>2, GroupsAre
<1>4. DOMAIN stats = DOMAIN groups
  BY <1>2 DEF BuildModelStats, ModelKey
<1>5. ASSUME NEW m \in DOMAIN stats
      PROVE  Modelled(prices, stats[m], m, groups[m])
  <2>1. /\ stats[m].counts = SumTokens(groups[m]) /\ stats[m].cost = CostTokens(prices, m, SumTokens(groups[m]))
        /\ stats[m].priced = Knows(prices, m)
    BY <1>2, <1>4 DEF BuildModelStats, ModelKey
  <2> QED BY <2>1 DEF Modelled
<1> QED BY <1>3, <1>4, <1>5

\* The premium part of a window: counts a row could have, no more of the cost than the whole,
\* and on one model its own counts.
LEMMA SliceIs ==
    ASSUME NEW prices, Rated(prices), NEW rows, Window(rows), NEW stats, stats = BuildModelStats(prices, rows),
           NEW premium \in SUBSET DOMAIN stats, \A m \in premium : stats[m].priced,
           NEW slice, slice = SliceOf(stats, premium), NEW cost, cost = CostsOf(stats, premium)
    PROVE  /\ Metered(slice)
           /\ TotalOf(cost) \in Nat /\ TotalOf(cost) <= Paid(prices, rows) /\ Paid(prices, rows) \in Nat
           /\ \A m : premium = {m} => Knows(prices, m) /\ CostTokens(prices, m, slice) = TotalOf(cost)
<1>1. PICK c, v, P : /\ c = ModelKey(rows) /\ v = Costs(prices, rows) /\ P = {u \in rows : c[u] \in premium}
  OBVIOUS
<1>2. /\ DOMAIN c = rows /\ Summable(v) /\ DOMAIN v = rows /\ P \in SUBSET rows /\ rows \in SUBSET rows
      /\ \A u \in rows : c[u] = u.model
  BY <1>1, RowsCount DEF ModelKey
<1>3. /\ \A m : m \in DOMAIN stats <=> \E u \in rows : c[u] = m
      /\ \A m \in DOMAIN stats : Modelled(prices, stats[m], m, Fiber(c, rows, m))
  BY <1>1, ModelsAre
<1>4. \A m : Fiber(c, rows, m) \in SUBSET rows /\ \A u \in Fiber(c, rows, m) : u.model = m
  BY <1>2 DEF Fiber
<1>5. IsFiniteSet(premium)
  <2>1. PICK S : S = {c[x] : x \in rows}
    OBVIOUS
  <2>2. IsFiniteSet(S)
    BY <1>2, <2>1, ValuesFinite DEF Window
  <2>3. premium \in SUBSET S
    BY <1>3, <2>1
  <2> QED BY <2>2, <2>3, FS_Subset
<1>6. ASSUME NEW m \in premium
      PROVE  /\ Knows(prices, m) /\ Metered(SumTokens(Fiber(c, rows, m))) /\ stats[m].counts = SumTokens(Fiber(c, rows, m))
             /\ cost[m] = CostTokens(prices, m, SumTokens(Fiber(c, rows, m)))
             /\ cost[m] = PartSum(v, Fiber(c, rows, m))
  <2>1. PICK s : s = Fiber(c, rows, m)
    OBVIOUS
  <2>2. Modelled(prices, stats[m], m, s) /\ stats[m].priced
    BY <1>3, <2>1
  <2>3. Knows(prices, m) /\ cost[m] = CostTokens(prices, m, SumTokens(s)) /\ stats[m].counts = SumTokens(s)
    BY <2>2 DEF Modelled, CostsOf
  <2>4. Metered(SumTokens(s))
    BY <1>4, <2>1, SumsMetered
  <2>5. CostTokens(prices, m, SumTokens(s)) = PartSum(v, s)
    BY <1>1, <1>4, <2>1, <2>3, ModelCosts
  <2> QED BY <2>1, <2>3, <2>4, <2>5
<1>7. TotalOf(cost) = PartSum(v, P)
  <2>1. PICK h : h = [m \in DOMAIN stats |-> PartSum(v, Fiber(c, P, m))]
    OBVIOUS
  <2>2. \A m : m \in DOMAIN h <=> \E u \in DOMAIN v : c[u] = m
    BY <1>2, <1>3, <2>1
  <2>3. Summable(h) /\ TotalOf(h) = PartSum(v, P)
    <3>1. \A m \in DOMAIN h : h[m] = PartSum(v, Fiber(c, P, m))
      BY <2>1
    <3> QED BY <1>2, <2>2, <3>1, PartSumGroups
  <2>4. \A m \in premium : Fiber(c, P, m) = Fiber(c, rows, m)
    BY <1>1 DEF Fiber
  <2>5. \A m \in DOMAIN h \ premium : h[m] = 0
    <3> SUFFICES ASSUME NEW m \in DOMAIN h \ premium PROVE h[m] = 0
      OBVIOUS
    <3>1. Fiber(c, P, m) = {}
      BY <1>1 DEF Fiber
    <3>2. PartSum(v, {}) = 0
      BY <1>2, PartSumZero
    <3> QED BY <2>1, <3>1, <3>2
  <2>6. cost = Part(h, premium)
    BY <1>6, <2>1, <2>4 DEF Part, CostsOf
  <2> QED BY <2>1, <2>3, <2>5, <2>6, SupportTotal
<1>8. Paid(prices, rows) = PartSum(v, rows)
  BY <1>1, <1>2, TotalCostIs
<1>9. TotalOf(cost) \in Nat /\ TotalOf(cost) <= Paid(prices, rows) /\ Paid(prices, rows) \in Nat
  BY <1>2, <1>7, <1>8, PartSumNat, PartSumWithin
<1>10. PICK a, b, x, d, e :
           /\ a = [m \in premium |-> stats[m].counts["in"]] /\ b = [m \in premium |-> stats[m].counts["out"]]
           /\ x = [m \in premium |-> stats[m].counts["read"]] /\ d = [m \in premium |-> stats[m].counts["write"]]
           /\ e = [m \in premium |-> stats[m].counts["long"]]
  OBVIOUS
<1>11. /\ DOMAIN a = premium /\ DOMAIN b = premium /\ DOMAIN x = premium /\ DOMAIN d = premium /\ DOMAIN e = premium
       /\ \A m \in premium : a[m] \in Nat /\ b[m] \in Nat /\ x[m] \in Nat /\ d[m] \in Nat /\ e[m] \in Nat /\ e[m] <= d[m]
  BY <1>6, <1>10 DEF Metered
<1>12. Summable(a) /\ Summable(b) /\ Summable(x) /\ Summable(d) /\ Summable(e)
  BY <1>5, <1>11 DEF Summable
<1>13. /\ slice.in = TotalOf(a) /\ slice.out = TotalOf(b) /\ slice.read = TotalOf(x) /\ slice.write = TotalOf(d)
       /\ slice.long = TotalOf(e)
  BY <1>10 DEF NoTokens, SliceOf
<1>14. Metered(slice)
  <2>1. TotalOf(e) <= TotalOf(d)
    BY <1>11, <1>12, LessTotal
  <2>2. TotalOf(a) \in Nat /\ TotalOf(b) \in Nat /\ TotalOf(x) \in Nat /\ TotalOf(d) \in Nat /\ TotalOf(e) \in Nat
    BY <1>12, UnitsAre
  <2> QED BY <1>13, <2>1, <2>2 DEF Metered
<1>15. ASSUME NEW m, premium = {m}
       PROVE  Knows(prices, m) /\ CostTokens(prices, m, slice) = TotalOf(cost)
  <2>1. PICK t : t = SumTokens(Fiber(c, rows, m))
    OBVIOUS
  <2>2. Knows(prices, m) /\ Metered(t) /\ stats[m].counts = t /\ cost[m] = CostTokens(prices, m, t)
    BY <1>6, <1>15, <2>1
  <2>3. a[m] \in Nat /\ b[m] \in Nat /\ x[m] \in Nat /\ d[m] \in Nat /\ e[m] \in Nat
    BY <1>11, <1>15
  <2>4. /\ TotalOf(a) = a[m] /\ TotalOf(b) = b[m] /\ TotalOf(x) = x[m] /\ TotalOf(d) = d[m] /\ TotalOf(e) = e[m]
    BY <1>11, <1>15, <2>3, OneTotal
  <2>5. t.in = slice.in /\ t.out = slice.out /\ t.read = slice.read /\ t.write = slice.write /\ t.long = slice.long
    BY <1>10, <1>13, <1>15, <2>2, <2>4
  <2>6. CostTokens(prices, m, slice) = CostTokens(prices, m, t)
    BY <2>5 DEF CostTokens
  <2>7. CostTokens(prices, m, t) \in Nat
    BY <2>2, CostTokensIs
  <2>8. TotalOf(cost) = cost[m]
    <3>1. DOMAIN cost = {m} /\ cost[m] \in Nat
      BY <1>15, <2>2, <2>7 DEF CostsOf
    <3> QED BY <3>1, OneTotal
  <2> QED BY <2>2, <2>6, <2>8
<1> QED BY <1>9, <1>14, <1>15

\* What the window's basis holds.
LEMMA BasisIs ==
    ASSUME Rated(Prices), Window(usage), NEW in, in = Input,
           NEW b, b = Basis(in, frame.start, frame.now), NEW stats, stats = BuildModelStats(Prices, usage),
           NEW cost, cost = CostsOf(stats, b.models)
    PROVE  /\ in.prices = Prices
           /\ b.models \in SUBSET DOMAIN stats /\ \A m \in b.models : stats[m].priced
           /\ b.slice = SliceOf(stats, b.models)
           /\ b.sliceCost = TotalOf(cost) /\ b.cost = Paid(Prices, usage)
<1>1. in.prices = Prices /\ in.byModel = stats /\ in.totals.cost = TotalCost(Prices, usage)
  <2>1. in.prices = Prices /\ in.byModel = stats /\ in.totals = BuildTotals(Prices, usage)
    BY DEF Input, Bundle, BuildInput
  <2>2. BuildTotals(Prices, usage).cost = TotalCost(Prices, usage)
    BY DEF BuildTotals
  <2> QED BY <2>1, <2>2
<1>2. b.models = {m \in DOMAIN stats : stats[m].tier = "premium" /\ stats[m].priced}
  BY <1>1 DEF Basis
<1>3. b.slice = SliceOf(stats, b.models)
  BY <1>1, <1>2 DEF Basis, SliceOf
<1>4. b.sliceCost = TotalOf(cost)
  BY <1>1, <1>2 DEF Basis, CostsOf
<1>5. b.cost = Paid(Prices, usage)
  BY <1>1 DEF Basis, Paid
<1> QED BY <1>1, <1>2, <1>3, <1>4, <1>5

\* A part is no more than its whole.
LEMMA ShareAtMostOne ==
    ASSUME NEW a \in Nat, NEW b \in Nat, a <= b
    PROVE  ~ Below(<<1, 1>>, FracOf(a, b))
<1>1. PICK f : f = FracOf(a, b)
  OBVIOUS
<1>2. CASE b = 0
  <2>1. f[1] = 0 /\ f[2] = 1
    BY <1>1, <1>2 DEF FracOf
  <2> QED BY <1>1, <2>1 DEF Below
<1>3. CASE b # 0
  <2>1. f[1] = a /\ f[2] = b
    BY <1>1, <1>3 DEF FracOf
  <2> QED BY <1>1, <2>1 DEF Below
<1> QED BY <1>2, <1>3

\* What a route moves: the premium part's cost, to the cost of its counts on another model.
LEMMA RouteIs ==
    ASSUME NEW b, NEW in, NEW against, NEW onto, onto = Routes(b, in, against).found, NEW m \in DOMAIN onto
    PROVE  /\ Knows(in.prices, m)
           /\ onto[m].window = b.cost - b.sliceCost + CostTokens(in.prices, m, b.slice)
           /\ onto[m].delta = b.sliceCost - CostTokens(in.prices, m, b.slice)
<1>1. PICK found : /\ found = DOMAIN onto /\ \A t \in found : Knows(in.prices, t)
                   /\ \A t \in found : /\ onto[t].window = b.cost - b.sliceCost + CostTokens(in.prices, t, b.slice)
                                       /\ onto[t].delta = b.sliceCost - CostTokens(in.prices, t, b.slice)
  BY DEF Routes
<1> QED BY <1>1

LEMMA Floored == ASSUME NEW b, b.unpriced[1] > 0 PROVE "a floor" \in Assumptions(b, 0)
BY Zenon DEF Assumptions

LEMMA ComputeIs ==
    ASSUME NEW in, NEW against, NEW start, NEW end, NEW p, p = Compute(in, start, end, 0, {}, against)
    PROVE  /\ p.basis = Basis(in, start, end)
           /\ p.routes = Routes(p.basis, in, against)
           /\ p.assumptions = Assumptions(p.basis, 0)
BY DEF Compute

LEMMA RoutesHold ==
    ASSUME Rated(Prices), Window(usage), NEW in, in = Input, NEW against,
           NEW p, p = Compute(in, frame.start, frame.now, 0, {}, against)
    PROVE  SameRoute(p.basis, p.routes.found, p.assumptions)
<1>1. PICK b, onto, stats, cost : /\ b = p.basis /\ onto = p.routes.found /\ stats = BuildModelStats(Prices, usage)
                                  /\ cost = CostsOf(stats, b.models)
  OBVIOUS
<1>2. /\ b = Basis(in, frame.start, frame.now) /\ onto = Routes(b, in, against).found
      /\ p.assumptions = Assumptions(b, 0)
  BY <1>1, ComputeIs
<1>3. /\ in.prices = Prices
      /\ b.models \in SUBSET DOMAIN stats /\ \A m \in b.models : stats[m].priced
      /\ b.slice = SliceOf(stats, b.models)
      /\ b.sliceCost = TotalOf(cost) /\ b.cost = Paid(Prices, usage)
  BY <1>1, <1>2, BasisIs
<1>4. PICK premium, slice : premium = b.models /\ slice = b.slice
  OBVIOUS
<1>5. /\ Metered(slice)
      /\ TotalOf(cost) \in Nat /\ TotalOf(cost) <= Paid(Prices, usage) /\ Paid(Prices, usage) \in Nat
      /\ \A m : premium = {m} => Knows(Prices, m) /\ CostTokens(Prices, m, slice) = TotalOf(cost)
  BY <1>1, <1>3, <1>4, SliceIs
<1>6. b.sliceCost \in Nat /\ b.cost \in Nat /\ b.sliceCost <= b.cost
  BY <1>3, <1>5
<1>7. ~ Below(<<1, 1>>, PremiumShare(b))
  BY <1>6, ShareAtMostOne DEF PremiumShare
<1>8. b.cost < Max({TotalCost(Prices, usage), 0}) \/ b.unpriced[1] > 0 => "a floor" \in p.assumptions
  <2>1. ~ (b.cost < Max({TotalCost(Prices, usage), 0}))
    BY <1>3, <1>6 DEF Paid
  <2>2. b.unpriced[1] > 0 => "a floor" \in p.assumptions
    BY <1>2, Floored, Zenon
  <2> QED BY <2>1, <2>2, Zenon
<1>9. ASSUME NEW m \in DOMAIN onto
      PROVE  /\ b.models = {m} => onto[m].delta = 0 /\ onto[m].window = b.cost
             /\ onto[m].window + onto[m].delta = b.cost
  <2>1. PICK n : n = CostTokens(Prices, m, slice)
    OBVIOUS
  <2>2. Knows(Prices, m) /\ onto[m].window = b.cost - b.sliceCost + n /\ onto[m].delta = b.sliceCost - n
    BY <1>2, <1>3, <1>4, <2>1, RouteIs
  <2>3. n \in Nat
    BY <1>5, <2>1, <2>2, CostTokensIs
  <2>4. b.models = {m} => n = b.sliceCost
    BY <1>3, <1>4, <1>5, <2>1
  <2> QED BY <1>6, <2>2, <2>3, <2>4
<1>10. /\ \A m \in DOMAIN onto : b.models = {m} => onto[m].delta = 0 /\ onto[m].window = b.cost
       /\ \A m \in DOMAIN onto : onto[m].window + onto[m].delta = b.cost
  BY <1>9
<1>11. SameRoute(b, onto, p.assumptions)
  BY <1>7, <1>8, <1>10, Zenon DEF SameRoute
<1> QED BY <1>1, <1>11, Zenon

LEMMA InputHolds == ASSUME Rated(Prices), Window(usage), NEW in, in = Input PROVE InputConserved(in)
<1>1. SameProjects(in)
  BY ProjectsHold
<1>2. ASSUME NEW p, p = Compute(in, frame.start, frame.now, 0, {}, Basis(in, frame.start, frame.now).models)
      PROVE  SameRoute(p.basis, p.routes.found, p.assumptions)
  BY <1>2, RoutesHold
<1> QED BY <1>1, <1>2 DEF InputConserved

-----------------------------------------------------------------------------
(* The bill. *)

BillTyped == IsFiniteSet(bill) /\ \A line \in bill : line.cost \in Int

\* What is of some days, and what is not.
On(S, days) == {x \in S : x.day \in days}
Off(S, days) == {x \in S : x.day \notin days}

\* What some lines bill is what those of some days bill and what the others do.
LEMMA BillSplits ==
    ASSUME NEW lines, IsFiniteSet(lines), \A l \in lines : l.cost \in Int, NEW days,
           NEW A, A = On(lines, days), NEW B, B = Off(lines, days)
    PROVE  /\ ExportCost(A) \in Int /\ ExportCost(B) \in Int
           /\ ExportCost(A) + ExportCost(B) = ExportCost(lines)
<1>1. PICK d : d = [l \in lines |-> l["cost"]]
  OBVIOUS
<1>2. DOMAIN d = lines /\ IsFiniteSet(DOMAIN d) /\ (\A l \in DOMAIN d : d[l] \in Int) /\ A \in SUBSET DOMAIN d
  BY <1>1 DEF On
<1>3. /\ BalanceOf(d) = BalanceOf(Part(d, A)) + BalanceOf(Part(d, DOMAIN d \ A))
      /\ BalanceOf(Part(d, A)) \in Int /\ BalanceOf(Part(d, DOMAIN d \ A)) \in Int
  BY <1>2, SplitBalance
<1>4. DOMAIN d \ A = B /\ B \in SUBSET lines /\ A \in SUBSET lines
  BY <1>2 DEF On, Off
<1>5. Part(d, A) = [l \in A |-> l.cost] /\ Part(d, B) = [l \in B |-> l.cost]
  BY <1>1, <1>4 DEF Part
<1> QED BY <1>1, <1>3, <1>4, <1>5 DEF ExportCost

\* What the window costs is what it costs on some days, priced rows alone, and on the others.
LEMMA PaidSplits ==
    ASSUME NEW prices, Rated(prices), NEW rows, Window(rows), NEW days,
           NEW A, A = PricedRows(prices, On(rows, days)), NEW B, B = Off(rows, days)
    PROVE  Paid(prices, A) \in Nat /\ Paid(prices, A) + Paid(prices, B) = Paid(prices, rows)
<1>1. PICK f, C : f = Costs(prices, rows) /\ C = On(rows, days)
  OBVIOUS
<1>2. Summable(f) /\ DOMAIN f = rows
  BY <1>1, RowsCount
<1>3. /\ A \in SUBSET rows /\ B \in SUBSET rows /\ C \in SUBSET rows /\ rows \in SUBSET rows
      /\ C \cap B = {} /\ C \cup B = rows /\ A \in SUBSET C
  BY <1>1 DEF PricedRows, On, Off
<1>4. PICK D : D = C \ A
  OBVIOUS
<1>5. D \in SUBSET rows /\ A \cap D = {} /\ A \cup D = C /\ \A u \in D : f[u] = 0
  BY <1>1, <1>3, <1>4 DEF PricedRows, Costs
<1>6. PartSum(f, C) = PartSum(f, A) + PartSum(f, D)
  BY <1>2, <1>3, <1>5, PartSumUnion
<1>7. PartSum(f, rows) = PartSum(f, C) + PartSum(f, B)
  BY <1>2, <1>3, PartSumUnion
<1>8. PartSum(f, D) = 0
  BY <1>2, <1>5, PartSumZero
<1>9. Paid(prices, A) = PartSum(f, A) /\ Paid(prices, B) = PartSum(f, B) /\ Paid(prices, rows) = PartSum(f, rows)
  BY <1>1, <1>3, TotalCostIs
<1>10. PartSum(f, A) \in Nat /\ PartSum(f, B) \in Nat
  BY <1>2, <1>3, PartSumNat
<1> QED BY <1>6, <1>7, <1>8, <1>9, <1>10

\* What the comparison sets on each side of its scope.
Sided(prices, exp, rows, days, c) ==
    /\ c.exportCost = ExportCost(On(ExportRows(exp), days))
    /\ c.scope.exportOutside = ExportCost(Off(ExportRows(exp), days))
    /\ c.estimate.priced = Paid(prices, PricedRows(prices, On(rows, days)))
    /\ c.scope.estimateOutside = Paid(prices, Off(rows, days))
    /\ c.delta = c.exportCost - c.estimate.priced

LEMMA CompareIs ==
    ASSUME NEW prices, NEW exp, NEW rows, NEW start, NEW end, NEW c, c = Compare(prices, exp, rows, start, end),
           ~ c.refused
    PROVE  \E days : Sided(prices, exp, rows, days, c)
<1>1. PICK scope, est : scope = BuildScope(prices, exp, rows, start, end) /\ est = BuildEstimate(prices, rows, scope)
  OBVIOUS
<1>2. c = Comparison(exp, scope, est)
  <2>1. c = [refused |-> TRUE] \/ c = Comparison(exp, scope, est)
    BY <1>1 DEF Compare
  <2>2. c # [refused |-> TRUE]
    OBVIOUS
  <2> QED BY <2>1, <2>2
<1>3. PICK days : days = scope.overlap
  OBVIOUS
<1>4. /\ c.scope = scope /\ c.estimate = est
      /\ c.exportCost = ExportCost(On(ExportRows(exp), days))
      /\ c.delta = c.exportCost - est.priced
  BY <1>2, <1>3 DEF Comparison, On
<1>5. /\ scope.exportOutside = ExportCost(Off(ExportRows(exp), days))
      /\ scope.estimateOutside = Paid(prices, Off(rows, days))
  BY <1>1, <1>3 DEF BuildScope, Paid, Off
<1>6. est.priced = Paid(prices, PricedRows(prices, On(rows, days)))
  BY <1>1, <1>3 DEF BuildEstimate, Paid, On
<1>7. Sided(prices, exp, rows, days, c)
  BY <1>4, <1>5, <1>6 DEF Sided
<1> QED BY <1>7

LEMMA BillHolds ==
    ASSUME Rated(Prices), Window(usage), BillTyped,
           NEW c, c = Compare(Prices, Export, usage, frame.start, frame.now)
    PROVE  SameBill(c)
<1> SUFFICES ASSUME ~ c.refused PROVE SameBill(c)
  BY DEF SameBill
<1>1. PICK days : Sided(Prices, Export, usage, days, c)
  BY CompareIs
<1>2. PICK lines, A, B, P, Q :
        /\ lines = ExportRows(Export) /\ A = On(lines, days) /\ B = Off(lines, days)
        /\ P = PricedRows(Prices, On(usage, days)) /\ Q = Off(usage, days)
  OBVIOUS
<1>3. IsFiniteSet(lines) /\ \A l \in lines : l.cost \in Int
  <2>1. lines \in SUBSET bill
    BY <1>2 DEF ExportRows, Export
  <2> QED BY <2>1, FS_Subset DEF BillTyped
<1>4. /\ ExportCost(A) \in Int /\ ExportCost(B) \in Int
      /\ ExportCost(A) + ExportCost(B) = ExportCost(lines)
  BY <1>2, <1>3, BillSplits
<1>5. Paid(Prices, P) \in Nat /\ Paid(Prices, P) + Paid(Prices, Q) = Paid(Prices, usage)
  BY <1>2, PaidSplits
<1>6. /\ c.exportCost + c.scope.exportOutside = ExportCost(ExportRows(Export))
      /\ c.estimate.priced + c.scope.estimateOutside = Paid(Prices, usage)
      /\ c.estimate.priced + c.delta = c.exportCost
  BY <1>1, <1>2, <1>4, <1>5 DEF Sided
<1> QED BY <1>6 DEF SameBill, Paid

-----------------------------------------------------------------------------
(* What the reports add up. *)

LEMMA BillInit == Init => BillTyped
BY FS_EmptySet DEF Init, BillTyped

LEMMA BillNext == BillTyped /\ [Next]_vars => BillTyped'
<1> SUFFICES ASSUME BillTyped, [Next]_vars PROVE BillTyped'
  OBVIOUS
<1>1. CASE ReadBill
  <2>1. PICK line \in BillPool : bill' = bill \cup {line}
    BY <1>1 DEF ReadBill
  <2>2. line.cost \in Int
    BY <2>1, FiguresAssumption
  <2>3. IsFiniteSet(bill \cup {line})
    BY FS_AddElement DEF BillTyped
  <2> QED BY <2>1, <2>2, <2>3 DEF BillTyped
<1>2. CASE bill' = bill
  BY <1>2 DEF BillTyped
<1>3. ReadBill \/ bill' = bill
  BY DEF Next, vars, ImportUsage, ImportSessions, ImportStep, RefreshPrices, Elapse
<1> QED BY <1>1, <1>2, <1>3

\* Every price the table gives is of the snapshot or of the ledger, and charges naturals.
LEMMA PricesRated == LedgerHolds => Rated(Prices)
<1> SUFFICES ASSUME LedgerHolds, NEW m \in DOMAIN Prices PROVE Charging(Prices[m])
  BY DEF Rated
<1>1. PICK s, known, t : s = Snapshot /\ known = ledger /\ t = Load(s, known)
  OBVIOUS
<1>2. s \in Listings
  BY <1>1, SnapshotListed
<1>3. /\ m \in DOMAIN s /\ m \in DOMAIN t => m \in DOMAIN Parse(s) /\ t[m] = Parse(s)[m]
      /\ m \notin DOMAIN s => /\ m \in DOMAIN t <=> m \in DOMAIN known
                              /\ m \in DOMAIN known => t[m] = AsRetained(known[m])
  BY <1>1, <1>2, LoadGives
<1>4. t = Prices /\ m \in DOMAIN t
  BY <1>1 DEF Prices
<1>5. CASE m \in DOMAIN s
  <2>1. m \in DOMAIN Parse(s) /\ t[m] = Parse(s)[m]
    BY <1>3, <1>4, <1>5
  <2>2. Parse(s)[m] \in Rates
    BY <1>2, <2>1, ListingsParse
  <2> QED BY <1>4, <2>1, <2>2 DEF Rates, Charging
<1>6. CASE m \notin DOMAIN s
  <2>1. m \in DOMAIN known /\ t[m] = AsRetained(known[m])
    BY <1>3, <1>4, <1>6
  <2>2. known[m] \in Rates
    BY <1>1, <2>1 DEF LedgerHolds
  <2> QED BY <1>4, <2>1, <2>2 DEF Rates, Charging, AsRetained
<1> QED BY <1>5, <1>6

\* The status page beside each table.
LEMMA PageHolds ==
    ASSUME Rated(Prices), Window(usage), NEW page, page = BuildInventory(Prices, usage)
    PROVE  PageConserved(page)
<1>1. /\ page.cost = TotalCost(Prices, usage)
      /\ page.unpriced.tokens = TokensIn(usage \ PricedRows(Prices, usage))
  BY DEF BuildInventory
<1>2. ASSUME NEW by, NEW table, table = Table(Prices, usage, by) PROVE SameTable(table, BuildUnpriced(table), page)
  <2>1. PICK u, priced : u = BuildUnpriced(table) /\ priced = PricedGroups(table)
    OBVIOUS
  <2>2. Tabled(Prices, usage, table)
    BY <1>2, TableHolds
  <2>3. usage \in SUBSET usage
    OBVIOUS
  <2>4. TotalCost(Prices, usage) = Unpriced <=> PricedRows(Prices, usage) = {}
    BY <2>3, TotalCostIs
  <2>5. (priced = {}) = (page.cost = Unpriced)
    BY <1>1, <2>1, <2>2, <2>4 DEF Tabled
  <2> QED BY <1>1, <2>1, <2>2, <2>5 DEF SameTable, Tabled, Paid, PricedGroups, PaidBy
<1>3. ASSUME NEW table, table = Table(Prices, usage, "") PROVE SameLegend(BuildUnpriced(table), page)
  BY <1>3, LegendHolds DEF SameLegend
<1>4. ASSUME NEW by, NEW table, table = BuildEffectiveness(Prices, usage, by)
      PROVE  SameRate(table, page.lineRate) /\ RateTold(table, page.lineRate)
  BY <1>4, RateSays
<1>5. ASSUME NEW recent, recent = SplitRecent(usage, 4, 2)
      PROVE  SameMoves(BuildEffectiveness(Prices, recent, "tool"), BuildEffectiveness(Prices, usage \ recent, "tool"), recent)
  <2>1. recent \in SUBSET usage
    BY <1>5 DEF SplitRecent
  <2> QED BY <2>1, MovesHold
<1> QED BY <1>2, <1>3, <1>4, <1>5 DEF PageConserved

\* Every grouping of a window is the same window (report/unpriced.go, line_credit.go, movers.go,
\* reprice/route.go, reconcile/scope.go): whatever rows are imported, prices refreshed and lines
\* billed, the tables, the ratios, the movers, the routes and the comparison with the bill add up
\* to what the status page says, and what they leave out is said beside them.
THEOREM SpendIsConserved == FiguresSpec => []SpendConserved
<1>1. WindowInv /\ LedgerHolds /\ BillTyped => SpendConserved
  <2> SUFFICES ASSUME WindowInv, LedgerHolds, BillTyped PROVE SpendConserved
    OBVIOUS
  <2>1. Rated(Prices) /\ Window(usage)
    BY PricesRated DEF WindowInv, WindowTyped, Window
  <2>2. PageConserved(BuildInventory(Prices, usage))
    BY <2>1, PageHolds
  <2>3. InputConserved(Input)
    BY <2>1, InputHolds
  <2>4. SameBill(Compare(Prices, Export, usage, frame.start, frame.now))
    BY <2>1, BillHolds
  <2> QED BY <2>2, <2>3, <2>4 DEF SpendConserved
<1>2. FiguresSpec => []LedgerHolds
  BY LedgerInit, LedgerNext, PTL DEF FiguresSpec
<1>3. FiguresSpec => []BillTyped
  BY BillInit, BillNext, PTL DEF FiguresSpec
<1> QED BY <1>1, <1>2, <1>3, WindowHolds, PTL
=============================================================================
