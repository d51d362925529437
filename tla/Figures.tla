------------------------------ MODULE Figures ------------------------------
(* A window as the reports read it while it grows: usage rows, sessions and  *)
(* step sequences are imported, a bill arrives, the price table is refreshed,*)
(* and time passes.  Everything else is computed from it at every read.      *)
EXTENDS Integers, Sequences, FiniteSets, SequencesExt, FiniteSetsExt, Analyses, Reconcile

CONSTANTS
    Sides,              \* which part of the window grows: "money", "reads" or "steps"
    RowPool,            \* side -> sets of usage rows imported together
    SessionPool,        \* sets of sessions imported together
    StepPool,           \* steps a sequence may be appended, without their stamp
    TracePool,          \* whole windows of sequences, for the reads
    BillPool,           \* lines of a vendor's export
    Columns,            \* columns the export names
    Snapshots,          \* the price tables of successive refreshes
    Frames,             \* side -> when its window may start and its store's history, in instants, and what
                        \* the store adds to it: tokens by skill, and premium turns by model
    Today, LastDay,     \* the days the reads run over
    MaxRows,            \* side -> bound of the rows of its window
    MaxSessions, MaxSteps, MaxLines     \* bounds of its sessions, steps and export

\* What a row counts, and what the pools hold: rows whose counts are natural, the long cache
\* writes among the writes (usage/bounds.go), snapshots whose rates are natural where the
\* vendor publishes them, sequences of steps whose stamps are, and bills of whole amounts.
Counted == {"in", "out", "read", "write", "long", "reasoning", "added", "removed", "rework", "edits", "calls",
            "rejected", "errors", "reads", "searches", "commands", "writes", "other"}
Counts(u) == u.day \in Nat /\ u.long <= u.write /\ \A c \in Counted : u[c] \in Nat
Timed(s) == Len(s) \in Nat /\ \A i \in DOMAIN s : s[i].at \in Nat
Listed == [input : Nat, output : Nat, write : Nat \cup {Absent}, long : Nat \cup {Absent}, read : Nat \cup {Absent}]

ASSUME FiguresAssumption ==
    /\ \A s \in Sides \ {"steps"} : \A rows \in RowPool[s] : IsFiniteSet(rows) /\ \A u \in rows : Counts(u)
    /\ \A group \in SessionPool : IsFiniteSet(group)
    /\ \A t \in TracePool : IsFiniteSet(DOMAIN t) /\ \A q \in DOMAIN t : Timed(t[q].steps)
    /\ \A line \in BillPool : line.cost \in Int
    /\ Len(Snapshots) \in Nat \ {0}
    /\ \A i \in 1..Len(Snapshots) : \A m \in DOMAIN Snapshots[i] : Snapshots[i][m] \in Listed
    /\ \A s \in Sides : \A f \in Frames[s] : f.start \in Nat /\ f.history \in Nat
    /\ Today \in Nat

VARIABLES
    side,               \* the part that grows
    usage,              \* the window's usage rows
    sessions,           \* its sessions
    trace,              \* its step sequences
    bill,               \* the lines of the export
    refreshes,          \* how many times the price table was refreshed
    ledger,             \* last known prices of every model ever priced
    frame               \* [now, start, history, skills, turnSizing] of the read

vars == <<side, usage, sessions, trace, bill, refreshes, ledger, frame>>

Snapshot == Snapshots[refreshes + 1]
Prices == Load(Snapshot, ledger)
Export == [lines |-> bill, columns |-> Columns]
Bundle(built) ==
    [usage |-> usage, sessions |-> sessions, prices |-> built.prices, totals |-> built.totals, byModel |-> built.byModel,
     byProject |-> built.byProject, now |-> frame.now, start |-> frame.start, history |-> frame.history,
     recent |-> 2, plan |-> 30, skills |-> frame.skills, agents |-> {}, turnSizing |-> frame.turnSizing,
     misses |-> {}, trace |-> NewSet(trace)]
Input == Bundle(BuildInput(Prices, usage, sessions))

EmptyTrace == [q \in 1..2 |-> [session |-> q, member |-> "", timeline |-> "", entry |-> "cli", tool |-> "claude",
                               project |-> "p", steps |-> <<>>]]

Init ==
    /\ side \in Sides /\ usage = {} /\ sessions = {} /\ bill = {} /\ refreshes = 0
    /\ trace \in (CASE side = "steps" -> {EmptyTrace} [] side = "reads" -> TracePool [] OTHER -> {<<>>})
    /\ ledger = Fold(<<>>, Snapshots[1])
    /\ \E f \in Frames[side] : frame = [now |-> Today * DayLen + 1, start |-> f.start, history |-> f.history,
                                        skills |-> f.skills, turnSizing |-> f.turnSizing]

\* An import adds rows of usage.
ImportUsage ==
    /\ side # "steps"
    /\ \E rows \in RowPool[side] :
          /\ ~(rows \subseteq usage) /\ Cardinality(usage) < MaxRows[side]
          /\ usage' = usage \cup rows
    /\ UNCHANGED <<side, sessions, trace, bill, refreshes, ledger, frame>>

ImportSessions ==
    /\ side = "reads"
    /\ \E group \in SessionPool :
          /\ ~(group \subseteq sessions) /\ Cardinality(sessions) < MaxSessions
          /\ sessions' = sessions \cup group
    /\ UNCHANGED <<side, usage, trace, bill, refreshes, ledger, frame>>

\* A step is read of one of the sequences, later than every step read so far.
ImportStep ==
    /\ side = "steps" /\ StepsOf(trace) < MaxSteps
    /\ \E q \in DOMAIN trace, step \in StepPool :
          trace' = [trace EXCEPT ![q].steps =
                        Append(@, [kind |-> step.kind, ref |-> step.ref, outcome |-> step.outcome,
                                   tokens |-> step.tokens, at |-> StepsOf(trace) + 1])]
    /\ UNCHANGED <<side, usage, sessions, bill, refreshes, ledger, frame>>

\* A line of the vendor's export.
ReadBill ==
    /\ side = "money" /\ Cardinality(bill) < MaxLines
    /\ \E line \in BillPool \ bill : bill' = bill \cup {line}
    /\ UNCHANGED <<side, usage, sessions, trace, refreshes, ledger, frame>>

\* The vendored snapshot is replaced, and what it prices folded into the ledger.
RefreshPrices ==
    /\ side = "money" /\ refreshes + 1 < Len(Snapshots)
    /\ refreshes' = refreshes + 1
    /\ ledger' = Fold(ledger, Snapshots[refreshes + 2])
    /\ UNCHANGED <<side, usage, sessions, trace, bill, frame>>

\* A day passes.
Elapse ==
    /\ side = "reads" /\ frame.now < LastDay * DayLen
    /\ frame' = [frame EXCEPT !.now = @ + DayLen]
    /\ UNCHANGED <<side, usage, sessions, trace, bill, refreshes, ledger>>

Next == ImportUsage \/ ImportSessions \/ ImportStep \/ ReadBill \/ RefreshPrices \/ Elapse

FiguresSpec == Init /\ [][Next]_vars

-----------------------------------------------------------------------------
(* Correctness. *)

SameTable(table, u, page) ==
    LET priced == {k \in DOMAIN table : table[k].cost # Unpriced}
    IN  /\ u.total = TokensIn(usage)
        /\ u.tokens = page.unpriced.tokens
        /\ TotalOf([k \in priced |-> table[k].cost]) = Max({page.cost, 0})
        /\ (priced = {}) = (page.cost = Unpriced)
SameLegend(u, page) == UnpricedDisclosure(u) = UnpricedDisclosure(page.unpriced)
SameRate(table, rate) ==
    /\ EffTotals(table).lineRate = rate
    /\ rate.tokens + rate.blindTokens + rate.unpricedTokens + rate.sharedTokens = TokensIn(usage)
RateTold(table, rate) ==
    LET told == LineRateDisclosure(rate)
        written == rate.lines + rate.unpricedLines + rate.sharedLines
    IN  /\ Per100(rate) # NoRate /\ told = "nothing" => rate.tokens = TokensIn(usage)
        /\ Per100(rate) = NoRate /\ written > 0
            /\ (rate.lines = 0 \/ OwnTokens(rate) + rate.sharedTokens > 0) => told # "nothing"
        /\ EffCoverageNote(table) = "every source" =>
              \A u \in usage : RecordsLines(u.tool) /\ Answers(u.tool, "edits")
SameMoves(now, was, recent) ==
    LET moved == Movers(now, was)
        missing(rows) == TokensIn(rows \ PricedRows(Prices, rows))
        named == IF WorseWindow(now, was) = "prior" THEN usage \ recent ELSE recent
    IN  /\ BalanceOf([g \in DOMAIN moved |-> moved[g].delta])
             = Max({TotalCost(Prices, recent), 0}) - Max({TotalCost(Prices, usage \ recent), 0})
        /\ missing(usage) > 0 => missing(named) > 0
SameProjects(in) ==
    Merge([p \in DOMAIN in.byProject |-> in.byProject[p].lineRate]) = in.totals.lineRate
SameRoute(b, onto, assumptions) ==
    /\ ~Below(<<1, 1>>, PremiumShare(b))
    /\ b.cost < Max({TotalCost(Prices, usage), 0}) \/ b.unpriced[1] > 0 => "a floor" \in assumptions
    /\ \A m \in DOMAIN onto : b.models = {m} => onto[m].delta = 0 /\ onto[m].window = b.cost
    /\ \A m \in DOMAIN onto : onto[m].window + onto[m].delta = b.cost
SameBill(c) ==
    c.refused \/ /\ c.exportCost + c.scope.exportOutside = ExportCost(ExportRows(Export))
                 /\ c.estimate.priced + c.scope.estimateOutside = Max({TotalCost(Prices, usage), 0})
                 /\ c.estimate.priced + c.delta = c.exportCost
PageConserved(page) ==
    /\ \A by \in {"", "project", "model"} : \A table \in {Table(Prices, usage, by)} :
          /\ SameTable(table, BuildUnpriced(table), page)
          /\ by = "" => SameLegend(BuildUnpriced(table), page)
    /\ \A by \in {"tool", "model", "task"} : \A table \in {BuildEffectiveness(Prices, usage, by)} :
          SameRate(table, page.lineRate) /\ RateTold(table, page.lineRate)
    /\ LET recent == SplitRecent(usage, 4, 2)
       IN  SameMoves(BuildEffectiveness(Prices, recent, "tool"), BuildEffectiveness(Prices, usage \ recent, "tool"), recent)
InputConserved(in) ==
    /\ SameProjects(in)
    /\ \A p \in {Compute(in, frame.start, frame.now, 0, {}, Basis(in, frame.start, frame.now).models)} :
          SameRoute(p.basis, p.routes.found, p.assumptions)

\* Every grouping of a window is the same window, and what a figure leaves out is said beside it.
\* The table's rows add up to its tokens and its cost whatever they are grouped by, and
\* ungrouped it says of its cost what the status page says (report/unpriced.go); the ratios of
\* the effectiveness table's rows, and of the projects, add up to the status page's although a
\* session's lines are credited across rows (report/line_credit.go), and a ratio nothing is said
\* of divides the whole window; where lines were written and there is no ratio, that is said,
\* but of priced lines where no line-recording row has a token (report/disclosure_lines.go:56);
\* what moved between two weeks is the difference of their costs, and the one whose cost knows
\* less is named (report/movers.go); pricing the premium part again on its only model moves nothing
\* (reprice/route.go); and a bill and an estimate keep every day's cost on one side of the
\* comparison's scope (reconcile/scope.go).
SpendConserved ==
    side = "money" => /\ PageConserved(BuildInventory(Prices, usage)) /\ InputConserved(Input)
                      /\ SameBill(Compare(Prices, Export, usage, frame.start, frame.now))

About == [burn |-> {"tokens_total"}, explore |-> {"tool_calls"}, friction |-> {"tool_calls"},
          rework |-> {"rework", "rejected"}, reasoning |-> {"reasoning"}, context |-> {"compactions"},
          taxonomy |-> {"edits"}, turns |-> {"edits"}, long_tier |-> {"cache_write_1h"}]
Heard(in, signals) ==
    LET hears(t) == SignalsAnsweredBy(t) \cap signals # {}
        rows == {u \in usage : hears(u.tool)}
        group == {s \in sessions : hears(s.tool)}
    IN  [in EXCEPT !.usage = rows, !.sessions = group, !.totals = BuildTotals(Prices, rows)]
SpokenFigures(in, verdict) ==
    CASE verdict = "burn" -> TokensPerDay(UsageAnswering(in.usage, "tokens_total"))
      [] verdict = "explore" -> ToolMix(in.usage)
      [] verdict = "friction" -> BuildFriction(in.usage)
      [] verdict = "rework" -> BuildChurn(in.usage).rate
      [] verdict = "reasoning" -> ReasoningShare(in.usage)
      [] verdict = "taxonomy" -> EditMix(in.sessions)
      [] verdict = "turns" -> OneShotRate(in)
      [] verdict = "long_tier" -> LongTier(in)
      [] verdict = "context" -> BuildSessionStats(in.sessions).compactionRate
Said(v) == [read |-> v.read, purity |-> IF v.read = "no-data" THEN Half ELSE v.purity]
Spoken(in, verdict) ==
    [figures |-> SpokenFigures(in, verdict),
     says |-> Said(IF verdict = "long_tier" THEN NoData(NoRate) ELSE VerdictOf(in, verdict))]
SilentOf(in) ==
    \A verdict \in DOMAIN About :
        Cardinality({Spoken(i, verdict) : i \in {in, Heard(in, About[verdict])}}) = 1

\* What a source cannot record is never taken for a zero: the usage and the sessions of sources
\* that answer none of what a verdict is about change neither what it says nor its figures
\* (analyze/capability.go, report/answering.go, report/churn.go).
SilenceIsNotZero == side = "reads" => SilentOf(Input)

Broken(s) == s.kind = "compaction" \/ FailedOutcome(s.outcome)
Follows(steps, i) ==
    /\ steps[i].kind = "assistant"
    /\ \E j \in 1..(i - 1) : Broken(steps[j]) /\ i - j <= RecoveryWindow
Returns(steps, i) ==
    /\ steps[i].kind = "edit" /\ steps[i].ref # 0
    /\ \E j \in 1..(i - 1) :
          /\ steps[j].kind = "edit" /\ steps[j].ref = steps[i].ref
          /\ \A k \in (j + 1)..(i - 1) : ~(steps[k].kind = "edit" /\ steps[k].ref = steps[i].ref)
          /\ \E k \in (j + 1)..(i - 1) : steps[k].kind = "command"
TokensWhere(In(_, _)) ==
    SumOf(LAMBDA q : SumOf(LAMBDA i : IF q.steps[i].kind = "assistant" /\ In(q.steps, i) THEN q.steps[i].tokens ELSE 0,
                           [i \in DOMAIN q.steps |-> i]), trace)
TurnsWhere(In(_, _)) ==
    SumOf(LAMBDA q : Cardinality({i \in DOMAIN q.steps : q.steps[i].kind = "assistant" /\ In(q.steps, i)}), trace)
Elsewhere(steps, i) == ~Follows(steps, i)
Repeated(q) == Cardinality({i \in DOMAIN q.steps : Returns(q.steps, i)})

\* What follows a failure is counted once, on its own side: a turn is of the aftermath when a
\* failure or a loss of context is at most RecoveryWindow steps before it in its own sequence,
\* and the baseline it is compared with holds no such turn (analyze/recovery_aftermath.go); an
\* edit repeats when a command ran since the last edit of its file (edit_loops_repeats.go); and
\* a window split into its sessions ends the same ones, because "now" is the store's and not the
\* subset's (trace/trace.go ForSessions).
TracesExact ==
    side = "steps" =>
        LET set == NewSet(trace)
            a == BuildAftermath(RecoveryView(set), set.newest)
            of(S) == LET part == ForSessions(set, S) IN BuildAftermath(RecoveryView(part), part.newest)
            first == of({<<1, "">>})
            second == of({<<2, "">>})
            after == <<TokensWhere(Follows), TurnsWhere(Follows)>>
            base == <<TokensWhere(Elsewhere), TurnsWhere(Elsewhere)>>
        IN  /\ a.afterTokens = after[1] /\ a.afterTurns = after[2]
            /\ CostRatio(a) # <<>> => CostRatio(a)[1] * base[1] * after[2] = CostRatio(a)[2] * after[1] * base[2]
            /\ \A q \in DOMAIN trace :
                  CountRepeatEdits(trace[q]).repeats = Repeated(trace[q])
            /\ LET projects == ByProject(BuildRepeats(ScopeView(set, "interactive")))
               IN  \A p \in DOMAIN projects :
                      projects[p].repeats =
                        SumOf(Repeated, RestrictValues(trace, LAMBDA q : q.project = p
                                                                         /\ CountRepeatEdits(q).edits >= MinEdits))
            /\ a.open = first.open + second.open
            /\ Count(a.abandoned) = Count(first.abandoned) + Count(second.abandoned)

Blames(r) == InsufficientReason(r.confidence, "calls")
BlamesTrue(r) ==
    r.label = "insufficient" /\ r.name = "friction" =>
        LET of == UsageAnswering(usage, "tool_errors")
        IN  /\ Blames(r) = "stale parse" => \E u \in of : u.calls > 0 /\ Classified(u) = 0
            /\ Blames(r) = "nothing can answer" => \A u \in of : u.calls = 0
LeadsOf(lead) ==
    LET led == {r \in DOMAIN lead : lead[r] > 0}
    IN  /\ \A r \in led : /\ r.read = "watch" /\ r.confidence.samples >= SampleFloor
                          /\ \A axis \in Axes(r.confidence) : ~Below(axis, Half)
                          /\ r.withheld = {}
        /\ {lead[r] : r \in led} = 1..Cardinality(led)
        /\ \A r \in DOMAIN lead : BlamesTrue(r)
AllLeads(in) == LeadsOf(MarkLead(AllResults(in)))

\* A finding leads only on evidence: of at least SampleFloor samples, with every axis of its
\* confidence and its own subject covering half the window; the leads are the first places, each
\* held once; what holds a lead is nothing a window lacks; and a verdict that rests on nothing
\* blames rows of an older build only where a source of the window records its subject
\* (analyze/ranking.go, confidence.go).
LeadsHonest == side = "reads" => AllLeads(Input)

Wrote(tool, days) ==
    ColumnSum("added", {u \in usage : u.tool = tool /\ u.day \in days})
TrendOfLines(t) ==
    LET today == frame.now \div DayLen
        week == (today - 2)..(today - 1)
        before == (today - 4)..(today - 3)
        old == {u.tool : u \in {v \in usage : v.day <= today - 4 /\ RecordsLines(v.tool)}}
        recording == {u.tool : u \in usage} \cap {v \in Tools : RecordsLines(v)}
    IN  /\ TrendNote(t).sums => t.now + t.was + t.left = TotalOf([v \in recording |-> Wrote(v, week \cup before)])
        /\ LeftShare(t)[1] > 0 => TrendNote(t).leftOut
        /\ Readable(t) => /\ frame.start <= (today - 4) * DayLen
                          /\ frame.history # 0 => frame.history < (today - 3) * DayLen
                          /\ t.now > t.was => \E tool \in old : Wrote(tool, week) > Wrote(tool, before)
                          /\ t.now < t.was => \E tool \in old : Wrote(tool, week) < Wrote(tool, before)
TrendOfTokens(t) ==
    LET today == frame.now \div DayLen
        spent == TokensIn({u \in usage : Tokened(u) /\ u.day \in (today - 4)..(today - 1)})
    IN  TrendNote(t).sums => t.now + t.was + t.left = spent
TrendsOf(in) == TrendOfLines(LinesTrend(in)) /\ TrendOfTokens(BurnTrend(in))

\* A direction is one some source took: a readable rise (fall) of a week over the one before is
\* a rise (fall) of the rows of a source already running when the earlier one opened, over whole
\* days the window and the store's history both hold; and its sums and what it says it leaves
\* out are the two weeks whole (analyze/trend.go readTrend, sources; trend_figure.go).
TrendInventsNothing == side = "reads" => TrendsOf(Input)

PricesStay ==
    \A m \in Models :
        /\ Knows(Prices, m) /\ m \in DOMAIN Prices /\ m \in Unprefixed /\ m \notin DOMAIN Snapshot'
            => /\ m \in DOMAIN Prices'
               /\ [Prices'[m] EXCEPT !.retained = FALSE] = [Prices[m] EXCEPT !.retained = FALSE]
        /\ m \in DOMAIN Snapshot' /\ m \in DOMAIN Prices' => ~Prices'[m].retained

\* A refreshed table never unprices the history: a model priced before is priced after, at the
\* last rate it was listed at, unless the new table lists it without one (pricing/retained.go).
HistoryStaysPriced == [][PricesStay]_vars

-----------------------------------------------------------------------------
(* What the code says of itself. *)

UnseenOf(c) ==
    LET seen == {Lowered[u.model] : u \in {w \in usage : w.in > 0}}
    IN  c.refused \/ c.causes.neverRecorded <= ExportCost({l \in bill : l.day \in c.scope.overlap /\ l.model # ""
                                                                        /\ Lowered[l.model] \notin seen})

\* What is "billed for models the local logs never recorded" (reconcile/delta.go:117) is of
\* models no row of the window has a token of.
NeverRecordedIsUnseen == side = "money" => UnseenOf(Compare(Prices, Export, usage, frame.start, frame.now))
=============================================================================
