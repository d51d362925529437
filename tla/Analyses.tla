------------------------------ MODULE Analyses ------------------------------
(* The analyses themselves: what each reads of an input, what it says of it, *)
(* and the samples and the share of the window it says so from.  Only        *)
(* adoption, burn, coverage, subscription and edit loops ever give a finding *)
(* to watch; the others report, or say that there is no data.                *)
EXTENDS Integers, Sequences, FiniteSets, FiniteSetsExt, Verdicts

CONSTANTS
    BurnMinDays,        \* days below which no day is unusual (7)
    MinSessions,        \* sessions below which a mix or a rhythm is not read (5)
    MinCalls,           \* calls below which no rate is read (50 classified, 30 observed)
    MinTurns,           \* premium turns below which no share is read (20)
    SkillMinTokens,     \* attributed tokens below which no split is read (100k)
    LightMax,           \* edits of a light session (10)
    OneShotMax,         \* turns of a one-shot session (2)
    MinTokenShare       \* share of the tokens a project's gap is read from (5%)

\* Those that may give a finding to watch, and all of them.
Watching == {"adoption", "burn", "coverage", "edit_loops", "subscription"}
Named == Watching \cup {"cache", "concentration", "context", "explore", "friction", "intent", "model_fit", "right_sizing",
                        "reasoning", "recovery", "rework", "rhythm", "taxonomy", "skills", "throughput", "turns"}

ASSUME FloorsAssumption ==
    {BurnMinDays, MinSessions, MinCalls, MinTurns} \subseteq Nat \ {0} /\ DOMAIN NameOrder \subseteq Named

ActiveDays(in) == {u.day : u \in in.usage}
ShareOf(part, whole) == FracOf(part, whole)

-----------------------------------------------------------------------------
(* Over the usage rows. *)

TokensPerDay(rows) == [d \in {u.day : u \in rows} |-> TokensIn({u \in rows : u.day = d})]
MedianTokens(days) == Median2(days) \div 2

BurnSpikes(days) ==
    LET median == MedianTokens(days)
        spread == Spread(DeviationsFrom(days, 2 * median))
    IN  IF Cardinality(DOMAIN days) < BurnMinDays \/ spread < 0 THEN {}
        ELSE {d \in DOMAIN days : 40000 * (days[d] - median) > spread}

Burn(in) ==
    LET days == TokensPerDay(UsageAnswering(in.usage, "tokens_total"))
        n == Cardinality(DOMAIN days)
        spikes == Cardinality(BurnSpikes(days))
        signal == ShareOf(n, Cardinality(ActiveDays(in)))
    IN  IF n < BurnMinDays THEN Verdict("no-data", Half, n, signal)
        ELSE Verdict(ReadFor(spikes = 0), <<n - spikes, n>>, n, signal)
BurnTrend(in) ==
    ReadTrend(in, "tokens_total", MedianTokens(TokensPerDay(UsageAnswering(in.usage, "tokens_total"))))
LinesTrend(in) == ReadTrend(in, "lines_added", LinesFloor)

\* Broad or growing; a window with no project and no direction says nothing of either.
AdoptionVerdict(in, inventory, t) ==
    LET breadthKnown == inventory.unattributed < Cardinality(in.usage)
        broad == breadthKnown /\ inventory.projects > 1 /\ Cardinality(in.sessions) >= SampleFloor
        growing == Readable(t) /\ Change(t)[1] > 0
        breadth == IF breadthKnown THEN Clamped(<<inventory.projects, 5>>) ELSE Half
        pace == TrendPurity(t)
    IN  IF in.usage = {} /\ in.sessions = {} THEN NoData(NoRate)
        ELSE Verdict(IF ~breadthKnown /\ ~Readable(t) THEN "no-data" ELSE ReadFor(broad \/ growing),
                     <<breadth[1] * pace[2] + pace[1] * breadth[2], 2 * breadth[2] * pace[2]>>,
                     Cardinality(ActiveDays(in)), NoRate)
Adoption(in) ==
    AdoptionVerdict(in, BuildInsights(in.prices, in.usage, in.now \div DayLen, in.recent, 0).inventory, LinesTrend(in))

Throughput(in) ==
    LET lineDays == Cardinality({u.day : u \in {v \in in.usage : RecordsLines(v.tool)}})
    IN  IF UsageAnswering(in.usage, "lines_added") = {} THEN NoData(NoRate)
        ELSE Verdict("reported", Half, lineDays, NoRate)

CoverageOf(in) ==
    LET shares == CoverageShares(in)
        weaker == Least({shares.activity, shares.priced})
    IN  IF in.totals.tokens = 0 THEN NoData(NoRate)
        ELSE Verdict(ReadFor(~Below(weaker, Strong)), weaker, Cardinality(ActiveDays(in)), NoRate)

\* What a source that never states the lifetime of a write contributes is absent from the tier.
LongTier(in) ==
    LET capable == UsageAnswering(in.usage, "cache_write_1h")
    IN  ShareOf(ColumnSum("long", capable), ColumnSum("write", capable))
Cache(in) ==
    IF in.totals.in = 0 /\ in.totals.read = 0 /\ in.totals.write = 0 THEN NoData(NoRate)
    ELSE Verdict("reported", Half, Cardinality(ActiveDays(in)), NoRate)

ReasoningShare(rows) ==
    LET reporting == UsageAnswering(rows, "reasoning")
    IN  ShareOf(ColumnSum("reasoning", reporting), ColumnSum("out", reporting))
Reasoning(in) ==
    LET reporting == UsageAnswering(in.usage, "reasoning")
        out == ColumnSum("out", reporting)
    IN  IF in.totals.out = 0 THEN NoData(NoRate)
        ELSE Verdict(Reported(out > 0), IF out > 0 THEN Half ELSE Nothing, Cardinality(ActiveDays(in)),
                     ShareOf(out, in.totals.out))

\* What a call was for, of the sources that count calls at all.
Classified(u) == u.reads + u.searches + u.commands + u.writes + u.other
ToolMix(rows) ==
    LET counting == UsageAnswering(rows, "tool_calls")
    IN  [classified |-> TotalOf([u \in counting |-> Classified(u)]), writes |-> ColumnSum("writes", counting),
         explores |-> TotalOf([u \in counting |-> u.reads + u.searches]), calls |-> ColumnSum("calls", counting)]
ExploreProduce(in) ==
    LET m == ToolMix(in.usage)
    IN  IF in.usage = {} THEN NoData(NoRate)
        ELSE [Verdict(Reported(m.classified >= MinCalls), Half, m.classified, ShareOf(m.classified, m.calls))
                 EXCEPT !.recorded = m.calls > 0]

\* A failure is counted only of a row some of whose calls are classified: an older build wrote
\* neither.  More failures than calls is no rate at all.
BuildFriction(rows) ==
    LET counting == UsageAnswering(rows, "tool_calls")
        refusing == UsageAnswering(counting, "rejected")
        failing == UsageAnswering(counting, "tool_errors")
        observed == {u \in failing : Classified(u) # 0}
        calls(S) == ColumnSum("calls", S)
    IN  [calls |-> calls(counting), refusable |-> calls(refusing), rejected |-> ColumnSum("rejected", refusing),
         capable |-> calls(failing), observed |-> calls(observed), errors |-> ColumnSum("errors", observed)]
FrictionVerdict(in, f) ==
    IF in.usage = {} THEN NoData(NoRate)
    ELSE [Verdict(Reported(f.observed >= MinCalls /\ f.errors <= f.observed), Half, f.observed,
                  ShareOf(f.observed, f.calls)) EXCEPT !.recorded = f.capable > 0]
Friction(in) == FrictionVerdict(in, BuildFriction(in.usage))

\* Both halves or neither: the lines undone and the calls declined.
Rework(in) ==
    LET churn == BuildChurn(in.usage)
        measurable == churn.rows > 0 /\ churn.added > 0 /\ ~ExceedsItsWhole(churn)
    IN  IF in.usage = {} THEN NoData(NoRate)
        ELSE Verdict(Reported(measurable /\ BuildFriction(in.usage).refusable > 0), Half, Cardinality(ActiveDays(in)),
                     ShareOf(churn.tokens, in.totals.tokens))

-----------------------------------------------------------------------------
(* Over the models and the projects. *)

ModelTierTotals(in) ==
    LET of(t) == {m \in DOMAIN in.byModel : in.byModel[m].tier = t}
        tokens(t) == TotalOf([m \in of(t) |-> in.byModel[m].tokens])
    IN  [premium |-> tokens("premium"), cheaper |-> tokens("cheaper"), other |-> tokens("unknown"),
         premiumLines |-> Merge([m \in of("premium") |-> in.byModel[m].lineRate]),
         cheaperLines |-> Merge([m \in of("cheaper") |-> in.byModel[m].lineRate])]
ModelFit(in) ==
    LET tiers == ModelTierTotals(in)
        known == tiers.premium + tiers.cheaper
    IN  IF in.usage = {} THEN NoData(NoRate)
        ELSE Verdict(Reported(known > 0 /\ 2 * tiers.other <= known + tiers.other), Half, Cardinality(ActiveDays(in)), NoRate)

RightSizing(in) ==
    LET premium == {m \in in.turnSizing : ModelTier(in.prices, m.model) = "premium"}
        turns == ColumnSum("turns", premium)
    IN  IF turns = 0 THEN NoData(NoRate) ELSE Verdict(Reported(turns >= MinTurns), Half, turns, NoRate)

\* The widest gap between a project's share of the tokens of line-recording sources and of their
\* lines, over the named projects alone.
SpendGaps(in) ==
    LET named == {p \in DOMAIN in.byProject : p # "" /\ in.byProject[p].tokenShare[1] > 0}
        own(p) == OwnTokens(in.byProject[p].lineRate)
        tokens == TotalOf([p \in named |-> own(p)])
        lines == TotalOf([p \in named |-> in.byProject[p].lines])
        share(p) == ShareOf(own(p), tokens)
        large == {p \in named : ~Below(share(p), MinTokenShare)}
    IN  [named |-> named, tokenShare |-> [p \in large |-> share(p)],
         lineShare |-> [p \in large |-> ShareOf(in.byProject[p].lines, lines)]]
Concentration(in) ==
    LET gaps == SpendGaps(in)
        n == Cardinality(gaps.named)
    IN  IF in.totals.tokens = 0 THEN NoData(NoRate)
        ELSE Verdict(Reported(n >= 2 /\ DOMAIN gaps.tokenShare # {}), Half, n, NoRate)

Subscription(in) ==
    LET days == Cardinality(ActiveDays(in))
        pace == MonthlyRate(in.totals.cost, ProjectionSpan(in.usage, in.start, in.now))
        multiple == ShareOf(pace[1], pace[2] * in.plan)
    IN  IF in.totals.tokens = 0 THEN NoData(NoRate)
        ELSE IF in.plan <= 0 THEN Verdict("set plan", Nothing, days, NoRate)
        ELSE IF in.totals.cost = Unpriced THEN Verdict("no-data", Nothing, days, Nothing)
        ELSE Verdict(ReadFor(multiple[1] >= multiple[2]), Clamped(<<multiple[1], 2 * multiple[2]>>), days, NoRate)

\* A turn may carry a skill and an agent: the two splits are never added, and the one with the
\* larger single share speaks.
SkillEconomics(in) ==
    LET tokens(rows) == ColumnSum("tokens", rows)
        comparable == {rows \in {in.skills, in.agents} : Cardinality(rows) >= 2}
        top(rows) == ShareOf(Max({a.tokens : a \in rows}), tokens(rows))
        leads(rows) == rows \in comparable /\ \A o \in comparable : ~Below(top(rows), top(o))
        speaking == IF leads(in.skills) THEN in.skills ELSE in.agents
        basis == IF comparable = {} THEN Max({tokens(in.skills), tokens(in.agents)}) ELSE tokens(speaking)
    IN  IF in.skills = {} /\ in.agents = {} THEN NoData(Nothing)
        ELSE Verdict(Reported(comparable # {} /\ basis >= SkillMinTokens), Half,
                     Cardinality(in.skills) + Cardinality(in.agents), ShareOf(basis, in.totals.tokens))

-----------------------------------------------------------------------------
(* Over the sessions. *)

ContextVerdict(in, stats) ==
    IF in.sessions = {} THEN NoData(NoRate)
    ELSE Verdict(Reported(stats.compacting >= SampleFloor), Half, stats.compacting, ShareOf(stats.compacting, stats.count))
ContextHealth(in) == ContextVerdict(in, BuildSessionStats(in.sessions))

\* A session without an edit talked; the mix is of the sessions whose source counts edits.
Taxonomy(in) ==
    LET edited == SessionsAnswering(in.sessions, "edits")
        n == Cardinality(edited)
        talked == Cardinality({s \in edited : s.edits = 0})
    IN  IF in.sessions = {} THEN NoData(NoRate)
        ELSE Verdict(IF n < MinSessions THEN "no-data" ELSE IF 2 * talked > n THEN "chat-led"
                     ELSE IF 2 * (n - talked) > n THEN "edit-led" ELSE "mixed",
                     Half, n, ShareOf(n, Cardinality(in.sessions)))
EditMix(sessions) ==
    LET edited == SessionsAnswering(sessions, "edits")
    IN  [conversational |-> Cardinality({s \in edited : s.edits = 0}),
         light |-> Cardinality({s \in edited : s.edits \in 1..LightMax}),
         heavy |-> Cardinality({s \in edited : s.edits > LightMax})]

TurnEfficiency(in) ==
    LET measured == SessionsAnswering(SessionsAnswering(in.sessions, "edits"), "turns")
        coding == {s \in measured : s.edits # 0}
        n == Cardinality(coding)
        signal == ShareOf(Cardinality(measured), Cardinality(in.sessions))
    IN  IF n = 0 THEN NoData(signal) ELSE Verdict(Reported(n >= MinSessions), Half, n, signal)
OneShotRate(in) ==
    LET coding == {s \in SessionsAnswering(SessionsAnswering(in.sessions, "edits"), "turns") : s.edits # 0}
    IN  ShareOf(Cardinality({s \in coding : s.turns <= OneShotMax}), Cardinality(coding))

\* When sessions ran, of those whose start is known; how long, of those whose minutes are.
Rhythm(in) ==
    LET timed == {s \in in.sessions : s.started}
        paced == SessionsAnswering(timed, "active_minutes")
        enough == Cardinality(timed) >= MinSessions /\ Cardinality(paced) >= MinSessions
    IN  IF timed = {} THEN NoData(NoRate)
        ELSE Verdict(Reported(enough), Half, Cardinality(timed),
                     IF paced = {} THEN NoRate ELSE ShareOf(Cardinality(paced), Cardinality(timed)))

\* A label splits the window once two kinds of work have enough sessions each.
Intent(in) ==
    LET labelled == {s \in in.sessions : s.task # "" \/ s.outcome # "" \/ s.difficulty # ""}
        class(t) == {s \in in.sessions : s.task = t}
        comparable == {t \in {s.task : s \in in.sessions} \ {""} : Cardinality(class(t)) >= SampleFloor}
        n == Cardinality(in.sessions)
    IN  IF in.sessions = {} THEN NoData(NoRate)
        ELSE IF labelled = {} THEN Verdict("no-data", Half, n, NoRate)
        ELSE Verdict(IF Cardinality(comparable) >= 2 THEN "good" ELSE "building",
                     ShareOf(Cardinality(labelled), n), n, NoRate)

-----------------------------------------------------------------------------
(* Over the step sequences, in the scope each declares. *)

EditLoopsVerdict(in, view, profile) ==
    IF DOMAIN view.sequences = {} THEN NoData(NoRate)
    ELSE IF profile.edits = 0 THEN NoData(OverScope(in, view))
    ELSE Verdict(EditLoopsRead(view, profile), EditLoopsPurity(profile), Count(view.sequences), OverScope(in, view))
EditLoops(in) ==
    LET view == ScopeView(in.trace, "interactive")
    IN  EditLoopsVerdict(in, view, BuildRepeats(view))

RecoveryVerdict(in, view, aftermath) ==
    IF DOMAIN view.sequences = {} THEN NoData(NoRate)
    ELSE Verdict(RecoveryRead(view, aftermath), Half, Count(view.sequences), OverScope(in, view))
Recovery(in) ==
    LET view == RecoveryView(in.trace)
    IN  RecoveryVerdict(in, view, BuildAftermath(view, in.trace.newest))

-----------------------------------------------------------------------------
(* Every verdict over an input, by name. *)

Needs == [edit_loops |-> {"trace"}, recovery |-> {"trace"}, right_sizing |-> {"turn-sizing", "prices"},
          skills |-> {"attribution"}]

VerdictOf(in, name) ==
    CASE name = "adoption" -> Adoption(in) [] name = "burn" -> Burn(in)
      [] name = "cache" -> Cache(in) [] name = "concentration" -> Concentration(in)
      [] name = "context" -> ContextHealth(in) [] name = "coverage" -> CoverageOf(in)
      [] name = "edit_loops" -> EditLoops(in) [] name = "explore" -> ExploreProduce(in)
      [] name = "friction" -> Friction(in) [] name = "intent" -> Intent(in)
      [] name = "model_fit" -> ModelFit(in) [] name = "right_sizing" -> RightSizing(in)
      [] name = "reasoning" -> Reasoning(in) [] name = "recovery" -> Recovery(in)
      [] name = "rework" -> Rework(in) [] name = "rhythm" -> Rhythm(in)
      [] name = "taxonomy" -> Taxonomy(in) [] name = "skills" -> SkillEconomics(in)
      [] name = "subscription" -> Subscription(in) [] name = "throughput" -> Throughput(in)
      [] name = "turns" -> TurnEfficiency(in)

AllResults(in) ==
    {Evaluate(n, VerdictOf(in, n), IF n \in DOMAIN Needs THEN Needs[n] ELSE {}, in) : n \in DOMAIN NameOrder}
=============================================================================
