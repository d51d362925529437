----------------------------- MODULE StoreReads -----------------------------
(* What a reader is shown of the stored rows: the name a repository goes    *)
(* by, and the reads every report, analysis and command is made of.  Rows   *)
(* come and go (imports, restatements, clears); the registry of             *)
(* repositories only grows, until everything is cleared.                    *)
(*                                                                          *)
(* A name is a sequence of strings: <<"x">> for a label, <<"x", "2">> for   *)
(* "x (2)", <<"x", "?">> for "x (?)" and <<"x", "#", "2">> for "x (#2)".    *)
(* A label is a name too, since a directory may be called "x (2)".          *)
EXTENDS Integers, Sequences, FiniteSets, FiniteSetsExt, Totals

CONSTANTS
    RowPool,        \* rows that may be stored: key -> the columns of usage_record a read uses
    Digits,         \* rank -> the string of it
    ActiveGap,      \* longest gap between turns that counts as work
    SmallTurn,      \* a turn below this output is a small one
    MarkedSessions, \* sessions somebody labelled
    MaxForgets      \* bound on the clears of everything

VARIABLES
    shelf,          \* row key -> its repo_id: 0 unresolved, -1 ambiguous, or an index of registry
    registry,       \* repositories in order of registration: [label, key]
    forgets         \* clears of everything so far

readVars == <<shelf, registry, forgets>>

Row(k) == RowPool[k]

\* Times and token counts are naturals, and every rank has a string of its own.
\* A label that reads "x (#2)" is outside the model.
ASSUME StoredAssumption ==
    /\ IsFiniteSet(DOMAIN RowPool)
    /\ \A k \in DOMAIN RowPool :
        /\ Row(k).ts \in Nat /\ Row(k).tokens \in Nat
        /\ Row(k).label \in Seq(Range(Row(k).label)) /\ "#" \notin Range(Row(k).label)
    /\ DOMAIN Digits = 1 .. Cardinality(DOMAIN RowPool)
    /\ \A m, n \in DOMAIN Digits : Digits[m] # "?" /\ (Digits[m] = Digits[n] => m = n)

ReadInit == shelf = <<>> /\ registry = <<>> /\ forgets = 0

Repo(k) == [label |-> Row(k).label, key |-> Row(k).key]
Keyed(k) == Row(k).label # <<>> /\ Row(k).key # ""
Registered(k) == \E i \in DOMAIN registry : registry[i] = Repo(k)
RepoID(k, repos) == IF Keyed(k) THEN CHOOSE i \in DOMAIN repos : repos[i] = Repo(k) ELSE 0

\* A row is inserted, and the repository it names registered if it is new.
InsertRow(k) ==
    /\ k \notin DOMAIN shelf
    /\ registry' = IF Keyed(k) /\ ~Registered(k) THEN Append(registry, Repo(k)) ELSE registry
    /\ shelf' = [j \in DOMAIN shelf \cup {k} |->
                    IF j # k THEN shelf[j] ELSE RepoID(k, registry')]
    /\ UNCHANGED forgets

\* A re-read finds a second repository competing for the row: it is ambiguous for good.
Dispute(k) ==
    /\ k \in DOMAIN shelf /\ shelf[k] > 0
    /\ shelf' = [shelf EXCEPT ![k] = -1]
    /\ UNCHANGED <<registry, forgets>>

\* A clear of rows leaves the registry, one of everything takes it along.
RemoveRow(k) ==
    /\ k \in DOMAIN shelf
    /\ shelf' = [j \in DOMAIN shelf \ {k} |-> shelf[j]]
    /\ UNCHANGED <<registry, forgets>>

ForgetAll ==
    /\ DOMAIN shelf # {} /\ forgets < MaxForgets
    /\ shelf' = <<>> /\ registry' = <<>> /\ forgets' = forgets + 1

ReadNext == (\E k \in DOMAIN RowPool : InsertRow(k) \/ Dispute(k) \/ RemoveRow(k)) \/ ForgetAll

ReadSpec == ReadInit /\ [][ReadNext]_readVars

(* Names *)

Live == {r \in DOMAIN registry : \E k \in DOMAIN shelf : shelf[k] = r}
LiveOf(label) == {r \in Live : registry[r].label = label}

\* Seeded fault: the repository with most rows is the label's first.
RankByRows(r) ==
    LET rows(q) == Cardinality({k \in DOMAIN shelf : shelf[k] = q})
    IN  Cardinality({q \in LiveOf(registry[r].label) : rows(q) > rows(r) \/ (rows(q) = rows(r) /\ q <= r)})

\* Ordinals follow the order of registration within a label.
Rank(r) == Cardinality({q \in LiveOf(registry[r].label) : q <= r})

Suffix(label, repo) ==
    CASE repo \in LiveOf(label) /\ Rank(repo) > 1           -> <<Digits[Rank(repo)]>>
      [] repo <= 0 /\ Cardinality(LiveOf(label)) > 1        -> <<"?">>
      [] OTHER                                              -> <<>>

Taken(name) == \E k \in DOMAIN shelf : Row(k).label = name

\* shownNames: a pair it does not list is shown as its label.
ShownName(label, repo) ==
    LET suffix == Suffix(label, repo) IN
    IF suffix = <<>> THEN label
    ELSE IF Taken(label \o suffix) THEN label \o <<"#">> \o suffix
    ELSE label \o suffix

ShownRow(k) == ShownName(Row(k).label, shelf[k])

Split == {Row(k).label : k \in {j \in DOMAIN shelf : Cardinality(LiveOf(Row(j).label)) > 1}}

(* Reads: each over the rows since a time, narrowed to marked sessions or not *)

Window(since, marked) ==
    {k \in DOMAIN shelf : Row(k).ts >= since /\ (marked => Row(k).session \in MarkedSessions)}

Spent(rows) == TotalOf([k \in rows |-> Row(k).tokens])

\* Usage: the sums of one group of every column it is grouped by.
GroupOf(k) == <<Row(k).ts, Row(k).tool, ShownRow(k), Row(k).member, Row(k).grain>>
UsageRead(since, marked) ==
    LET rows == Window(since, marked)
    IN  [g \in {GroupOf(k) : k \in rows} |-> Spent({k \in rows : GroupOf(k) = g})]

Who(k) == <<Row(k).session, Row(k).member>>

\* A session's label and repository, from its rows.
SessionLabel(rows) ==
    LET labels == {Row(k).label : k \in rows} \ {<<>>}
    IN  IF (\E k \in rows : Row(k).conflict) \/ Cardinality(labels) # 1 THEN <<>>
        ELSE CHOOSE l \in labels : TRUE

Resolved(rows) == {shelf[k] : k \in {j \in rows : shelf[j] > 0}}

\* Seeded fault: MAX(repo_id), although the rows may name two repositories.
SessionRepoMax(rows) == IF Resolved(rows) = {} THEN 0 ELSE Max(Resolved(rows))

SessionRepo(rows) ==
    IF Cardinality(Resolved(rows)) = 1 THEN CHOOSE r \in Resolved(rows) : TRUE ELSE 0

SessionName(rows) == ShownName(SessionLabel(rows), SessionRepo(rows))

Turns(rows) == {k \in rows : Row(k).grain = "turn"}

\* Focused work: the gaps between turns, without those in which the session was left.
ActiveTime(rows) ==
    LET times == {Row(k).ts : k \in Turns(rows)}
        gaps == {p \in times \X times : /\ p[2] - p[1] \in 1 .. ActiveGap
                                        /\ \A t \in times : t <= p[1] \/ t >= p[2]}
    IN  Cardinality(UNION {p[1] + 1 .. p[2] : p \in gaps})

SessionsRead(since, marked) ==
    LET rows(w) == {k \in Window(since, marked) : Who(k) = w}
    IN  [w \in {Who(k) : k \in Window(since, marked)} |->
            [name |-> SessionName(rows(w)), repo |-> SessionRepo(rows(w)),
             turns |-> Cardinality(Turns(rows(w))), tokens |-> Spent(rows(w)),
             peak |-> IF Turns(rows(w)) = {} THEN 0 ELSE Max({Row(k).tokens : k \in Turns(rows(w))}),
             first |-> Min({Row(k).ts : k \in rows(w)}), last |-> Max({Row(k).ts : k \in rows(w)}),
             active |-> ActiveTime(rows(w))]]

\* Which definition of sub-agent work a window is read by, and what it then counts.
SubAgentRow(k, since) ==
    IF \E j \in Window(since, FALSE) : Row(j).sidechain
    THEN Row(k).sidechain ELSE Row(k).aggregate

Delegation(since, marked) ==
    LET rows == Window(since, marked)
    IN  [subAgent |-> Spent({k \in rows : SubAgentRow(k, since)}), total |-> Spent(rows)]

\* Skills, agents, cache misses and turn sizes: one group per value that was stated.
ByStated(rows, column) ==
    [v \in {Row(k)[column] : k \in rows} \ {""} |-> {k \in rows : Row(k)[column] = v}]
Attribution(since, marked) ==
    [column \in {"skill", "agent"} |-> ByStated(Window(since, marked), column)]
CacheMisses(since, marked) == ByStated(Window(since, marked), "miss")
TurnSizing(since, marked) ==
    LET turns == {k \in Turns(Window(since, marked)) : Row(k).tokens > 0}
    IN  [turns |-> turns, small |-> {k \in turns : Row(k).tokens < SmallTurn}]
HistoryStart(tool) ==
    LET times == {Row(k).ts : k \in {j \in DOMAIN shelf : tool = "" \/ Row(j).tool = tool}}
    IN  IF times = {} THEN -1 ELSE Min(times)

\* Repositories: local sessions under each name, and RepositoryAt for a directory.
LocalSessions == {Who(k) : k \in {j \in DOMAIN shelf : Row(j).member = ""}}
RowsOf(w) == {k \in DOMAIN shelf : Who(k) = w}
Repositories ==
    [n \in {SessionName(RowsOf(w)) : w \in LocalSessions} |->
        Cardinality({w \in LocalSessions : SessionName(RowsOf(w)) = n})]

Ordinal(r) == Cardinality({q \in 1 .. r : registry[q].label = registry[r].label})
Earliest(repos) == CHOOSE r \in repos : \A q \in repos : Ordinal(r) <= Ordinal(q)

RepositoryAt(label, key) ==
    LET keyed == {r \in Live : registry[r].key = key}
        same == {r \in keyed : registry[r].label = label}
        id == IF key = "" \/ keyed = {} THEN 0 ELSE Earliest(IF same # {} THEN same ELSE keyed)
        at == IF id = 0 THEN label ELSE registry[id].label
    IN  [id |-> id, name |-> IF id = 0 THEN <<>> ELSE ShownName(at, id),
         unplaced |-> ShownName(at, 0), others |-> Cardinality(LiveOf(at) \ {id})]

\* Subpaths: the rows shown under one name.
Subpaths(name, since) == {k \in Window(since, FALSE) : ShownRow(k) = name}

\* LatestSessionIn: the last session with a row in the repository itself.
LatestSessionIn(id) ==
    LET mine == {Who(k) : k \in {j \in DOMAIN shelf : id > 0 /\ shelf[j] = id}}
        last(w) == Max({Row(k).ts : k \in RowsOf(w)})
    IN  {w \in mine : \A v \in mine : last(v) <= last(w)}

-----------------------------------------------------------------------------
\* One name never stands for two repositories, nor for a repository and the rows
\* that cannot be placed; and a label with one live repository is shown bare on
\* every row.  A directory really called "x (#2)" is outside this
\* (store/repository.go: shownNames).
NamesApart ==
    /\ \A r, q \in Live : r # q =>
        ShownName(registry[r].label, r) # ShownName(registry[q].label, q)
    /\ \A r \in Live, k \in DOMAIN shelf :
        shelf[k] # r /\ ShownRow(k) = ShownName(registry[r].label, r) =>
            Row(k).label = registry[r].label /\ LiveOf(Row(k).label) = {r}

\* An established name does not rename: a live repository's name changes only when
\* one registered before it under its label came or went, or when a row appeared or
\* disappeared whose own label is the name in question.
EstablishedName ==
    [][\A r \in Live \cap Live' : registry' # <<>> =>
        LET label == registry[r].label IN
        \/ ShownName(label, r)' = ShownName(label, r)
        \/ \E q \in 1 .. r - 1 : registry[q].label = label /\ (q \in Live) # (q \in Live)'
        \/ Taken(label \o Suffix(label, r)) # Taken(label \o Suffix(label, r))']_readVars

\* Every read accounts for the same rows: groups sum to the window, a session is
\* counted once and under a repository's name only if no row of it is in another,
\* an aggregate stored before sub-agents were marked is never counted as delegated
\* beside the turns they are marked on, no row is read under two skills, agents or
\* causes, the repository at a directory goes by the name its rows are shown under,
\* and the labels listed as split are those of more than one live repository
\* (store/store.go, sessions.go, delegation.go, attribution.go, turn_sizing.go,
\* repository.go, repository_at.go).
UsageAgrees(since, marked) ==
    LET rows == Window(since, marked)
        shown == {ShownRow(k) : k \in Window(since, FALSE)}
        sized == TurnSizing(since, marked)
    IN  /\ TotalOf(UsageRead(since, marked)) = Spent(rows)
        /\ UNION {Subpaths(n, since) : n \in shown} = Window(since, FALSE)
        /\ Spent(sized.turns) = Spent(Turns(rows)) /\ sized.small \subseteq sized.turns

SessionsAgree(since, marked) ==
    LET rows == Window(since, marked)
        sessions == SessionsRead(since, marked)
    IN  /\ TotalOf([w \in DOMAIN sessions |-> sessions[w].tokens]) = Spent(rows)
        /\ \A w \in DOMAIN sessions :
            /\ sessions[w].active <= sessions[w].last - sessions[w].first
            /\ \A k \in rows : Who(k) = w /\ sessions[w].repo > 0 /\ shelf[k] > 0
                => shelf[k] = sessions[w].repo

DelegationAgrees(since, marked) ==
    /\ ~\E j, k \in Window(since, marked) :
        /\ SubAgentRow(j, since) /\ Row(j).aggregate /\ ~Row(j).sidechain
        /\ SubAgentRow(k, since) /\ Row(k).sidechain
    /\ Delegation(since, marked).subAgent <= Delegation(since, marked).total

StatedAgree(since, marked) ==
    \A read \in Range(Attribution(since, marked)) \cup {CacheMisses(since, marked)} :
        TotalOf([v \in DOMAIN read |-> Spent(read[v])]) = Spent(UNION Range(read))

RepositoriesAgree ==
    /\ TotalOf(Repositories) = Cardinality(LocalSessions)
    /\ \A r \in Live :
        LET at == RepositoryAt(registry[r].label, registry[r].key)
        IN  /\ at.id = r /\ at.others = Cardinality(LiveOf(registry[r].label)) - 1
            /\ \A k \in DOMAIN shelf : shelf[k] = r => ShownRow(k) = at.name
            /\ LatestSessionIn(r) # {}
            /\ registry[r].label \in Split <=> at.others > 0
    /\ HistoryStart("") >= 0 <=> DOMAIN shelf # {}

ReadsAgree ==
    /\ \A since \in {Row(k).ts : k \in DOMAIN RowPool}, marked \in BOOLEAN :
        /\ UsageAgrees(since, marked) /\ SessionsAgree(since, marked)
        /\ DelegationAgrees(since, marked) /\ StatedAgree(since, marked)
    /\ RepositoriesAgree

\* What a reader is shown holds together: the names, and the reads they are shown in.
ReadsHold == []ReadsAgree /\ []NamesApart /\ EstablishedName
=============================================================================
