------------------------------ MODULE Evidence ------------------------------
(***************************************************************************)
(* evidence: which commits a session may have made (internal/attribution)  *)
(* out of what a clone and a forge still show of them (internal/vcs,       *)
(* internal/cli/evidence*.go).  Sessions commit, people amend, rebase and  *)
(* cherry-pick, teammates push, a forge squashes, replays and merges; the  *)
(* reader sees two times per commit, who committed it, the reflogs, and    *)
(* the commit lists of pull requests.  Results are derived at every        *)
(* moment and stored at none, so they are operators of the state.          *)
(*                                                                         *)
(* Everything is one repository's.  Commits are numbered as they are made. *)
(***************************************************************************)
EXTENDS Integers, Sequences, FiniteSets, FiniteSetsExt, SequencesExt

CONSTANTS
    Sessions,
    PRs,        \* pull requests
    MaxCommits, \* bound: commits ever made
    MaxWritten, \* bound: those of them a session or a rewrite made
    MaxClock,   \* bound: the last second
    MaxOthers,  \* bound: commits of other people, and what git drops
    Gap,        \* DefaultMaxGap
    Since,      \* the window: commits committed earlier are not read
    None

ASSUME EvidenceAssumption ==
    /\ IsFiniteSet(Sessions) /\ IsFiniteSet(PRs)
    /\ None \notin PRs \cup Nat \cup [start : Nat, end : Nat]
    /\ {MaxCommits, MaxWritten, MaxClock, MaxOthers, Gap, Since} \subseteq Nat

VARIABLES
    clock,
    window,   \* window[s]: first and last event of s, or None
    commits,  \* every commit ever made, by number
    main,     \* the forge's first-parent line
    pulled,   \* how much of it this clone has
    pull,     \* pull[p]: its state, its commit list, its merge commit, its last update
    made,     \* commits a HEAD reflog of this clone records as made here
    present,  \* commits in this clone's object store
    written,  \* how many commits sessions and rewrites made
    others    \* what others did and git dropped, both counted for the bounds

evidenceVars == <<clock, window, commits, main, pulled, pull, made, present, written, others>>

Ids == 1..MaxCommits

\* A commit as git and the forge have it, and, as history, the sessions whose
\* work it carries and the pull request whose merge wrote it.
Commit ==
    [authored : Nat, committed : Nat, forge : BOOLEAN, parents : {1, 2}, joins : SUBSET Ids,
     here : BOOLEAN, of : SUBSET Sessions, by : PRs \cup {None}]

EvidenceTypeOK ==
    /\ clock \in 0..MaxClock
    /\ \A s \in Sessions : window[s] = None \/ window[s].start <= window[s].end
    /\ commits \in Seq(Commit) /\ Len(commits) <= MaxCommits
    /\ main \in Seq(Ids) /\ pulled \in 0..Len(main)
    /\ made \subseteq Ids /\ present \subseteq Ids

EvidenceInit ==
    /\ clock = 0 /\ written = 0 /\ others = 0
    /\ window = [s \in Sessions |-> None]
    /\ commits = <<>> /\ main = <<>> /\ pulled = 0
    /\ pull = [p \in PRs |-> [state |-> "open", list |-> <<>>, merge |-> None, updated |-> None]]
    /\ made = {} /\ present = {}

-----------------------------------------------------------------------------
\* The world.

Tick ==
    /\ clock < MaxClock /\ clock' = clock + 1
    /\ UNCHANGED <<window, commits, main, pulled, pull, made, present, written, others>>

\* A session's next event; its first one starts it.
Event(s) ==
    window' = [window EXCEPT ![s] = [start |-> IF @ = None THEN clock ELSE @.start, end |-> clock]]

Work(s) ==
    /\ Event(s) /\ window' # window
    /\ UNCHANGED <<clock, commits, main, pulled, pull, made, present, written, others>>

Fresh == Len(commits) + 1
CanCommit == Fresh <= MaxCommits
Write == CanCommit /\ written < MaxWritten /\ written' = written + 1 /\ UNCHANGED others
Other == others < MaxOthers /\ others' = others + 1 /\ UNCHANGED written
Plain == [authored |-> clock, committed |-> clock, forge |-> FALSE, parents |-> 1, joins |-> {},
          here |-> TRUE, of |-> {}, by |-> None]

\* A new commit goes on the main line, pushed at once, or on p's branch.
PutOnMain(id) ==
    /\ pulled = Len(main)
    /\ main' = Append(main, id) /\ pulled' = pulled + 1 /\ UNCHANGED pull

PutOnBranch(id, p) ==
    /\ pull[p].state = "open"
    /\ pull' = [pull EXCEPT ![p].list = Append(@, id), ![p].updated = clock]
    /\ UNCHANGED <<main, pulled>>

Put(id, where) == IF where = None THEN PutOnMain(id) ELSE PutOnBranch(id, where)

\* commit: made in this clone, by a running session or by hand.
SessionCommit(s, where) ==
    /\ Write /\ Put(Fresh, where) /\ Event(s)
    /\ commits' = Append(commits, [Plain EXCEPT !.of = {s}])
    /\ made' = made \cup {Fresh} /\ present' = present \cup {Fresh}
    /\ UNCHANGED clock

HandCommit(where) ==
    /\ CanCommit /\ Other /\ Put(Fresh, where)
    /\ commits' = Append(commits, Plain)
    /\ made' = made \cup {Fresh} /\ present' = present \cup {Fresh}
    /\ UNCHANGED <<clock, window>>

\* An amend or a local rebase: the author's time stays, the commit is new.
Rewrite(p, i) ==
    /\ Write /\ pull[p].state = "open" /\ pull[p].list[i] \in present
    /\ commits' = Append(commits, [commits[pull[p].list[i]] EXCEPT !.committed = clock, !.here = TRUE])
    /\ pull' = [pull EXCEPT ![p].list[i] = Fresh, ![p].updated = clock]
    /\ made' = made \cup {Fresh} /\ present' = present \cup {Fresh}
    /\ UNCHANGED <<clock, window, main, pulled>>

\* fetched: a teammate's commit; only a fetch brings it here, and no reflog
\* records it as made here.
TeammateCommit(p, fetched) ==
    /\ CanCommit /\ Other /\ PutOnBranch(Fresh, p)
    /\ commits' = Append(commits, [Plain EXCEPT !.here = FALSE])
    /\ present' = IF fetched THEN present \cup {Fresh} ELSE present
    /\ UNCHANGED <<clock, window, made>>

Forged == [Plain EXCEPT !.forge = TRUE, !.here = FALSE]
WorkOf(p) == UNION {commits[c].of : c \in Range(pull[p].list)}

Merged(p, id) ==
    pull' = [pull EXCEPT ![p].state = "merged", ![p].merge = id, ![p].updated = clock]

\* land: the forge merges p: one commit of it all, a commit joining the branch,
\* or a replay of its commits, which leaves out those already upstream.
Squash(p) ==
    /\ CanCommit /\ pull[p].state = "open" /\ pull[p].list # <<>>
    /\ commits' = Append(commits, [Forged EXCEPT !.of = WorkOf(p), !.by = p])
    /\ main' = Append(main, Fresh) /\ Merged(p, Fresh)
    /\ UNCHANGED <<clock, window, pulled, made, present, written, others>>

MergeCommit(p) ==
    /\ CanCommit /\ pull[p].state = "open" /\ pull[p].list # <<>>
    /\ commits' = Append(commits, [Forged EXCEPT !.parents = 2, !.joins = Range(pull[p].list),
                                                 !.of = WorkOf(p), !.by = p])
    /\ main' = Append(main, Fresh) /\ Merged(p, Fresh)
    /\ UNCHANGED <<clock, window, pulled, made, present, written, others>>

\* A stacked pull request lists the commits of the one it is opened on.
Stack(p, q) ==
    /\ pull[p].list = <<>> /\ pull[q].state = "open" /\ pull[q].list # <<>>
    /\ pull' = [pull EXCEPT ![p].list = pull[q].list, ![p].updated = clock]
    /\ UNCHANGED <<clock, window, commits, main, pulled, made, present, written, others>>

\* The commits of p that another merge already brought upstream come first.
Upstream(p) ==
    Cardinality({i \in DOMAIN pull[p].list :
      \A j \in 1..i : \E q \in PRs \ {p} : pull[q].state = "merged"
                                           /\ pull[p].list[j] \in Range(pull[q].list)})

RebaseMerge(p) ==
    LET list == pull[p].list
        from == Upstream(p) + 1
        replayed == [i \in 1..Len(list) - from + 1 |->
                       [commits[list[from + i - 1]] EXCEPT !.committed = clock, !.forge = TRUE,
                                                           !.here = FALSE, !.by = p]]
        ids == [i \in DOMAIN replayed |-> Len(commits) + i]
    IN
    /\ pull[p].state = "open" /\ from <= Len(list) /\ Len(commits) + Len(replayed) <= MaxCommits
    /\ commits' = commits \o replayed
    /\ main' = main \o ids /\ Merged(p, Last(ids))
    /\ UNCHANGED <<clock, window, pulled, made, present, written, others>>

\* The forge's editor, or its Revert button.
WebEdit ==
    /\ CanCommit /\ Other
    /\ commits' = Append(commits, Forged) /\ main' = Append(main, Fresh)
    /\ UNCHANGED <<clock, window, pulled, pull, made, present>>

Reach(n) == {main[i] : i \in 1..n} \cup UNION {commits[main[i]].joins : i \in 1..n}

Pull ==
    /\ pulled < Len(main) /\ pulled' = Len(main)
    /\ present' = present \cup Reach(Len(main))
    /\ UNCHANGED <<clock, window, commits, main, pull, made, written, others>>

\* git expires a reflog entry; collects a commit; or loses one a reflog still
\* names (a partial clone that never fetched its blobs).

Expire(c) ==
    /\ c \in made /\ Other
    /\ made' = made \ {c}
    /\ UNCHANGED <<clock, window, commits, main, pulled, pull, present>>

Collected(c) ==
    /\ c \in present \ Reach(pulled) /\ Other
    /\ present' = present \ {c}
    /\ UNCHANGED <<clock, window, commits, main, pulled, pull, made>>

EvidenceNext ==
    \/ Tick
    \/ \E s \in Sessions : Work(s)
    \/ \E s \in Sessions, where \in PRs \cup {None} : SessionCommit(s, where)
    \/ \E where \in PRs \cup {None} : HandCommit(where)
    \/ \E p \in PRs : \E i \in DOMAIN pull[p].list : Rewrite(p, i)
    \/ \E p \in PRs, fetched \in BOOLEAN : TeammateCommit(p, fetched)
    \/ \E p \in PRs : Squash(p)
    \/ \E p \in PRs : MergeCommit(p)
    \/ \E p \in PRs : RebaseMerge(p)
    \/ \E p \in PRs, q \in PRs : Stack(p, q)
    \/ WebEdit
    \/ Pull
    \/ \E c \in Ids : Expire(c)
    \/ \E c \in Ids : Collected(c)

EvidenceSpec == EvidenceInit /\ [][EvidenceNext]_evidenceVars

-----------------------------------------------------------------------------
\* What is read.

\* Collect: the commits HEAD reaches, committed in the window.
OnHead == {c \in Reach(pulled) : commits[c].committed >= Since}

\* The pull requests updated in the window, and the commits they list that the
\* walk from HEAD did not already observe.
Requests == {p \in PRs : pull[p].updated # None /\ pull[p].updated >= Since}
Lists(p) == Range(pull[p].list)
ToRead == (UNION {Lists(p) : p \in Requests}) \ OnHead

\* MadeHere: what the HEAD reflogs still record.
MadeHere == made

\* CollectListed: every listed commit, by what became of it.
NotInReflog == (ToRead \ MadeHere) \cap present
NotLocal == (ToRead \ MadeHere) \ present
Unreadable == (ToRead \cap MadeHere) \ present
ReadListed == {c \in ToRead \cap MadeHere \cap present : commits[c].committed >= Since}
BeforeWindow == ((ToRead \cap MadeHere) \ ReadListed) \ Unreadable

Observed == OnHead \cup ReadListed

\* touchesClone: else gh read another repository, and the command fails.
TouchesClone ==
    \/ \E p \in Requests : pull[p].merge \in OnHead
    \/ ReadListed \cup NotInReflog \cup Unreadable \cup BeforeWindow # {}
    \/ (UNION {Lists(p) : p \in Requests}) \cap OnHead # {}

-----------------------------------------------------------------------------
\* Matching (session-commit/v2).

\* evidenceOf: the times that say when a commit's work happened.
EvidenceOf(c) ==
    LET k == commits[c] IN
    CASE k.forge /\ k.parents > 1 -> [kind |-> "excluded", times |-> {}]
      [] k.forge /\ k.parents = 1 /\ k.authored >= k.committed ->
           [kind |-> "landed", times |-> {k.committed}]
      [] k.forge /\ k.parents = 1 /\ k.authored < k.committed ->
           [kind |-> "rebased", times |-> {k.authored}]
      [] OTHER -> [kind |-> "written", times |-> {k.authored, k.committed}]

\* relate: inside the session, or the earliest time from its start to Gap after
\* its end.  What a forge landed is never inside.
Relation(c, s) ==
    LET e == EvidenceOf(c)
        inside == {t \in e.times : window[s].start <= t /\ t <= window[s].end}
        near == {t \in e.times : window[s].start <= t /\ t <= window[s].end + Gap}
    IN
    CASE e.kind # "landed" /\ inside # {} -> "overlap"
      [] e.kind = "landed" /\ near # {} -> "landed"
      [] e.kind # "landed" /\ inside = {} /\ near # {} -> "following"
      [] OTHER -> "none"

Related(s) == [c \in Observed |-> Relation(c, s)]
Overlaps(of) == {c \in DOMAIN of : of[c] = "overlap"}
Following(of) == {c \in DOMAIN of : of[c] \in {"following", "landed"}}

\* Seeded fault: only a landing inside the following window is looked for.
LandedLaterNear(s) ==
    \E c \in Observed : EvidenceOf(c).kind = "landed" /\ Relation(c, s) = "landed"

\* landedLater: the forge landed something after the following window.
LandedLater(s) ==
    \E c \in Observed : EvidenceOf(c).kind = "landed" /\ commits[c].committed > window[s].end + Gap

\* LinkChanges, R4: a pull request updated since s began lists a commit this
\* clone cannot read.
UnreadableSince(s) ==
    \E p \in Requests : Lists(p) \cap (NotLocal \cup Unreadable) # {}
                        /\ pull[p].updated >= window[s].start

\* matchSession, and R4's reason.
ResultOf(s, of) ==
    LET overlaps == Overlaps(of)
        following == Following(of)
        over == clock >= window[s].end + Gap
    IN
    CASE overlaps # {} -> [status |-> "matched", method |-> "overlap",
                           candidates |-> overlaps, reason |-> "none"]
      [] overlaps = {} /\ Cardinality(following) = 1 ->
           [status |-> "matched", candidates |-> following, reason |-> "none",
            method |-> of[CHOOSE c \in following : TRUE]]
      [] overlaps = {} /\ Cardinality(following) > 1 ->
           [status |-> "ambiguous", method |-> "following", candidates |-> following,
            reason |-> "competing-following-commit-candidates"]
      [] OTHER ->
           [status |-> "unmatched", method |-> "none", candidates |-> {},
            reason |-> CASE ~over -> "no-candidate-window-still-open"
                         [] over /\ LandedLater(s) -> "later-forge-landing"
                         [] OTHER -> IF UnreadableSince(s) THEN "listed-commit-not-readable-here"
                                     ELSE "no-commit-candidate"]
Result(s) == ResultOf(s, Related(s))

\* The sessions read.  One that the window cuts is judged by its events inside
\* it; here only sessions that began in the window are.
Judged == {s \in Sessions : window[s] # None /\ window[s].start >= Since}

-----------------------------------------------------------------------------
\* Pull requests of candidates (session-commit/v3).

Merges == {pull[p].merge : p \in Requests} \ {None}

\* rebaseLines, FirstParents: the first-parent line back from a merge commit on
\* HEAD, as far as the pull request counts commits.
Line(p) ==
    IF pull[p].merge \notin OnHead \/ Len(pull[p].list) < 2 THEN <<>>
    ELSE LET at == CHOOSE i \in 1..pulled : main[i] = pull[p].merge
         IN [k \in 1..(IF at < Len(pull[p].list) THEN at ELSE Len(pull[p].list)) |-> main[at - k + 1]]

\* Seeded fault: the walk runs on through another pull request's merge.
ReplayStopsFar(c, k) == c \notin Observed \/ EvidenceOf(c).kind # "rebased"

\* Where the walk back stops, at its k-th commit c: at anything the forge did not
\* replay, and at another pull request's merge.
ReplayStops(c, k) ==
    \/ c \notin Observed
    \/ EvidenceOf(c).kind # "rebased"
    \/ k > 1 /\ c \in Merges

\* mergeWrote: what p's merge put on the branch.
MergeWrote(p) ==
    IF pull[p].merge = None THEN {}
    ELSE LET line == Line(p)
         IN {pull[p].merge}
            \cup {line[k] : k \in {j \in DOMAIN line : \A i \in 1..j : ~ReplayStops(line[i], i)}}

\* linksOf, by pull request, and oneChange: the one pull request every candidate shares.
LinksOf(p) == Lists(p) \cup MergeWrote(p)

OneChange(candidates) ==
    LET shared == {p \in Requests : candidates \subseteq LinksOf(p)}
    IN IF candidates = {} \/ Cardinality(shared) # 1 THEN None ELSE CHOOSE p \in shared : TRUE

-----------------------------------------------------------------------------
\* Work committed in a session stays a candidate of it however the commit was
\* rewritten or replayed since; and when a forge landed it in a commit that keeps
\* none of its times, the session is never said to have led to nothing.
AccountedBy(s, result) ==
    \A c \in {d \in Observed : s \in commits[d].of} :
        /\ EvidenceOf(c).kind \in {"written", "rebased"} =>
             result.method = "overlap" /\ c \in result.candidates
        /\ result.status = "unmatched" =>
             result.reason \in {"no-candidate-window-still-open", "later-forge-landing"}

\* Nothing is a candidate that was not written, rewritten or merged since the
\* session began and near it; a forge's merge during a session is no sign of it;
\* and what only a pull request lists was made in this clone.
HonestOf(s, result) ==
    \A c \in result.candidates :
      /\ \E t \in {commits[c].authored, commits[c].committed} :
           window[s].start <= t /\ t <= window[s].end + Gap
      /\ result.method = "overlap" /\ commits[c].forge =>
           commits[c].authored >= window[s].start /\ commits[c].authored <= window[s].end
           /\ commits[c].authored < commits[c].committed
      /\ c \notin OnHead => commits[c].here

\* What a session wrote is found or what hid it is named, and nothing else is found.
WorkTrue ==
    /\ EvidenceTypeOK
    /\ \A s \in Judged :
         LET result == Result(s) IN AccountedBy(s, result) /\ HonestOf(s, result)

LinksOfCandidates(candidates) ==
    /\ (\E p \in Requests : LinksOf(p) \cap candidates # {}) => TouchesClone
    /\ \A change \in {OneChange(candidates)} \ {None} :
          \A c \in candidates : c \in Lists(change) \/ commits[c].by = change

\* A commit is said to come from a pull request's merge only when that merge
\* wrote it, a session to be of one pull request only when each of its
\* candidates is, and no read that links a candidate is refused as another
\* repository's.
LinksTrue ==
    /\ \A p \in Requests : \A c \in MergeWrote(p) : commits[c].by = p
    /\ \A s \in Judged : LinksOfCandidates(Result(s).candidates)
=============================================================================
