------------------------------ MODULE PullRead ------------------------------
(***************************************************************************)
(* evidence --github: one read of a forge's pull requests through gh       *)
(* (internal/github).  The forge goes on changing them while the reader    *)
(* pages through: a walk from the newest update back to From, then a       *)
(* re-read from the top down to where the walk began; then the same again  *)
(* for the check history of the listed commits, joined to the first read.  *)
(*                                                                         *)
(* The forge orders pull requests by update time, newest first, and a      *)
(* cursor stands for a place in that order, not for a number of rows.  A   *)
(* pull request's commit list is told apart by its version.                *)
(***************************************************************************)
EXTENDS Integers, FiniteSets

CONSTANTS
    Pulls,      \* pull requests, numbered; the number breaks ties in the order
    PageSize,   \* rows of a page (50)
    MaxPages,   \* pages of a walk, and of a re-read
    From,       \* the window: pull requests last updated earlier are left out
    LastSecond, \* bound: the last second of the forge's clock
    MaxUpdates, \* bound: updates of the forge's while the reader reads
    Opened,     \* the update times pull requests may have before the read (0: none yet)
    Top,        \* the cursor of a first page
    NoCopy      \* a pull request the read does not hold

ASSUME PullAssumption ==
    /\ Pulls \subseteq Nat /\ IsFiniteSet(Pulls)
    /\ {PageSize, MaxPages, From} \subseteq Nat \ {0}
    /\ LastSecond \in Nat /\ MaxUpdates \in Nat /\ From + 2 <= LastSecond
    /\ Opened \subseteq 0 .. From + 2
    /\ Top \notin [upd : Nat, id : Nat] /\ NoCopy \notin [upd : Nat, list : Nat]

VARIABLES
    now,     \* the forge's clock, in seconds
    updates, \* how many updates there were, counted for the bound
    forge,   \* forge[p]: its update time (0: not yet opened) and its list
    read,    \* the reader: its phase, which query it runs, and the loop's locals
    got,     \* got[query][p]: the copies the walks keep
    backTo,  \* backTo[query]: the update time the read reached
    seen     \* history: the update times the walk and the re-read began with, how
             \* often a pull request moved since (2: twice, or within the second of
             \* the newest update), and whether the page bound cut the walk short

pullVars == <<now, updates, forge, read, got, backTo, seen>>

Queries == {"pulls", "history"}
Zero == [p \in Pulls |-> 0]

PullTypeOK ==
    /\ now \in 1..LastSecond
    /\ forge \in [Pulls -> [upd : 0..LastSecond, list : 0..MaxUpdates]]
    /\ read.phase \in {"walk", "reread", "done", "failed"} /\ read.query \in Queries
    /\ read.pages \in 0..MaxPages - 1 /\ read.newest \in 0..LastSecond
    /\ \A q \in Queries, p \in Pulls : got[q][p] = NoCopy \/ got[q][p].upd <= forge[p].upd

Nothing == [q \in Queries |-> [p \in Pulls |-> NoCopy]]
Forgotten == [first |-> Zero, mid |-> Zero, moves |-> Zero, cut |-> FALSE]

PullInit ==
    /\ now = From + 2 /\ updates = 0
    /\ forge \in [Pulls -> {[upd |-> t, list |-> 0] : t \in Opened}]
    /\ read = [phase |-> "walk", query |-> "pulls", pages |-> 0, cursor |-> Top, newest |-> 0]
    /\ got = Nothing
    /\ backTo = [q \in Queries |-> From]
    /\ seen = Forgotten

\* The forge changes a pull request: a comment, a label, a push to its branch
\* (its list changes), or its opening.  Several may fall in one second.
Update(p, t, pushed) ==
    /\ read.phase \in {"walk", "reread"}
    /\ t \in {now, now + 1} /\ t <= LastSecond
    /\ pushed => forge[p].upd # 0
    /\ updates < MaxUpdates /\ updates' = updates + 1
    /\ now' = t
    /\ forge' = [forge EXCEPT ![p] = [upd |-> t, list |-> IF pushed THEN @.list + 1 ELSE @.list]]
    /\ seen' = IF read.query # "pulls" THEN seen
               ELSE [seen EXCEPT !.moves[p] = IF @ = 0 /\ t > read.newest THEN 1 ELSE 2]
    /\ UNCHANGED <<read, got, backTo>>

Ahead(p, q) == forge[p].upd > forge[q].upd \/ (forge[p].upd = forge[q].upd /\ p > q)

\* The rows the forge still holds behind a cursor.
Behind(cursor) ==
    {p \in Pulls : /\ forge[p].upd # 0
                   /\ \/ cursor = Top
                      \/ cursor # Top /\ forge[p].upd < cursor.upd
                      \/ cursor # Top /\ forge[p].upd = cursor.upd /\ p < cursor.id}

\* A page holds the first of them: fewer than PageSize are ahead of each.
Page ==
    LET rows == Behind(read.cursor) IN
    {p \in rows : Cardinality({q \in rows : Ahead(q, p)}) < PageSize}

HasNextPage == Page # Behind(read.cursor)
FirstRow == CHOOSE p \in Page : \A q \in Page : q = p \/ Ahead(p, q)
LastRow == CHOOSE p \in Page : \A q \in Page : q = p \/ Ahead(q, p)
EndCursor == [upd |-> forge[LastRow].upd, id |-> LastRow]

\* Seeded fault: the re-read ends at the first page.
PastNewestAtOnce(p) == TRUE

\* A walk ends at the first row older than the window, a re-read at the first
\* one that was there when the walk began.
PastEnd(p) ==
    IF read.phase = "walk" THEN forge[p].upd < From ELSE forge[p].upd <= read.newest

Stops == {p \in Page : PastEnd(p)}
Kept == {p \in Page : \A q \in Stops : Ahead(p, q)}
Ends == Stops # {} \/ ~HasNextPage

\* keep: a copy read again replaces the first.
Keep(copies) == [p \in Pulls |-> IF p \in Kept THEN forge[p] ELSE copies[p]]

\* The base read is followed by the history's, unless it kept nothing.
Finished(kept) ==
    IF read.query = "pulls" /\ \E p \in Pulls : kept[p] # NoCopy
    THEN [phase |-> "walk", query |-> "history", pages |-> 0, cursor |-> Top, newest |-> 0]
    ELSE [read EXCEPT !.phase = "done", !.pages = 0]

GivenUp == [read EXCEPT !.phase = "failed", !.pages = 0, !.cursor = Top, !.newest = 0]

\* The newest update the walk began with, from the first row of its first page.
Newest == IF read.pages = 0 /\ Page # {} THEN forge[FirstRow].upd ELSE read.newest

\* The page bound ends a walk, or a re-read, that its rows do not.
OutOfPages == ~Ends /\ read.pages = MaxPages - 1

Times == [p \in Pulls |-> forge[p].upd]

\* One page of the walk.  A walk that runs out of pages says how far it got.
WalkPage ==
    /\ read.phase = "walk"
    /\ got' = [got EXCEPT ![read.query] = Keep(@)]
    /\ backTo' = IF OutOfPages THEN [backTo EXCEPT ![read.query] = forge[LastRow].upd] ELSE backTo
    /\ read' = IF ~Ends /\ ~OutOfPages
               THEN [read EXCEPT !.pages = @ + 1, !.cursor = EndCursor, !.newest = Newest]
               ELSE IF Newest = 0 THEN Finished(Keep(got[read.query]))
               ELSE [read EXCEPT !.phase = "reread", !.pages = 0, !.cursor = Top, !.newest = Newest]
    /\ seen' = IF read.query # "pulls" THEN Forgotten
               ELSE [first |-> IF read.pages = 0 THEN Times ELSE seen.first,
                     mid |-> IF Ends \/ OutOfPages THEN Times ELSE seen.mid,
                     moves |-> IF read.pages = 0 THEN Zero ELSE seen.moves,
                     cut |-> OutOfPages]
    /\ UNCHANGED <<now, updates, forge>>

\* One page of the re-read.  One that runs out of pages fails the whole read.
RereadPage ==
    /\ read.phase = "reread"
    /\ got' = IF OutOfPages THEN Nothing ELSE [got EXCEPT ![read.query] = Keep(@)]
    /\ read' = IF Ends THEN Finished(Keep(got[read.query]))
               ELSE IF OutOfPages THEN GivenUp
               ELSE [read EXCEPT !.pages = @ + 1, !.cursor = EndCursor]
    /\ UNCHANGED <<now, updates, forge, backTo, seen>>

\* gh exits non-zero, is missing, takes too long or answers with too much; the
\* forge reports an error, even beside partial data; a page is malformed.
PageFails ==
    /\ read.phase \in {"walk", "reread"}
    /\ read' = GivenUp
    /\ got' = Nothing /\ seen' = Forgotten
    /\ UNCHANGED <<now, updates, forge, backTo>>

PullNext ==
    \/ \E p \in Pulls, t \in now..now + 1, pushed \in BOOLEAN : Update(p, t, pushed)
    \/ WalkPage
    \/ RereadPage
    \/ PageFails

PullSpec == PullInit /\ [][PullNext]_pullVars

-----------------------------------------------------------------------------
\* What the command goes on with.

\* Seeded fault: the history is joined by pull request alone.
SamePullRequest(p) == TRUE

\* sameCommitPopulation: both reads listed the same commits.
SameCommits(p) == got["pulls"][p].list = got["history"][p].list

\* attachHistory: how much of p's check history the read can vouch for.
HistoryState(p) ==
    IF got["history"][p] = NoCopy THEN "outside-history-read"
    ELSE IF SameCommits(p) THEN "read" ELSE "commit-list-changed"

\* The observations of a whole read: none of them exists when a page failed.
ReadPulls == IF read.phase = "done" THEN {p \in Pulls : got["pulls"][p] # NoCopy} ELSE {}

\* The suites an observation of a listed commit carries: those of the commits
\* the history's copy listed.
SuitesFrom(p) == IF HistoryState(p) = "read" THEN got["history"][p].list ELSE NoCopy

\* The base read has just ended.
PullsRead ==
    \/ read.query = "history" /\ read.phase = "walk" /\ read.pages = 0
    \/ read.query = "pulls" /\ read.phase = "done"

\* A pull request the read owes an answer: it was in the window when the read
\* began, above where the page bound cut the walk short, if it did, and moved at
\* most once while the read went on, in a later second.
Owed(p) ==
    /\ seen.first[p] >= From /\ (seen.cut => seen.first[p] > backTo["pulls"])
    /\ seen.moves[p] < 2

\* Its copy is no older than the re-read.
Held(p) == got["pulls"][p] # NoCopy /\ got["pulls"][p].upd >= seen.mid[p]

\* Every pull request the read owes an answer is in it, as the re-read or a later
\* page found it, wherever the two walks met it.
ReadComplete == PullsRead => \A p \in Pulls : Owed(p) => Held(p)

\* Facts of two reads are joined only when both were of the same commits, and a
\* read goes no further back than it says.
JoinedAlike ==
    /\ PullTypeOK
    /\ \A p \in ReadPulls :
         /\ got["pulls"][p].upd >= backTo["pulls"]
         /\ SuitesFrom(p) # NoCopy => SuitesFrom(p) = got["pulls"][p].list

=============================================================================
