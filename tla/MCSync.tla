------------------------------- MODULE MCSync -------------------------------
(* Three machines: c1 and c2 are set up, c3 presents c1's secret with a     *)
(* digest of its own.  c1 and c2 hold a sub-agent's aggregate of the same   *)
(* key; c1's loses its project.  c1 and c2 had synced before the upgrade.   *)
(* The limiter, which decides only whether a request counts as lost, runs   *)
(* beside the store, not against it: a behaviour is of one or the other.    *)
EXTENDS Sync, RateLimit, TLC

CONSTANTS c1, c2, c3, p1, p2, p3, agg, A, d1, d2, d3, n1, n2, n3, s1, s2

MCClientOf == (p1 :> c1 @@ p2 :> c1 @@ p3 :> c3)

First  == [output |-> 1, calls |-> 1, project |-> A, branch |-> TRUE]
Second == [output |-> 2, calls |-> 0, project |-> NoName, branch |-> TRUE]

MCReadings ==
    [c \in Clients |-> [k \in Keys |-> IF c = c1 THEN <<First, Second>> ELSE <<First>>]]

MCDigest == (c1 :> d1 @@ c2 :> d2 @@ c3 :> d3)
MCSecret == (c1 :> s1 @@ c2 :> s2 @@ c3 :> s1)
MCConfig == (d1 :> s1 @@ d2 :> s2)
MCOldName == (c1 :> n1 @@ c2 :> n2 @@ c3 :> n3)
MCManifest == (n1 :> d1 @@ n2 :> d2 @@ n3 :> d3)
MCLegacy == [c \in Clients |-> IF c = c3 THEN {} ELSE Keys]

\* "sync" or "limiter": which of the two the behaviour is of.
VARIABLE side

TeamInit == Init /\ LimiterInit /\ side \in {"sync", "limiter"}

TeamNext ==
    /\ UNCHANGED side
    /\ \/ side = "sync" /\ Next /\ UNCHANGED limiterVars
       \/ side = "limiter" /\ LimiterNext /\ UNCHANGED vars

OnSync(action) == side = "sync" /\ action

TeamVars == <<vars, limiterVars, side>>

TeamFairness ==
    /\ \A p \in Pushes :
         WF_vars(OnSync(Export(p))) /\ WF_vars(OnSync(Handle(p)))
    /\ WF_vars(OnSync(Start))
    /\ \A names \in SUBSET OldNames : WF_vars(OnSync(Migrate(names)))

TeamSpec == TeamInit /\ [][TeamNext]_TeamVars /\ TeamFairness

\* EventuallySynced, of the behaviours that sync.
SyncedEventually == side = "sync" => EventuallySynced
=============================================================================
