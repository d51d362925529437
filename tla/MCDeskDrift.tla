---------------------------- MODULE MCDeskDrift ----------------------------
(* What is kept beside the records, one side per behaviour.  On the desk two  *)
(* sessions of one tool, one of which derives a task; two axes of one value;  *)
(* digests of two windows that keep one snapshot each.  In a source's history *)
(* two files that rename their usage records or their token field, floors of  *)
(* one or two files and two records, four retained runs and three mishaps.    *)
EXTENDS Desk, Drift, TLC

CONSTANTS s1, s2, task, outcome, v

VARIABLE side

deskDriftVars == <<vars, driftVars, side>>

MCSuggested == (s1 :> (task :> v) @@ s2 :> <<>>)

\* Digests run beside one another; they share no row with marks and accepts.
MCMayOverlap == {{"digest"}}

AllYields ==
    [ok         |-> [records |-> 2, skipped |-> 0, zeroToken |-> 0],
     renamed    |-> [records |-> 0, skipped |-> 0, zeroToken |-> 0],
     tokenless  |-> [records |-> 2, skipped |-> 0, zeroToken |-> 2]]

MCYields == [s \in Shapes |-> AllYields[s]]

EitherSymmetry == Permutations(Commands) \cup Permutations(Inputs)

DeskDriftInit == side \in {"desk", "drift"} /\ Init /\ DriftInit

DeskDriftNext ==
    \/ side = "desk" /\ Next /\ UNCHANGED <<driftVars, side>>
    \/ side = "drift" /\ DriftNext /\ UNCHANGED <<vars, side>>

DeskDriftSpec == DeskDriftInit /\ [][DeskDriftNext]_deskDriftVars

\* The history alone.
HistorySpec == DeskDriftInit /\ side = "drift" /\ [][DeskDriftNext]_deskDriftVars
=============================================================================
