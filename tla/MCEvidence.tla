------------------------------ MODULE MCEvidence ------------------------------
(* What evidence reads and derives, in four sides a behaviour is one of: the *)
(* world one clone and its forge show (Evidence), the forge's pages while    *)
(* they are read (PullRead), what it keeps of reviews (Delivery), and every  *)
(* answer a bounded timeline may be read as.                                 *)
EXTENDS Evidence, PullRead, Delivery, TLC

CONSTANTS s1, p1, p2, r1, r2

Sym == Permutations({p1, p2}) \cup Permutations({r1, r2})

VARIABLE side

\* Counts around the bound of 1, negative ones included.
MCCounts == -1..4
NoAnswer == [total |-> 0, filtered |-> 0, paged |-> 0, rows |-> 0, before |-> FALSE]

Init ==
    /\ side \in {"world", "walk", "delivery", "answer"}
    /\ EvidenceInit /\ PullInit /\ DeliveryInit
    /\ side # "walk" => forge = [p \in Pulls |-> [upd |-> Max(Opened), list |-> 0]]
    /\ side # "delivery" => \A r \in NamedPulls : pr[r].stated
    /\ side # "answer" => answer = NoAnswer

Next ==
    /\ UNCHANGED side
    /\ \/ side = "world" /\ EvidenceNext /\ UNCHANGED <<pullVars, deliveryVars>>
       \/ side = "walk" /\ PullNext /\ UNCHANGED <<evidenceVars, deliveryVars>>
       \/ side = "delivery" /\ DeliveryNext /\ UNCHANGED <<evidenceVars, pullVars>>

Spec == Init /\ [][Next]_<<side, evidenceVars, pullVars, deliveryVars>>
===============================================================================
