---------------------------- MODULE MCIngestRace ----------------------------
(* Two importers over one store: a transcript with a step timeline and a    *)
(* log of another tool.                                                     *)
EXTENDS Ingest, TLC

CONSTANTS main, rollout,  \* a Claude transcript, a Codex log
          m1, m2, o,      \* record and step keys
          claude, codex

MCToolOf == [f \in Files |-> IF f = main THEN claude ELSE codex]
MCKeyTool == [k \in Keys |-> IF k = o THEN codex ELSE claude]

MCYield ==
    [b \in Builds |-> [f \in Files |-> [n \in Sizes |->
       CASE n = 0 -> {}
         [] n > 0 /\ f = rollout -> {o}
         [] n > 0 /\ f = main -> {m1} \cup (IF n > 1 THEN {m2} ELSE {})]]]

MCTrace == [b \in Builds |-> [MCYield[b] EXCEPT ![rollout] = [n \in Sizes |-> {}]]]

MCLimit == [f \in Files |-> IF f = main THEN 2 ELSE 1]
MCAgg == [s \in SubFiles |-> m1]
RunSymmetry == Permutations(Runs)
=============================================================================
