------------------------------- MODULE Secret -------------------------------
(* The per-install secret that keys every pseudonym: read from a file once  *)
(* per process; drawn and written when the file is missing or is not a      *)
(* whole key; held in memory only when the file cannot be used.  A key is   *)
(* the number of its draw, and 0 stands for no whole key: a file that is    *)
(* missing or, between the truncation and the write, short.                 *)
EXTENDS Naturals

CONSTANTS Labellers,    \* processes that show pseudonyms
          MaxDraws      \* bound on the keys drawn

VARIABLES keyFile,      \* the key the file holds, or 0
          labeller,     \* labeller -> [step, key]
          draws,        \* keys drawn so far
          settled       \* the first key that was on disk with nobody about to write, or 0

secretVars == <<keyFile, labeller, draws, settled>>

NotRunning == [step |-> "gone", key |-> 0]

SecretInit ==
    /\ keyFile = 0 /\ labeller = [l \in Labellers |-> NotRunning]
    /\ draws = 0 /\ settled = 0

Becomes(l, step, key) == labeller' = [labeller EXCEPT ![l] = [step |-> step, key |-> key]]

Settle ==
    settled' = IF settled = 0 /\ \A l \in Labellers : labeller'[l].step \notin {"drawn", "writing"}
               THEN keyFile' ELSE settled

\* Seeded fault: a file that cannot be read is taken for one that is missing.
LoadReplacing(l) ==
    /\ labeller[l].step = "gone" /\ draws < MaxDraws
    /\ Becomes(l, "drawn", draws + 1) /\ draws' = draws + 1
    /\ UNCHANGED keyFile /\ Settle

\* A process reads the file: a whole key is its secret, anything else is replaced.
Load(l) ==
    /\ labeller[l].step = "gone"
    /\ \/ keyFile # 0 /\ Becomes(l, "labelling", keyFile) /\ UNCHANGED draws
       \/ /\ keyFile = 0 /\ draws < MaxDraws
          /\ Becomes(l, "drawn", draws + 1) /\ draws' = draws + 1
    /\ UNCHANGED keyFile /\ Settle

Truncate(l) ==
    /\ labeller[l].step = "drawn"
    /\ keyFile' = 0 /\ Becomes(l, "writing", labeller[l].key)
    /\ UNCHANGED draws /\ Settle

Fill(l) ==
    /\ labeller[l].step = "writing"
    /\ keyFile' = labeller[l].key /\ Becomes(l, "labelling", labeller[l].key)
    /\ UNCHANGED draws /\ Settle

\* The file cannot be read or written: the key lives in this process only.
InMemory(l) ==
    /\ labeller[l].step \in {"gone", "drawn", "writing"} /\ draws < MaxDraws
    /\ Becomes(l, "alone", draws + 1) /\ draws' = draws + 1
    /\ UNCHANGED keyFile /\ Settle

Leave(l) ==
    /\ labeller[l].step # "gone" /\ labeller' = [labeller EXCEPT ![l] = NotRunning]
    /\ UNCHANGED <<keyFile, draws>> /\ Settle

SecretNext == \E l \in Labellers :
    Load(l) \/ Truncate(l) \/ Fill(l) \/ InMemory(l) \/ Leave(l)

SecretSpec == SecretInit /\ [][SecretNext]_secretVars

-----------------------------------------------------------------------------
\* First runs may race for the key, and a short file left by one that died is
\* drawn over; but a key that was on disk with nobody about to write stays the
\* install's key, and every process that can use the file labels with it from
\* then on (pseudonym/pseudonym.go: loadOrCreateSecret).
LabelsSettle ==
    /\ [](settled # 0 => keyFile = settled)
    /\ [][\A l \in Labellers :
            settled # 0 /\ labeller[l].step = "gone" /\ labeller'[l].step = "labelling"
            => labeller'[l].key = settled]_secretVars
=============================================================================
