--------------------------- MODULE Install_proofs ---------------------------
(* Proofs about what an installation stands on, for every number of        *)
(* processes, every list of migrations and every set of plugins: the store  *)
(* is opened whole however openings interleave and die (Opening), one key   *)
(* labels its figures once it is settled (Secret), and what plugins say is  *)
(* taken whole or not at all, and gated on as said (Plugin), and readers    *)
(* are shown names that stay apart and figures of the same rows             *)
(* (StoreReads).                                                            *)
EXTENDS Plugin, Opening, Secret, StoreReads, SetFacts, FiniteSetTheorems, SequenceTheorems, TLAPS

(* The labelling secret *)

SecretTypes ==
    /\ draws \in Nat /\ keyFile \in Nat /\ settled \in Nat
    /\ labeller \in [Labellers ->
            [step : {"gone", "drawn", "writing", "labelling", "alone"}, key : Nat]]

\* A process that has drawn a key holds one, and once a key is settled the file holds
\* it and nobody is about to write another.
KeysDrawn ==
    \A l \in Labellers : labeller[l].step \in {"drawn", "writing"} => labeller[l].key > 0
KeySettled ==
    settled # 0 =>
        /\ keyFile = settled
        /\ \A l \in Labellers : labeller[l].step \notin {"drawn", "writing"}

SecretInv == SecretTypes /\ KeysDrawn /\ KeySettled

\* Whichever step a process takes while a key is settled, the file keeps it, and a
\* process that has just read the file labels with it.
SecretAction ==
    \A l \in Labellers :
        settled # 0 /\ labeller[l].step = "gone" /\ labeller'[l].step = "labelling"
        => labeller'[l].key = settled

LEMMA SecretStep ==
    ASSUME SecretInv, [SecretNext]_secretVars
    PROVE  SecretInv' /\ SecretAction
<1> USE DEF SecretInv, SecretTypes, KeysDrawn, KeySettled, SecretAction
<1>1. CASE UNCHANGED secretVars
  BY <1>1 DEF secretVars
<1>2. CASE SecretNext
  <2> SUFFICES ASSUME NEW l \in Labellers,
                      Load(l) \/ Truncate(l) \/ Fill(l) \/ InMemory(l) \/ Leave(l)
               PROVE  SecretInv' /\ SecretAction
    BY <1>2 DEF SecretNext
  <2>1. CASE Load(l)
    BY <2>1 DEF Load, Becomes, Settle
  <2>2. CASE Truncate(l)
    BY <2>2 DEF Truncate, Becomes, Settle
  <2>3. CASE Fill(l)
    BY <2>3 DEF Fill, Becomes, Settle
  <2>4. CASE InMemory(l)
    BY <2>4 DEF InMemory, Becomes, Settle
  <2>5. CASE Leave(l)
    BY <2>5 DEF Leave, NotRunning, Settle
  <2> QED BY <2>1, <2>2, <2>3, <2>4, <2>5
<1> QED BY <1>1, <1>2

\* A key that was on disk with nobody about to write stays the install's key, and
\* every process that can use the file labels with it from then on, for any number of
\* first runs racing for it (pseudonym/pseudonym.go: loadOrCreateSecret).
THEOREM OneKeySettles == SecretSpec => LabelsSettle
<1>1. SecretInit => SecretInv
  BY DEF SecretInit, SecretInv, SecretTypes, KeysDrawn, KeySettled, NotRunning
<1>2. SecretInv /\ [SecretNext]_secretVars => SecretInv'
  BY SecretStep
<1>3. SecretSpec => []SecretInv
  BY <1>1, <1>2, PTL DEF SecretSpec
<1>4. SecretInv => (settled # 0 => keyFile = settled)
  BY DEF SecretInv, KeySettled
<1>5. SecretInv /\ [SecretNext]_secretVars =>
        [\A l \in Labellers :
            settled # 0 /\ labeller[l].step = "gone" /\ labeller'[l].step = "labelling"
            => labeller'[l].key = settled]_secretVars
  BY SecretStep DEF SecretAction
<1> QED BY <1>3, <1>4, <1>5, PTL DEF SecretSpec, LabelsSettle

(* Opening the store *)

LastBody == Len(Bodies)

OpenTypes ==
    /\ schema = [tables |-> schema.tables, columns |-> schema.columns, recorded |-> schema.recorded,
                 rows |-> schema.rows, archive |-> schema.archive, marks |-> schema.marks]
    /\ opener \in [Openers -> [step : {"closed", "heal", "ask", "apply", "open"},
                               at : 0 .. LastBody + 1, missing : SUBSET Declared]]

\* The recorded migrations are the first few, and an opening has asked about every
\* one before the one it is at.
RecordedPrefix == \E k \in 0 .. LastBody : schema.recorded = 1 .. k
AskedInOrder ==
    \A o \in Openers :
        /\ opener[o].step \in {"ask", "apply", "open"} => 1 .. opener[o].at - 1 \subseteq schema.recorded
        /\ opener[o].step \in {"ask", "apply"} => opener[o].at >= 1
        /\ opener[o].step = "apply" => opener[o].at <= LastBody
        /\ opener[o].step = "open" => opener[o].at = LastBody + 1

\* A migration's columns are there exactly when it is recorded, and the usage table
\* is there exactly when the first one is.
ColumnsRecorded ==
    \A m \in DOMAIN Bodies : \A c \in Named(m, "add") : c \in schema.columns <=> m \in schema.recorded
TableRecorded == "usage_record" \in schema.tables <=> 1 \in schema.recorded

\* What an opening does not know to be missing of the usage table is not missing.
Healed ==
    \A o \in Openers :
        /\ opener[o].step # "closed" /\ "usage_record" \in schema.tables =>
             Declared \ opener[o].missing \subseteq schema.columns
        /\ opener[o].step \in {"ask", "apply", "open"} => opener[o].missing = {}

\* As long as there are rows in the old grain, a migration that moves them is to come.
OldGrainToMove ==
    (\E r \in schema.rows : r[1] = OldGrain) =>
        \E m \in DOMAIN Bodies : m \notin schema.recorded /\ OldGrain \in Named(m, "move")

OpenInv ==
    /\ OpenTypes /\ RecordedPrefix /\ AskedInOrder
    /\ ColumnsRecorded /\ TableRecorded /\ Healed /\ OldGrainToMove

OpenAction ==
    /\ schema.rows \cup schema.archive \subseteq schema'.rows \cup schema'.archive
    /\ {r \in schema.rows : r[1] # OldGrain} \subseteq schema'.rows
    /\ schema.recorded = DOMAIN Bodies => schema.marks \subseteq schema'.marks

LEMMA BodiesIndexed == LastBody \in Nat /\ LastBody >= 1 /\ DOMAIN Bodies = 1 .. LastBody
BY OpeningAssumption DEF LastBody

LEMMA WholeWhenOpened == OpenInv => OpenedWhole
<1> SUFFICES ASSUME OpenInv PROVE OpenedWhole
  OBVIOUS
<1> USE DEF OpenInv
<1>1. PICK k \in 0 .. LastBody : schema.recorded = 1 .. k
  BY DEF RecordedPrefix
<1>2. schema.recorded = 1 .. Cardinality(schema.recorded)
  <2>1. k \in Nat
    BY BodiesIndexed, <1>1
  <2>2. Cardinality(1 .. k) = k
    BY <2>1, FS_Interval
  <2> QED BY <1>1, <2>2
<1>3. ASSUME NEW o \in Openers, opener[o].step = "open"
      PROVE  /\ schema.recorded = DOMAIN Bodies
             /\ Declared \subseteq schema.columns
             /\ \A r \in schema.rows : r[1] # OldGrain
  <2>1. schema.recorded = DOMAIN Bodies
    <3>1. opener[o].at - 1 = LastBody
      BY <1>3, BodiesIndexed DEF AskedInOrder
    <3>2. 1 .. LastBody \subseteq 1 .. k
      BY <1>1, <1>3, <3>1 DEF AskedInOrder
    <3> QED BY <1>1, <3>2, BodiesIndexed
  <2>2. "usage_record" \in schema.tables
    BY <2>1, BodiesIndexed DEF TableRecorded
  <2> QED BY <2>1, <2>2, <1>3 DEF Healed, OldGrainToMove
<1> QED BY <1>2, <1>3 DEF OpenedWhole, ColumnsRecorded

LEMMA OpenInitHolds == OpenInit => OpenInv
<1> SUFFICES ASSUME OpenInit PROVE OpenInv
  OBVIOUS
<1>1. PICK n \in 0 .. Len(Bodies), hole \in SUBSET Declared, old \in BOOLEAN :
        /\ n = 0 => hole = {} /\ ~old
        /\ old => \E m \in n + 1 .. Len(Bodies) : Named(m, "move") # {}
        /\ schema = Left(n, hole, IF old THEN {<<OldGrain, "claude">>, <<"other", "codex">>} ELSE {})
  BY DEF OpenInit
<1>2. \A o \in Openers : opener[o] = Closed
  BY DEF OpenInit
<1>3. n \in Nat /\ n <= LastBody /\ 1 .. n \subseteq DOMAIN Bodies
  BY <1>1, BodiesIndexed DEF LastBody
<1>4. OpenTypes
  BY <1>1, BodiesIndexed DEF OpenInit, OpenTypes, Left, Closed
<1>5. RecordedPrefix /\ AskedInOrder /\ Healed
  BY <1>1, <1>2, <1>3 DEF RecordedPrefix, AskedInOrder, Healed, Left, Closed
<1>6. ColumnsRecorded
  <2> SUFFICES ASSUME NEW m \in DOMAIN Bodies, NEW c \in Named(m, "add")
               PROVE  c \in schema.columns <=> m \in 1 .. n
    BY <1>1 DEF ColumnsRecorded, Left
  <2>1. c \in schema.columns <=> \E k \in 1 .. n : c \in Named(k, "add")
    <3>1. c \notin Declared
      BY OpeningAssumption
    <3>2. c \in schema.columns <=> c \in NamedUpTo(n, "add")
      BY <1>1, <3>1 DEF Left
    <3> QED BY <3>2 DEF NamedUpTo
  <2>2. \A k \in 1 .. n : c \in Named(k, "add") => k = m
    BY <1>3, OpeningAssumption
  <2> QED BY <2>1, <2>2
<1>7. TableRecorded
  <2>1. "usage_record" \in schema.tables <=> \E k \in 1 .. n : "usage_record" \in Named(k, "make")
    BY <1>1 DEF Left, NamedUpTo
  <2>2. \A k \in 1 .. n : "usage_record" \in Named(k, "make") <=> k = 1
    BY <1>3, OpeningAssumption
  <2> QED BY <1>1, <1>3, <2>1, <2>2 DEF TableRecorded, Left
<1>8. OldGrainToMove
  <2>1. CASE old
    <3>1. PICK m \in n + 1 .. LastBody : Named(m, "move") # {}
      BY <1>1, <2>1 DEF LastBody
    <3>2. m \in DOMAIN Bodies /\ m \notin 1 .. n
      BY <1>3, <3>1, BodiesIndexed
    <3>3. OldGrain \in Named(m, "move")
      BY <3>1, <3>2, OpeningAssumption
    <3> QED BY <1>1, <3>2, <3>3 DEF OldGrainToMove, Left
  <2>2. CASE ~old
    BY <1>1, <2>2 DEF OldGrainToMove, Left
  <2> QED BY <2>1, <2>2
<1> QED BY <1>4, <1>5, <1>6, <1>7, <1>8 DEF OpenInv

LEMMA GoMoves ==
    ASSUME OpenTypes, NEW o \in Openers, NEW step \in {"ask", "apply", "open"},
           NEW at \in 0 .. LastBody + 1, Go(o, step, at)
    PROVE  /\ opener' \in [Openers -> [step : {"closed", "heal", "ask", "apply", "open"},
                                        at : 0 .. LastBody + 1, missing : SUBSET Declared]]
           /\ opener'[o].step = step /\ opener'[o].at = at /\ opener'[o].missing = opener[o].missing
           /\ \A p \in Openers : p # o => opener'[p] = opener[p]
<1> USE DEF OpenTypes
<1> DEFINE moved == [step |-> step, at |-> at, missing |-> opener[o].missing]
<1>1. opener' = [opener EXCEPT ![o] = moved]
  BY DEF Go
<1>2. moved \in [step : {"closed", "heal", "ask", "apply", "open"},
                at : 0 .. LastBody + 1, missing : SUBSET Declared]
  OBVIOUS
<1>3. moved.step = step /\ moved.at = at /\ moved.missing = opener[o].missing
  OBVIOUS
<1> HIDE DEF moved
<1> QED BY <1>1, <1>2, <1>3

LEMMA LookStep ==
    ASSUME OpenInv, NEW o \in Openers, Look(o)
    PROVE  OpenInv' /\ OpenAction
<1> USE DEF OpenInv, Look
<1>1. OpenTypes'
  BY BodiesIndexed DEF OpenTypes
<1>2. opener' = [opener EXCEPT ![o] = opener'[o]]
  BY DEF OpenTypes
<1>3. /\ opener'[o].step = "heal"
      /\ opener'[o].missing = IF "usage_record" \notin schema.tables THEN {} ELSE Declared \ schema.columns
  BY DEF OpenTypes
<1>4. \A p \in Openers : p # o => opener'[p] = opener[p]
  BY DEF OpenTypes
<1>5. AskedInOrder'
  BY <1>3, <1>4 DEF AskedInOrder
<1>6. Healed'
  BY <1>3, <1>4 DEF Healed
<1> QED BY <1>1, <1>5, <1>6 DEF RecordedPrefix, ColumnsRecorded, TableRecorded, OldGrainToMove, OpenAction

LEMMA FailStep ==
    ASSUME OpenInv, NEW o \in Openers, Fails(o), UNCHANGED schema
    PROVE  OpenInv' /\ OpenAction
<1> USE DEF OpenInv, Fails
<1>1. OpenTypes'
  BY BodiesIndexed DEF OpenTypes, Closed
<1>2. opener'[o].step = "closed" /\ \A p \in Openers : p # o => opener'[p] = opener[p]
  BY DEF OpenTypes, Closed
<1>3. AskedInOrder' /\ Healed'
  BY <1>2 DEF AskedInOrder, Healed
<1> QED BY <1>1, <1>3 DEF RecordedPrefix, ColumnsRecorded, TableRecorded, OldGrainToMove, OpenAction

LEMMA HealStep ==
    ASSUME OpenInv, NEW o \in Openers, Heal(o)
    PROVE  OpenInv' /\ OpenAction
<1> USE DEF OpenInv
<1>1. CASE opener[o].missing = {}
  <2>0. Go(o, "ask", 1) /\ UNCHANGED schema /\ opener[o].step = "heal"
    BY <1>1 DEF Heal
  <2>1. OpenTypes'
    <3>1. 1 \in 0 .. LastBody + 1
      BY BodiesIndexed
    <3> QED BY <2>0, <3>1, GoMoves DEF OpenTypes
  <2>2. /\ opener'[o].step = "ask" /\ opener'[o].at = 1 /\ opener'[o].missing = {}
        /\ \A p \in Openers : p # o => opener'[p] = opener[p]
    BY <2>0, <1>1 DEF OpenTypes, Go
  <2>3. AskedInOrder' /\ Healed'
    BY <1>1, <2>0, <2>2 DEF AskedInOrder, Healed
  <2> QED BY <2>0, <2>1, <2>3 DEF RecordedPrefix, ColumnsRecorded, TableRecorded, OldGrainToMove, OpenAction
<1>2. CASE opener[o].missing # {}
  <2> DEFINE c == CHOOSE d \in opener[o].missing : TRUE
  <2>0. c \in opener[o].missing /\ c \in Declared
    BY <1>2 DEF OpenTypes
  <2> HIDE DEF c
  <2>1. CASE c \in schema.columns
    BY <1>2, <2>1, FailStep DEF Heal, c
  <2>2. CASE c \notin schema.columns
    <3>0. /\ schema' = [schema EXCEPT !.columns = @ \cup {c}]
          /\ opener' = [opener EXCEPT ![o].missing = @ \ {c}]
      BY <1>2, <2>2 DEF Heal, c
    <3>1. OpenTypes'
      BY <3>0, BodiesIndexed DEF OpenTypes
    <3>2. /\ schema'.columns = schema.columns \cup {c} /\ schema'.tables = schema.tables
          /\ schema'.recorded = schema.recorded /\ schema'.rows = schema.rows
          /\ schema'.archive = schema.archive /\ schema'.marks = schema.marks
      BY <3>0 DEF OpenTypes
    <3>3. /\ opener'[o].missing = opener[o].missing \ {c}
          /\ opener'[o].step = opener[o].step /\ opener'[o].at = opener[o].at
          /\ \A p \in Openers : p # o => opener'[p] = opener[p]
      BY <3>0 DEF OpenTypes
    <3>4. AskedInOrder'
      BY <3>2, <3>3 DEF AskedInOrder
    <3>5. Healed'
      BY <3>2, <3>3 DEF Healed
    <3>6. ColumnsRecorded'
      BY <2>0, <3>2, OpeningAssumption DEF ColumnsRecorded
    <3> QED BY <3>1, <3>2, <3>4, <3>5, <3>6 DEF RecordedPrefix, TableRecorded, OldGrainToMove, OpenAction
  <2> QED BY <2>1, <2>2
<1> QED BY <1>1, <1>2

LEMMA AskStep ==
    ASSUME OpenInv, NEW o \in Openers, Ask(o)
    PROVE  OpenInv' /\ OpenAction
<1> USE DEF OpenInv
<1> DEFINE at == opener[o].at
<1>0. opener[o].step = "ask" /\ UNCHANGED schema /\ at \in 1 .. LastBody + 1
  BY BodiesIndexed DEF Ask, OpenTypes, AskedInOrder
<1>1. \/ Go(o, "open", at) /\ at > LastBody
      \/ Go(o, "ask", at + 1) /\ at <= LastBody /\ at \in schema.recorded
      \/ Go(o, "apply", at) /\ at <= LastBody
  BY <1>0, BodiesIndexed DEF Ask, LastBody
<1>2. OpenTypes'
  <2>1. at \in 0 .. LastBody + 1 /\ (at <= LastBody => at + 1 \in 0 .. LastBody + 1)
    BY <1>0, BodiesIndexed
  <2> QED BY <1>0, <1>1, <2>1, GoMoves DEF OpenTypes
<1>3. /\ opener'[o].missing = opener[o].missing
      /\ opener'[o].step \in {"open", "ask", "apply"}
      /\ \A p \in Openers : p # o => opener'[p] = opener[p]
      /\ \/ opener'[o].step = "open" /\ opener'[o].at = at /\ at > LastBody
         \/ opener'[o].step = "ask" /\ opener'[o].at = at + 1 /\ at \in schema.recorded
         \/ opener'[o].step = "apply" /\ opener'[o].at = at /\ at <= LastBody
  BY <1>1 DEF OpenTypes, Go
<1>4. 1 .. opener'[o].at - 1 \subseteq schema.recorded
  <2>1. 1 .. at - 1 \subseteq schema.recorded
    BY <1>0 DEF AskedInOrder
  <2>2. \A i \in 1 .. at + 1 - 1 : i \in 1 .. at - 1 \/ i = at
    BY <1>0
  <2> QED BY <1>0, <1>3, <2>1, <2>2
<1>5. AskedInOrder'
  BY <1>0, <1>3, <1>4, BodiesIndexed DEF AskedInOrder
<1>6. Healed'
  BY <1>0, <1>3 DEF Healed
<1> QED BY <1>0, <1>2, <1>5, <1>6 DEF RecordedPrefix, ColumnsRecorded, TableRecorded, OldGrainToMove, OpenAction

LEMMA WriteStep ==
    ASSUME OpenInv, NEW o \in Openers, Write(o)
    PROVE  OpenInv' /\ OpenAction
<1> USE DEF OpenInv, Write
<1>1. OpenTypes'
  BY DEF OpenTypes
<1>2. /\ schema'.columns = schema.columns /\ schema'.tables = schema.tables
      /\ schema'.recorded = schema.recorded /\ schema'.rows = schema.rows \cup {<<"turn", "claude">>}
      /\ schema'.archive = schema.archive /\ schema'.marks = schema.marks \cup {"claude"}
  BY DEF OpenTypes
<1>3. OldGrainToMove'
  BY <1>2, OpeningAssumption DEF OldGrainToMove
<1> QED BY <1>1, <1>2, <1>3
        DEF RecordedPrefix, AskedInOrder, Healed, ColumnsRecorded, TableRecorded, OpenAction

LEMMA CloseStep ==
    ASSUME OpenInv, NEW o \in Openers, Close(o)
    PROVE  OpenInv' /\ OpenAction
<1> USE DEF OpenInv, Close
<1>1. OpenTypes'
  BY BodiesIndexed DEF OpenTypes, Closed
<1>2. opener'[o].step = "closed" /\ \A p \in Openers : p # o => opener'[p] = opener[p]
  BY DEF OpenTypes, Closed
<1>3. AskedInOrder' /\ Healed'
  BY <1>2 DEF AskedInOrder, Healed
<1> QED BY <1>1, <1>3 DEF RecordedPrefix, ColumnsRecorded, TableRecorded, OldGrainToMove, OpenAction

LEMMA DieStep ==
    ASSUME OpenInv, NEW o \in Openers, Die(o)
    PROVE  OpenInv' /\ OpenAction
BY FailStep DEF Die

\* A migration that is applied is the first that is not recorded.
LEMMA ApplyStep ==
    ASSUME OpenInv, NEW o \in Openers, Apply(o)
    PROVE  OpenInv' /\ OpenAction
<1> USE DEF OpenInv
<1> DEFINE m == opener[o].at
<1>0. opener[o].step = "apply" /\ m \in 1 .. LastBody /\ m \in DOMAIN Bodies
  BY BodiesIndexed DEF Apply, OpenTypes, AskedInOrder
<1>1. CASE Refused(m)
  BY <1>1, FailStep DEF Apply
<1>2. CASE ~Refused(m)
  <2>1. schema' = [Performed(m) EXCEPT !.recorded = @ \cup {m}] /\ Go(o, "ask", m + 1)
    BY <1>2 DEF Apply
  <2>2. m \notin schema.recorded /\ Named(m, "add") \cap schema.columns = {}
    BY <1>2 DEF Refused
  <2>3. PICK k \in 0 .. LastBody : schema.recorded = 1 .. k
    BY DEF RecordedPrefix
  <2>4. m = k + 1
    <3>1. \A i \in 1 .. m - 1 : i \in 1 .. k
      BY <1>0, <2>3 DEF AskedInOrder
    <3>2. m > k
      BY <1>0, <2>2, <2>3
    <3>3. CASE m > k + 1
      BY <1>0, <2>3, <3>1, <3>3
    <3> QED BY <1>0, <2>3, <3>2, <3>3
  <2>5. /\ schema' = [tables |-> schema'.tables, columns |-> schema'.columns, recorded |-> schema'.recorded,
                       rows |-> schema'.rows, archive |-> schema'.archive, marks |-> schema'.marks]
        /\ schema'.tables = schema.tables \cup Named(m, "make")
        /\ schema'.columns = schema.columns \cup Named(m, "add")
              \cup (IF m = 1 /\ "usage_record" \notin schema.tables THEN Declared ELSE {})
        /\ schema'.recorded = schema.recorded \cup {m}
        /\ schema'.rows = {r \in schema.rows : r[1] \notin Named(m, "move")}
        /\ schema'.archive = schema.archive \cup {r \in schema.rows : r[1] \in Named(m, "move")}
    <3> DEFINE s == Performed(m)
    <3>1. /\ s = [tables |-> s.tables, columns |-> s.columns, recorded |-> s.recorded,
                  rows |-> s.rows, archive |-> s.archive, marks |-> s.marks]
          /\ s.tables = schema.tables \cup Named(m, "make")
          /\ s.columns = schema.columns \cup Named(m, "add")
                \cup (IF m = 1 /\ "usage_record" \notin schema.tables THEN Declared ELSE {})
          /\ s.recorded = schema.recorded
          /\ s.rows = {r \in schema.rows : r[1] \notin Named(m, "move")}
          /\ s.archive = schema.archive \cup {r \in schema.rows : r[1] \in Named(m, "move")}
      <4> DEFINE columns == schema.columns \cup Named(m, "add")
                   \cup (IF m = 1 /\ "usage_record" \notin schema.tables THEN Declared ELSE {})
                 rows == {r \in schema.rows : r[1] \notin Named(m, "move")}
                 moved == {r \in schema.rows : r[1] \in Named(m, "move")}
      <4>1. s = [schema EXCEPT !.tables = @ \cup Named(m, "make"), !.columns = columns,
                               !.archive = @ \cup moved, !.rows = rows, !.marks = @ \ Named(m, "forget")]
        BY DEF Performed
      <4> HIDE DEF s, columns, rows, moved
      <4>2. s = [tables |-> schema.tables \cup Named(m, "make"), columns |-> columns,
                recorded |-> schema.recorded, rows |-> rows, archive |-> schema.archive \cup moved,
                marks |-> schema.marks \ Named(m, "forget")]
        BY <4>1 DEF OpenTypes
      <4> QED BY <4>2 DEF columns, rows, moved
    <3> HIDE DEF s
    <3>2. schema' = [s EXCEPT !.recorded = @ \cup {m}]
      BY <2>1 DEF s
    <3> QED BY <3>1, <3>2
  <2> HIDE DEF m
  <2>6. m + 1 \in 0 .. LastBody + 1
    BY <1>0, BodiesIndexed
  <2>7. /\ opener'[o].step = "ask" /\ opener'[o].at = m + 1 /\ opener'[o].missing = opener[o].missing
        /\ \A p \in Openers : p # o => opener'[p] = opener[p]
        /\ OpenTypes'
    BY <2>1, <2>5, <2>6, GoMoves DEF OpenTypes
  <2>8. RecordedPrefix'
    <3>1. k + 1 \in 0 .. LastBody /\ schema'.recorded = 1 .. k + 1
      BY <1>0, <2>3, <2>4, <2>5, BodiesIndexed
    <3> QED BY <3>1 DEF RecordedPrefix
  <2>9. AskedInOrder'
    <3>1. 1 .. m + 1 - 1 \subseteq schema'.recorded
      BY <1>0, <2>3, <2>4, <2>5
    <3>2. schema.recorded \subseteq schema'.recorded /\ m + 1 >= 1
      BY <1>0, <2>5
    <3>3. opener'[o].step = "ask" /\ opener'[o].at = m + 1
      BY <2>7
    <3>5. opener'[o].at >= 1
      BY <3>2, <3>3
    <3>6. 1 .. opener'[o].at - 1 \subseteq schema'.recorded
      BY <1>0, <3>1, <3>3
    <3>4. \A p \in Openers : p # o =>
            opener'[p] = opener[p]
      BY <2>7
    <3> QED BY <3>2, <3>3, <3>4, <3>5, <3>6 DEF AskedInOrder
  <2>10. ColumnsRecorded'
    <3> SUFFICES ASSUME NEW n \in DOMAIN Bodies, NEW c \in Named(n, "add")
                 PROVE  c \in schema'.columns <=> n \in schema'.recorded
      BY DEF ColumnsRecorded
    <3>1. c \notin Declared
      BY OpeningAssumption
    <3>2. c \in schema'.columns <=> c \in schema.columns \/ c \in Named(m, "add")
      BY <2>5, <3>1
    <3>3. c \in Named(m, "add") <=> n = m
      BY <1>0, OpeningAssumption DEF m
    <3> QED BY <2>5, <3>2, <3>3 DEF ColumnsRecorded
  <2>11. TableRecorded'
    <3>1. "usage_record" \in Named(m, "make") <=> m = 1
      BY <1>0, OpeningAssumption DEF m
    <3> QED BY <2>5, <3>1 DEF TableRecorded
  <2>12. Healed'
    <3>1. schema.columns \subseteq schema'.columns
      BY <2>5
    <3>2. "usage_record" \in Named(m, "make") <=> m = 1
      BY <1>0, OpeningAssumption DEF m
    <3>3. "usage_record" \in schema'.tables => "usage_record" \in schema.tables \/ Declared \subseteq schema'.columns
      BY <2>5, <3>2
    <3> QED BY <1>0, <2>7, <3>1, <3>3 DEF Healed, m
  <2>13. OldGrainToMove'
    <3> SUFFICES ASSUME NEW r \in schema'.rows, r[1] = OldGrain
                 PROVE  \E n \in DOMAIN Bodies : n \notin schema'.recorded /\ OldGrain \in Named(n, "move")
      BY DEF OldGrainToMove
    <3>1. r \in schema.rows /\ OldGrain \notin Named(m, "move")
      BY <2>5
    <3>2. PICK n \in DOMAIN Bodies : n \notin schema.recorded /\ OldGrain \in Named(n, "move")
      BY <3>1 DEF OldGrainToMove
    <3> QED BY <2>5, <3>1, <3>2
  <2>14. OpenAction
    <3>1. {r \in schema.rows : r[1] # OldGrain} \subseteq schema'.rows
      BY <1>0, <2>5, OpeningAssumption DEF m
    <3>2. schema.rows \cup schema.archive \subseteq schema'.rows \cup schema'.archive
      BY <2>5
    <3>3. schema.recorded # DOMAIN Bodies
      BY <1>0, <2>2 DEF m
    <3> QED BY <3>1, <3>2, <3>3 DEF OpenAction
  <2> QED BY <2>7, <2>8, <2>9, <2>10, <2>11, <2>12, <2>13, <2>14
<1> QED BY <1>1, <1>2

LEMMA OpeningStep ==
    ASSUME OpenInv, [OpenNext]_openVars
    PROVE  OpenInv' /\ OpenAction
<1>1. CASE OpenNext
  <2>1. PICK o \in Openers : OpenStep(o) \/ Write(o) \/ Close(o) \/ Die(o)
    BY <1>1 DEF OpenNext
  <2> QED BY <2>1, LookStep, HealStep, AskStep, ApplyStep, WriteStep, CloseStep, DieStep DEF OpenStep
<1>2. CASE UNCHANGED openVars
  BY <1>2 DEF openVars, OpenInv, OpenTypes, RecordedPrefix, AskedInOrder, ColumnsRecorded,
              TableRecorded, Healed, OldGrainToMove, OpenAction
<1> QED BY <1>1, <1>2

\* However many processes open an old store, interleave and die: what is recorded is
\* what was applied, in order, whoever has the store open has all of it, no row is
\* destroyed, and a late migration takes nothing from one that found everything applied
\* (store/schema.go: migrate; store/reconcile.go: reconcileColumns).
THEOREM StoreOpensSafely == OpenSpec => OpensSafely
<1>1. OpenInv /\ [OpenNext]_openVars => OpenInv'
  BY OpeningStep
<1>2. OpenSpec => []OpenInv
  BY <1>1, OpenInitHolds, PTL DEF OpenSpec
<1>3. OpenInv /\ [OpenNext]_openVars =>
        [/\ schema.rows \cup schema.archive \subseteq schema'.rows \cup schema'.archive
         /\ {r \in schema.rows : r[1] # OldGrain} \subseteq schema'.rows
         /\ schema.recorded = DOMAIN Bodies => schema.marks \subseteq schema'.marks]_openVars
  BY OpeningStep DEF OpenAction
<1> QED BY <1>2, <1>3, WholeWhenOpened, PTL DEF OpenSpec, OpensSafely

(* Plugins: sequences of jobs, sums of rows *)

Ordered(s) == \A i, j \in 1 .. Len(s) : i < j /\ s[j][1] = "describe" => s[i][1] = "describe"

LEMMA TailIs ==
    ASSUME NEW S, NEW s \in Seq(S), s # <<>>
    PROVE  /\ Head(s) \in S /\ Tail(s) \in Seq(S)
           /\ \A x : x \in ToSet(s) <=> x = Head(s) \/ x \in ToSet(Tail(s))
           /\ Ordered(s) => Ordered(Tail(s))
           /\ Ordered(s) /\ Head(s)[1] # "describe" => \A x \in ToSet(Tail(s)) : x[1] # "describe"
<1>1. /\ Len(s) \in Nat \ {0} /\ Head(s) = s[1] /\ Head(s) \in S /\ Tail(s) \in Seq(S)
      /\ Len(Tail(s)) = Len(s) - 1 /\ \A i \in 1 .. Len(s) - 1 : Tail(s)[i] = s[i + 1]
  OBVIOUS
<1>2. DOMAIN s = 1 .. Len(s) /\ DOMAIN Tail(s) = 1 .. Len(s) - 1
  BY <1>1
<1>3. ASSUME NEW x \in ToSet(s) PROVE x = Head(s) \/ x \in ToSet(Tail(s))
  <2>1. PICK i \in 1 .. Len(s) : x = s[i]
    BY <1>2 DEF ToSet
  <2>2. CASE i = 1
    BY <1>1, <2>1, <2>2
  <2>3. CASE i # 1
    <3>1. i - 1 \in 1 .. Len(s) - 1 /\ Tail(s)[i - 1] = x
      BY <1>1, <2>1, <2>3
    <3> QED BY <1>2, <3>1 DEF ToSet
  <2> QED BY <2>2, <2>3
<1>4. ASSUME NEW x \in ToSet(Tail(s)) PROVE \E i \in 1 .. Len(s) - 1 : x = s[i + 1]
  BY <1>1, <1>2 DEF ToSet
<1>5. \A i \in 1 .. Len(s) - 1 : s[i + 1] \in ToSet(s)
  BY <1>1, <1>2 DEF ToSet
<1>6. Head(s) \in ToSet(s)
  BY <1>1, <1>2 DEF ToSet
<1>7. Ordered(s) => Ordered(Tail(s))
  BY <1>1 DEF Ordered
<1>8. ASSUME Ordered(s), Head(s)[1] # "describe", NEW x \in ToSet(Tail(s))
      PROVE  x[1] # "describe"
  <2>1. PICK i \in 1 .. Len(s) - 1 : x = s[i + 1]
    BY <1>4
  <2>2. 1 \in 1 .. Len(s) /\ i + 1 \in 1 .. Len(s) /\ 1 < i + 1
    BY <1>1
  <2> QED BY <1>1, <1>8, <2>1, <2>2 DEF Ordered
<1> QED BY <1>1, <1>3, <1>4, <1>5, <1>6, <1>7, <1>8

LEMMA TotalIsNat ==
    ASSUME NEW rows, NEW column, IsFiniteSet(rows), \A r \in rows : r[column] \in Nat
    PROVE  Total(rows, column) \in Nat
<1> DEFINE part == [r \in rows |-> {r} \X (1 .. r[column])]
           parts == {{r} \X (1 .. r[column]) : r \in rows}
<1>1. part \in Surjection(rows, parts)
  BY DEF Surjection
<1>2. IsFiniteSet(parts)
  <2> HIDE DEF part, parts
  <2> QED BY <1>1, FS_Surjection
<1>3. ASSUME NEW T \in parts PROVE IsFiniteSet(T)
  <2>1. PICK r \in rows : T = {r} \X (1 .. r[column])
    BY <1>3
  <2>2. IsFiniteSet({r}) /\ IsFiniteSet(1 .. r[column])
    <3>1. r[column] \in Int /\ 1 \in Int
      OBVIOUS
    <3> QED BY <3>1, FS_Singleton, FS_Interval
  <2> QED BY <2>1, <2>2, FS_Product
<1>4. IsFiniteSet(UNION parts)
  <2> HIDE DEF parts
  <2> QED BY <1>2, <1>3, FS_UNION
<1> QED BY <1>4, FS_CardinalityType DEF Total

(* Plugins: one run of one *)

RunFields == {"verb", "plugin", "script", "document", "said", "alive", "code", "held",
              "expired", "over", "torn"}

\* What a run is of, which no step of it changes.
SameRun(c, d) ==
    /\ DOMAIN c = RunFields /\ DOMAIN d = RunFields
    /\ c.verb = d.verb /\ c.plugin = d.plugin /\ c.script = d.script /\ c.document = d.document

\* A run that ended with 0, and whose pipe nobody holds, has said everything.
SaidKnown(c) ==
    /\ DOMAIN c = RunFields /\ c.verb \in DOMAIN Kinds
    /\ c.script \in Seq(ToSet(c.script)) /\ c.said \in 0 .. Len(c.script)
    /\ c.code = 0 /\ ~c.alive /\ ~c.held => c.said = Len(c.script)

LEMMA StartedIs ==
    ASSUME NEW verb \in DOMAIN Kinds, NEW plugin, NEW script \in Scripts[verb], NEW document
    PROVE  LET c == Started(verb, plugin, script, document) IN
           /\ SaidKnown(c) /\ c.verb = verb /\ c.plugin = plugin /\ c.document = document
           /\ c.alive /\ c # NoRun
<1>1. script \in Seq(ToSet(script)) /\ Len(script) \in Nat
  BY PluginAssumption
<1> QED BY <1>1 DEF Started, SaidKnown, RunFields, NoRun, Kinds

\* The steps of a run that the host does not take to finish it.
RunSteps == Say \/ Fork \/ ChildExit \/ LetGo \/ Deadline \/ Kill \/ GraceEnds

\* What they may set: two fields at most, of which a run's identity is none.
Sets(c, d, f, x, g, y) ==
    /\ DOMAIN d = DOMAIN c
    /\ d[f] = (IF f = g THEN y ELSE x) /\ d[g] = y
    /\ \A h \in DOMAIN c : h # f /\ h # g => d[h] = c[h]

LEMMA OneSet ==
    ASSUME NEW c, NEW f \in DOMAIN c, NEW x
    PROVE  Sets(c, [c EXCEPT ![f] = x], f, x, f, x)
BY DEF Sets

LEMMA TwoSet ==
    ASSUME NEW c, NEW f \in DOMAIN c, NEW g \in DOMAIN c, NEW x, NEW y, f # g
    PROVE  Sets(c, [c EXCEPT ![f] = x, ![g] = y], f, x, g, y)
BY DEF Sets

LEMMA SetKeeps ==
    ASSUME NEW c, DOMAIN c = RunFields, NEW d, NEW f, NEW g, NEW x, NEW y, Sets(c, d, f, x, g, y),
           {f, g} \cap {"verb", "plugin", "script", "document"} = {}
    PROVE  SameRun(c, d)
BY DEF Sets, SameRun, RunFields

\* What a step may do to a run and leave what it said known.
LEMMA SetKept ==
    ASSUME NEW c, SaidKnown(c), NEW d, NEW f, NEW g, NEW x, NEW y, Sets(c, d, f, x, g, y),
           \/ f = "said" /\ g = "said" /\ x = c.said + 1 /\ y = x /\ c.said < Len(c.script)
              /\ (c.alive \/ c.held)
           \/ f = "over" /\ g = "expired"
           \/ f = "held" /\ g = "held" /\ (y = TRUE \/ c.said = Len(c.script))
           \/ f = "alive" /\ g = "code" /\ (y = 0 => c.said = Len(c.script) \/ c.held)
           \/ f = "expired" /\ g = "expired"
           \/ f = "torn" /\ g = "torn"
    PROVE  SameRun(c, d) /\ SaidKnown(d)
<1>1. SameRun(c, d)
  <2>1. {f, g} \cap {"verb", "plugin", "script", "document"} = {}
    OBVIOUS
  <2> QED BY <2>1, SetKeeps DEF SaidKnown
<1>2. /\ DOMAIN d = RunFields /\ d.verb \in DOMAIN Kinds
      /\ d.script \in Seq(ToSet(d.script)) /\ d.said \in 0 .. Len(d.script)
  <2>1. d.said = c.said \/ (d.said = c.said + 1 /\ c.said < Len(c.script))
    BY DEF Sets, SaidKnown, RunFields
  <2>2. Len(c.script) \in Nat
    BY DEF SaidKnown
  <2> QED BY <1>1, <2>1, <2>2 DEF SaidKnown, SameRun
<1>3. d.code = 0 /\ ~d.alive /\ ~d.held => d.said = Len(d.script)
  <2> SUFFICES ASSUME d.code = 0, ~d.alive, ~d.held PROVE d.said = Len(d.script)
    OBVIOUS
  <2>1. d.script = c.script
    BY <1>1 DEF SameRun
  <2> QED BY <2>1 DEF Sets, SaidKnown, RunFields
<1> QED BY <1>1, <1>2, <1>3 DEF SaidKnown

LEMMA RunGoesOn ==
    ASSUME child # NoRun, SaidKnown(child), RunSteps
    PROVE  /\ SameRun(child, child') /\ SaidKnown(child') /\ child' # NoRun
           /\ UNCHANGED <<command, jobs, stored, verdicts, notRun, alerts, gate, exit, answers>>
<1>1. PICK c, d : c = child /\ d = child'
  OBVIOUS
<1>2. SaidKnown(c) /\ DOMAIN c = RunFields /\ Len(c.script) \in Nat
  BY <1>1 DEF SaidKnown
<1> DEFINE Kept == SameRun(c, d) /\ SaidKnown(d)
<1>3. ASSUME Say PROVE Kept
  <2>1. CASE child.said < StdoutCap
    <3>1. Sets(c, d, "said", c.said + 1, "said", c.said + 1)
      BY <1>1, <1>2, <1>3, <2>1, OneSet DEF Say, RunFields
    <3>2. (c.alive \/ c.held) /\ c.said < Len(c.script)
      BY <1>1, <1>3 DEF Say
    <3> QED BY <1>2, <3>1, <3>2, SetKept
  <2>2. CASE ~ (child.said < StdoutCap)
    <3>1. Sets(c, d, "over", TRUE, "expired", TRUE)
      BY <1>1, <1>2, <1>3, <2>2, TwoSet DEF Say, RunFields
    <3> QED BY <1>2, <3>1, SetKept
  <2> QED BY <2>1, <2>2
<1>4. ASSUME Fork PROVE Kept
  <2>1. Sets(c, d, "held", TRUE, "held", TRUE)
    BY <1>1, <1>2, <1>4, OneSet DEF Fork, RunFields
  <2> QED BY <1>2, <2>1, SetKept
<1>5. ASSUME ChildExit PROVE Kept
  <2>1. PICK code \in {0, 1} :
          /\ code = 0 => c.said = Len(c.script) \/ c.held
          /\ d = [c EXCEPT !.alive = FALSE, !.code = code]
    BY <1>1, <1>5 DEF ChildExit
  <2>2. Sets(c, d, "alive", FALSE, "code", code)
    BY <1>2, <2>1, TwoSet DEF RunFields
  <2> QED BY <1>2, <2>1, <2>2, SetKept
<1>6. ASSUME LetGo PROVE Kept
  <2>1. Sets(c, d, "held", FALSE, "held", FALSE) /\ c.said = Len(c.script)
    BY <1>1, <1>2, <1>6, OneSet DEF LetGo, RunFields
  <2> QED BY <1>2, <2>1, SetKept
<1>7. ASSUME Deadline PROVE Kept
  <2>1. Sets(c, d, "expired", TRUE, "expired", TRUE)
    BY <1>1, <1>2, <1>7, OneSet DEF Deadline, RunFields
  <2> QED BY <1>2, <2>1, SetKept
<1>8. ASSUME Kill PROVE Kept
  <2>1. Sets(c, d, "alive", FALSE, "code", 9)
    BY <1>1, <1>2, <1>8, TwoSet DEF Kill, RunFields
  <2>2. PICK y : y = 9 /\ y # 0
    OBVIOUS
  <2>3. Sets(c, d, "alive", FALSE, "code", y)
    BY <2>1, <2>2
  <2> QED BY <1>2, <2>2, <2>3, SetKept
<1>9. ASSUME GraceEnds PROVE Kept
  <2>1. Sets(c, d, "torn", TRUE, "torn", TRUE)
    BY <1>1, <1>2, <1>9, OneSet DEF GraceEnds, RunFields
  <2> QED BY <1>2, <2>1, SetKept
<1>10. Kept
  <2> HIDE DEF Kept
  <2> QED BY <1>3, <1>4, <1>5, <1>6, <1>7, <1>8, <1>9 DEF RunSteps
<1>11. d # NoRun
  BY <1>10 DEF SaidKnown, NoRun, Kinds
<1>12. UNCHANGED <<command, jobs, stored, verdicts, notRun, alerts, gate, exit, answers>>
  BY DEF RunSteps, Say, Fork, ChildExit, LetGo, Deadline, Kill, GraceEnds
<1>13. child = c /\ child' = d
  BY <1>1
<1> QED BY <1>10, <1>11, <1>12, <1>13

\* A run that ended well said everything its script has.
LEMMA EndedWhole ==
    ASSUME NEW c, SaidKnown(c), Waited(c), EndedWell(c)
    PROVE  c.said = Len(c.script)
BY DEF SaidKnown, Waited, EndedWell

\* An answer is the only line of its kind in its script.
LEMMA AnswerIs ==
    ASSUME NEW c, SaidKnown(c), Waited(c), Answered(c)
    PROVE  /\ c.said = Len(c.script)
           /\ \A i \in DOMAIN c.script : c.script[i].kind = Kinds[c.verb] => c.script[i].body = Answer(c)
           /\ c.verb = "describe" => ValidDeclaration(Answer(c))
<1>1. c.said = Len(c.script)
  BY EndedWhole DEF Answered
<1>2. DOMAIN c.script = 1 .. c.said /\ c.said \in Nat
  BY <1>1 DEF SaidKnown
<1>3. PICK i \in 2 .. c.said :
        /\ Documents(c) = {i} /\ c.script[i].kind = Kinds[c.verb]
        /\ c.verb = "describe" => ValidDeclaration(c.script[i].body)
  BY DEF Answered
<1>4. Answer(c) = c.script[i].body
  BY <1>3 DEF Answer
<1>5. Kinds[c.verb] \notin {"handshake", "blank"}
  BY DEF SaidKnown, Kinds
<1>6. ASSUME NEW j \in DOMAIN c.script, c.script[j].kind = Kinds[c.verb]
      PROVE  j = i
  <2>1. c.script[1].kind = "handshake"
    BY DEF Answered, Greeted
  <2>2. j \in 2 .. c.said
    BY <1>2, <1>5, <1>6, <2>1
  <2>3. j \in Documents(c)
    BY <1>5, <1>6, <2>2 DEF Documents
  <2> QED BY <1>3, <2>3
<1> QED BY <1>1, <1>3, <1>4, <1>6

(* Plugins: the invariant *)

MetricNames == ToSet(Metrics)
RuleNames == ToSet(RulePlugins)

JobsOf(cmd) ==
    CASE cmd = "backfill" -> {"scan"} \X ToSet(Parsers)
      [] cmd = "check"    -> ({"describe"} \X MetricNames) \cup ({"evaluate"} \X RuleNames)
      [] OTHER            -> {}

CommandKnown ==
    /\ command \in {"idle", "backfill", "check"}
    /\ jobs \in Seq(JobsOf(command)) /\ Ordered(jobs)
    /\ command = "idle" => child = NoRun
    /\ command # "idle" => exit = "none"
    /\ gate = NoGate \/ (gate.rows \in Windows /\ gate.tokens \in Nat /\ gate.cost \in Nat)

\* What a metric plugin was sent is what its declaration and the config leave.
TrueTo(c) ==
    /\ c.plugin \in MetricNames /\ ValidDeclaration(c.document.declared)
    /\ c.document.sent = Document(Negotiate(c.document.declared, Allow[c.plugin]))

\* Rules are evaluated when every metric plugin has been run, over what they answered.
ChildKnown ==
    child # NoRun =>
        /\ SaidKnown(child)
        /\ child.verb = "scan" => command = "backfill"
        /\ child.verb # "scan" => command = "check"
        /\ child.verb \in {"describe", "analyze"} => child.plugin \in MetricNames
        /\ child.verb = "evaluate" =>
             /\ child.plugin \in RuleNames /\ child.document = verdicts
             /\ \A x \in ToSet(jobs) : x[1] # "describe"
        /\ child.verb = "analyze" => TrueTo(child)

Withheld(c) == Negotiate(c.document.declared, Allow[c.plugin]).withheld

AnswersKnown ==
    /\ \A c \in answers : c.verb = "analyze" => TrueTo(c)
    /\ \A v \in verdicts :
        /\ v.metric \in MetricNames
        /\ \E c \in answers : /\ c.verb = "analyze" /\ c.plugin = v.metric
                              /\ v.partial = (Withheld(c) # {})

Running(verbs, p) == child # NoRun /\ child.verb \in verbs /\ child.plugin = p

Covers(document, m) == m \in notRun \/ \E v \in document : v.metric = m

\* Every metric plugin is answered for, given up, running or still to run.
MetricsOwed ==
    command = "check" /\ RuleNames # {} =>
        \A m \in MetricNames : \/ Covers(verdicts, m) \/ <<"describe", m>> \in ToSet(jobs)
                         \/ Running({"describe", "analyze"}, m)

\* A rule's answer was taken whole, over every verdict, and its alerts are kept.
Ruled(r) ==
    \E c \in answers :
        /\ c.verb = "evaluate" /\ c.plugin = r /\ c.whole
        /\ \A v \in c.document : v.metric \in MetricNames
        /\ \A m \in MetricNames : Covers(c.document, m)
        /\ \A i \in DOMAIN c.script : c.script[i].kind = "alerts" =>
             \A s \in c.script[i].body : [plugin |-> r, severity |-> s] \in alerts

RulesOwed ==
    command = "check" =>
        \A r \in RuleNames : \/ r \in notRun \/ Ruled(r)
                         \/ <<"evaluate", r>> \in ToSet(jobs) \/ Running({"evaluate"}, r)

PluginInv ==
    /\ CommandKnown /\ ChildKnown /\ AnswersKnown /\ MetricsOwed /\ RulesOwed
    /\ exit = "pass" => command = "idle" /\ GateFailsClosed

LEMMA JobsInit == JobsOf("idle") = {} /\ <<>> \in Seq({}) /\ Ordered(<<>>)
BY DEF JobsOf, Ordered

LEMMA PluginInitHolds == PluginInit => PluginInv
BY JobsInit DEF PluginInit, PluginInv, CommandKnown, ChildKnown, AnswersKnown, MetricsOwed,
    RulesOwed, NoGate

LEMMA ScansAreJobs ==
    /\ [i \in DOMAIN Parsers |-> <<"scan", Parsers[i]>>] \in Seq(JobsOf("backfill"))
    /\ Ordered([i \in DOMAIN Parsers |-> <<"scan", Parsers[i]>>])
<1>1. Len(Parsers) \in Nat /\ DOMAIN Parsers = 1 .. Len(Parsers)
      /\ \A i \in 1 .. Len(Parsers) : Parsers[i] \in ToSet(Parsers)
  BY PluginAssumption
<1> DEFINE scans == [i \in 1 .. Len(Parsers) |-> <<"scan", Parsers[i]>>]
<1>2. scans \in [1 .. Len(Parsers) -> JobsOf("backfill")]
  BY <1>1 DEF JobsOf
<1>3. scans \in Seq(JobsOf("backfill")) /\ Len(scans) = Len(Parsers)
  <2> HIDE DEF scans
  <2> QED BY <1>1, <1>2
<1>4. Ordered(scans)
  BY <1>3 DEF Ordered
<1> QED BY <1>1, <1>3, <1>4

\* The jobs of a check: every metric plugin, then every rule.
LEMMA ChecksAreJobs ==
    ASSUME NEW s, s = [i \in DOMAIN Metrics |-> <<"describe", Metrics[i]>>]
                      \o [i \in DOMAIN RulePlugins |-> <<"evaluate", RulePlugins[i]>>]
    PROVE  /\ s \in Seq(JobsOf("check")) /\ Ordered(s)
           /\ \A m \in MetricNames : <<"describe", m>> \in ToSet(s)
           /\ \A r \in RuleNames : <<"evaluate", r>> \in ToSet(s)
<1> DEFINE M == Len(Metrics)
           R == Len(RulePlugins)
           ds == [i \in 1 .. M |-> <<"describe", Metrics[i]>>]
           es == [i \in 1 .. R |-> <<"evaluate", RulePlugins[i]>>]
<1>1. /\ M \in Nat /\ DOMAIN Metrics = 1 .. M /\ \A i \in 1 .. M : Metrics[i] \in MetricNames
      /\ R \in Nat /\ DOMAIN RulePlugins = 1 .. R /\ \A i \in 1 .. R : RulePlugins[i] \in RuleNames
  BY PluginAssumption DEF MetricNames, RuleNames
<1>2. ds \in [1 .. M -> JobsOf("check")] /\ es \in [1 .. R -> JobsOf("check")]
  BY <1>1 DEF JobsOf
<1>3. ds \in Seq(JobsOf("check")) /\ Len(ds) = M /\ es \in Seq(JobsOf("check")) /\ Len(es) = R
  <2> HIDE DEF ds, es, M, R
  <2> QED BY <1>1, <1>2
<1>4. s = ds \o es
  BY <1>1
<1>5. /\ s \in Seq(JobsOf("check")) /\ Len(s) = M + R
      /\ \A i \in 1 .. M + R : s[i] = IF i <= M THEN ds[i] ELSE es[i - M]
  <2> HIDE DEF ds, es, M, R
  <2>1. /\ ds \o es \in Seq(JobsOf("check")) /\ Len(ds \o es) = Len(ds) + Len(es)
        /\ \A i \in 1 .. Len(ds) + Len(es) :
             (ds \o es)[i] = IF i <= Len(ds) THEN ds[i] ELSE es[i - Len(ds)]
    BY <1>3, ConcatProperties
  <2> QED BY <1>3, <1>4, <2>1
<1>6. /\ \A i \in 1 .. M : s[i] = <<"describe", Metrics[i]>>
      /\ \A i \in 1 .. R : s[M + i] = <<"evaluate", RulePlugins[i]>>
      /\ \A i \in 1 .. M + R : i > M => s[i] = <<"evaluate", RulePlugins[i - M]>>
  <2>1. \A i \in 1 .. M : s[i] = ds[i] /\ ds[i] = <<"describe", Metrics[i]>>
    BY <1>1, <1>5
  <2>2. \A i \in 1 .. R : M + i \in 1 .. M + R /\ ~ (M + i <= M) /\ (M + i) - M = i
    BY <1>1
  <2>3. \A i \in 1 .. R : s[M + i] = es[i] /\ es[i] = <<"evaluate", RulePlugins[i]>>
    BY <1>5, <2>2
  <2>4. \A i \in 1 .. M + R : i > M => i - M \in 1 .. R /\ i = M + (i - M)
    BY <1>1
  <2> QED BY <2>1, <2>3, <2>4
<1>7. Ordered(s)
  <2> SUFFICES ASSUME NEW i \in 1 .. M + R, NEW j \in 1 .. M + R, i < j, s[j][1] = "describe"
               PROVE  s[i][1] = "describe"
    BY <1>5 DEF Ordered
  <2>1. j <= M
    BY <1>1, <1>6
  <2>2. i \in 1 .. M
    BY <1>1, <2>1
  <2> QED BY <1>6, <2>2
<1>8. DOMAIN s = 1 .. M + R
  BY <1>1, <1>5
<1>9. ASSUME NEW m \in MetricNames PROVE <<"describe", m>> \in ToSet(s)
  <2>1. PICK i \in 1 .. M : m = Metrics[i]
    BY <1>1 DEF MetricNames, ToSet
  <2>2. i \in 1 .. M + R
    BY <1>1
  <2> QED BY <1>6, <1>8, <2>1, <2>2 DEF ToSet
<1>10. ASSUME NEW r \in RuleNames PROVE <<"evaluate", r>> \in ToSet(s)
  <2>1. PICK i \in 1 .. R : r = RulePlugins[i]
    BY <1>1 DEF RuleNames, ToSet
  <2>2. M + i \in 1 .. M + R
    BY <1>1
  <2> QED BY <1>6, <1>8, <2>1, <2>2 DEF ToSet
<1> QED BY <1>5, <1>7, <1>9, <1>10

LEMMA NoRunsIdle ==
    ASSUME PluginInv, command = "idle"
    PROVE  child = NoRun /\ jobs = <<>>
<1>1. jobs \in Seq({})
  BY DEF PluginInv, CommandKnown, JobsOf
<1> QED BY <1>1 DEF PluginInv, CommandKnown

LEMMA BackfillStarts == PluginInv /\ BackfillPlugins => PluginInv'
<1> SUFFICES ASSUME PluginInv, BackfillPlugins PROVE PluginInv'
  OBVIOUS
<1>1. child' = NoRun
  BY NoRunsIdle DEF BackfillPlugins
<1>2. CommandKnown'
  BY ScansAreJobs, <1>1 DEF BackfillPlugins, CommandKnown, ForgetCommand
<1> QED BY <1>1, <1>2 DEF BackfillPlugins, ForgetCommand, PluginInv, ChildKnown, AnswersKnown,
      MetricsOwed, RulesOwed

LEMMA NoRulesNoNames == RulePlugins = <<>> => RuleNames = {}
BY DEF RuleNames, ToSet

LEMMA CheckStarts == PluginInv /\ Check => PluginInv'
<1> SUFFICES ASSUME PluginInv, Check PROVE PluginInv'
  OBVIOUS
<1>1. child' = NoRun /\ command' = "check"
  BY NoRunsIdle DEF Check
<1>2. PICK rows \in Windows, b \in Budgets : gate' = [rows |-> rows, tokens |-> b.tokens, cost |-> b.cost]
  BY DEF Check
<1>3. gate'.rows \in Windows /\ gate'.tokens \in Nat /\ gate'.cost \in Nat
  BY <1>2, PluginAssumption
<1>4. verdicts' = {} /\ notRun' = {} /\ alerts' = {} /\ answers' = {} /\ exit' = "none"
  BY DEF Check, ForgetCommand
<1>5. CASE RulePlugins = <<>>
  <2>1. jobs' = <<>> /\ jobs' \in Seq(JobsOf("check")) /\ Ordered(jobs')
    BY <1>5 DEF Check, Ordered
  <2>2. RuleNames = {}
    BY <1>5, NoRulesNoNames
  <2> QED BY <1>1, <1>3, <1>4, <2>1, <2>2 DEF PluginInv, CommandKnown, ChildKnown, AnswersKnown,
        MetricsOwed, RulesOwed
<1>6. CASE RulePlugins # <<>>
  <2>1. /\ jobs' \in Seq(JobsOf("check")) /\ Ordered(jobs')
        /\ \A m \in MetricNames : <<"describe", m>> \in ToSet(jobs')
        /\ \A r \in RuleNames : <<"evaluate", r>> \in ToSet(jobs')
    BY <1>6, ChecksAreJobs DEF Check
  <2> QED BY <1>1, <1>3, <1>4, <2>1 DEF PluginInv, CommandKnown, ChildKnown, AnswersKnown,
        MetricsOwed, RulesOwed
<1> QED BY <1>5, <1>6

LEMMA RunGoingOn == PluginInv /\ RunSteps => PluginInv'
<1> SUFFICES ASSUME PluginInv, RunSteps PROVE PluginInv'
  OBVIOUS
<1>1. child # NoRun /\ SaidKnown(child)
  BY DEF PluginInv, ChildKnown, RunSteps, Say, Fork, ChildExit, LetGo, Deadline, Kill, GraceEnds
<1>2. /\ SameRun(child, child') /\ SaidKnown(child') /\ child' # NoRun
      /\ UNCHANGED <<command, jobs, stored, verdicts, notRun, alerts, gate, exit, answers>>
  BY <1>1, RunGoesOn
<1>3. CommandKnown'
  BY <1>1, <1>2 DEF PluginInv, CommandKnown
<1>4. TrueTo(child) => TrueTo(child)'
  BY <1>2 DEF TrueTo, SameRun
<1>5. ChildKnown'
  BY <1>1, <1>2, <1>4 DEF PluginInv, ChildKnown, SameRun
<1>6. AnswersKnown' /\ MetricsOwed' /\ RulesOwed'
  <2>1. AnswersKnown'
    BY <1>2 DEF PluginInv, AnswersKnown, TrueTo, Withheld
  <2>2. \A verbs, p : Running(verbs, p) <=> Running(verbs, p)'
    BY <1>1, <1>2 DEF Running, SameRun
  <2>3. \A document, m : Covers(document, m) <=> Covers(document, m)'
    BY <1>2 DEF Covers
  <2>4. \A r : Ruled(r) <=> Ruled(r)'
    BY <1>2 DEF Ruled, Covers
  <2>5. MetricsOwed'
    BY <1>2, <2>2, <2>3 DEF PluginInv, MetricsOwed
  <2>6. RulesOwed'
    BY <1>2, <2>2, <2>4 DEF PluginInv, RulesOwed
  <2> QED BY <2>1, <2>5, <2>6
<1>7. exit' = "pass" => command' = "idle" /\ GateFailsClosed'
  BY <1>2 DEF PluginInv, GateFailsClosed
<1> QED BY <1>3, <1>5, <1>6, <1>7 DEF PluginInv

\* The next job, and what is left when it is taken.
LEMMA JobTaken ==
    ASSUME CommandKnown, jobs # <<>>
    PROVE  /\ Head(jobs) = <<Head(jobs)[1], Head(jobs)[2]>>
           /\ \/ command = "backfill" /\ Head(jobs)[1] = "scan"
              \/ command = "check" /\ Head(jobs)[1] = "describe" /\ Head(jobs)[2] \in MetricNames
              \/ command = "check" /\ Head(jobs)[1] = "evaluate" /\ Head(jobs)[2] \in RuleNames
           /\ Tail(jobs) \in Seq(JobsOf(command)) /\ Ordered(Tail(jobs))
           /\ \A x : x \in ToSet(jobs) <=> x = Head(jobs) \/ x \in ToSet(Tail(jobs))
           /\ Head(jobs)[1] # "describe" => \A x \in ToSet(Tail(jobs)) : x[1] # "describe"
<1>1. Head(jobs) \in JobsOf(command)
  BY TailIs DEF CommandKnown
<1>2. command # "idle"
  BY <1>1 DEF JobsOf
<1>3. \/ command = "backfill" /\ Head(jobs) \in {"scan"} \X ToSet(Parsers)
      \/ command = "check" /\ Head(jobs) \in ({"describe"} \X MetricNames) \cup ({"evaluate"} \X RuleNames)
  BY <1>1, <1>2 DEF CommandKnown, JobsOf
<1>4. Tail(jobs) \in Seq(JobsOf(command)) /\ Ordered(Tail(jobs))
  BY TailIs DEF CommandKnown
<1>5. \A x : x \in ToSet(jobs) <=> x = Head(jobs) \/ x \in ToSet(Tail(jobs))
  BY TailIs DEF CommandKnown
<1>6. Head(jobs)[1] # "describe" => \A x \in ToSet(Tail(jobs)) : x[1] # "describe"
  BY TailIs DEF CommandKnown
<1> QED BY <1>3, <1>4, <1>5, <1>6

LEMMA SpawnStep == PluginInv /\ Spawn => PluginInv'
<1> SUFFICES ASSUME PluginInv, Spawn PROVE PluginInv'
  OBVIOUS
<1>1. PICK verb, plugin : verb = Head(jobs)[1] /\ plugin = Head(jobs)[2]
  OBVIOUS
<1>2. child = NoRun /\ jobs # <<>> /\ CommandKnown
  BY DEF Spawn, PluginInv
<1>3. /\ Head(jobs) = <<verb, plugin>>
      /\ \/ command = "backfill" /\ verb = "scan"
         \/ command = "check" /\ verb = "describe" /\ plugin \in MetricNames
         \/ command = "check" /\ verb = "evaluate" /\ plugin \in RuleNames
      /\ Tail(jobs) \in Seq(JobsOf(command)) /\ Ordered(Tail(jobs))
      /\ \A x : x \in ToSet(jobs) <=> x = <<verb, plugin>> \/ x \in ToSet(Tail(jobs))
      /\ verb # "describe" => \A x \in ToSet(Tail(jobs)) : x[1] # "describe"
  BY <1>1, <1>2, JobTaken
<1>4. verb \in DOMAIN Kinds
  BY <1>3 DEF Kinds
<1>5. PICK script \in Scripts[verb] :
        child' = Started(verb, plugin, script, IF verb = "evaluate" THEN verdicts ELSE {})
  BY <1>1 DEF Spawn
<1>6. /\ SaidKnown(child') /\ child'.verb = verb /\ child'.plugin = plugin /\ child' # NoRun
      /\ verb = "evaluate" => child'.document = verdicts
  BY <1>4, <1>5, StartedIs
<1>7. /\ jobs' = Tail(jobs)
      /\ UNCHANGED <<command, stored, verdicts, notRun, alerts, gate, exit, answers>>
  BY DEF Spawn
<1>8. CommandKnown'
  BY <1>3, <1>6, <1>7 DEF PluginInv, CommandKnown
<1>9. ChildKnown'
  BY <1>3, <1>6, <1>7 DEF ChildKnown
<1>10. AnswersKnown'
  BY <1>7 DEF PluginInv, AnswersKnown, TrueTo, Withheld
<1>11. MetricsOwed'
  <2> SUFFICES ASSUME command = "check" /\ RuleNames # {}, NEW m \in MetricNames
               PROVE  \/ Covers(verdicts, m)' \/ <<"describe", m>> \in ToSet(jobs')
                      \/ Running({"describe", "analyze"}, m)'
    BY <1>7 DEF MetricsOwed
  <2>1. Covers(verdicts, m) \/ <<"describe", m>> \in ToSet(jobs)
    BY <1>2 DEF PluginInv, MetricsOwed, Running
  <2>2. CASE <<"describe", m>> = <<verb, plugin>>
    BY <1>6, <2>2 DEF Running
  <2> QED BY <1>3, <1>7, <2>1, <2>2 DEF Covers
<1>12. RulesOwed'
  <2> SUFFICES ASSUME command = "check", NEW r \in RuleNames
               PROVE  \/ r \in notRun' \/ Ruled(r)'
                      \/ <<"evaluate", r>> \in ToSet(jobs') \/ Running({"evaluate"}, r)'
    BY <1>7 DEF RulesOwed
  <2>1. r \in notRun \/ Ruled(r) \/ <<"evaluate", r>> \in ToSet(jobs)
    BY <1>2 DEF PluginInv, RulesOwed, Running
  <2>2. CASE <<"evaluate", r>> = <<verb, plugin>>
    BY <1>6, <2>2 DEF Running
  <2>3. Ruled(r) => Ruled(r)'
    BY <1>7 DEF Ruled, Covers
  <2> QED BY <1>3, <1>7, <2>1, <2>2, <2>3
<1>13. exit' = "pass" => command' = "idle" /\ GateFailsClosed'
  BY <1>7 DEF PluginInv, GateFailsClosed
<1> QED BY <1>8, <1>9, <1>10, <1>11, <1>12, <1>13 DEF PluginInv

\* What is given up is owed no more; what was answered stays answered.
LEMMA GivenUp ==
    ASSUME notRun \subseteq notRun', answers \subseteq answers', alerts \subseteq alerts'
    PROVE  /\ \A r : Ruled(r) => Ruled(r)'
           /\ \A m : verdicts' = verdicts /\ Covers(verdicts, m) => Covers(verdicts, m)'
<1>1. \A document, m : Covers(document, m) => m \in notRun' \/ \E v \in document : v.metric = m
  BY DEF Covers
<1> QED BY <1>1 DEF Ruled, Covers

LEMMA UnresolvedStep == PluginInv /\ Unresolved => PluginInv'
<1> SUFFICES ASSUME PluginInv, Unresolved PROVE PluginInv'
  OBVIOUS
<1>1. PICK verb, plugin : verb = Head(jobs)[1] /\ plugin = Head(jobs)[2]
  OBVIOUS
<1>2. child = NoRun /\ jobs # <<>> /\ CommandKnown
  BY DEF Unresolved, PluginInv
<1>3. /\ Tail(jobs) \in Seq(JobsOf(command)) /\ Ordered(Tail(jobs))
      /\ \A x : x \in ToSet(jobs) <=> x = <<verb, plugin>> \/ x \in ToSet(Tail(jobs))
  BY <1>1, <1>2, JobTaken
<1>4. /\ jobs' = Tail(jobs) /\ notRun' = notRun \cup {plugin} /\ child' = child
      /\ UNCHANGED <<command, stored, verdicts, alerts, gate, exit, answers>>
  BY <1>1 DEF Unresolved
<1>5. CommandKnown'
  BY <1>3, <1>4 DEF PluginInv, CommandKnown
<1>6. ChildKnown' /\ AnswersKnown'
  BY <1>2, <1>4 DEF PluginInv, ChildKnown, AnswersKnown, TrueTo, Withheld
<1>7. MetricsOwed'
  <2> SUFFICES ASSUME command = "check" /\ RuleNames # {}, NEW m \in MetricNames
               PROVE  Covers(verdicts, m)' \/ <<"describe", m>> \in ToSet(jobs')
    BY <1>4 DEF MetricsOwed
  <2>1. Covers(verdicts, m) \/ <<"describe", m>> \in ToSet(jobs)
    BY <1>2 DEF PluginInv, MetricsOwed, Running
  <2>2. CASE <<"describe", m>> = <<verb, plugin>>
    BY <1>4, <2>2 DEF Covers
  <2> QED BY <1>3, <1>4, <2>1, <2>2 DEF Covers
<1>8. RulesOwed'
  <2> SUFFICES ASSUME command = "check", NEW r \in RuleNames
               PROVE  r \in notRun' \/ Ruled(r)' \/ <<"evaluate", r>> \in ToSet(jobs')
    BY <1>4 DEF RulesOwed
  <2>1. r \in notRun \/ Ruled(r) \/ <<"evaluate", r>> \in ToSet(jobs)
    BY <1>2 DEF PluginInv, RulesOwed, Running
  <2>2. CASE <<"evaluate", r>> = <<verb, plugin>>
    BY <1>4, <2>2
  <2>3. Ruled(r) => Ruled(r)'
    BY <1>4, GivenUp
  <2> QED BY <1>3, <1>4, <2>1, <2>2, <2>3
<1>9. exit' = "pass" => command' = "idle" /\ GateFailsClosed'
  BY <1>4 DEF PluginInv, GateFailsClosed
<1> QED BY <1>5, <1>6, <1>7, <1>8, <1>9 DEF PluginInv

\* When a run ends for good, the command has what it had, less or more.
LEMMA RunEnds ==
    ASSUME PluginInv, child # NoRun, child' = NoRun,
           UNCHANGED <<command, jobs, gate, exit>>,
           notRun \subseteq notRun', answers \subseteq answers', alerts \subseteq alerts',
           verdicts \subseteq verdicts', AnswersKnown',
           NEW p, p = child.plugin,
           child.verb \in {"describe", "analyze"} => Covers(verdicts, p)',
           child.verb = "evaluate" => p \in notRun' \/ Ruled(p)'
    PROVE  PluginInv'
<1>1. CommandKnown' /\ ChildKnown'
  BY DEF PluginInv, CommandKnown, ChildKnown
<1>2. \A m : Covers(verdicts, m) => Covers(verdicts, m)'
  BY DEF Covers
<1>3. \A r : Ruled(r) => Ruled(r)'
  BY GivenUp
<1>4. MetricsOwed'
  <2> SUFFICES ASSUME command = "check" /\ RuleNames # {}, NEW m \in MetricNames
               PROVE  Covers(verdicts, m)' \/ <<"describe", m>> \in ToSet(jobs')
    BY DEF MetricsOwed
  <2>1. \/ Covers(verdicts, m) \/ <<"describe", m>> \in ToSet(jobs)
        \/ child.verb \in {"describe", "analyze"} /\ child.plugin = m
    BY DEF PluginInv, MetricsOwed, Running
  <2> QED BY <1>2, <2>1
<1>5. RulesOwed'
  <2> SUFFICES ASSUME command = "check", NEW r \in RuleNames
               PROVE  r \in notRun' \/ Ruled(r)' \/ <<"evaluate", r>> \in ToSet(jobs')
    BY DEF RulesOwed
  <2>1. \/ r \in notRun \/ Ruled(r) \/ <<"evaluate", r>> \in ToSet(jobs)
        \/ child.verb = "evaluate" /\ child.plugin = r
    BY DEF PluginInv, RulesOwed, Running
  <2> QED BY <1>3, <2>1
<1>6. exit = "none"
  BY DEF PluginInv, CommandKnown
<1> QED BY <1>1, <1>4, <1>5, <1>6 DEF PluginInv

LEMMA NothingNew ==
    ASSUME AnswersKnown, UNCHANGED <<answers, verdicts>>
    PROVE  AnswersKnown'
BY DEF AnswersKnown, TrueTo, Withheld

LEMMA FailedStep ==
    ASSUME PluginInv, child # NoRun, Failed(child), child' = NoRun,
           UNCHANGED <<command, jobs, gate, exit, answers>>
    PROVE  PluginInv'
<1>1. notRun' = notRun \cup {child.plugin} /\ UNCHANGED <<stored, verdicts, alerts>>
  BY DEF Failed
<1>2. PICK p : p = child.plugin
  OBVIOUS
<1>3. Covers(verdicts, p)' /\ p \in notRun'
  BY <1>1, <1>2 DEF Covers
<1>4. AnswersKnown'
  BY <1>1, NothingNew DEF PluginInv
<1> QED BY <1>1, <1>2, <1>3, <1>4, RunEnds

LEMMA FinishScanStep == PluginInv /\ FinishScan => PluginInv'
<1> SUFFICES ASSUME PluginInv, FinishScan PROVE PluginInv'
  OBVIOUS
<1>1. child # NoRun /\ child.verb = "scan" /\ child' = NoRun /\ UNCHANGED <<command, jobs, gate, exit, answers>>
  BY DEF FinishScan
<1>2. CASE Failed(child)
  BY <1>1, <1>2, FailedStep
<1>3. CASE UNCHANGED <<verdicts, notRun, alerts>>
  <2>1. AnswersKnown'
    BY <1>1, <1>3, NothingNew DEF PluginInv
  <2>2. PICK p : p = child.plugin
    OBVIOUS
  <2> QED BY <1>1, <1>3, <2>1, <2>2, RunEnds
<1> QED BY <1>2, <1>3 DEF FinishScan

LEMMA FinishDescribeStep == PluginInv /\ FinishDescribe => PluginInv'
<1> SUFFICES ASSUME PluginInv, FinishDescribe PROVE PluginInv'
  OBVIOUS
<1>1. /\ child # NoRun /\ Waited(child) /\ child.verb = "describe"
      /\ UNCHANGED <<command, jobs, gate, exit, answers>>
  BY DEF FinishDescribe
<1>2. SaidKnown(child) /\ command = "check" /\ child.plugin \in MetricNames
  BY <1>1 DEF PluginInv, ChildKnown
<1>3. CASE Answered(child)
  <2>1. PICK script \in Scripts["analyze"] :
          child' = Started("analyze", child.plugin, script,
                     [declared |-> Answer(child),
                      sent |-> Document(Negotiate(Answer(child), Allow[child.plugin]))])
    BY <1>3 DEF FinishDescribe
  <2>2. UNCHANGED <<stored, verdicts, notRun, alerts>>
    BY <1>3 DEF FinishDescribe
  <2>3. ValidDeclaration(Answer(child))
    BY <1>1, <1>2, <1>3, AnswerIs
  <2>4. "analyze" \in DOMAIN Kinds
    BY DEF Kinds
  <2>5. /\ SaidKnown(child') /\ child'.verb = "analyze" /\ child'.plugin = child.plugin /\ child' # NoRun
        /\ child'.document.declared = Answer(child)
        /\ child'.document.sent = Document(Negotiate(Answer(child), Allow[child.plugin]))
    BY <2>1, <2>4, StartedIs
  <2>6. TrueTo(child)'
    BY <1>2, <2>3, <2>5 DEF TrueTo
  <2>7. CommandKnown' /\ ChildKnown'
    BY <1>1, <1>2, <2>5, <2>6 DEF PluginInv, CommandKnown, ChildKnown
  <2>8. AnswersKnown'
    BY <1>1, <2>2, NothingNew DEF PluginInv
  <2>9. MetricsOwed'
    <3>1. \A m : Running({"describe", "analyze"}, m) => Running({"describe", "analyze"}, m)'
      BY <2>5 DEF Running
    <3>2. \A m : Covers(verdicts, m) => Covers(verdicts, m)'
      BY <2>2 DEF Covers
    <3> QED BY <1>1, <3>1, <3>2 DEF PluginInv, MetricsOwed
  <2>10. RulesOwed'
    <3>1. \A r : ~Running({"evaluate"}, r)
      BY <1>1 DEF Running
    <3>2. \A r : Ruled(r) => Ruled(r)'
      BY <1>1, <2>2, GivenUp
    <3> QED BY <1>1, <2>2, <3>1, <3>2 DEF PluginInv, RulesOwed
  <2>11. exit = "none"
    BY <1>2 DEF PluginInv, CommandKnown
  <2> QED BY <1>1, <2>7, <2>8, <2>9, <2>10, <2>11 DEF PluginInv
<1>4. CASE ~Answered(child)
  BY <1>1, <1>4, FailedStep DEF FinishDescribe
<1> QED BY <1>3, <1>4

LEMMA FinishAnalyzeStep == PluginInv /\ FinishAnalyze => PluginInv'
<1> SUFFICES ASSUME PluginInv, FinishAnalyze PROVE PluginInv'
  OBVIOUS
<1>1. /\ child # NoRun /\ child.verb = "analyze" /\ child' = NoRun
      /\ UNCHANGED <<command, jobs, gate, exit>>
  BY DEF FinishAnalyze
<1>2. TrueTo(child)
  BY <1>1 DEF PluginInv, ChildKnown
<1>3. CASE Answered(child)
  <2> DEFINE c == Answering(child)
             v == [metric |-> child.plugin, partial |-> Withheld(child) # {}]
  <2>1. /\ verdicts' = verdicts \cup {v} /\ answers' = answers \cup {c}
        /\ UNCHANGED <<stored, notRun, alerts>>
    BY <1>3 DEF FinishAnalyze, Withheld
  <2>2. c.verb = "analyze" /\ c.plugin = child.plugin /\ c.document = child.document
    BY <1>1 DEF Answering
  <2>3. TrueTo(c) /\ Withheld(c) = Withheld(child)
    BY <1>2, <2>2 DEF TrueTo, Withheld
  <2>4. v.metric = child.plugin /\ v.metric \in MetricNames /\ v.partial = (Withheld(c) # {})
    BY <1>2, <2>3 DEF TrueTo
  <2> HIDE DEF c, v
  <2>5. AnswersKnown'
    <3>1. \A x \in answers' : x.verb = "analyze" => TrueTo(x)
      BY <2>1, <2>3 DEF PluginInv, AnswersKnown
    <3>2. \A w \in verdicts' :
            /\ w.metric \in MetricNames
            /\ \E x \in answers' : x.verb = "analyze" /\ x.plugin = w.metric /\ w.partial = (Withheld(x) # {})
      <4> TAKE w \in verdicts'
      <4>1. CASE w \in verdicts
        BY <2>1, <4>1 DEF PluginInv, AnswersKnown
      <4>2. CASE w = v
        BY <2>1, <2>2, <2>4, <4>2
      <4> QED BY <2>1, <4>1, <4>2
    <3> QED BY <3>1, <3>2 DEF AnswersKnown, TrueTo, Withheld
  <2>6. PICK p : p = child.plugin
    OBVIOUS
  <2>7. Covers(verdicts, p)'
    BY <2>1, <2>4, <2>6 DEF Covers
  <2> QED BY <1>1, <2>1, <2>5, <2>6, <2>7, RunEnds
<1>4. CASE ~Answered(child)
  BY <1>1, <1>4, FailedStep DEF FinishAnalyze
<1> QED BY <1>3, <1>4

LEMMA FinishEvaluateStep == PluginInv /\ FinishEvaluate => PluginInv'
<1> SUFFICES ASSUME PluginInv, FinishEvaluate PROVE PluginInv'
  OBVIOUS
<1>1. /\ child # NoRun /\ Waited(child) /\ child.verb = "evaluate" /\ child' = NoRun
      /\ UNCHANGED <<command, jobs, gate, exit>>
  BY DEF FinishEvaluate
<1>2. /\ SaidKnown(child) /\ command = "check" /\ child.plugin \in RuleNames /\ child.document = verdicts
      /\ \A x \in ToSet(jobs) : x[1] # "describe"
  BY <1>1 DEF PluginInv, ChildKnown
<1>3. CASE Answered(child)
  <2>0. PICK c, p : c = Answering(child) /\ p = child.plugin
    OBVIOUS
  <2>1. /\ alerts' = alerts \cup {[plugin |-> p, severity |-> s] : s \in Answer(child)}
        /\ answers' = answers \cup {c} /\ UNCHANGED <<stored, verdicts, notRun>>
    BY <1>3, <2>0 DEF FinishEvaluate
  <2>2. /\ child.said = Len(child.script)
        /\ \A i \in DOMAIN child.script :
             child.script[i].kind = "alerts" => child.script[i].body = Answer(child)
    <3>1. Kinds["evaluate"] = "alerts"
      BY DEF Kinds
    <3> QED BY <1>1, <1>2, <1>3, <3>1, AnswerIs
  <2>3. /\ c.verb = "evaluate" /\ c.plugin = p /\ c.document = verdicts
        /\ c.script = child.script /\ c.whole
    BY <1>1, <1>2, <2>0, <2>2 DEF Answering
  <2>4. \A m \in MetricNames : Covers(verdicts, m)
    <3> TAKE m \in MetricNames
    <3>1. <<"describe", m>>[1] = "describe"
      OBVIOUS
    <3> QED BY <1>1, <1>2, <3>1 DEF PluginInv, MetricsOwed, Running
  <2>5. AnswersKnown'
    <3>1. \A x \in answers' : x.verb = "analyze" => TrueTo(x)
      BY <2>1, <2>3 DEF PluginInv, AnswersKnown
    <3> QED BY <2>1, <3>1 DEF PluginInv, AnswersKnown, TrueTo, Withheld
  <2>6. Ruled(p)'
    <3>1. \A v \in c.document : v.metric \in MetricNames
      BY <2>3 DEF PluginInv, AnswersKnown
    <3>2. \A m \in MetricNames : Covers(c.document, m)'
      BY <2>1, <2>3, <2>4 DEF Covers
    <3>3. \A i \in DOMAIN c.script : c.script[i].kind = "alerts" =>
            \A s \in c.script[i].body : [plugin |-> p, severity |-> s] \in alerts'
      BY <2>0, <2>1, <2>2, <2>3
    <3> QED BY <2>1, <2>3, <3>1, <3>2, <3>3 DEF Ruled
  <2> QED BY <1>1, <2>0, <2>1, <2>5, <2>6, RunEnds
<1>4. CASE ~Answered(child)
  BY <1>1, <1>4, FailedStep DEF FinishEvaluate
<1> QED BY <1>3, <1>4

LEMMA EndBackfillStep == PluginInv /\ EndBackfill => PluginInv'
<1> SUFFICES ASSUME PluginInv, EndBackfill PROVE PluginInv'
  OBVIOUS
<1>1. /\ command' = "idle" /\ child = NoRun /\ jobs = <<>> /\ exit = "none"
      /\ UNCHANGED <<jobs, child, stored, verdicts, notRun, alerts, gate, exit, answers>>
  BY DEF EndBackfill, PluginInv, CommandKnown
<1>2. CommandKnown' /\ ChildKnown'
  BY <1>1, JobsInit DEF PluginInv, CommandKnown, ChildKnown
<1>3. AnswersKnown'
  BY <1>1, NothingNew DEF PluginInv
<1> QED BY <1>1, <1>2, <1>3 DEF PluginInv, MetricsOwed, RulesOwed

\* Rows without a price count for nothing once they used no token.
LEMMA PricedIsAll ==
    ASSUME NEW rows \in Windows, ~ \E r \in rows : ~r.priced /\ r.tokens > 0
    PROVE  Total({r \in rows : r.priced}, "worth") = Total(rows, "worth")
<1> DEFINE all == UNION {{r} \X (1 .. r["worth"]) : r \in rows}
           priced == UNION {{r} \X (1 .. r["worth"]) : r \in {q \in rows : q.priced}}
<1>1. \A x \in all : x \in priced
  <2> TAKE x \in all
  <2>1. PICK r \in rows : x \in {r} \X (1 .. r["worth"])
    OBVIOUS
  <2>2. r.priced
    <3> SUFFICES ASSUME ~r.priced PROVE FALSE
      OBVIOUS
    <3>1. r.tokens \in Nat /\ (r.tokens = 0 => r.worth = 0)
      BY PluginAssumption
    <3>2. r.worth = 0
      BY <3>1
    <3>3. 1 .. r["worth"] = {}
      BY <3>2
    <3> QED BY <2>1, <3>3
  <2> QED BY <2>1, <2>2
<1>2. \A x \in priced : x \in all
  OBVIOUS
<1>3. all = priced
  BY <1>1, <1>2
<1> QED BY <1>3 DEF Total

LEMMA GateIsPassed ==
    ASSUME gate = NoGate \/ (gate.rows \in Windows /\ gate.tokens \in Nat /\ gate.cost \in Nat),
           ~Breached(gate)
    PROVE  /\ gate.tokens > 0 => Total(gate.rows, "tokens") <= gate.tokens
           /\ gate.cost > 0 => Total(gate.rows, "worth") <= gate.cost
<1>1. CASE gate = NoGate
  BY <1>1 DEF NoGate
<1>2. CASE gate.rows \in Windows /\ gate.tokens \in Nat /\ gate.cost \in Nat
  <2>1. PICK rows \in Windows : rows = gate.rows
    BY <1>2
  <2>2. IsFiniteSet(rows) /\ \A r \in rows : r["tokens"] \in Nat /\ r["worth"] \in Nat
    BY PluginAssumption
  <2>3. Total(rows, "tokens") \in Nat /\ Total(rows, "worth") \in Nat
    BY <2>2, TotalIsNat
  <2>4. gate.tokens > 0 => ~ (Total(rows, "tokens") > gate.tokens)
    BY <2>1 DEF Breached
  <2>5. gate.cost > 0 => ~ (\E r \in rows : ~r.priced /\ r.tokens > 0)
                         /\ ~ (Total({r \in rows : r.priced}, "worth") > gate.cost)
    BY <2>1 DEF Breached
  <2>6. gate.cost > 0 => ~ (Total(rows, "worth") > gate.cost)
    BY <2>5, PricedIsAll
  <2> QED BY <1>2, <2>1, <2>3, <2>4, <2>6
<1> QED BY <1>1, <1>2

LEMMA EndCheckStep == PluginInv /\ EndCheck => PluginInv'
<1> SUFFICES ASSUME PluginInv, EndCheck PROVE PluginInv'
  OBVIOUS
<1>1. /\ command = "check" /\ command' = "idle" /\ child = NoRun /\ jobs = <<>>
      /\ UNCHANGED <<jobs, child, stored, verdicts, notRun, alerts, gate, answers>>
  BY DEF EndCheck
<1>2. CommandKnown' /\ ChildKnown'
  BY <1>1, JobsInit DEF PluginInv, CommandKnown, ChildKnown
<1>3. AnswersKnown'
  BY <1>1, NothingNew DEF PluginInv
<1>4. ASSUME exit' = "pass" PROVE GateFailsClosed'
  <2>1. ~Breached(gate) /\ notRun = {} /\ ~ \E a \in alerts : a.severity = "error"
    BY <1>4 DEF EndCheck
  <2>2. /\ gate.tokens > 0 => Total(gate.rows, "tokens") <= gate.tokens
        /\ gate.cost > 0 => Total(gate.rows, "worth") <= gate.cost
    BY <2>1, GateIsPassed DEF PluginInv, CommandKnown
  <2>3. ASSUME NEW r \in ToSet(RulePlugins)
        PROVE  \E c \in answers :
                 /\ c.plugin = r /\ c.verb = "evaluate" /\ c.whole
                 /\ {v.metric : v \in c.document} = ToSet(Metrics)
                 /\ \A i \in DOMAIN c.script : c.script[i].kind = "alerts" => "error" \notin c.script[i].body
    <3>1. <<"evaluate", r>> \notin ToSet(jobs)
      BY <1>1 DEF ToSet
    <3>2. Ruled(r)
      BY <1>1, <2>1, <3>1 DEF PluginInv, RulesOwed, RuleNames, Running
    <3>3. PICK c \in answers :
            /\ c.verb = "evaluate" /\ c.plugin = r /\ c.whole
            /\ \A v \in c.document : v.metric \in MetricNames
            /\ \A m \in MetricNames : Covers(c.document, m)
            /\ \A i \in DOMAIN c.script : c.script[i].kind = "alerts" =>
                 \A s \in c.script[i].body : [plugin |-> r, severity |-> s] \in alerts
      BY <3>2 DEF Ruled
    <3>4. {v.metric : v \in c.document} = ToSet(Metrics)
      BY <2>1, <3>3 DEF Covers, MetricNames
    <3>5. [plugin |-> r, severity |-> "error"] \notin alerts
      BY <2>1
    <3>6. \A i \in DOMAIN c.script : c.script[i].kind = "alerts" => "error" \notin c.script[i].body
      BY <3>3, <3>5
    <3> QED BY <3>3, <3>4, <3>6
  <2> QED BY <1>1, <2>2, <2>3 DEF GateFailsClosed
<1> QED BY <1>1, <1>2, <1>3, <1>4 DEF PluginInv, MetricsOwed, RulesOwed

LEMMA PluginStep == PluginInv /\ [PluginNext]_pluginVars => PluginInv'
<1> SUFFICES ASSUME PluginInv, [PluginNext]_pluginVars PROVE PluginInv'
  OBVIOUS
<1>1. CASE PluginNext
  BY <1>1, BackfillStarts, CheckStarts, SpawnStep, UnresolvedStep, RunGoingOn, FinishScanStep,
     FinishDescribeStep, FinishAnalyzeStep, FinishEvaluateStep, EndBackfillStep, EndCheckStep
     DEF PluginNext, RunSteps
<1>2. CASE UNCHANGED pluginVars
  <2>1. UNCHANGED <<command, jobs, child, verdicts, notRun, alerts, gate, exit, answers>>
    BY <1>2 DEF pluginVars
  <2>2. CommandKnown' /\ ChildKnown' /\ AnswersKnown'
    BY <2>1 DEF PluginInv, CommandKnown, ChildKnown, AnswersKnown, TrueTo, Withheld
  <2>3. \A r : Ruled(r) <=> Ruled(r)'
    BY <2>1 DEF Ruled, Covers
  <2>4. MetricsOwed' /\ RulesOwed'
    BY <2>1, <2>3 DEF PluginInv, MetricsOwed, RulesOwed, Covers, Running
  <2>5. exit' = "pass" => command' = "idle" /\ GateFailsClosed'
    BY <2>1 DEF PluginInv, GateFailsClosed
  <2> QED BY <2>2, <2>4, <2>5 DEF PluginInv
<1> QED BY <1>1, <1>2

\* Every reachable state of the host satisfies its invariant.
THEOREM PluginsStayKnown == PluginSpec => []PluginInv
BY PluginInitHolds, PluginStep, PTL DEF PluginSpec

\* The store takes all the records of a plugin that ended well and had said everything,
\* or none of them, whatever the plugin, its descendants and the host's limits do
\* (plugin/exec.go: run; ingest/plugins.go: ingestPlugins).
THEOREM PluginsStoreWhole == PluginSpec => AllOrNothing
<1>1. PluginInv /\ [PluginNext]_pluginVars => [StoresWhole]_pluginVars
  <2> SUFFICES ASSUME PluginInv, [PluginNext]_pluginVars, stored' # stored PROVE StoresWhole
    BY DEF StoresWhole
  <2>1. FinishScan
    BY DEF PluginNext, pluginVars, BackfillPlugins, Check, Spawn, Unresolved, Say, Fork, ChildExit,
       LetGo, Deadline, Kill, GraceEnds, FinishDescribe, FinishAnalyze, FinishEvaluate,
       EndBackfill, EndCheck, Failed
  <2>2. EndedWell(child) /\ stored' = stored \cup Records(child, child.said)
    BY <2>1 DEF FinishScan, Failed
  <2>3. child.said = Len(child.script)
    BY <2>1, <2>2, EndedWhole DEF FinishScan, PluginInv, ChildKnown
  <2> QED BY <2>1, <2>2, <2>3 DEF StoresWhole, FinishScan, EndedWell
<1> QED BY <1>1, PluginsStayKnown, PTL DEF PluginSpec, AllOrNothing

\* What a declaration and the config leave to send.
LEMMA SentIs ==
    ASSUME NEW c, TrueTo(c), NEW d, d = c.document.declared
    PROVE  LET sent == c.document.sent IN
           /\ DOMAIN sent.sections = {s \in DOMAIN Sections : Deserved(c, Sections[s].capability)}
           /\ sent.prices <=> Deserved(c, "prices")
           /\ \A s \in DOMAIN sent.sections :
               /\ sent.rows[s] = [sent |-> Cardinality(DOMAIN sent.sections[s]), available |-> Len(Prepared[s])]
               /\ s \in DOMAIN d.fields =>
                    \A i \in DOMAIN sent.sections[s] : DOMAIN sent.sections[s][i] = d.fields[s]
               /\ sent.totals /\ Sections[s].capability = "usage" =>
                    sent.rows[s].sent = Len(Prepared[s])
<1> DEFINE allow == Allow[c.plugin]
           p == Negotiate(d, allow)
           sent == c.document.sent
<1>1. sent = Document(p) /\ ValidDeclaration(d)
  BY DEF TrueTo
<1>2. \A need : need \in p.needs <=> Deserved(c, need)
  BY DEF Negotiate, Granted, Deserved, Allowed
<1>3. /\ DOMAIN p.fields = {t \in DOMAIN d.fields : Sections[t].capability \in p.needs}
      /\ \A s \in DOMAIN p.fields : p.fields[s] = d.fields[s]
      /\ DOMAIN p.where = {v \in DOMAIN d.where : Sections[v[1]].capability \in p.needs}
  BY DEF Negotiate
<1> HIDE DEF p
<1> DEFINE carried == {s \in DOMAIN Sections : Sections[s].capability \in p.needs}
<1>4. /\ sent.sections = [s \in carried |-> [i \in FilterRows(s, p.where) |->
                            ProjectRow(s, Prepared[s][i], p.fields)]]
      /\ sent.rows = [s \in carried |-> [sent |-> Cardinality(FilterRows(s, p.where)),
                                         available |-> Len(Prepared[s])]]
      /\ sent.totals = ("usage" \in p.needs /\ ~NarrowsAnySection(p.where, "usage"))
      /\ sent.prices = ("prices" \in p.needs)
  BY <1>1 DEF Document
<1>5. DOMAIN sent.sections = carried
  BY <1>4
<1>6. ASSUME NEW s \in carried
      PROVE  /\ sent.rows[s] = [sent |-> Cardinality(DOMAIN sent.sections[s]), available |-> Len(Prepared[s])]
             /\ s \in DOMAIN d.fields =>
                  \A i \in DOMAIN sent.sections[s] : DOMAIN sent.sections[s][i] = d.fields[s]
             /\ sent.totals /\ Sections[s].capability = "usage" =>
                  sent.rows[s].sent = Len(Prepared[s])
  <2>1. /\ DOMAIN sent.sections[s] = FilterRows(s, p.where)
        /\ \A i \in FilterRows(s, p.where) :
             sent.sections[s][i] = ProjectRow(s, Prepared[s][i], p.fields)
    BY <1>4
  <2>2. sent.rows[s] = [sent |-> Cardinality(FilterRows(s, p.where)), available |-> Len(Prepared[s])]
    BY <1>4
  <2>3. ASSUME s \in DOMAIN d.fields, NEW i \in DOMAIN sent.sections[s]
        PROVE  DOMAIN sent.sections[s][i] = d.fields[s]
    <3>1. s \in DOMAIN p.fields /\ p.fields[s] = d.fields[s]
      BY <1>3, <2>3
    <3> QED BY <2>1, <2>3, <3>1 DEF ProjectRow
  <2>4. ASSUME sent.totals, Sections[s].capability = "usage"
        PROVE  sent.rows[s].sent = Len(Prepared[s])
    <3>1. ~NarrowsAnySection(p.where, "usage")
      BY <1>4, <2>4
    <3>2. \A w \in DOMAIN p.where : w[1] # s
      BY <2>4, <3>1 DEF NarrowsAnySection
    <3>3. FilterRows(s, p.where) = DOMAIN Prepared[s]
      BY <3>2 DEF FilterRows
    <3>4. Len(Prepared[s]) \in Nat /\ DOMAIN Prepared[s] = 1 .. Len(Prepared[s])
      BY PluginAssumption
    <3>5. Cardinality(1 .. Len(Prepared[s])) = Len(Prepared[s])
      BY <3>4, FS_Interval
    <3> QED BY <2>2, <3>3, <3>4, <3>5
  <2> QED BY <2>1, <2>2, <2>3, <2>4
<1>7. sent.prices <=> Deserved(c, "prices")
  BY <1>2, <1>4
<1> QED BY <1>2, <1>5, <1>6, <1>7

LEMMA DisclosureFollows == PluginInv => DisclosureHonest
<1> SUFFICES ASSUME PluginInv PROVE DisclosureHonest
  OBVIOUS
<1> DEFINE analyzed == {c \in answers \cup ({child} \ {NoRun}) : c.verb = "analyze"}
<1>1. \A c \in analyzed : TrueTo(c)
  BY DEF PluginInv, AnswersKnown, ChildKnown
<1>2. ASSUME NEW c \in analyzed
      PROVE  LET d == c.document.declared IN
             /\ DOMAIN Sent(c).sections = {s \in DOMAIN Sections : Deserved(c, Sections[s].capability)}
             /\ Sent(c).prices <=> Deserved(c, "prices")
             /\ \A s \in DOMAIN Sent(c).sections :
                 /\ Sent(c).rows[s] = [sent      |-> Cardinality(DOMAIN Sent(c).sections[s]),
                                       available |-> Len(Prepared[s])]
                 /\ s \in DOMAIN d.fields =>
                      \A i \in DOMAIN Sent(c).sections[s] : DOMAIN Sent(c).sections[s][i] = d.fields[s]
                 /\ Sent(c).totals /\ Sections[s].capability = "usage" =>
                      Sent(c).rows[s].sent = Len(Prepared[s])
  BY <1>1, SentIs DEF Sent
<1>3. ASSUME NEW v \in verdicts, ~v.partial
      PROVE  \E c \in analyzed : c.plugin = v.metric
               /\ \A need \in c.document.declared.needs : Allowed(c, need)
  <2>1. PICK c \in answers : /\ c.verb = "analyze" /\ c.plugin = v.metric
                             /\ v.partial = (Withheld(c) # {})
    BY DEF PluginInv, AnswersKnown
  <2>2. Withheld(c) = {}
    BY <1>3, <2>1
  <2>3. c \in analyzed
    BY <2>1
  <2>4. \A need \in c.document.declared.needs : Allowed(c, need)
    BY <2>2 DEF Withheld, Negotiate, Granted, Allowed
  <2> QED BY <2>1, <2>3, <2>4
<1> QED BY <1>2, <1>3 DEF DisclosureHonest

\* A check passes only on what it knows: every rule was shown every verdict, answered in
\* full and raised no error, and the window is within its budget; and what a metric plugin
\* was sent, and the verdict it gave, are what was declared and allowed (cli/check.go,
\* cli/ruleplugins.go, cli/check_budget.go, plugin/metric_document.go).
THEOREM GateIsHonest == PluginSpec => []GateHonest
<1>1. PluginInv => GateHonest
  <2>1. PluginInv /\ exit # "pass" => GateFailsClosed
    BY DEF GateFailsClosed
  <2> QED BY <2>1, DisclosureFollows DEF PluginInv, GateHonest
<1> QED BY <1>1, PluginsStayKnown, PTL

(* What readers of the store are shown *)

Repos == {Repo(k) : k \in DOMAIN RowPool}

ReadTypes ==
    /\ DOMAIN shelf \subseteq DOMAIN RowPool /\ shelf \in [DOMAIN shelf -> Int]
    /\ registry \in Seq(Repos)

\* A row is placed in the repository it names; and a repository is registered once,
\* and for a key.
Placed ==
    \A k \in DOMAIN shelf : shelf[k] > 0 =>
        shelf[k] \in 1 .. Len(registry) /\ registry[shelf[k]] = Repo(k)
RegisteredOnce ==
    /\ \A i, j \in 1 .. Len(registry) : registry[i] = registry[j] => i = j
    /\ \A i \in 1 .. Len(registry) : registry[i].key # ""

ReadInv == ReadTypes /\ Placed /\ RegisteredOnce

LEMMA ReadInitHolds == ReadInit => ReadInv
<1> SUFFICES ASSUME ReadInit PROVE ReadInv
  OBVIOUS
<1>1. shelf = <<>> /\ registry = <<>> /\ Len(registry) = 0
  BY DEF ReadInit
<1>2. DOMAIN shelf = {} /\ shelf \in [DOMAIN shelf -> Int]
  BY <1>1
<1> QED BY <1>1, <1>2 DEF ReadInv, ReadTypes, Placed, RegisteredOnce

\* A row that names a repository is placed in it, registered before or now.
LEMMA InsertRowStep ==
    ASSUME ReadInv, NEW k \in DOMAIN RowPool, InsertRow(k)
    PROVE  /\ ReadInv' /\ Len(registry) <= Len(registry')
           /\ \A i \in 1 .. Len(registry) : registry'[i] = registry[i]
<1> DEFINE repo == Repo(k)
<1>1. registry \in Seq(Repos) /\ repo \in Repos /\ Len(registry) \in Nat
  BY DEF ReadInv, ReadTypes, Repos
<1>2. repo.key = Row(k).key
  BY DEF Repo
<1>3. CASE Keyed(k) /\ ~Registered(k)
  <2>1. registry' = Append(registry, repo) /\ Row(k).key # ""
    BY <1>3 DEF InsertRow, Keyed
  <2>2. \A i \in 1 .. Len(registry) : registry[i] # repo
    BY <1>1, <1>3 DEF Registered
  <2> DEFINE at == RepoID(k, registry')
  <2>5. shelf' = [j \in DOMAIN shelf \cup {k} |-> IF j # k THEN shelf[j] ELSE at]
    BY DEF InsertRow
  <2> HIDE DEF repo
  <2>3. /\ registry' \in Seq(Repos) /\ Len(registry') = Len(registry) + 1
        /\ \A i \in 1 .. Len(registry) : registry'[i] = registry[i]
        /\ registry'[Len(registry) + 1] = repo /\ DOMAIN registry' = 1 .. Len(registry')
    <3>1. PICK grown : grown = Append(registry, repo)
      OBVIOUS
    <3>2. /\ grown \in Seq(Repos) /\ Len(grown) = Len(registry) + 1
          /\ \A i \in 1 .. Len(registry) : grown[i] = registry[i]
          /\ grown[Len(registry) + 1] = repo
      BY <1>1, <3>1, AppendProperties
    <3>3. DOMAIN grown = 1 .. Len(grown)
      BY <3>2
    <3> QED BY <2>1, <3>1, <3>2, <3>3
  <2>4. at \in 1 .. Len(registry') /\ registry'[at] = repo
    <3>1. Len(registry) + 1 \in DOMAIN registry'
      BY <1>1, <2>3
    <3> QED BY <1>3, <2>3, <3>1 DEF RepoID, repo
  <2> HIDE DEF at
  <2>6. RegisteredOnce'
    <3>1. \A i \in 1 .. Len(registry') : i \in 1 .. Len(registry) \/ i = Len(registry) + 1
      BY <1>1, <2>3
    <3>2. /\ \A i, j \in 1 .. Len(registry) : registry[i] = registry[j] => i = j
          /\ \A i \in 1 .. Len(registry) : registry[i].key # ""
      BY DEF RegisteredOnce, ReadInv
    <3>3. \A i, j \in 1 .. Len(registry') : registry'[i] = registry'[j] => i = j
      BY <2>2, <2>3, <3>1, <3>2
    <3>4. \A i \in 1 .. Len(registry') : registry'[i].key # ""
      BY <1>2, <2>1, <2>3, <3>1, <3>2
    <3> QED BY <3>3, <3>4 DEF RegisteredOnce
  <2>7. ReadTypes' /\ Placed'
    <3>1. DOMAIN shelf' = DOMAIN shelf \cup {k} /\ shelf'[k] = at /\ k \notin DOMAIN shelf
      BY <2>5 DEF InsertRow
    <3>2. \A j \in DOMAIN shelf : shelf'[j] = shelf[j] /\ shelf[j] \in Int
      BY <2>5, <3>1 DEF ReadInv, ReadTypes
    <3>3. at \in Int
      BY <2>4
    <3>4. ReadTypes'
      BY <2>3, <2>5, <3>1, <3>2, <3>3 DEF ReadInv, ReadTypes
    <3>5. ASSUME NEW j \in DOMAIN shelf', shelf'[j] > 0
          PROVE  shelf'[j] \in 1 .. Len(registry') /\ registry'[shelf'[j]] = Repo(j)
      <4>1. CASE j = k
        BY <2>4, <3>1, <4>1 DEF repo
      <4>2. CASE j # k
        <5>1. j \in DOMAIN shelf /\ shelf'[j] = shelf[j]
          BY <3>1, <3>2, <4>2
        <5>2. shelf[j] \in 1 .. Len(registry) /\ registry[shelf[j]] = Repo(j)
          BY <3>5, <5>1 DEF ReadInv, Placed
        <5> QED BY <1>1, <2>3, <5>1, <5>2
      <4> QED BY <4>1, <4>2
    <3> QED BY <3>4, <3>5 DEF Placed, Repo, Row
  <2> QED BY <1>1, <2>3, <2>6, <2>7 DEF ReadInv
<1>4. CASE ~(Keyed(k) /\ ~Registered(k))
  <2>1. registry' = registry /\ DOMAIN registry = 1 .. Len(registry)
    BY <1>1, <1>4 DEF InsertRow
  <2> DEFINE at == RepoID(k, registry')
  <2>2. shelf' = [j \in DOMAIN shelf \cup {k} |-> IF j # k THEN shelf[j] ELSE at]
    BY DEF InsertRow
  <2>3. at = 0 \/ (at \in 1 .. Len(registry) /\ registry[at] = repo)
    BY <1>4, <2>1 DEF Registered, RepoID
  <2> HIDE DEF at
  <2>4. at \in Int
    BY <1>1, <2>3
  <2>5. DOMAIN shelf' = DOMAIN shelf \cup {k} /\ shelf'[k] = at /\ k \notin DOMAIN shelf
    BY <2>2 DEF InsertRow
  <2>6. \A j \in DOMAIN shelf : shelf'[j] = shelf[j] /\ shelf[j] \in Int
    BY <2>2, <2>5 DEF ReadInv, ReadTypes
  <2>7. ReadTypes'
    BY <2>1, <2>2, <2>4, <2>5, <2>6 DEF ReadInv, ReadTypes
  <2>8. ASSUME NEW j \in DOMAIN shelf', shelf'[j] > 0
        PROVE  shelf'[j] \in 1 .. Len(registry') /\ registry'[shelf'[j]] = Repo(j)
    <3>1. CASE j = k
      BY <2>1, <2>3, <2>5, <2>8, <3>1
    <3>2. CASE j # k
      BY <2>1, <2>5, <2>6, <2>8, <3>2 DEF ReadInv, Placed
    <3> QED BY <3>1, <3>2
  <2>9. Placed'
    BY <2>8 DEF Placed, Repo, Row
  <2>10. RegisteredOnce'
    BY <2>1 DEF ReadInv, RegisteredOnce
  <2> QED BY <1>1, <2>1, <2>7, <2>9, <2>10 DEF ReadInv
<1> QED BY <1>3, <1>4

LEMMA ReadStep == ReadInv /\ [ReadNext]_readVars => ReadInv'
<1> SUFFICES ASSUME ReadInv, [ReadNext]_readVars PROVE ReadInv'
  OBVIOUS
<1>1. CASE UNCHANGED readVars
  BY <1>1 DEF readVars, ReadInv, ReadTypes, Placed, RegisteredOnce, Repo, Row, Repos
<1>2. ASSUME NEW k \in DOMAIN RowPool, InsertRow(k) PROVE ReadInv'
  BY <1>2, InsertRowStep
<1>3. ASSUME NEW k \in DOMAIN RowPool, Dispute(k) PROVE ReadInv'
  <2>1. shelf' = [shelf EXCEPT ![k] = -1] /\ registry' = registry /\ k \in DOMAIN shelf
    BY <1>3 DEF Dispute
  <2>2. /\ DOMAIN shelf' = DOMAIN shelf /\ shelf' \in [DOMAIN shelf' -> Int] /\ shelf'[k] = -1
        /\ \A j \in DOMAIN shelf : j # k => shelf'[j] = shelf[j]
    BY <2>1 DEF ReadInv, ReadTypes
  <2>3. ReadTypes' /\ RegisteredOnce'
    BY <2>1, <2>2 DEF ReadInv, ReadTypes, RegisteredOnce
  <2>4. ASSUME NEW j \in DOMAIN shelf', shelf'[j] > 0
        PROVE  shelf'[j] \in 1 .. Len(registry') /\ registry'[shelf'[j]] = Repo(j)
    <3>1. j # k /\ shelf'[j] = shelf[j]
      BY <2>2, <2>4
    <3> QED BY <2>1, <2>2, <2>4, <3>1 DEF ReadInv, Placed
  <2> QED BY <2>3, <2>4 DEF ReadInv, Placed, Repo, Row
<1>4. ASSUME NEW k \in DOMAIN RowPool, RemoveRow(k) PROVE ReadInv'
  <2>1. shelf' = [j \in DOMAIN shelf \ {k} |-> shelf[j]] /\ registry' = registry
    BY <1>4 DEF RemoveRow
  <2>2. /\ DOMAIN shelf' = DOMAIN shelf \ {k} /\ \A j \in DOMAIN shelf' : shelf'[j] = shelf[j]
        /\ shelf' \in [DOMAIN shelf' -> Int]
    BY <2>1 DEF ReadInv, ReadTypes
  <2>3. ReadTypes' /\ RegisteredOnce'
    BY <2>1, <2>2 DEF ReadInv, ReadTypes, RegisteredOnce
  <2>4. Placed'
    BY <2>1, <2>2 DEF ReadInv, Placed, Repo, Row
  <2> QED BY <2>3, <2>4 DEF ReadInv
<1>5. CASE ForgetAll
  <2>1. shelf' = <<>> /\ registry' = <<>> /\ Len(registry') = 0
    BY <1>5 DEF ForgetAll
  <2>2. DOMAIN shelf' = {} /\ shelf' \in [DOMAIN shelf' -> Int]
    BY <2>1
  <2>3. ReadTypes' /\ Placed'
    BY <2>1, <2>2 DEF ReadTypes, Placed
  <2>4. RegisteredOnce'
    BY <2>1 DEF RegisteredOnce
  <2> QED BY <2>3, <2>4 DEF ReadInv
<1> QED BY <1>1, <1>2, <1>3, <1>4, <1>5 DEF ReadNext

\* Whatever rows come and go, each stored row is placed in the repository whose label
\* and key it names, unless it names none or is disputed, and the registry holds no
\* repository twice (store/repository_register.go: registerRepositories).
THEOREM RowsStayPlaced == ReadSpec => []ReadInv
<1> QED BY ReadInitHolds, ReadStep, PTL DEF ReadSpec

(* Names *)

\* The strings names are made of.
Words == {"#", "?"} \cup Range(Digits) \cup UNION {Range(Row(k).label) : k \in DOMAIN RowPool}

LEMMA SomeWords ==
    /\ "#" \in Words /\ "?" \in Words /\ \A n \in DOMAIN Digits : Digits[n] \in Words
    /\ \A k \in DOMAIN RowPool :
        /\ Row(k).label \in Seq(Words)
        /\ \A i \in 1 .. Len(Row(k).label) : Row(k).label[i] # "#"
<1>1. "#" \in Words /\ "?" \in Words /\ \A n \in DOMAIN Digits : Digits[n] \in Words
  BY DEF Words, Range
<1>2. ASSUME NEW k \in DOMAIN RowPool
      PROVE  /\ Row(k).label \in Seq(Words)
             /\ \A i \in 1 .. Len(Row(k).label) : Row(k).label[i] # "#"
  <2>1. PICK a : a = Row(k).label
    OBVIOUS
  <2>2. a \in Seq(Range(a)) /\ "#" \notin Range(a)
    BY <2>1, StoredAssumption
  <2>3. Range(a) \subseteq Words
    BY <2>1 DEF Words
  <2>4. \A i \in 1 .. Len(a) : a[i] \in Range(a)
    BY <2>2
  <2>5. a \in Seq(Words)
    BY <2>2, <2>3, <2>4
  <2> QED BY <2>1, <2>2, <2>4, <2>5
<1> QED BY <1>1, <1>2

\* A name a directory cannot have.
Sharp(a) == \E i \in 1 .. Len(a) : a[i] = "#"

With(a, s) == a \o <<s>>
Hash(a) == With(a, "#")

LEMMA ExtendedName ==
    ASSUME NEW a \in Seq(Words), NEW s \in Words
    PROVE  /\ With(a, s) \in Seq(Words) /\ Len(With(a, s)) = Len(a) + 1 /\ Len(a) \in Nat
           /\ With(a, s)[Len(a) + 1] = s /\ \A i \in 1 .. Len(a) : With(a, s)[i] = a[i]
           /\ With(a, s) # a /\ <<s>> # <<>>
           /\ Sharp(a) \/ s = "#" => Sharp(With(a, s))
<1>1. /\ With(a, s) \in Seq(Words) /\ Len(With(a, s)) = Len(a) + 1 /\ Len(a) \in Nat
      /\ With(a, s)[Len(a) + 1] = s /\ \A i \in 1 .. Len(a) : With(a, s)[i] = a[i]
  BY DEF With
<1>2. Sharp(a) \/ s = "#" => Sharp(With(a, s))
  <2>1. CASE s = "#"
    <3>1. Len(a) + 1 \in 1 .. Len(With(a, s))
      BY <1>1
    <3> QED BY <1>1, <2>1, <3>1 DEF Sharp
  <2>2. CASE Sharp(a)
    <3>1. PICK i \in 1 .. Len(a) : a[i] = "#"
      BY <2>2 DEF Sharp
    <3>2. i \in 1 .. Len(With(a, s)) /\ With(a, s)[i] = "#"
      BY <1>1, <3>1
    <3> QED BY <3>2 DEF Sharp
  <2> QED BY <2>1, <2>2
<1> QED BY <1>1, <1>2

LEMMA SameName ==
    ASSUME NEW a \in Seq(Words), NEW b \in Seq(Words), NEW s \in Words, NEW t \in Words,
           With(a, s) = With(b, t)
    PROVE  a = b /\ s = t
<1>1. /\ Len(a) = Len(b) /\ Len(a) \in Nat /\ Len(b) \in Nat
      /\ With(a, s)[Len(a) + 1] = s /\ With(b, t)[Len(b) + 1] = t
      /\ \A i \in 1 .. Len(a) : With(a, s)[i] = a[i]
      /\ \A i \in 1 .. Len(b) : With(b, t)[i] = b[i]
  <2>1. /\ Len(With(a, s)) = Len(a) + 1 /\ Len(a) \in Nat /\ With(a, s)[Len(a) + 1] = s
        /\ \A i \in 1 .. Len(a) : With(a, s)[i] = a[i]
    BY ExtendedName
  <2>2. /\ Len(With(b, t)) = Len(b) + 1 /\ Len(b) \in Nat /\ With(b, t)[Len(b) + 1] = t
        /\ \A i \in 1 .. Len(b) : With(b, t)[i] = b[i]
    BY ExtendedName
  <2> QED BY <2>1, <2>2
<1>2. s = t /\ \A i \in 1 .. Len(a) : a[i] = b[i]
  BY <1>1
<1>3. a = b
  BY <1>1, <1>2
<1> QED BY <1>2, <1>3

\* The repositories that have rows: registered, no more than there are rows, each by a
\* row of its label.
LEMMA LiveAre ==
    ASSUME ReadInv
    PROVE  /\ \A r \in Live :
                /\ r \in 1 .. Len(registry) /\ r \in Nat /\ r > 0
                /\ \E k \in DOMAIN shelf : shelf[k] = r /\ Row(k).label = registry[r].label
                /\ registry[r].label \in Seq(Words) /\ ~Sharp(registry[r].label)
                /\ Taken(registry[r].label) /\ r \in LiveOf(registry[r].label)
           /\ \A k \in DOMAIN shelf : shelf[k] > 0 =>
                /\ shelf[k] \in LiveOf(Row(k).label) /\ registry[shelf[k]] = Repo(k)
           /\ IsFiniteSet(Live) /\ Cardinality(Live) <= Cardinality(DOMAIN RowPool)
           /\ Cardinality(DOMAIN RowPool) \in Nat
<1>1. DOMAIN registry = 1 .. Len(registry) /\ Len(registry) \in Nat
  BY DEF ReadInv, ReadTypes
<1>2. ASSUME NEW r \in Live
      PROVE  /\ r \in 1 .. Len(registry) /\ r \in Nat /\ r > 0
             /\ \E k \in DOMAIN shelf : shelf[k] = r /\ Row(k).label = registry[r].label
             /\ registry[r].label \in Seq(Words) /\ ~Sharp(registry[r].label)
             /\ Taken(registry[r].label) /\ r \in LiveOf(registry[r].label)
  <2>1. PICK k \in DOMAIN shelf : shelf[k] = r
    BY DEF Live
  <2>2. r \in 1 .. Len(registry) /\ r \in Nat /\ r > 0
    BY <1>1 DEF Live
  <2>3. registry[r] = Repo(k)
    BY <2>1, <2>2 DEF ReadInv, Placed
  <2>4. registry[r].label = Row(k).label
    BY <2>3 DEF Repo
  <2>5. Row(k).label \in Seq(Words) /\ ~Sharp(Row(k).label)
    BY SomeWords DEF ReadInv, ReadTypes, Sharp
  <2> QED BY <2>1, <2>2, <2>4, <2>5 DEF Taken, LiveOf
<1>3. ASSUME NEW k \in DOMAIN shelf, shelf[k] > 0
      PROVE  shelf[k] \in LiveOf(Row(k).label) /\ registry[shelf[k]] = Repo(k)
  <2>1. shelf[k] \in DOMAIN registry /\ registry[shelf[k]] = Repo(k)
    BY <1>1, <1>3 DEF ReadInv, Placed
  <2>2. registry[shelf[k]].label = Row(k).label
    BY <2>1 DEF Repo
  <2> QED BY <2>1, <2>2 DEF Live, LiveOf
<1>4. IsFiniteSet(DOMAIN shelf) /\ Cardinality(DOMAIN shelf) <= Cardinality(DOMAIN RowPool)
      /\ Cardinality(DOMAIN RowPool) \in Nat /\ Cardinality(DOMAIN shelf) \in Nat
  BY StoredAssumption, FS_Subset, FS_CardinalityType DEF ReadInv, ReadTypes
<1>5. IsFiniteSet(Live) /\ Cardinality(Live) <= Cardinality(DOMAIN shelf)
  <2> DEFINE f == [r \in Live |-> CHOOSE k \in DOMAIN shelf : shelf[k] = r]
  <2>1. \A r \in Live : f[r] \in DOMAIN shelf /\ shelf[f[r]] = r
    BY DEF Live
  <2>2. f \in [Live -> DOMAIN shelf]
    BY <2>1
  <2> HIDE DEF f
  <2>3. f \in Injection(Live, DOMAIN shelf)
    BY <2>1, <2>2 DEF Injection, IsInjective
  <2> QED BY <1>4, <2>3, FS_Injection
<1>6. Cardinality(Live) \in Nat
  BY <1>5, FS_CardinalityType
<1> QED BY <1>2, <1>3, <1>4, <1>5, <1>6

\* The rank of a repository among those of its label, which orders them.
LEMMA RankIs ==
    ASSUME ReadInv
    PROVE  /\ \A r \in Live : Rank(r) \in DOMAIN Digits /\ Rank(r) \in Nat
           /\ \A q, r \in Live :
                registry[q].label = registry[r].label /\ Rank(q) = Rank(r) => q = r
<1> DEFINE upTo(r) == {q \in LiveOf(registry[r].label) : q <= r}
<1>1. DOMAIN Digits = 1 .. Cardinality(DOMAIN RowPool)
  BY StoredAssumption
<1>2. ASSUME NEW r \in Live
      PROVE  /\ upTo(r) \subseteq Live /\ IsFiniteSet(upTo(r)) /\ r \in upTo(r)
             /\ Cardinality(upTo(r)) \in DOMAIN Digits /\ Cardinality(upTo(r)) \in Nat
  <2>1. upTo(r) \subseteq Live /\ r \in upTo(r)
    BY LiveAre DEF LiveOf
  <2> HIDE DEF upTo
  <2>2. /\ IsFiniteSet(upTo(r)) /\ Cardinality(upTo(r)) <= Cardinality(Live)
        /\ Cardinality(upTo(r)) \in Nat /\ Cardinality(Live) \in Nat
    BY <2>1, LiveAre, FS_Subset, FS_CardinalityType
  <2>3. Cardinality(upTo(r)) # 0
    BY <2>1, <2>2, FS_EmptySet
  <2>4. /\ Cardinality(Live) <= Cardinality(DOMAIN RowPool)
        /\ Cardinality(DOMAIN RowPool) \in Nat
    BY LiveAre
  <2> QED BY <1>1, <2>1, <2>2, <2>3, <2>4
<1>3. ASSUME NEW q \in Live, NEW r \in Live, registry[q].label = registry[r].label, q < r
      PROVE  Cardinality(upTo(q)) # Cardinality(upTo(r))
  <2>1. upTo(q) \subseteq upTo(r) /\ r \notin upTo(q)
    <3>1. q \in Nat /\ r \in Nat /\ \A p \in LiveOf(registry[r].label) : p \in Nat
      BY LiveAre DEF LiveOf
    <3> QED BY <1>3, <3>1
  <2> HIDE DEF upTo
  <2> QED BY <1>2, <2>1, FS_Subset
<1>4. \A r \in Live : Rank(r) = Cardinality(upTo(r))
  BY DEF Rank
<1> HIDE DEF upTo
<1>5. \A q, r \in Live :
        registry[q].label = registry[r].label /\ Rank(q) = Rank(r) => q = r
  <2> SUFFICES ASSUME NEW q \in Live, NEW r \in Live, registry[q].label = registry[r].label,
                      Rank(q) = Rank(r), q # r
               PROVE  FALSE
    OBVIOUS
  <2>1. q < r \/ r < q
    BY LiveAre
  <2> QED BY <1>3, <1>4, <2>1
<1> QED BY <1>2, <1>4, <1>5


\* The three shapes of a name: the label alone, the label with a suffix, and that one
\* marked when a label reads like it.
LEMMA SuffixedName ==
    ASSUME NEW label \in Seq(Words), NEW id, NEW s \in Words, Suffix(label, id) = <<s>>
    PROVE  \/ ShownName(label, id) = With(label, s) /\ ~Taken(With(label, s))
           \/ ShownName(label, id) = With(Hash(label), s)
<1>1. <<s>> # <<>>
  BY ExtendedName
<1>2. CASE Taken(With(label, s))
  BY <1>1, <1>2 DEF ShownName, Hash, With
<1>3. CASE ~Taken(With(label, s))
  BY <1>1, <1>3 DEF ShownName, With
<1> QED BY <1>2, <1>3

LEMMA BareName ==
    ASSUME NEW label, NEW id, Suffix(label, id) = <<>>
    PROVE  ShownName(label, id) = label
BY DEF ShownName

\* What a repository that has rows goes by.
LEMMA LiveName ==
    ASSUME ReadInv, NEW r \in Live
    PROVE  LET label == registry[r].label
               name == ShownName(label, r)
               digit == Digits[Rank(r)]
           IN  /\ digit \in Words /\ digit # "?"
               /\ \/ name = label /\ Rank(r) = 1
                  \/ name = With(label, digit) /\ ~Taken(With(label, digit))
                  \/ name = With(Hash(label), digit)
<1> DEFINE label == registry[r].label
           digit == Digits[Rank(r)]
<1>1. /\ label \in Seq(Words) /\ r \in LiveOf(label) /\ r > 0 /\ r \in Nat
      /\ Rank(r) \in DOMAIN Digits /\ Rank(r) \in Nat
  BY LiveAre, RankIs
<1>2. digit \in Words /\ digit # "?" /\ Rank(r) >= 1
  BY <1>1, StoredAssumption, SomeWords
<1>3. CASE Rank(r) > 1
  <2>1. Suffix(label, r) = <<digit>>
    BY <1>1, <1>3 DEF Suffix
  <2> HIDE DEF label, digit
  <2>2. \/ ShownName(label, r) = With(label, digit) /\ ~Taken(With(label, digit))
        \/ ShownName(label, r) = With(Hash(label), digit)
    BY <1>1, <1>2, <2>1, SuffixedName
  <2> QED BY <1>2, <2>2 DEF label, digit
<1>4. CASE ~(Rank(r) > 1)
  <2>1. Suffix(label, r) = <<>>
    BY <1>1, <1>4 DEF Suffix
  <2>2. ShownName(label, r) = label /\ Rank(r) = 1
    BY <1>1, <1>2, <1>4, <2>1, BareName
  <2> QED BY <1>2, <2>2
<1> QED BY <1>3, <1>4

\* What rows that cannot be placed go by.
LEMMA LooseName ==
    ASSUME ReadInv, NEW label \in Seq(Words), NEW id \in Int, id <= 0
    PROVE  LET name == ShownName(label, id) IN
           \/ name = label /\ ~(Cardinality(LiveOf(label)) > 1)
           \/ name = With(label, "?") /\ ~Taken(With(label, "?"))
           \/ name = With(Hash(label), "?")
<1>1. id \notin LiveOf(label)
  BY LiveAre DEF LiveOf
<1>2. CASE Cardinality(LiveOf(label)) > 1
  <2>1. PICK s \in Words : s = "?"
    BY SomeWords
  <2>2. Suffix(label, id) = <<s>>
    BY <1>1, <1>2, <2>1 DEF Suffix
  <2>3. \/ ShownName(label, id) = With(label, s) /\ ~Taken(With(label, s))
        \/ ShownName(label, id) = With(Hash(label), s)
    BY <2>2, SuffixedName
  <2> QED BY <2>1, <2>3
<1>3. CASE ~(Cardinality(LiveOf(label)) > 1)
  <2>1. Suffix(label, id) = <<>>
    BY <1>1, <1>3 DEF Suffix
  <2> QED BY <1>3, <2>1, BareName
<1> QED BY <1>2, <1>3

\* Names that are one are one shape of one label with one suffix.
LEMMA MarkedName ==
    ASSUME NEW a \in Seq(Words)
    PROVE  Hash(a) \in Seq(Words) /\ Sharp(Hash(a))
<1>1. PICK h \in Words : h = "#"
  BY SomeWords
<1> QED BY <1>1, ExtendedName DEF Hash

LEMMA ShortOrMarked ==
    ASSUME NEW a \in Seq(Words), NEW b \in Seq(Words), ~Sharp(a), NEW t \in Words
    PROVE  a # With(Hash(b), t)
BY MarkedName, ExtendedName

LEMMA SuffixOrMarked ==
    ASSUME NEW a \in Seq(Words), NEW b \in Seq(Words), ~Sharp(a), NEW s \in Words, NEW t \in Words
    PROVE  With(a, s) # With(Hash(b), t)
<1> SUFFICES ASSUME With(a, s) = With(Hash(b), t) PROVE FALSE
  OBVIOUS
<1>1. a = Hash(b)
  BY MarkedName, SameName
<1> QED BY <1>1, MarkedName

LEMMA BothMarked ==
    ASSUME NEW a \in Seq(Words), NEW b \in Seq(Words), NEW s \in Words, NEW t \in Words,
           With(Hash(a), s) = With(Hash(b), t)
    PROVE  a = b /\ s = t
<1>1. Hash(a) = Hash(b) /\ s = t
  <2>1. PICK c \in Seq(Words), d \in Seq(Words) : c = Hash(a) /\ d = Hash(b)
    BY MarkedName
  <2>2. With(c, s) = With(d, t)
    BY <2>1
  <2>3. c = d /\ s = t
    BY <2>2, SameName
  <2> QED BY <2>1, <2>3
<1>2. PICK h \in Words : h = "#"
  BY SomeWords
<1>3. With(a, h) = With(b, h)
  BY <1>1, <1>2 DEF Hash
<1> QED BY <1>1, <1>3, SameName

LEMMA ReposApart ==
    ASSUME ReadInv, NEW q \in Live, NEW r \in Live,
           ShownName(registry[q].label, q) = ShownName(registry[r].label, r)
    PROVE  q = r
<1> DEFINE a == registry[q].label
           b == registry[r].label
           s == Digits[Rank(q)]
           t == Digits[Rank(r)]
           m == ShownName(a, q)
           n == ShownName(b, r)
<1>1. /\ a \in Seq(Words) /\ ~Sharp(a) /\ Taken(a) /\ s \in Words
      /\ \/ m = a /\ Rank(q) = 1
         \/ m = With(a, s) /\ ~Taken(With(a, s))
         \/ m = With(Hash(a), s)
  BY LiveAre, LiveName
<1>2. /\ b \in Seq(Words) /\ ~Sharp(b) /\ Taken(b) /\ t \in Words
      /\ \/ n = b /\ Rank(r) = 1
         \/ n = With(b, t) /\ ~Taken(With(b, t))
         \/ n = With(Hash(b), t)
  BY LiveAre, LiveName
<1>3. a = b /\ Rank(q) = Rank(r) => q = r
  BY RankIs
<1>4. s = t => Rank(q) = Rank(r)
  BY RankIs, StoredAssumption
<1>5. m = n
  OBVIOUS
<1> HIDE DEF a, b, s, t, m, n
<1>6. /\ a # With(Hash(b), t) /\ b # With(Hash(a), s)
      /\ With(a, s) # With(Hash(b), t) /\ With(b, t) # With(Hash(a), s)
  BY <1>1, <1>2, ShortOrMarked, SuffixOrMarked
<1>7. With(a, s) = With(b, t) \/ With(Hash(a), s) = With(Hash(b), t) => a = b /\ s = t
  <2>1. ASSUME With(a, s) = With(b, t) PROVE a = b /\ s = t
    BY <1>1, <1>2, <2>1, SameName
  <2>2. ASSUME With(Hash(a), s) = With(Hash(b), t) PROVE a = b /\ s = t
    <3>1. /\ a \in Seq(Words) /\ b \in Seq(Words) /\ s \in Words /\ t \in Words
          /\ With(Hash(a), s) = With(Hash(b), t)
      BY <1>1, <1>2, <2>2
    <3> QED BY <3>1, BothMarked
  <2> QED BY <2>1, <2>2
<1>8. CASE m = a /\ Rank(q) = 1
  BY <1>1, <1>2, <1>3, <1>5, <1>6, <1>8
<1>9. CASE m = With(a, s) /\ ~Taken(With(a, s))
  BY <1>1, <1>2, <1>3, <1>4, <1>5, <1>6, <1>9, <1>7
<1>10. CASE m = With(Hash(a), s)
  BY <1>1, <1>2, <1>3, <1>4, <1>5, <1>6, <1>10, <1>7
<1> QED BY <1>1, <1>8, <1>9, <1>10

LEMMA NamesStayApart == ReadInv => NamesApart
<1> SUFFICES ASSUME ReadInv PROVE NamesApart
  OBVIOUS
<1>1. ASSUME NEW r \in Live, NEW k \in DOMAIN shelf, shelf[k] # r,
             ShownRow(k) = ShownName(registry[r].label, r)
      PROVE  Row(k).label = registry[r].label /\ LiveOf(Row(k).label) = {r}
  <2> DEFINE a == Row(k).label
             b == registry[r].label
             t == Digits[Rank(r)]
             n == ShownName(b, r)
  <2>1. shelf[k] \in Int /\ a \in Seq(Words) /\ ~Sharp(a) /\ Taken(a)
    BY SomeWords DEF ReadInv, ReadTypes, Sharp, Taken
  <2>2. CASE shelf[k] > 0
    <3>1. shelf[k] \in Live /\ registry[shelf[k]].label = a
      BY <2>2, LiveAre DEF LiveOf, Repo
    <3> QED BY <1>1, <3>1, ReposApart DEF ShownRow
  <2>3. CASE shelf[k] <= 0
    <3>1. \/ n = a /\ ~(Cardinality(LiveOf(a)) > 1)
          \/ n = With(a, "?") /\ ~Taken(With(a, "?"))
          \/ n = With(Hash(a), "?")
      BY <1>1, <2>1, <2>3, LooseName DEF ShownRow
    <3>2. /\ b \in Seq(Words) /\ ~Sharp(b) /\ Taken(b) /\ r \in LiveOf(b)
          /\ t \in Words /\ t # "?"
          /\ \/ n = b
             \/ n = With(b, t) /\ ~Taken(With(b, t))
             \/ n = With(Hash(b), t)
      BY LiveAre, LiveName
    <3> HIDE DEF a, b, t, n
    <3>3. /\ a # With(Hash(b), t) /\ b # With(Hash(a), "?")
          /\ With(a, "?") # With(Hash(b), t) /\ With(b, t) # With(Hash(a), "?")
          /\ With(a, "?") # With(b, t) /\ With(Hash(a), "?") # With(Hash(b), t)
      <4>1. PICK s \in Words : s = "?"
        BY SomeWords
      <4>2. /\ a # With(Hash(b), t) /\ b # With(Hash(a), s)
            /\ With(a, s) # With(Hash(b), t) /\ With(b, t) # With(Hash(a), s)
        BY <2>1, <3>2, ShortOrMarked, SuffixOrMarked
      <4>3. With(a, s) = With(b, t) \/ With(Hash(a), s) = With(Hash(b), t) => s = t
        BY <2>1, <3>2, SameName, BothMarked
      <4> QED BY <3>2, <4>1, <4>2, <4>3
    <3>4. a = b /\ ~(Cardinality(LiveOf(a)) > 1)
      BY <2>1, <3>1, <3>2, <3>3
    <3>5. LiveOf(a) = {r}
      <4>1. LiveOf(a) \in SUBSET Live /\ IsFiniteSet(Live)
        BY LiveAre DEF LiveOf
      <4>2. IsFiniteSet(LiveOf(a)) /\ Cardinality(LiveOf(a)) \in Nat
        BY <4>1, FS_Subset, FS_CardinalityType
      <4>3. /\ {r} \in SUBSET LiveOf(a) /\ Cardinality({r}) = 1
            /\ IsFiniteSet({r})
        BY <3>2, <3>4, FS_Singleton
      <4>4. /\ Cardinality({r}) <= Cardinality(LiveOf(a))
            /\ (Cardinality(LiveOf(a)) = Cardinality({r}) => LiveOf(a) = {r})
        BY <4>2, <4>3, FS_Subset
      <4> QED BY <3>4, <4>2, <4>3, <4>4
    <3> QED BY <3>4, <3>5 DEF a, b
  <2> QED BY <2>1, <2>2, <2>3
<1> QED BY <1>1, ReposApart DEF NamesApart

\* A name follows from the rank and from whether a label reads like it.
LEMMA NamesEstablished ==
    ASSUME ReadInv, [ReadNext]_readVars, NEW r \in Live \cap Live', registry' # <<>>,
           \A q \in 1 .. r - 1 :
             registry[q].label = registry[r].label => (q \in Live) = (q \in Live)',
           LET name == registry[r].label \o Suffix(registry[r].label, r)
           IN  Taken(name) = Taken(name)'
    PROVE  ShownName(registry[r].label, r)' = ShownName(registry[r].label, r)
<1> DEFINE label == registry[r].label
<1>1. ReadInv'
  BY ReadStep
<1>2. /\ Len(registry) <= Len(registry') /\ Len(registry) \in Nat /\ Len(registry') \in Nat
      /\ \A i \in 1 .. Len(registry) : registry'[i] = registry[i]
  <2>1. Len(registry) \in Nat /\ Len(registry') \in Nat
    BY <1>1 DEF ReadInv, ReadTypes
  <2>2. CASE \E k \in DOMAIN RowPool : InsertRow(k)
    BY <2>1, <2>2, InsertRowStep
  <2>3. CASE ~\E k \in DOMAIN RowPool : InsertRow(k)
    <3>1. registry' = registry
      BY <2>3 DEF ReadNext, readVars, Dispute, RemoveRow, ForgetAll
    <3> QED BY <2>1, <3>1
  <2> QED BY <2>2, <2>3
<1>3. /\ r \in 1 .. Len(registry) /\ r \in 1 .. Len(registry') /\ r \in Nat
      /\ registry'[r].label = label /\ r \in LiveOf(label) /\ r \in LiveOf(label)'
  BY <1>1, <1>2, LiveAre DEF LiveOf
<1>4. {q \in LiveOf(label) : q <= r} = {q \in LiveOf(label)' : q <= r}
  <2> DEFINE now(q) == q \in Live /\ registry[q].label = label
             then(q) == q \in Live' /\ registry'[q].label = label
  <2>1. \A q : q \in LiveOf(label) <=> now(q)
    BY DEF LiveOf
  <2>2. \A q : q \in LiveOf(label)' <=> then(q)
    BY <1>3 DEF LiveOf
  <2>3. ASSUME NEW q \in 1 .. Len(registry), q <= r PROVE now(q) <=> then(q)
    <3>1. q = r \/ q \in 1 .. r - 1
      BY <1>2, <1>3, <2>3
    <3>2. registry'[q].label = registry[q].label
      BY <1>2, <2>3
    <3>3. registry[q].label = label => (q \in Live <=> q \in Live')
      BY <3>1
    <3> QED BY <3>2, <3>3
  <2>4. \A q : now(q) => q \in 1 .. Len(registry)
    BY LiveAre
  <2>5. \A q : then(q) /\ q <= r => q \in 1 .. Len(registry)
    <3>1. \A q \in Live' : q \in Nat /\ q > 0
      BY <1>1 DEF Live, ReadInv, ReadTypes
    <3> QED BY <1>2, <1>3, <3>1
  <2> HIDE DEF now, then
  <2> QED BY <2>1, <2>2, <2>3, <2>4, <2>5
<1>5. Rank(r)' = Rank(r)
  <2>1. Rank(r) = Cardinality({q \in LiveOf(label) : q <= r})
    BY DEF Rank
  <2>2. Rank(r)' = Cardinality({q \in LiveOf(label)' : q <= r})
    BY <1>3 DEF Rank
  <2> QED BY <1>4, <2>1, <2>2
<1>6. Suffix(label, r) = IF Rank(r) > 1 THEN <<Digits[Rank(r)]>> ELSE <<>>
  BY <1>3 DEF Suffix
<1>7. Suffix(registry[r].label, r)' = Suffix(label, r)
  <2>1. Suffix(registry[r].label, r)' = IF Rank(r)' > 1 THEN <<Digits[Rank(r)']>> ELSE <<>>
    BY <1>3 DEF Suffix
  <2> QED BY <1>5, <1>6, <2>1
<1> QED BY <1>3, <1>7 DEF ShownName

LEMMA EstablishedStep == ReadInv /\ [ReadNext]_readVars =>
    \A r \in Live \cap Live' : registry' # <<>> =>
        LET label == registry[r].label IN
        \/ ShownName(label, r)' = ShownName(label, r)
        \/ \E q \in 1 .. r - 1 : registry[q].label = label /\ (q \in Live) # (q \in Live)'
        \/ Taken(label \o Suffix(label, r)) # Taken(label \o Suffix(label, r))'
BY NamesEstablished

\* Whatever rows come, go or turn ambiguous, in whichever order: no two repositories
\* are shown under one name, none shares it with rows that are not its own, and an
\* established name does not rename.
THEOREM NamesHold == ReadSpec => []NamesApart /\ EstablishedName
<1>1. ReadInv /\ [ReadNext]_readVars => ReadInv'
  BY ReadStep
<1> QED BY ReadInitHolds, <1>1, NamesStayApart, EstablishedStep, PTL DEF ReadSpec, EstablishedName

(* Sums *)

\* A window's tokens, row by row.
TokensOver(rows) == [k \in rows |-> Row(k).tokens]

LEMMA SpentIs ==
    ASSUME NEW rows \in SUBSET DOMAIN RowPool
    PROVE  /\ Summable(TokensOver(rows)) /\ DOMAIN TokensOver(rows) = rows
           /\ Spent(rows) = TotalOf(TokensOver(rows)) /\ Spent(rows) \in Nat
           /\ \A part \in SUBSET rows : Part(TokensOver(rows), part) = TokensOver(part)
<1>1. IsFiniteSet(rows)
  BY StoredAssumption, FS_Subset
<1>2. Summable(TokensOver(rows)) /\ DOMAIN TokensOver(rows) = rows
  BY <1>1, StoredAssumption DEF Summable, TokensOver
<1>3. Spent(rows) = TotalOf(TokensOver(rows))
  BY DEF Spent, TokensOver
<1>4. \A part \in SUBSET rows : Part(TokensOver(rows), part) = TokensOver(part)
  BY DEF Part, TokensOver
<1> QED BY <1>2, <1>3, <1>4, UnitsAre

\* A window's tokens are those of its groups, whatever it is grouped by.
LEMMA SpentGroups ==
    ASSUME NEW rows \in SUBSET DOMAIN RowPool, NEW c, DOMAIN c = rows, NEW f,
           DOMAIN f = {c[k] : k \in rows},
           \A g \in DOMAIN f : f[g] = Spent({k \in rows : c[k] = g})
    PROVE  TotalOf(f) = Spent(rows)
<1> DEFINE t == TokensOver(rows)
<1>1. Summable(t) /\ DOMAIN t = rows /\ Spent(rows) = TotalOf(t)
  BY SpentIs
<1>2. ASSUME NEW g \in DOMAIN f PROVE f[g] = TotalOf(Part(t, {k \in rows : c[k] = g}))
  <2>1. PICK part : part = {k \in rows : c[k] = g}
    OBVIOUS
  <2>2. part \in SUBSET rows /\ part \in SUBSET DOMAIN RowPool
    BY <2>1
  <2>3. Spent(part) = TotalOf(TokensOver(part)) /\ Part(t, part) = TokensOver(part)
    BY <2>2, SpentIs
  <2> QED BY <2>1, <2>3
<1> HIDE DEF t
<1>3. TotalOf(f) = TotalOf(t)
  BY <1>1, <1>2, GroupsTotal
<1> QED BY <1>1, <1>3

(* What each read accounts for *)

LEMMA WindowIs ==
    ASSUME ReadInv, NEW since, NEW marked
    PROVE  Window(since, marked) \in SUBSET DOMAIN RowPool
BY DEF Window, ReadInv, ReadTypes

LEMMA PartSpent ==
    ASSUME NEW rows \in SUBSET DOMAIN RowPool, NEW part \in SUBSET rows
    PROVE  Spent(part) <= Spent(rows)
<1>1. part \in SUBSET DOMAIN RowPool
  OBVIOUS
<1>2. /\ Summable(TokensOver(rows)) /\ DOMAIN TokensOver(rows) = rows
      /\ Spent(rows) = TotalOf(TokensOver(rows)) /\ Spent(part) = TotalOf(TokensOver(part))
      /\ Part(TokensOver(rows), part) = TokensOver(part)
  BY <1>1, SpentIs
<1>3. TotalOf(Part(TokensOver(rows), part)) <= TotalOf(TokensOver(rows))
  BY <1>2, PartTotal
<1> QED BY <1>2, <1>3

\* Rows without tokens count for nothing.
LEMMA EmptyRows ==
    ASSUME NEW rows \in SUBSET DOMAIN RowPool
    PROVE  Spent({k \in rows : Row(k).tokens > 0}) = Spent(rows)
<1> DEFINE some == {k \in rows : Row(k).tokens > 0}
<1>1. some \in SUBSET rows /\ some \in SUBSET DOMAIN RowPool
  OBVIOUS
<1>2. \A k \in rows \ some : TokensOver(rows)[k] = 0
  BY StoredAssumption DEF TokensOver
<1> HIDE DEF some
<1>3. /\ Summable(TokensOver(rows)) /\ DOMAIN TokensOver(rows) = rows
      /\ Spent(rows) = TotalOf(TokensOver(rows)) /\ Spent(some) = TotalOf(TokensOver(some))
      /\ Part(TokensOver(rows), some) = TokensOver(some)
  BY <1>1, SpentIs
<1>4. TotalOf(Part(TokensOver(rows), some)) = TotalOf(TokensOver(rows))
  BY <1>1, <1>2, <1>3, SupportTotal
<1>5. Spent(some) = Spent(rows)
  BY <1>3, <1>4
<1> QED BY <1>5 DEF some

LEMMA UsageSums ==
    ASSUME ReadInv, NEW since, NEW marked
    PROVE  UsageAgrees(since, marked)
<1> DEFINE rows == Window(since, marked)
           c == [k \in rows |-> GroupOf(k)]
           f == UsageRead(since, marked)
<1>1. rows \in SUBSET DOMAIN RowPool
  BY WindowIs
<1>2. TotalOf(f) = Spent(rows)
  <2>1. DOMAIN c = rows /\ \A k \in rows : c[k] = GroupOf(k)
    OBVIOUS
  <2>2. f = [g \in {GroupOf(k) : k \in rows} |-> Spent({k \in rows : GroupOf(k) = g})]
    BY DEF UsageRead
  <2> HIDE DEF rows, c, f
  <2>3. DOMAIN f = {c[k] : k \in rows}
    BY <2>1, <2>2
  <2>4. ASSUME NEW g \in DOMAIN f PROVE f[g] = Spent({k \in rows : c[k] = g})
    <3>1. {k \in rows : c[k] = g} = {k \in rows : GroupOf(k) = g}
      BY <2>1
    <3> QED BY <2>2, <3>1
  <2> QED BY <1>1, <2>1, <2>3, <2>4, SpentGroups
<1>3. UNION {Subpaths(n, since) : n \in {ShownRow(k) : k \in Window(since, FALSE)}} = Window(since, FALSE)
  <2>1. \A n : Subpaths(n, since) = {k \in Window(since, FALSE) : ShownRow(k) = n}
    BY DEF Subpaths
  <2>2. \A n : Subpaths(n, since) \subseteq Window(since, FALSE)
    BY <2>1
  <2>3. \A k \in Window(since, FALSE) : k \in Subpaths(ShownRow(k), since)
    BY <2>1
  <2> QED BY <2>2, <2>3
<1>4. TurnSizing(since, marked).turns = {k \in Turns(rows) : Row(k).tokens > 0}
      /\ TurnSizing(since, marked).small \subseteq TurnSizing(since, marked).turns
  BY DEF TurnSizing
<1>5. Spent(TurnSizing(since, marked).turns) = Spent(Turns(rows))
  <2>1. Turns(rows) \in SUBSET DOMAIN RowPool
    BY <1>1 DEF Turns
  <2> QED BY <1>4, <2>1, EmptyRows
<1> QED BY <1>2, <1>3, <1>4, <1>5 DEF UsageAgrees

LEMMA StatedSums ==
    ASSUME NEW rows \in SUBSET DOMAIN RowPool, NEW column, NEW read, read = ByStated(rows, column)
    PROVE  TotalOf([v \in DOMAIN read |-> Spent(read[v])]) = Spent(UNION Range(read))
<1> DEFINE some == {k \in rows : Row(k)[column] # ""}
           c == [k \in some |-> Row(k)[column]]
           f == [v \in DOMAIN read |-> Spent(read[v])]
<1>1. /\ DOMAIN read = {Row(k)[column] : k \in rows} \ {""}
      /\ \A v \in DOMAIN read : read[v] = {k \in rows : Row(k)[column] = v}
  BY DEF ByStated
<1>2. some \in SUBSET DOMAIN RowPool
  OBVIOUS
<1>3. UNION Range(read) = some
  <2>1. ASSUME NEW k \in UNION Range(read) PROVE k \in some
    <3>1. PICK v \in DOMAIN read : k \in read[v]
      BY DEF Range
    <3>2. v # "" /\ k \in {j \in rows : Row(j)[column] = v}
      BY <1>1, <3>1
    <3> QED BY <3>2
  <2>2. ASSUME NEW k \in some PROVE k \in UNION Range(read)
    <3>1. Row(k)[column] \in DOMAIN read /\ k \in read[Row(k)[column]]
      BY <1>1
    <3> QED BY <3>1 DEF Range
  <2> QED BY <2>1, <2>2
<1>4. DOMAIN c = some /\ DOMAIN f = {c[k] : k \in some}
  BY <1>1
<1>5. ASSUME NEW g \in DOMAIN f PROVE f[g] = Spent({k \in some : c[k] = g})
  <2>1. read[g] = {k \in some : c[k] = g}
    BY <1>1
  <2> QED BY <2>1
<1> HIDE DEF some, c, f
<1>6. TotalOf(f) = Spent(some)
  BY <1>2, <1>4, <1>5, SpentGroups
<1> QED BY <1>3, <1>6 DEF f

LEMMA StatedAgreeing ==
    ASSUME ReadInv, NEW since, NEW marked
    PROVE  StatedAgree(since, marked)
<1> DEFINE rows == Window(since, marked)
<1>1. rows \in SUBSET DOMAIN RowPool
  BY WindowIs
<1>2. ASSUME NEW read \in Range(Attribution(since, marked)) \cup {CacheMisses(since, marked)}
      PROVE  \E column : read = ByStated(rows, column)
  BY <1>2 DEF Attribution, CacheMisses, Range
<1> HIDE DEF rows
<1>3. ASSUME NEW read \in Range(Attribution(since, marked)) \cup {CacheMisses(since, marked)}
      PROVE  TotalOf([v \in DOMAIN read |-> Spent(read[v])]) = Spent(UNION Range(read))
  <2>1. PICK column : read = ByStated(rows, column)
    BY <1>2
  <2> QED BY <1>1, <2>1, StatedSums
<1> QED BY <1>3 DEF StatedAgree

LEMMA DelegationSums ==
    ASSUME ReadInv, NEW since, NEW marked
    PROVE  DelegationAgrees(since, marked)
<1> DEFINE rows == Window(since, marked)
           part == {k \in rows : SubAgentRow(k, since)}
<1>1. rows \in SUBSET DOMAIN RowPool /\ part \in SUBSET rows
  BY WindowIs
<1>2. Delegation(since, marked).subAgent = Spent(part) /\ Delegation(since, marked).total = Spent(rows)
  BY DEF Delegation
<1>3. ASSUME NEW j \in rows, NEW k \in rows,
             SubAgentRow(j, since), Row(j).aggregate, ~Row(j).sidechain, Row(k).sidechain
      PROVE  FALSE
  <2>1. k \in Window(since, FALSE)
    BY DEF Window
  <2>2. \E i \in Window(since, FALSE) : Row(i).sidechain
    BY <1>3, <2>1
  <2> QED BY <1>3, <2>2 DEF SubAgentRow
<1> HIDE DEF part
<1>4. Spent(part) <= Spent(rows)
  BY <1>1, PartSpent
<1> QED BY <1>2, <1>3, <1>4 DEF DelegationAgrees

(* Extremes *)

\* The times of rows.
LEMMA TimesAre ==
    ASSUME NEW rows \in SUBSET DOMAIN RowPool
    PROVE  {Row(k).ts : k \in rows} \in SUBSET Nat /\ IsFiniteSet({Row(k).ts : k \in rows})
<1> DEFINE f == [k \in rows |-> Row(k).ts]
<1>1. IsFiniteSet(rows) /\ DOMAIN f = rows
  BY StoredAssumption, FS_Subset
<1>2. {Row(k).ts : k \in rows} = {f[k] : k \in rows}
  OBVIOUS
<1>3. {Row(k).ts : k \in rows} \in SUBSET Nat
  BY StoredAssumption
<1> HIDE DEF f
<1>4. IsFiniteSet({f[k] : k \in rows})
  BY <1>1, ValuesFinite
<1> QED BY <1>2, <1>3, <1>4

\* Focused work is some of the time between the first and the last row.
LEMMA ActiveWithin ==
    ASSUME NEW rows \in SUBSET DOMAIN RowPool, rows # {}
    PROVE  ActiveTime(rows) <= Max({Row(k).ts : k \in rows}) - Min({Row(k).ts : k \in rows})
<1> DEFINE all == {Row(k).ts : k \in rows}
           times == {Row(k).ts : k \in Turns(rows)}
           first == Min(all)
           last == Max(all)
<1>1. all \in SUBSET Nat /\ IsFiniteSet(all) /\ all # {} /\ times \in SUBSET all
  BY TimesAre DEF Turns
<1> HIDE DEF all
<1>2. /\ first \in Nat /\ last \in Nat /\ first <= last
      /\ \A t \in times : t \in Nat /\ first <= t /\ t <= last
  <2>1. first \in all /\ \A t \in all : first <= t
    BY <1>1, MinIs
  <2>2. last \in all /\ \A t \in all : last >= t
    BY <1>1, MaxIs
  <2> QED BY <1>1, <2>1, <2>2
<1> HIDE DEF times, first, last
<1> DEFINE gaps == {p \in times \X times : /\ p[2] - p[1] \in 1 .. ActiveGap
                                            /\ \A t \in times : t <= p[1] \/ t >= p[2]}
           W == UNION {p[1] + 1 .. p[2] : p \in gaps}
<1>3. ActiveTime(rows) = Cardinality(W)
  BY DEF ActiveTime, times
<1>4. W \in SUBSET (first + 1 .. last)
  BY <1>2
<1> HIDE DEF W
<1>5. IsFiniteSet(first + 1 .. last) /\ Cardinality(first + 1 .. last) = last - first
  <2>1. PICK a \in Int : a = first + 1
    BY <1>2
  <2>2. IsFiniteSet(a .. last) /\ Cardinality(a .. last) = IF a > last THEN 0 ELSE last - a + 1
    BY <1>2, FS_Interval
  <2>3. (IF a > last THEN 0 ELSE last - a + 1) = last - first
    BY <1>2, <2>1
  <2> QED BY <2>1, <2>2, <2>3
<1>6. Cardinality(W) <= last - first
  BY <1>4, <1>5, FS_Subset
<1> QED BY <1>3, <1>6 DEF first, last, all

\* A session is counted once, over its own rows.
LEMMA SessionSums ==
    ASSUME ReadInv, NEW since, NEW marked
    PROVE  SessionsAgree(since, marked)
<1> DEFINE rows == Window(since, marked)
           mine(w) == {k \in rows : Who(k) = w}
           sessions == SessionsRead(since, marked)
           c == [k \in rows |-> Who(k)]
           f == [w \in DOMAIN sessions |-> sessions[w].tokens]
<1>1. rows \in SUBSET DOMAIN RowPool
  BY WindowIs
<1>2. /\ DOMAIN sessions = {Who(k) : k \in rows}
      /\ \A w \in DOMAIN sessions :
           /\ sessions[w].tokens = Spent(mine(w)) /\ sessions[w].repo = SessionRepo(mine(w))
           /\ sessions[w].active = ActiveTime(mine(w))
           /\ sessions[w].first = Min({Row(k).ts : k \in mine(w)})
           /\ sessions[w].last = Max({Row(k).ts : k \in mine(w)})
  BY DEF SessionsRead
<1> HIDE DEF sessions, rows
<1>3. TotalOf(f) = Spent(rows)
  <2>1. DOMAIN c = rows /\ DOMAIN f = {c[k] : k \in rows}
    BY <1>2
  <2>2. ASSUME NEW g \in DOMAIN f PROVE f[g] = Spent({k \in rows : c[k] = g})
    <3>1. {k \in rows : c[k] = g} = mine(g)
      OBVIOUS
    <3> QED BY <1>2, <3>1
  <2> HIDE DEF c, f
  <2> QED BY <1>1, <2>1, <2>2, SpentGroups
<1>4. ASSUME NEW w \in DOMAIN sessions
      PROVE  sessions[w].active <= sessions[w].last - sessions[w].first
  <2>1. mine(w) \in SUBSET DOMAIN RowPool /\ mine(w) # {}
    BY <1>1, <1>2
  <2> HIDE DEF mine
  <2>2. ActiveTime(mine(w)) <= Max({Row(k).ts : k \in mine(w)}) - Min({Row(k).ts : k \in mine(w)})
    BY <2>1, ActiveWithin
  <2> QED BY <1>2, <2>2
<1>5. ASSUME NEW w \in DOMAIN sessions, NEW k \in rows,
             Who(k) = w, sessions[w].repo > 0, shelf[k] > 0
      PROVE  shelf[k] = sessions[w].repo
  <2>1. k \in mine(w) /\ sessions[w].repo = SessionRepo(mine(w))
    BY <1>2, <1>5
  <2> HIDE DEF mine
  <2>2. shelf[k] \in Resolved(mine(w))
    BY <1>5, <2>1 DEF Resolved
  <2>3. Cardinality(Resolved(mine(w))) = 1
    BY <1>5, <2>1 DEF SessionRepo
  <2>4. SessionRepo(mine(w)) = CHOOSE r \in Resolved(mine(w)) : TRUE
    BY <2>3 DEF SessionRepo
  <2>5. IsFiniteSet(Resolved(mine(w)))
    <3>1. Resolved(mine(w)) \in SUBSET Live
      <4>1. mine(w) \subseteq DOMAIN shelf
        BY DEF mine, rows, Window
      <4> QED BY <4>1, LiveAre DEF Resolved, LiveOf
    <3> QED BY <3>1, LiveAre, FS_Subset
  <2>6. PICK r : Resolved(mine(w)) = {r}
    BY <2>3, <2>5, FS_Singleton
  <2> QED BY <2>1, <2>2, <2>4, <2>6
<1> QED BY <1>3, <1>4, <1>5 DEF SessionsAgree, sessions, rows

\* Local sessions are counted under one name each.
LEMMA RepositorySums == ASSUME ReadInv PROVE TotalOf(Repositories) = Cardinality(LocalSessions)
<1> DEFINE name == [w \in LocalSessions |-> SessionName(RowsOf(w))]
           f == Repositories
           B == [n \in DOMAIN f |-> {w \in LocalSessions : name[w] = n}]
<1>1. IsFiniteSet(LocalSessions)
  <2> DEFINE local == {j \in DOMAIN shelf : Row(j).member = ""}
             c == [k \in local |-> Who(k)]
  <2>1. local \in SUBSET DOMAIN RowPool
    BY DEF ReadInv, ReadTypes
  <2>2. DOMAIN c = local /\ LocalSessions = {c[k] : k \in local}
    BY DEF LocalSessions
  <2> HIDE DEF local, c
  <2>3. IsFiniteSet(local)
    BY <2>1, StoredAssumption, FS_Subset
  <2>4. IsFiniteSet({c[k] : k \in local})
    BY <2>2, <2>3, ValuesFinite
  <2> QED BY <2>2, <2>4
<1>2. DOMAIN name = LocalSessions /\ \A w \in LocalSessions : name[w] = SessionName(RowsOf(w))
  OBVIOUS
<1> HIDE DEF name
<1>3. DOMAIN f = {name[w] : w \in LocalSessions}
  BY <1>2 DEF Repositories
<1>4. \A n \in DOMAIN f : f[n] = Cardinality({w \in LocalSessions : name[w] = n})
  <2> SUFFICES ASSUME NEW n \in DOMAIN f
               PROVE  f[n] = Cardinality({w \in LocalSessions : name[w] = n})
    OBVIOUS
  <2>1. f[n] = Cardinality({w \in LocalSessions : SessionName(RowsOf(w)) = n})
    BY DEF Repositories
  <2>2. {w \in LocalSessions : SessionName(RowsOf(w)) = n} = {w \in LocalSessions : name[w] = n}
    BY <1>2
  <2> QED BY <2>1, <2>2
<1> HIDE DEF f
<1>5. /\ IsFiniteSet(DOMAIN f) /\ DOMAIN B = DOMAIN f
      /\ \A n \in DOMAIN f : IsFiniteSet(B[n]) /\ f[n] = Cardinality(B[n])
      /\ \A m, n \in DOMAIN f : m # n => B[m] \cap B[n] = {}
      /\ LocalSessions = UNION {B[n] : n \in DOMAIN f}
  <2>1. IsFiniteSet(DOMAIN f)
    BY <1>1, <1>2, <1>3, ValuesFinite
  <2>2. \A n \in DOMAIN f : B[n] \in SUBSET LocalSessions
    OBVIOUS
  <2>3. \A n \in DOMAIN f : f[n] = Cardinality(B[n])
    BY <1>4
  <2>4. \A m, n \in DOMAIN f : m # n => B[m] \cap B[n] = {}
    OBVIOUS
  <2>5. \A w \in LocalSessions : name[w] \in DOMAIN f /\ w \in B[name[w]]
    BY <1>3
  <2>6. DOMAIN B = DOMAIN f
    OBVIOUS
  <2> HIDE DEF B
  <2>7. \A n \in DOMAIN f : IsFiniteSet(B[n])
    BY <1>1, <2>2, FS_Subset
  <2>8. LocalSessions = UNION {B[n] : n \in DOMAIN f}
    BY <2>2, <2>5
  <2> QED BY <2>1, <2>3, <2>4, <2>6, <2>7, <2>8
<1> HIDE DEF B
<1>6. PICK G, V : G = DOMAIN f /\ V = UNION {B[n] : n \in G}
  OBVIOUS
<1>7. V = LocalSessions
  BY <1>5, <1>6
<1>8. /\ IsFiniteSet(G) /\ DOMAIN f = G /\ DOMAIN B = G
      /\ \A n \in G : IsFiniteSet(B[n]) /\ f[n] = Cardinality(B[n])
      /\ \A m, n \in G : m # n => B[m] \cap B[n] = {}
  BY <1>5, <1>6
<1>9. TotalOf(f) = Cardinality(V)
  BY <1>6, <1>8, PartsTotal
<1> QED BY <1>7, <1>9 DEF f

\* The repository at a directory is the one its rows are placed in.
LEMMA RepositoryFound ==
    ASSUME ReadInv, NEW r \in Live
    PROVE  LET at == RepositoryAt(registry[r].label, registry[r].key)
           IN  /\ at.id = r /\ at.others = Cardinality(LiveOf(registry[r].label)) - 1
               /\ \A k \in DOMAIN shelf : shelf[k] = r => ShownRow(k) = at.name
               /\ LatestSessionIn(r) # {}
               /\ registry[r].label \in Split <=> at.others > 0
<1> DEFINE label == registry[r].label
           key == registry[r].key
           keyed == {q \in Live : registry[q].key = key}
           same == {q \in keyed : registry[q].label = label}
           at == RepositoryAt(label, key)
<1>1. /\ r \in 1 .. Len(registry) /\ r > 0 /\ r \in Nat /\ key # "" /\ r \in LiveOf(label)
      /\ \E k \in DOMAIN shelf : shelf[k] = r /\ Row(k).label = label
  BY LiveAre DEF ReadInv, RegisteredOnce
<1>2. same = {r} /\ keyed # {}
  <2>1. r \in same
    OBVIOUS
  <2>2. ASSUME NEW q \in same PROVE q = r
    <3>1. q \in 1 .. Len(registry) /\ registry[q].label = label /\ registry[q].key = key
      BY LiveAre
    <3>2. registry[q] \in Repos /\ registry[r] \in Repos
      <4>1. registry \in Seq(Repos)
        BY DEF ReadInv, ReadTypes
      <4>2. \A i \in 1 .. Len(registry) : registry[i] \in Repos
        BY <4>1
      <4> QED BY <1>1, <3>1, <4>2
    <3>3. registry[q] = registry[r]
      BY <3>1, <3>2 DEF Repos, Repo
    <3> QED BY <1>1, <3>1, <3>3 DEF ReadInv, RegisteredOnce
  <2> QED BY <2>1, <2>2
<1>3. Earliest({r}) = r
  <2>1. Ordinal(r) \in Nat
    <3>1. IsFiniteSet(1 .. r)
      BY <1>1, FirstFinite
    <3>2. {q \in 1 .. r : registry[q].label = registry[r].label} \in SUBSET (1 .. r)
      OBVIOUS
    <3> QED BY <3>1, <3>2, FS_Subset, FS_CardinalityType DEF Ordinal
  <2> QED BY <2>1 DEF Earliest
<1>4. /\ at.id = r /\ at.name = ShownName(label, r)
      /\ at.others = Cardinality(LiveOf(label) \ {r})
  <2>1. at.id = IF key = "" \/ keyed = {} THEN 0 ELSE Earliest(IF same # {} THEN same ELSE keyed)
    BY DEF RepositoryAt
  <2>2. at.id = r
    BY <1>1, <1>2, <1>3, <2>1
  <2>3. /\ at.name = (IF at.id = 0 THEN <<>>
                      ELSE ShownName(IF at.id = 0 THEN label ELSE registry[at.id].label, at.id))
        /\ at.others = Cardinality(LiveOf(IF at.id = 0 THEN label ELSE registry[at.id].label) \ {at.id})
    BY DEF RepositoryAt
  <2> HIDE DEF at, keyed, same
  <2>4. at.id # 0
    <3>1. r > 0 /\ r \in Nat
      BY LiveAre
    <3> QED BY <2>2, <3>1
  <2>5. registry[at.id].label = label
    BY <2>2
  <2> HIDE DEF label
  <2> QED BY <2>2, <2>3, <2>4, <2>5
<1> HIDE DEF at, keyed, same
<1>5. IsFiniteSet(LiveOf(label)) /\ Cardinality(LiveOf(label)) \in Nat
      /\ Cardinality(LiveOf(label) \ {r}) = Cardinality(LiveOf(label)) - 1
  <2>1. LiveOf(label) \in SUBSET Live
    BY DEF LiveOf
  <2>2. IsFiniteSet(LiveOf(label)) /\ Cardinality(LiveOf(label)) \in Nat
    BY <2>1, LiveAre, FS_Subset, FS_CardinalityType
  <2> QED BY <1>1, <2>2, FS_RemoveElement
<1>6. \A k \in DOMAIN shelf : shelf[k] = r => ShownRow(k) = at.name
  <2> SUFFICES ASSUME NEW k \in DOMAIN shelf, shelf[k] = r PROVE ShownRow(k) = at.name
    OBVIOUS
  <2>1. registry[r] = Repo(k)
    BY <1>1, LiveAre
  <2>2. Row(k).label = label
    BY <2>1 DEF Repo
  <2> QED BY <1>4, <2>2 DEF ShownRow
<1>7. label \in Split <=> at.others > 0
  <2>1. at.others > 0 <=> Cardinality(LiveOf(label)) > 1
    BY <1>4, <1>5
  <2>2. label \in Split <=> Cardinality(LiveOf(label)) > 1
    BY <1>1 DEF Split
  <2> QED BY <2>1, <2>2
<1>8. LatestSessionIn(r) # {}
  <2> DEFINE mine == {Who(k) : k \in {j \in DOMAIN shelf : shelf[j] = r}}
             last == [w \in mine |-> Max({Row(k).ts : k \in RowsOf(w)})]
             T == {last[w] : w \in mine}
  <2>1. mine # {} /\ IsFiniteSet(mine)
    <3> DEFINE own == {j \in DOMAIN shelf : shelf[j] = r}
               c == [k \in own |-> Who(k)]
    <3>1. own \in SUBSET DOMAIN RowPool /\ own # {}
      BY <1>1 DEF ReadInv, ReadTypes
    <3>2. DOMAIN c = own /\ mine = {c[k] : k \in own}
      OBVIOUS
    <3> HIDE DEF own, c
    <3>3. IsFiniteSet(own)
      BY <3>1, StoredAssumption, FS_Subset
    <3> QED BY <3>1, <3>2, <3>3, ValuesFinite
  <2>2. \A w \in mine : last[w] \in Nat
    <3> SUFFICES ASSUME NEW w \in mine PROVE Max({Row(k).ts : k \in RowsOf(w)}) \in Nat
      OBVIOUS
    <3>1. RowsOf(w) \in SUBSET DOMAIN RowPool /\ RowsOf(w) # {}
      BY DEF RowsOf, ReadInv, ReadTypes
    <3>2. PICK S : S = {Row(k).ts : k \in RowsOf(w)}
      OBVIOUS
    <3>3. S \in SUBSET Nat /\ IsFiniteSet(S) /\ S # {}
      BY <3>1, <3>2, TimesAre
    <3> QED BY <3>2, <3>3, MaxIs
  <2>3. DOMAIN last = mine
    OBVIOUS
  <2>4. \A w \in mine : last[w] = Max({Row(k).ts : k \in RowsOf(w)})
    OBVIOUS
  <2> HIDE DEF last
  <2>5. T \in SUBSET Nat /\ IsFiniteSet(T) /\ T # {}
    BY <2>1, <2>2, <2>3, ValuesFinite
  <2>6. PICK t \in T : \A u \in T : t >= u
    BY <2>5, FiniteGreatest
  <2>7. PICK w \in mine : t = last[w]
    BY <2>6
  <2>8. \A v \in mine : last[v] <= last[w]
    BY <2>2, <2>6, <2>7
  <2>9. LatestSessionIn(r) = {u \in mine : \A v \in mine :
            Max({Row(k).ts : k \in RowsOf(v)}) <= Max({Row(k).ts : k \in RowsOf(u)})}
    BY <1>1 DEF LatestSessionIn
  <2> QED BY <2>4, <2>8, <2>9
<1> QED BY <1>4, <1>5, <1>6, <1>7, <1>8 DEF at

LEMMA HistoryStarts == ASSUME ReadInv PROVE HistoryStart("") >= 0 <=> DOMAIN shelf # {}
<1> DEFINE times == {Row(k).ts : k \in {j \in DOMAIN shelf : "" = "" \/ Row(j).tool = ""}}
<1>1. times = {Row(k).ts : k \in DOMAIN shelf}
  OBVIOUS
<1>2. DOMAIN shelf \in SUBSET DOMAIN RowPool
  BY DEF ReadInv, ReadTypes
<1>3. times \in SUBSET Nat /\ (times = {} <=> DOMAIN shelf = {})
  BY <1>1, <1>2, TimesAre
<1>4. HistoryStart("") = IF times = {} THEN -1 ELSE Min(times)
  BY DEF HistoryStart
<1> HIDE DEF times
<1>5. times # {} => Min(times) \in Nat
  BY <1>3, MinIs
<1>6. PICK start : start = HistoryStart("")
  OBVIOUS
<1>7. start = IF times = {} THEN -1 ELSE Min(times)
  BY <1>4, <1>6, Zenon
<1>8. start >= 0 <=> times # {}
  BY <1>5, <1>7
<1>9. start >= 0 <=> DOMAIN shelf # {}
  BY <1>3, <1>8
<1> QED BY <1>6, <1>9, Zenon

LEMMA ReadsStayAlike == ReadInv => ReadsAgree
BY UsageSums, SessionSums, DelegationSums, StatedAgreeing, RepositorySums, RepositoryFound, HistoryStarts
   DEF ReadsAgree, RepositoriesAgree

\* Whatever rows come, go or turn ambiguous, in whichever order: no two repositories
\* are shown under one name, none shares it with rows that are not its own, an
\* established name does not rename, and every read accounts for the same rows.
THEOREM ReadersAgree == ReadSpec => ReadsHold
<1>1. ReadInv /\ [ReadNext]_readVars => ReadInv'
  BY ReadStep
<1> QED BY ReadInitHolds, <1>1, NamesStayApart, EstablishedStep, ReadsStayAlike, PTL
        DEF ReadSpec, ReadsHold, EstablishedName
=============================================================================
