----------------------------- MODULE Sync_proofs -----------------------------
(***************************************************************************)
(* Sync, for any number of machines, syncs in flight, keys and readings,   *)
(* and wherever requests, answers and the server are lost: every row of    *)
(* the central store has one possible writer, what a machine synced is     *)
(* counted once across the change of its name, and what a client was told  *)
(* is stored stays stored.                                                 *)
(***************************************************************************)
EXTENDS Sync, RateLimit, FiniteSetTheorems, TLAPS

\* The one name c's rows are filed under at each protocol version.
NameOf(c) == IF version = 1 THEN OldName[c] ELSE Digest[c]

\* Every row is of the machine whose name it is filed under.
RowsKnown ==
    \A d \in StoredKey : server[d] # NoRow =>
      \E c \in Clients :
        /\ server[d].from = {c} /\ server[d].member = d.name
        /\ d.name = NameOf(c)
        /\ version = 2 => ~server[d].branch

\* The row of c's push for k, as the store has it.
Landed(c, k, output) ==
    LET d == [name |-> Digest[c], key |-> k] IN
    server[d] # NoRow /\ server[d].output >= output

\* What is in flight carries no branch; it has passed the version check only
\* when the store has moved on for good; and once stored, its rows are there.
PushesKnown ==
    \A p \in Pushes : push[p] # NoPush =>
      /\ \A k \in DOMAIN push[p].body : ~push[p].body[k].branch
      /\ push[p].at # "sent" => version = 2
      /\ push[p].at = "stored" =>
           \A k \in DOMAIN push[p].body :
             Landed(ClientOf[p], k, push[p].body[k].output)

\* Nothing is confirmed before the migration, and what is confirmed is there.
ConfirmedKnown ==
    /\ version = 1 => \A c \in Clients, k \in Keys : confirmed[c][k] = 0
    /\ ConfirmedStored

IInv == TypeOK /\ RowsKnown /\ PushesKnown /\ ConfirmedKnown

-----------------------------------------------------------------------------
(* The operators the steps are made of.                                    *)

LEMMA NoRowApart ==
    ASSUME NEW row \in ServerRow
    PROVE  row # NoRow
BY SentinelAssumption

\* Two machines share no name, old or new, and no old name is a new one.
LEMMA NamesApart ==
    /\ \A c, d \in Clients : OldName[c] = OldName[d] \/ Digest[c] = Digest[d] => c = d
    /\ \A c \in Clients : OldName[c] \in OldNames /\ Digest[c] \in Digests
    /\ \A c, d \in Clients : OldName[c] # Digest[d]
BY IdentityAssumption

LEMMA ReadingType ==
    ASSUME NEW c \in Clients, NEW k \in Keys, NEW i \in 1..Len(Readings[c][k])
    PROVE  Readings[c][k][i] \in Record
BY ReadingAssumption

LEMMA WireType ==
    ASSUME NEW r \in Record
    PROVE  Wire(r) \in Record /\ ~Wire(r).branch
BY DEF Wire, Record

\* The vendor's figure is the larger of the two.
LEMMA VendorMax ==
    ASSUME NEW a \in Counts, NEW b \in Counts
    PROVE  Vendor(a, b) \in Counts /\ Vendor(a, b) >= a /\ Vendor(a, b) >= b
BY BoundsAssumption DEF Vendor, Counts

LEMMA FreshType ==
    ASSUME NEW m \in Names, NEW new \in Record, NEW c \in Clients
    PROVE  Fresh(m, new, c) \in ServerRow
BY DEF Fresh, Record, ServerRow

LEMMA RestatedType ==
    ASSUME NEW d \in StoredKey, NEW old \in ServerRow, NEW new \in Record, NEW c \in Clients
    PROVE  /\ Restated(d, old, new, c) \in ServerRow
           /\ Restated(d, old, new, c).member = old.member
           /\ Restated(d, old, new, c).output >= old.output
           /\ Restated(d, old, new, c).output >= new.output
           /\ Restated(d, old, new, c).branch = (old.branch \/ new.branch)
           /\ Restated(d, old, new, c).from = old.from \cup {c}
<1>1. old.output \in Counts /\ new.output \in Counts
  BY DEF ServerRow, Record
<1>2. /\ Vendor(old.output, new.output) \in Counts
      /\ Vendor(old.output, new.output) >= old.output
      /\ Vendor(old.output, new.output) >= new.output
  BY <1>1, VendorMax
<1>3. /\ old.member \in Names /\ new.calls \in Counts
      /\ old.project \in Labels \cup {NoName} /\ new.project \in Labels \cup {NoName}
      /\ (old.branch \/ new.branch) \in BOOLEAN
      /\ old.from \cup {c} \in SUBSET Clients
  BY DEF ServerRow, Record
<1>4. QED
  BY <1>2, <1>3 DEF Restated, ServerRow

\* A push is of the type of pushes whatever becomes of it.
LEMMA PushType ==
    ASSUME TypeOK, NEW p \in Pushes, push[p] # NoPush
    PROVE  /\ push[p] \in Push
           /\ push[p].body \in Bodies /\ push[p].waiting \in BOOLEAN
           /\ DOMAIN push[p].body \subseteq Keys
           /\ \A k \in DOMAIN push[p].body : push[p].body[k] \in Record
<1>1. push[p] \in Push
  BY DEF TypeOK
<1>2. push[p].body \in Bodies /\ push[p].waiting \in BOOLEAN
  BY <1>1 DEF Push
<1>3. QED
  BY <1>1, <1>2 DEF Bodies

-----------------------------------------------------------------------------
LEMMA InitHolds == Init => IInv
<1> SUFFICES ASSUME Init PROVE IInv
  OBVIOUS
<1>1. ASSUME NEW d \in StoredKey, NEW c \in Clients, d.name = OldName[c]
      PROVE  (CHOOSE e \in Clients : d.name = OldName[e]) = c
  BY <1>1, NamesApart
<1>2. ASSUME NEW c \in Clients, NEW k \in Legacy[c]
      PROVE  k \in Keys /\ Readings[c][k][1] \in Record
  <2>1. k \in Keys
    BY <1>2, ClientAssumption
  <2>2. Readings[c][k] \in Seq(Record) /\ Readings[c][k] # <<>>
    BY <1>2, <2>1, ReadingAssumption
  <2>3. 1 \in 1..Len(Readings[c][k])
    BY <2>2
  <2>4. QED
    BY <2>1, <2>3, ReadingType
<1>3. ASSUME NEW d \in StoredKey, NEW c \in Clients, d.name = OldName[c], d.key \in Legacy[c]
      PROVE  /\ server[d] = LegacyRow(c, d.key)
             /\ LegacyRow(c, d.key) \in ServerRow
             /\ version = 1
  <2>1. server[d] = LegacyRow(c, d.key)
    BY <1>1, <1>3 DEF Init
  <2>2. LegacyRow(c, d.key) \in ServerRow
    <3>1. Readings[c][d.key][1] \in Record
      BY <1>2, <1>3
    <3>2. OldName[c] \in Names
      BY NamesApart DEF Names
    <3>3. QED
      BY <3>1, <3>2 DEF LegacyRow, Record, ServerRow
  <2>3. Legacy[c] # {}
    BY <1>3
  <2>4. QED
    BY <2>1, <2>2, <2>3 DEF Init
<1>4. ASSUME NEW d \in StoredKey, server[d] # NoRow
      PROVE  \E c \in Clients : d.name = OldName[c] /\ d.key \in Legacy[c]
  BY <1>4 DEF Init
<1>5. TypeOK
  <2>1. local \in [Clients -> [Keys -> Nat]]
    BY DEF Init
  <2>2. ASSUME NEW c \in Clients, NEW k \in Keys
        PROVE  local[c][k] \in 0..Len(Readings[c][k])
    <3>1. Readings[c][k] \in Seq(Record) /\ (k \in Legacy[c] => Readings[c][k] # <<>>)
      BY ReadingAssumption
    <3>2. local[c][k] = IF k \in Legacy[c] THEN 1 ELSE 0
      BY DEF Init
    <3>3. QED
      BY <3>1, <3>2
  <2>3. server \in [StoredKey -> ServerRow \cup {NoRow}]
    <3>1. \A d \in StoredKey : server[d] \in ServerRow \cup {NoRow}
      BY <1>3, <1>4
    <3>2. QED
      BY <3>1 DEF Init
  <2>4. push \in [Pushes -> Push \cup {NoPush}] /\ version \in {1, 2} /\ up \in BOOLEAN
    BY DEF Init
  <2>5. confirmed \in [Clients -> [Keys -> Counts]]
    BY BoundsAssumption DEF Init, Counts
  <2>6. faults \in 0..MaxFaults /\ forgets \in 0..MaxForgets
    BY BoundsAssumption DEF Init
  <2>7. QED
    BY <2>1, <2>2, <2>3, <2>4, <2>5, <2>6 DEF TypeOK
<1>6. RowsKnown
  <2>1. ASSUME NEW d \in StoredKey, server[d] # NoRow,
               NEW c \in Clients, d.name = OldName[c], d.key \in Legacy[c]
        PROVE  server[d].from = {c} /\ server[d].member = d.name /\ version = 1
    <3>1. server[d] = LegacyRow(c, d.key) /\ version = 1
      BY <1>3, <2>1
    <3>2. LegacyRow(c, d.key).from = {c} /\ LegacyRow(c, d.key).member = OldName[c]
      BY DEF LegacyRow
    <3>3. QED
      BY <2>1, <3>1, <3>2
  <2>2. QED
    BY <1>4, <2>1 DEF RowsKnown, NameOf
<1>7. PushesKnown
  BY DEF Init, PushesKnown
<1>8. ConfirmedKnown
  BY DEF Init, ConfirmedKnown, ConfirmedStored
<1>9. QED
  BY <1>5, <1>6, <1>7, <1>8 DEF IInv

-----------------------------------------------------------------------------
(* Steps that leave the store and what was confirmed alone.                *)

\* What such a step may do to what is in flight.
PushesMove ==
    \A p \in Pushes : push'[p] # NoPush =>
      \/ /\ push[p] # NoPush /\ push'[p].body = push[p].body
         /\ push'[p].at = push[p].at \/ (push'[p].at = "admitted" /\ version = 2)
      \/ /\ \A k \in DOMAIN push'[p].body : ~push'[p].body[k].branch
         /\ push'[p].at = "sent"

LEMMA StoreUntouched ==
    ASSUME RowsKnown, PushesKnown, ConfirmedKnown, PushesMove,
           UNCHANGED <<server, version, confirmed>>
    PROVE  RowsKnown' /\ PushesKnown' /\ ConfirmedKnown'
<1>1. RowsKnown'
  BY DEF RowsKnown, NameOf
<1>2. ConfirmedKnown'
  BY DEF ConfirmedKnown, ConfirmedStored
<1>3. ASSUME NEW p \in Pushes, push'[p] # NoPush
      PROVE  /\ \A k \in DOMAIN push'[p].body : ~push'[p].body[k].branch
             /\ push'[p].at # "sent" => version' = 2
             /\ push'[p].at = "stored" =>
                  \A k \in DOMAIN push'[p].body :
                    Landed(ClientOf[p], k, push[p].body[k].output)'
  <2>1. CASE /\ push[p] # NoPush /\ push'[p].body = push[p].body
             /\ push'[p].at = push[p].at \/ (push'[p].at = "admitted" /\ version = 2)
    <3>1. /\ \A k \in DOMAIN push[p].body : ~push[p].body[k].branch
          /\ push[p].at # "sent" => version = 2
          /\ push[p].at = "stored" =>
               \A k \in DOMAIN push[p].body :
                 Landed(ClientOf[p], k, push[p].body[k].output)
      BY <2>1 DEF PushesKnown
    <3>2. QED
      BY <2>1, <3>1 DEF Landed
  <2>2. CASE /\ \A k \in DOMAIN push'[p].body : ~push'[p].body[k].branch
             /\ push'[p].at = "sent"
    BY <2>2
  <2>3. QED
    BY <1>3, <2>1, <2>2 DEF PushesMove
<1>4. QED
  BY <1>1, <1>2, <1>3 DEF PushesKnown

LEMMA ImportStep ==
    ASSUME IInv, NEW c \in Clients, NEW k \in Keys, Import(c, k)
    PROVE  IInv'
<1>1. PICK r \in (local[c][k] + 1)..Len(Readings[c][k]) :
        local' = [local EXCEPT ![c][k] = r]
  BY DEF Import
<1>2. local[c][k] \in Nat /\ Len(Readings[c][k]) \in Nat
  BY ReadingAssumption DEF IInv, TypeOK
<1>3. r \in 0..Len(Readings[c][k])
  BY <1>2
<1>4. TypeOK'
  <2>1. local' \in [Clients -> [Keys -> Nat]]
    BY <1>1, <1>3, <1>2 DEF IInv, TypeOK
  <2>2. \A a \in Clients, b \in Keys : local'[a][b] \in 0..Len(Readings[a][b])
    BY <1>1, <1>3 DEF IInv, TypeOK
  <2>3. QED
    BY <2>1, <2>2 DEF IInv, TypeOK, Import
<1>5. PushesMove
  BY DEF PushesMove, Import
<1>6. QED
  BY <1>4, <1>5, StoreUntouched DEF IInv, Import

LEMMA ForgetStep ==
    ASSUME IInv, NEW c \in Clients, Forget(c)
    PROVE  IInv'
<1>1. TypeOK'
  <2>1. local' \in [Clients -> [Keys -> Nat]]
    BY DEF IInv, TypeOK, Forget
  <2>2. \A a \in Clients, b \in Keys : local'[a][b] \in 0..Len(Readings[a][b])
    BY ReadingAssumption DEF IInv, TypeOK, Forget
  <2>3. forgets' \in 0..MaxForgets
    BY BoundsAssumption DEF IInv, TypeOK, Forget
  <2>4. QED
    BY <2>1, <2>2, <2>3 DEF IInv, TypeOK, Forget
<1>2. PushesMove
  BY DEF PushesMove, Forget
<1>3. QED
  BY <1>1, <1>2, StoreUntouched DEF IInv, Forget

\* A step that only changes the syncs in flight, and may count a fault.
LEMMA FlightOnly ==
    ASSUME IInv, push' \in [Pushes -> Push \cup {NoPush}], PushesMove,
           UNCHANGED <<local, server, version, confirmed, forgets>>,
           up' \in BOOLEAN, faults' \in 0..MaxFaults
    PROVE  IInv'
<1>1. TypeOK'
  BY DEF IInv, TypeOK
<1>2. QED
  BY <1>1, StoreUntouched DEF IInv

LEMMA ExportStep ==
    ASSUME IInv, NEW p \in Pushes, Export(p)
    PROVE  IInv'
<1> DEFINE c == ClientOf[p]
<1>1. c \in Clients
  BY ClientAssumption
<1>2. PICK since \in {Keys, Recent} :
        push' = [push EXCEPT ![p] =
          [body |-> [k \in {e \in since : local[c][e] > 0} |-> Wire(Readings[c][k][local[c][k]])],
           at |-> "sent", waiting |-> TRUE]]
  BY DEF Export
<1> DEFINE ks == {e \in since : local[c][e] > 0}
           body == [k \in ks |-> Wire(Readings[c][k][local[c][k]])]
<1>3. ks \subseteq Keys
  BY ClientAssumption
<1>4. ASSUME NEW k \in ks
      PROVE  Wire(Readings[c][k][local[c][k]]) \in Record
             /\ ~Wire(Readings[c][k][local[c][k]]).branch
  <2>1. local[c][k] \in 0..Len(Readings[c][k]) /\ local[c][k] > 0
    BY <1>1, <1>3 DEF IInv, TypeOK
  <2>2. Len(Readings[c][k]) \in Nat
    BY <1>1, <1>3, ReadingAssumption
  <2>3. local[c][k] \in 1..Len(Readings[c][k])
    BY <2>1, <2>2
  <2>4. Readings[c][k][local[c][k]] \in Record
    BY <1>1, <1>3, <2>3, ReadingType
  <2>5. QED
    BY <2>4, WireType
<1>5. body \in [ks -> Record] /\ DOMAIN body = ks
  BY <1>4
<1>6. body \in Bodies
  BY <1>3, <1>5 DEF Bodies
<1>7. push' = [push EXCEPT ![p] = [body |-> body, at |-> "sent", waiting |-> TRUE]]
  BY <1>2
<1> HIDE DEF body
<1>8. push' \in [Pushes -> Push \cup {NoPush}]
  BY <1>6, <1>7 DEF IInv, TypeOK, Push
<1>9. \A k \in DOMAIN body : ~body[k].branch
  BY <1>4, <1>5 DEF body
<1>10. PushesMove
  BY <1>7, <1>9 DEF IInv, TypeOK, PushesMove
<1>11. QED
  BY <1>8, <1>10, FlightOnly DEF IInv, TypeOK, Export

LEMMA StopWaitingStep ==
    ASSUME IInv, NEW p \in Pushes, StopWaiting(p)
    PROVE  IInv'
<1>1. push[p] \in Push
  BY DEF IInv, TypeOK, StopWaiting
<1>2. push' \in [Pushes -> Push \cup {NoPush}]
  BY <1>1 DEF IInv, TypeOK, StopWaiting, Push
<1>3. PushesMove
  BY DEF IInv, TypeOK, PushesMove, StopWaiting
<1>4. QED
  BY <1>2, <1>3, FlightOnly DEF IInv, TypeOK, StopWaiting

LEMMA AdmitStep ==
    ASSUME IInv, NEW p \in Pushes, Admit(p)
    PROVE  IInv'
<1>1. push[p] \in Push
  BY DEF IInv, TypeOK, Admit
<1>2. push' \in [Pushes -> Push \cup {NoPush}]
  BY <1>1 DEF IInv, TypeOK, Admit, Push
<1>3. PushesMove
  BY <1>1 DEF IInv, TypeOK, PushesMove, Admit, Admissible, Push
<1>4. QED
  BY <1>2, <1>3, FlightOnly DEF IInv, TypeOK, Admit

\* A request refused or lost, or an answer lost.
LEMMA DropStep ==
    ASSUME IInv, NEW p \in Pushes, Drop(p), faults' \in 0..MaxFaults
    PROVE  IInv'
<1>1. push' \in [Pushes -> Push \cup {NoPush}]
  BY DEF IInv, TypeOK, Drop
<1>2. PushesMove
  BY DEF IInv, TypeOK, PushesMove, Drop
<1>3. QED
  BY <1>1, <1>2, FlightOnly DEF IInv, TypeOK, Drop

LEMMA StopStartStep ==
    ASSUME IInv, Stop \/ Start
    PROVE  IInv'
<1>1. push' \in [Pushes -> Push \cup {NoPush}]
  BY DEF IInv, TypeOK, Stop, Start
<1>2. PushesMove
  BY DEF IInv, TypeOK, PushesMove, Stop, Start
<1>3. faults' \in 0..MaxFaults /\ up' \in BOOLEAN
  <2>1. CASE Stop
    <3>1. faults \in Nat /\ faults < MaxFaults /\ faults' = faults + 1 /\ up' = FALSE
      BY <2>1 DEF IInv, TypeOK, Stop
    <3>2. faults' \in 0..MaxFaults
      BY <3>1, BoundsAssumption
    <3>3. QED
      BY <3>1, <3>2
  <2>2. CASE Start
    BY <2>2 DEF IInv, TypeOK, Start
  <2>3. QED
    BY <2>1, <2>2
<1>4. QED
  BY <1>1, <1>2, <1>3, FlightOnly DEF IInv, TypeOK, Stop, Start

-----------------------------------------------------------------------------
(* Steps that change the store or what was confirmed.                      *)

\* No row disappears and no figure goes down: what was confirmed, or had
\* landed, still is and has.
StoreGrows ==
    \A d \in StoredKey : server[d] # NoRow =>
      server'[d] # NoRow /\ server'[d].output >= server[d].output

LEMMA LandedStable ==
    ASSUME TypeOK, TypeOK', StoreGrows,
           NEW c \in Clients, NEW k \in Keys, NEW output \in Counts, Landed(c, k, output)
    PROVE  Landed(c, k, output)'
<1> DEFINE d == [name |-> Digest[c], key |-> k]
<1>1. d \in StoredKey
  BY NamesApart DEF StoredKey, Names
<1>2. server[d] # NoRow /\ server[d].output >= output
  BY DEF Landed
<1>3. server'[d] # NoRow /\ server'[d].output >= server[d].output
  BY <1>1, <1>2 DEF StoreGrows
<1>4. server[d].output \in Int /\ server'[d].output \in Int /\ output \in Int
  <2>1. server[d] \in ServerRow /\ server'[d] \in ServerRow
    BY <1>1, <1>2, <1>3 DEF TypeOK
  <2>2. QED
    BY <2>1, BoundsAssumption DEF ServerRow, Counts
<1>5. server'[d].output >= output
  BY <1>2, <1>3, <1>4
<1>6. QED
  BY <1>3, <1>5 DEF Landed

LEMMA StoreStep ==
    ASSUME IInv, NEW p \in Pushes, Store(p)
    PROVE  IInv'
<1> DEFINE c == ClientOf[p]
           m == Digest[c]
           body == push[p].body
<1>1. c \in Clients /\ m \in Names
  BY ClientAssumption, NamesApart DEF Names
<1>2. push[p] # NoPush /\ push[p].at = "admitted" /\ Member(p) = m
  BY DEF Store, Match
<1>3. version = 2
  BY <1>2 DEF IInv, PushesKnown
<1>4. /\ push[p] \in Push /\ body \in Bodies /\ push[p].waiting \in BOOLEAN
      /\ DOMAIN body \subseteq Keys
      /\ \A k \in DOMAIN body : body[k] \in Record /\ ~body[k].branch
  BY <1>2, PushType DEF IInv, PushesKnown
<1>5. server' = [d \in StoredKey |->
                   IF d.name # m \/ d.key \notin DOMAIN body THEN server[d]
                   ELSE IF server[d] = NoRow THEN Fresh(m, body[d.key], c)
                   ELSE Restated(d, server[d], body[d.key], c)]
  BY <1>2 DEF Store
<1>6. push' = [push EXCEPT ![p].at = "stored"]
  BY DEF Store
<1> HIDE DEF m, body
\* One row at a time.
<1>7. ASSUME NEW d \in StoredKey, d.name = m, d.key \in DOMAIN body, server[d] = NoRow
      PROVE  /\ server'[d] \in ServerRow /\ server'[d].from = {c}
             /\ server'[d].member = m /\ ~server'[d].branch
             /\ server'[d].output >= body[d.key].output
  <2>1. server'[d] = Fresh(m, body[d.key], c)
    BY <1>5, <1>7
  <2>2. body[d.key] \in Record /\ ~body[d.key].branch
    BY <1>4, <1>7
  <2>3. Fresh(m, body[d.key], c) \in ServerRow
    BY <1>1, <2>2, FreshType
  <2>4. body[d.key].output \in Int
    BY <2>2, BoundsAssumption DEF Record, Counts
  <2>5. QED
    BY <2>1, <2>2, <2>3, <2>4 DEF Fresh
<1>8. ASSUME NEW d \in StoredKey, d.name = m, d.key \in DOMAIN body, server[d] # NoRow
      PROVE  /\ server'[d] \in ServerRow /\ server'[d].from = {c}
             /\ server'[d].member = m /\ ~server'[d].branch
             /\ server'[d].output >= body[d.key].output
             /\ server'[d].output >= server[d].output
  <2>1. server'[d] = Restated(d, server[d], body[d.key], c)
    BY <1>5, <1>8
  <2>2. body[d.key] \in Record /\ ~body[d.key].branch
    BY <1>4, <1>8
  <2>3. server[d] \in ServerRow
    BY <1>8 DEF IInv, TypeOK
  <2>4. server[d].from = {c} /\ server[d].member = m /\ ~server[d].branch
    <3>1. PICK e \in Clients : /\ server[d].from = {e} /\ server[d].member = d.name
                               /\ d.name = NameOf(e) /\ ~server[d].branch
      BY <1>3, <1>8 DEF IInv, RowsKnown
    <3>2. e = c
      BY <1>1, <1>3, <1>8, <3>1, NamesApart DEF NameOf, m
    <3>3. QED
      BY <1>8, <3>1, <3>2
  <2>5. /\ server'[d] \in ServerRow /\ server'[d].member = server[d].member
        /\ server'[d].output >= body[d.key].output
        /\ server'[d].output >= server[d].output
        /\ server'[d].branch = (server[d].branch \/ body[d.key].branch)
        /\ server'[d].from = server[d].from \cup {c}
    BY <1>1, <2>1, <2>2, <2>3, RestatedType
  <2>6. ~server'[d].branch
    BY <2>2, <2>4, <2>5
  <2>7. server'[d].from = {c}
    BY <2>4, <2>5
  <2>8. QED
    BY <2>4, <2>5, <2>6, <2>7
<1>9. ASSUME NEW d \in StoredKey, d.name # m \/ d.key \notin DOMAIN body
      PROVE  server'[d] = server[d]
  BY <1>5, <1>9
<1>10. TypeOK'
  <2>1. \A d \in StoredKey : server'[d] \in ServerRow \cup {NoRow}
    BY <1>7, <1>8, <1>9 DEF IInv, TypeOK
  <2>2. server' \in [StoredKey -> ServerRow \cup {NoRow}]
    BY <1>5, <2>1
  <2>3. push' \in [Pushes -> Push \cup {NoPush}]
    BY <1>4, <1>6 DEF IInv, TypeOK, Push, body
  <2>4. QED
    BY <2>2, <2>3 DEF IInv, TypeOK, Store
<1>11. StoreGrows
  <2>1. ASSUME NEW d \in StoredKey, server[d] # NoRow
        PROVE  server'[d] # NoRow /\ server'[d].output >= server[d].output
    <3>1. CASE d.name = m /\ d.key \in DOMAIN body
      BY <1>8, <2>1, <3>1, NoRowApart
    <3>2. CASE d.name # m \/ d.key \notin DOMAIN body
      <4>1. server[d] \in ServerRow
        BY <2>1 DEF IInv, TypeOK
      <4>2. server[d].output \in Int
        BY <4>1, BoundsAssumption DEF ServerRow, Counts
      <4>3. QED
        BY <1>9, <2>1, <3>2, <4>2
    <3>3. QED
      BY <3>1, <3>2
  <2>2. QED
    BY <2>1 DEF StoreGrows
<1>12. RowsKnown'
  <2>1. ASSUME NEW d \in StoredKey, server'[d] # NoRow
        PROVE  \E e \in Clients : /\ server'[d].from = {e} /\ server'[d].member = d.name
                                 /\ d.name = NameOf(e)' /\ ~server'[d].branch
    <3>1. version' = 2
      BY <1>3 DEF Store
    <3>2. CASE d.name = m /\ d.key \in DOMAIN body
      BY <1>1, <1>7, <1>8, <3>1, <3>2 DEF NameOf, m
    <3>3. CASE d.name # m \/ d.key \notin DOMAIN body
      <4>1. server'[d] = server[d] /\ server[d] # NoRow
        BY <1>9, <2>1, <3>3
      <4>2. QED
        BY <1>3, <3>1, <4>1 DEF IInv, RowsKnown, NameOf
    <3>4. QED
      BY <3>2, <3>3
  <2>2. QED
    BY <2>1 DEF RowsKnown
<1>13. PushesKnown'
  <2>1. ASSUME NEW q \in Pushes, push'[q] # NoPush
        PROVE  /\ \A k \in DOMAIN push'[q].body : ~push'[q].body[k].branch
               /\ push'[q].at # "sent" => version' = 2
               /\ push'[q].at = "stored" =>
                    \A k \in DOMAIN push'[q].body :
                      Landed(ClientOf[q], k, push[q].body[k].output)'
    <3>1. CASE q = p
      <4>1. push'[p].body = body /\ version' = 2
        BY <1>3, <1>4, <1>6 DEF IInv, TypeOK, Store, Push, body
      <4>2. ASSUME NEW k \in DOMAIN body
            PROVE  Landed(c, k, push[p].body[k].output)'
        <5> DEFINE d == [name |-> m, key |-> k]
        <5>1. d \in StoredKey /\ d.name = m /\ d.key = k
          BY <1>1, <1>4, <4>2 DEF StoredKey
        <5>2. server'[d] # NoRow /\ server'[d].output >= body[k].output
          BY <1>7, <1>8, <4>2, <5>1, NoRowApart
        <5>3. QED
          BY <4>1, <5>2 DEF Landed, m
      <4>3. QED
        BY <1>4, <3>1, <4>1, <4>2
    <3>2. CASE q # p
      <4>1. push'[q] = push[q] /\ version' = version
        BY <1>6, <3>2 DEF IInv, TypeOK, Store
      <4>2. /\ \A k \in DOMAIN push[q].body : ~push[q].body[k].branch
            /\ push[q].at # "sent" => version = 2
            /\ push[q].at = "stored" =>
                 \A k \in DOMAIN push[q].body :
                   Landed(ClientOf[q], k, push[q].body[k].output)
        BY <2>1, <4>1 DEF IInv, PushesKnown
      <4>3. ASSUME NEW k \in DOMAIN push[q].body, push[q].at = "stored"
            PROVE  Landed(ClientOf[q], k, push[q].body[k].output)'
        <5> DEFINE output == push[q].body[k].output
        <5>1. k \in Keys /\ push[q].body[k] \in Record
          BY <2>1, <4>1, <4>3, PushType DEF IInv
        <5>2. output \in Counts /\ ClientOf[q] \in Clients
          BY <5>1, ClientAssumption DEF Record
        <5>3. Landed(ClientOf[q], k, output)
          BY <4>2, <4>3
        <5>4. Landed(ClientOf[q], k, output) /\ output' = output
          BY <4>1, <5>3
        <5> HIDE DEF output
        <5>5. server'[[name |-> Digest[ClientOf[q]], key |-> k]] # NoRow
              /\ server'[[name |-> Digest[ClientOf[q]], key |-> k]].output >= output
          BY <1>10, <1>11, <5>1, <5>2, <5>4, LandedStable DEF IInv, Landed
        <5>6. QED
          BY <4>1, <5>4, <5>5 DEF Landed, output
      <4>4. QED
        BY <4>1, <4>2, <4>3
    <3>3. QED
      BY <3>1, <3>2
  <2>2. QED
    BY <2>1 DEF PushesKnown
<1>14. ConfirmedKnown'
  <2>1. confirmed' = confirmed /\ version' = 2
    BY <1>3 DEF Store
  <2>2. ASSUME NEW e \in Clients, NEW k \in Keys, confirmed[e][k] > 0
        PROVE  Landed(e, k, confirmed[e][k])'
    <3>1. confirmed[e][k] \in Counts
      BY DEF IInv, TypeOK
    <3>2. Landed(e, k, confirmed[e][k])
      BY <2>2 DEF IInv, ConfirmedKnown, ConfirmedStored, Landed
    <3>3. PICK output \in Counts : output = confirmed[e][k]
      BY <3>1
    <3>4. Landed(e, k, output)'
      BY <1>10, <1>11, <3>2, <3>3, LandedStable DEF IInv
    <3>5. QED
      BY <2>1, <3>3, <3>4 DEF Landed
  <2>3. QED
    BY <2>1, <2>2 DEF ConfirmedKnown, ConfirmedStored, Landed
<1>15. QED
  BY <1>10, <1>12, <1>13, <1>14 DEF IInv

LEMMA ReplyStep ==
    ASSUME IInv, NEW p \in Pushes, Reply(p)
    PROVE  IInv'
<1> DEFINE c == ClientOf[p]
           body == push[p].body
<1>1. c \in Clients
  BY ClientAssumption
<1>2. push[p] # NoPush /\ push[p].at = "stored" /\ version = 2
  BY DEF IInv, PushesKnown, Reply
<1>3. ASSUME NEW k \in DOMAIN body
      PROVE  k \in Keys /\ body[k].output \in Counts /\ Landed(c, k, body[k].output)
  <2>1. k \in Keys /\ body[k] \in Record
    BY <1>2, <1>3, PushType DEF IInv
  <2>2. QED
    BY <1>2, <1>3, <2>1 DEF IInv, PushesKnown, Record
<1>4. \/ confirmed' = confirmed
      \/ confirmed' = [confirmed EXCEPT ![c] = [k \in Keys |->
                        IF k \in DOMAIN body THEN Vendor(@[k], body[k].output) ELSE @[k]]]
  BY DEF Reply
<1> HIDE DEF body
<1>5. ASSUME NEW e \in Clients, NEW k \in Keys
      PROVE  \/ confirmed'[e][k] = confirmed[e][k]
             \/ /\ e = c /\ k \in DOMAIN body
                /\ confirmed'[e][k] = Vendor(confirmed[e][k], body[k].output)
  BY <1>4 DEF IInv, TypeOK
<1>6. ASSUME NEW e \in Clients, NEW k \in Keys
      PROVE  /\ confirmed'[e][k] \in Counts
             /\ confirmed'[e][k] > 0 => Landed(e, k, confirmed'[e][k])
  <2>1. confirmed[e][k] \in Counts
    BY DEF IInv, TypeOK
  <2>2. confirmed[e][k] > 0 => Landed(e, k, confirmed[e][k])
    BY DEF IInv, ConfirmedKnown, ConfirmedStored, Landed
  <2>3. CASE confirmed'[e][k] = confirmed[e][k]
    BY <2>1, <2>2, <2>3
  <2>4. CASE /\ e = c /\ k \in DOMAIN body
             /\ confirmed'[e][k] = Vendor(confirmed[e][k], body[k].output)
    <3>1. body[k].output \in Counts /\ Landed(e, k, body[k].output)
      BY <1>3, <2>4
    <3>2. Vendor(confirmed[e][k], body[k].output) \in Counts
      BY <2>1, <3>1, VendorMax
    <3>3. CASE confirmed[e][k] >= body[k].output
      BY <2>2, <2>4, <3>2, <3>3 DEF Vendor
    <3>4. CASE ~(confirmed[e][k] >= body[k].output)
      BY <2>4, <3>1, <3>2, <3>4 DEF Vendor
    <3>5. QED
      BY <3>3, <3>4
  <2>5. QED
    BY <1>5, <2>3, <2>4
<1>7. TypeOK'
  <2>1. confirmed' \in [Clients -> [Keys -> Counts]]
    <3>1. CASE confirmed' = confirmed
      BY <3>1 DEF IInv, TypeOK
    <3>2. CASE confirmed' = [confirmed EXCEPT ![c] = [k \in Keys |->
                        IF k \in DOMAIN body THEN Vendor(@[k], body[k].output) ELSE @[k]]]
      <4> DEFINE told == [k \in Keys |-> IF k \in DOMAIN body
                            THEN Vendor(confirmed[c][k], body[k].output) ELSE confirmed[c][k]]
      <4>1. confirmed' = [confirmed EXCEPT ![c] = told] /\ confirmed'[c] = told
        BY <1>1, <3>2 DEF IInv, TypeOK
      <4>2. \A k \in Keys : told[k] \in Counts
        BY <1>1, <1>6, <4>1
      <4>3. told \in [Keys -> Counts]
        BY <4>2
      <4> HIDE DEF told
      <4>4. QED
        BY <4>1, <4>3 DEF IInv, TypeOK
    <3>3. QED
      BY <1>4, <3>1, <3>2
  <2>2. push' \in [Pushes -> Push \cup {NoPush}]
    BY DEF IInv, TypeOK, Reply
  <2>3. QED
    BY <2>1, <2>2 DEF IInv, TypeOK, Reply
<1>8. RowsKnown'
  BY DEF IInv, RowsKnown, NameOf, Reply
<1>9. PushesKnown'
  <2>1. ASSUME NEW q \in Pushes, push'[q] # NoPush
        PROVE  push'[q] = push[q]
    BY <2>1 DEF IInv, TypeOK, Reply
  <2>2. server' = server /\ version' = version
    BY DEF Reply
  <2>3. QED
    BY <2>1, <2>2 DEF IInv, PushesKnown, Landed
<1>10. ConfirmedKnown'
  <2>1. server' = server /\ version' = 2
    BY <1>2 DEF Reply
  <2>2. QED
    BY <1>6, <2>1 DEF ConfirmedKnown, ConfirmedStored, Landed
<1>11. QED
  BY <1>7, <1>8, <1>9, <1>10 DEF IInv

\* Before the migration every row is under an old name, which is a name the
\* operator's map covers; the map takes it to its owner's digest.
LEMMA MigrateStep ==
    ASSUME IInv, NEW names \in SUBSET OldNames, Migrate(names)
    PROVE  IInv'
<1>1. version = 1 /\ version' = 2 /\ server' = Rekeyed(names)
  BY DEF Migrate
<1>2. /\ Existing = names
      /\ \A n, o \in names : Manifest[n] = Manifest[o] => n = o
  BY DEF Migrate, ValidMapping
<1>3. ASSUME NEW d \in StoredKey, server[d] # NoRow
      PROVE  /\ server[d] \in ServerRow /\ d.name \in names
             /\ \E c \in Clients : /\ server[d].from = {c} /\ server[d].member = d.name
                                 /\ d.name = OldName[c]
  <2>1. server[d] \in ServerRow
    BY <1>3 DEF IInv, TypeOK
  <2>2. PICK c \in Clients : /\ server[d].from = {c} /\ server[d].member = d.name
                             /\ d.name = OldName[c]
    BY <1>1, <1>3 DEF IInv, RowsKnown, NameOf
  <2>3. d.name \in Existing
    BY <1>3, <2>2 DEF Existing
  <2>4. QED
    BY <1>2, <2>1, <2>2, <2>3
<1> DEFINE Old(n, k) == [name |-> n, key |-> k]
<1>4. ASSUME NEW d \in StoredKey, server'[d] # NoRow
      PROVE  \E n \in names :
               /\ Old(n, d.key) \in StoredKey /\ d.name = Manifest[n]
               /\ server[Old(n, d.key)] # NoRow
               /\ server'[d] = [server[Old(n, d.key)] EXCEPT !.member = d.name, !.branch = FALSE]
  <2>1. CASE \E n \in names : d.name = Manifest[n] /\ server[Old(n, d.key)] # NoRow
    <3>1. PICK n \in names : d.name = Manifest[n] /\ server[Old(n, d.key)] # NoRow
      BY <2>1
    <3>2. (CHOOSE o \in names : d.name = Manifest[o]) = n
      BY <1>2, <3>1
    <3>3. server'[d] = [server[Old(n, d.key)] EXCEPT !.member = d.name, !.branch = FALSE]
      BY <1>1, <2>1, <3>2 DEF Rekeyed
    <3>4. Old(n, d.key) \in StoredKey
      BY DEF StoredKey, Names
    <3>5. QED
      BY <3>1, <3>3, <3>4
  <2>2. CASE ~ \E n \in names : d.name = Manifest[n] /\ server[Old(n, d.key)] # NoRow
    <3>1. server'[d] = IF d.name \in names THEN NoRow ELSE server[d]
      BY <1>1, <2>2 DEF Rekeyed
    <3>2. QED
      BY <1>3, <1>4, <3>1
  <2>3. QED
    BY <2>1, <2>2
<1>5. ASSUME NEW d \in StoredKey, server'[d] # NoRow
      PROVE  /\ server'[d] \in ServerRow
             /\ \E c \in Clients : /\ server'[d].from = {c} /\ server'[d].member = d.name
                                 /\ d.name = Digest[c] /\ ~server'[d].branch
  <2>1. PICK n \in names :
          /\ Old(n, d.key) \in StoredKey /\ d.name = Manifest[n]
          /\ server[Old(n, d.key)] # NoRow
          /\ server'[d] = [server[Old(n, d.key)] EXCEPT !.member = d.name, !.branch = FALSE]
    BY <1>4, <1>5
  <2>2. server[Old(n, d.key)] \in ServerRow
    BY <1>3, <2>1
  <2>3. PICK c \in Clients : server[Old(n, d.key)].from = {c} /\ n = OldName[c]
    BY <1>3, <2>1
  <2>4. d.name = Digest[c] /\ d.name \in Names
    BY <2>1, <2>3, IdentityAssumption DEF StoredKey
  <2>5. /\ server'[d] \in ServerRow /\ server'[d].from = {c}
        /\ server'[d].member = d.name /\ server'[d].branch = FALSE
    BY <2>1, <2>2, <2>3, <2>4 DEF ServerRow
  <2>6. QED
    BY <2>4, <2>5
<1>6. TypeOK'
  <2>1. \A d \in StoredKey : server'[d] \in ServerRow \cup {NoRow}
    BY <1>5
  <2>2. server' \in [StoredKey -> ServerRow \cup {NoRow}]
    BY <1>1, <2>1 DEF Rekeyed
  <2>3. QED
    BY <1>1, <2>2 DEF IInv, TypeOK, Migrate
<1>7. RowsKnown'
  BY <1>1, <1>5 DEF RowsKnown, NameOf
<1>8. PushesKnown'
  <2>1. push' = push
    BY DEF Migrate
  <2>2. \A p \in Pushes : push[p] # NoPush =>
          push[p].at = "sent" /\ \A k \in DOMAIN push[p].body : ~push[p].body[k].branch
    BY <1>1 DEF IInv, PushesKnown
  <2>3. QED
    BY <2>1, <2>2 DEF PushesKnown
<1>9. ConfirmedKnown'
  <2>1. confirmed' = confirmed
    BY DEF Migrate
  <2>2. \A c \in Clients, k \in Keys : confirmed[c][k] = 0
    BY <1>1 DEF IInv, ConfirmedKnown
  <2>3. QED
    BY <1>1, <2>1, <2>2 DEF ConfirmedKnown, ConfirmedStored
<1>10. QED
  BY <1>6, <1>7, <1>8, <1>9 DEF IInv

-----------------------------------------------------------------------------
LEMMA StepHolds == IInv /\ [Next]_vars => IInv'
<1> SUFFICES ASSUME IInv, [Next]_vars PROVE IInv'
  OBVIOUS
<1>1. CASE UNCHANGED vars
  <2>1. TypeOK'
    BY <1>1 DEF IInv, TypeOK, vars
  <2>2. PushesMove
    BY <1>1 DEF PushesMove, vars
  <2>3. QED
    BY <1>1, <2>1, <2>2, StoreUntouched DEF IInv, vars
<1>2. CASE \E c \in Clients, k \in Keys : Import(c, k)
  BY <1>2, ImportStep
<1>3. CASE \E c \in Clients : Forget(c)
  BY <1>3, ForgetStep
<1>4. ASSUME NEW p \in Pushes, Export(p) \/ StopWaiting(p) \/ Handle(p) \/ Lose(p)
      PROVE  IInv'
  <2>1. faults \in 0..MaxFaults
    BY DEF IInv, TypeOK
  <2>2. CASE Export(p)
    BY <2>2, ExportStep
  <2>3. CASE StopWaiting(p)
    BY <2>3, StopWaitingStep
  <2>4. CASE Admit(p)
    BY <2>4, AdmitStep
  <2>5. CASE Refuse(p)
    BY <2>1, <2>5, DropStep DEF Refuse
  <2>6. CASE Mismatch(p)
    BY <2>1, <2>6, DropStep DEF Mismatch
  <2>7. CASE Store(p)
    BY <2>7, StoreStep
  <2>8. CASE Reply(p)
    BY <2>8, ReplyStep
  <2>9. CASE Lose(p)
    <3>1. faults' \in 0..MaxFaults
      BY <2>1, <2>9, BoundsAssumption DEF Lose
    <3>2. QED
      BY <2>9, <3>1, DropStep DEF Lose
  <2>10. QED
    BY <1>4, <2>2, <2>3, <2>4, <2>5, <2>6, <2>7, <2>8, <2>9 DEF Handle
<1>5. CASE \E names \in SUBSET OldNames : Migrate(names)
  BY <1>5, MigrateStep
<1>6. CASE Stop \/ Start
  BY <1>6, StopStartStep
<1>7. QED
  BY <1>1, <1>2, <1>3, <1>4, <1>5, <1>6 DEF Next

\* Every reachable state of the service satisfies the invariant.
THEOREM Invariance == Spec => []IInv
<1>1. Init => IInv
  BY InitHolds
<1>2. IInv /\ [Next]_vars => IInv'
  BY StepHolds
<1>3. QED
  BY <1>1, <1>2, PTL DEF Spec

-----------------------------------------------------------------------------
(* What the invariant is for.                                              *)

\* Every stored row has its type, one machine that may write it, the one whose
\* name it is filed under, and after the migration no branch
\* (server.handleUsageV2, store.InsertSynced, store.MigrateSyncIdentity).
THEOREM OneWriterPerRow == Spec => []RowsOwned
<1>1. IInv => RowsOwned
  <2> SUFFICES ASSUME IInv PROVE RowsOwned
    OBVIOUS
  <2>1. OneWriter
    BY DEF IInv, RowsKnown, NameOf, OneWriter
  <2>2. BranchFree
    BY DEF IInv, RowsKnown, BranchFree
  <2>3. QED
    BY <2>1, <2>2 DEF IInv, RowsOwned
<1>2. QED
  BY <1>1, Invariance, PTL

\* A machine's row for a key is filed under its old name or under its digest,
\* never under both: nothing is counted twice across the upgrade.
THEOREM CountedOnceAlways == Spec => []CountedOnce
<1>1. IInv => CountedOnce
  <2> SUFFICES ASSUME IInv, NEW c \in Clients, NEW k \in Keys
               PROVE  Cardinality({d \in StoredKey : server[d] # NoRow /\ d.key = k
                                                     /\ c \in server[d].from}) <= 1
    BY DEF CountedOnce
  <2> DEFINE only == [name |-> NameOf(c), key |-> k]
             rows == {d \in StoredKey : server[d] # NoRow /\ d.key = k /\ c \in server[d].from}
  <2>1. ASSUME NEW d \in rows
        PROVE  d = only
    <3>1. PICK e \in Clients : server[d].from = {e} /\ d.name = NameOf(e)
      BY <2>1 DEF IInv, RowsKnown
    <3>2. e = c
      BY <2>1, <3>1
    <3>3. QED
      BY <2>1, <3>1, <3>2 DEF StoredKey
  <2>2. rows \subseteq {only}
    BY <2>1
  <2> HIDE DEF only, rows
  <2>3. IsFiniteSet({only}) /\ Cardinality({only}) = 1
    BY FS_Singleton
  <2>4. Cardinality(rows) <= 1
    BY <2>2, <2>3, FS_Subset
  <2>5. QED
    BY <2>4 DEF rows
<1>2. QED
  BY <1>1, Invariance, PTL

\* What a client was told is stored stays in the store, at least as large,
\* whatever pushes, faults or stops come after (sync_push.go reads the answer).
THEOREM ConfirmedStaysStored == Spec => []ConfirmedStored
<1>1. IInv => ConfirmedStored
  BY DEF IInv, ConfirmedKnown
<1>2. QED
  BY <1>1, Invariance, PTL


-----------------------------------------------------------------------------
(***************************************************************************)
(* The limiter.  A window that is open holds its own grants, the first of  *)
(* them as old as itself; what was granted before it fell short of a whole *)
(* budget within its reach, since the first grant of the window before is  *)
(* out of it.                                                              *)
(***************************************************************************)

Of(b) == {g \in grants : g.by \in Sharing(b)}
Live(b) == {g \in Of(b) : g.ago <= windows[b].age}
Old(b) == {g \in Of(b) : g.ago > windows[b].age}

Closed(b) == windows[b] = NoWindow \/ windows[b].age = Window

\* Without an open window there was no grant this tick, and not a whole budget.
ClosedSound(b) ==
    /\ \A g \in Of(b) : g.ago # 0
    /\ Cardinality(Of(b)) < PerMinute

OpenSound(b) ==
    /\ Cardinality(Live(b)) = IF windows[b].count <= PerMinute THEN windows[b].count ELSE PerMinute
    /\ \A g \in Live(b) : g.nth <= windows[b].count
    /\ \E g \in Live(b) : g.ago = windows[b].age
    /\ Cardinality(Old(b)) < PerMinute

LimiterInv ==
    /\ LimiterTypeOK /\ IsFiniteSet(grants)
    /\ \A b \in Buckets : IF Closed(b) THEN ClosedSound(b) ELSE OpenSound(b)
    /\ RunawayIsolated

\* Grants a tick older.
Aged(G) == {[g EXCEPT !.ago = @ + 1] : g \in G}
Aging(G) == {h \in G : h.ago + 1 \in Ages}

\* A caller draws on one budget.
LEMMA OneBudget ==
    \A c \in Callers : RateKey(c) \in Buckets /\ \A b \in Buckets : c \in Sharing(b) <=> b = RateKey(c)
BY LimiterAssumption DEF RateKey, Buckets, Sharing, Callers

\* Grants that age together stay as many.
LEMMA AgedAlike ==
    ASSUME NEW G \in SUBSET Grant, IsFiniteSet(G)
    PROVE  IsFiniteSet(Aged(G)) /\ Cardinality(Aged(G)) = Cardinality(G)
<1> DEFINE f == [g \in G |-> [g EXCEPT !.ago = @ + 1]]
<1>1. f \in Surjection(G, Aged(G))
  BY DEF Surjection, Aged
<1>2. f \in Injection(G, Aged(G))
  <2>1. ASSUME NEW g \in G, NEW h \in G, f[g] = f[h] PROVE g = h
    <3>1. /\ g.ago \in Int /\ h.ago \in Int
          /\ g = [by |-> g.by, ago |-> g.ago, nth |-> g.nth]
          /\ h = [by |-> h.by, ago |-> h.ago, nth |-> h.nth]
      BY LimiterAssumption DEF Grant, Ages
    <3>2. f[g] = [by |-> g.by, ago |-> g.ago + 1, nth |-> g.nth]
      BY <3>1
    <3>3. f[h] = [by |-> h.by, ago |-> h.ago + 1, nth |-> h.nth]
      BY <3>1
    <3>4. g.by = h.by /\ g.ago + 1 = h.ago + 1 /\ g.nth = h.nth
      BY <2>1, <3>2, <3>3
    <3> QED BY <3>1, <3>4
  <2> QED BY <1>1, <2>1 DEF Injection, IsInjective, Surjection
<1> HIDE DEF f
<1> QED BY <1>1, <1>2, FS_Surjection

\* What is known of the grants of one budget.
LEMMA GrantsKnown ==
    ASSUME LimiterTypeOK, IsFiniteSet(grants), NEW b \in Buckets
    PROVE  /\ Of(b) \subseteq grants /\ IsFiniteSet(Of(b)) /\ Cardinality(Of(b)) \in Nat
           /\ Live(b) \subseteq Of(b) /\ IsFiniteSet(Live(b)) /\ Cardinality(Live(b)) \in Nat
           /\ Old(b) \subseteq Of(b) /\ IsFiniteSet(Old(b)) /\ Cardinality(Old(b)) \in Nat
           /\ \A g \in Of(b) : /\ g \in Grant /\ g.ago \in Nat /\ g.ago < Window /\ g.nth \in Nat /\ g.nth > 0
                               /\ RateKey(g.by) = b
           /\ ~Closed(b) => windows[b].age \in Nat /\ windows[b].age < Window
                            /\ windows[b].count \in 1 .. PerMinute + 1
<1>1. Of(b) \in SUBSET grants /\ Live(b) \in SUBSET grants /\ Old(b) \in SUBSET grants
  BY DEF Of, Live, Old
<1>2. /\ IsFiniteSet(Of(b)) /\ Cardinality(Of(b)) \in Nat
      /\ IsFiniteSet(Live(b)) /\ Cardinality(Live(b)) \in Nat
      /\ IsFiniteSet(Old(b)) /\ Cardinality(Old(b)) \in Nat
  BY <1>1, FS_Subset, FS_CardinalityType
<1>3. \A g \in Of(b) : /\ g \in Grant /\ g.ago \in Nat /\ g.ago < Window /\ g.nth \in Nat /\ g.nth > 0
                       /\ RateKey(g.by) = b
  BY OneBudget, LimiterAssumption DEF LimiterTypeOK, Grant, Ages, Of
<1>4. ~Closed(b) => windows[b].age \in Nat /\ windows[b].age < Window
                    /\ windows[b].count \in 1 .. PerMinute + 1
  BY LimiterAssumption DEF Closed, LimiterTypeOK
<1> QED BY <1>1, <1>2, <1>3, <1>4 DEF Live, Old


\* What a tick makes of a grant.
LEMMA AgedGrant ==
    ASSUME NEW G \in SUBSET Grant
    PROVE  \A h \in Aged(Aging(G)) : \E g \in G :
             /\ h.by = g.by /\ h.ago = g.ago + 1 /\ h.nth = g.nth /\ h \in Grant
             /\ g.ago \in Nat /\ g \in Aging(G)
<1> TAKE h \in Aged(Aging(G))
<1>1. PICK g \in G : g.ago + 1 \in Ages /\ h = [g EXCEPT !.ago = @ + 1]
  BY DEF Aged, Aging
<1>2. g \in Grant /\ g.ago \in Nat
  BY LimiterAssumption DEF Grant, Ages
<1>3. h = [by |-> g.by, ago |-> g.ago + 1, nth |-> g.nth]
  BY <1>1, <1>2 DEF Grant
<1>4. h \in Grant
  BY <1>1, <1>2, <1>3 DEF Grant
<1> QED BY <1>1, <1>2, <1>3, <1>4 DEF Aging

\* Time passes: what a window loses to the past includes its first grant.
LEMMA TickKeeps ==
    ASSUME LimiterInv, Tick
    PROVE  LimiterInv'
<1>0. LimiterTypeOK /\ IsFiniteSet(grants) /\ grants \in SUBSET Grant /\ grants' = Aged(Aging(grants))
  BY DEF LimiterInv, LimiterTypeOK, Tick, Aged, Aging
<1>1. IsFiniteSet(grants') /\ grants' \subseteq Grant
  <2>1. Aging(grants) \in SUBSET grants
    BY DEF Aging
  <2>2. IsFiniteSet(Aging(grants)) /\ Aging(grants) \in SUBSET Grant
    BY <1>0, <2>1, FS_Subset
  <2> QED BY <1>0, <2>2, AgedAlike, AgedGrant
<1>2. LimiterTypeOK'
  <2>1. \A b \in Buckets : windows'[b] \in [age : 0 .. Window, count : 1 .. PerMinute + 1] \cup {NoWindow}
    <3> TAKE b \in Buckets
    <3>1. windows[b] \in [age : 0 .. Window, count : 1 .. PerMinute + 1] \cup {NoWindow}
      BY <1>0 DEF LimiterTypeOK
    <3>2. CASE windows[b] = NoWindow \/ windows[b].age = Window
      BY <3>1, <3>2 DEF Tick
    <3>3. CASE ~(windows[b] = NoWindow \/ windows[b].age = Window)
      <4>1. windows'[b] = [windows[b] EXCEPT !.age = @ + 1]
        BY <3>3 DEF Tick
      <4> QED BY <3>1, <3>3, <4>1, LimiterAssumption
    <3> QED BY <3>2, <3>3
  <2>2. windows' = [b \in Buckets |-> windows'[b]]
    BY DEF Tick
  <2> QED BY <1>1, <2>1, <2>2 DEF LimiterTypeOK, Tick
<1>3. ASSUME NEW b \in Buckets
      PROVE  /\ Of(b)' = Aged(Aging(Of(b)))
             /\ Of(b) \in SUBSET Grant /\ Aging(Of(b)) \in SUBSET Of(b)
             /\ \A S \in SUBSET Of(b) : IsFiniteSet(S) /\ Cardinality(Aged(S)) = Cardinality(S)
             /\ \A h \in Of(b)' : h.ago > 0
  <2>1. Of(b) \in SUBSET Grant /\ Aging(Of(b)) \in SUBSET Of(b) /\ IsFiniteSet(Of(b))
    BY <1>0, GrantsKnown DEF Aging
  <2>2. \A S \in SUBSET Of(b) : IsFiniteSet(S) /\ Cardinality(Aged(S)) = Cardinality(S)
    BY <2>1, FS_Subset, AgedAlike
  <2>3. Of(b)' = {h \in Aged(Aging(grants)) : h.by \in Sharing(b)}
    BY <1>0 DEF Of
  <2>4. Of(b)' = Aged(Aging(Of(b)))
    <3>1. \A g \in grants : [g EXCEPT !.ago = @ + 1].by = g.by
      BY <1>0 DEF Grant
    <3> QED BY <2>3, <3>1 DEF Aged, Aging, Of
  <2>5. \A h \in Of(b)' : h.ago > 0
    BY <2>1, <2>4, AgedGrant
  <2> QED BY <2>1, <2>2, <2>4, <2>5
<1>4. ASSUME NEW b \in Buckets
      PROVE  IF Closed(b)' THEN ClosedSound(b)' ELSE OpenSound(b)'
  <2>0. /\ Of(b) \subseteq grants /\ IsFiniteSet(Of(b)) /\ Cardinality(Of(b)) \in Nat
        /\ Live(b) \subseteq Of(b) /\ IsFiniteSet(Live(b)) /\ Cardinality(Live(b)) \in Nat
        /\ Old(b) \subseteq Of(b) /\ IsFiniteSet(Old(b)) /\ Cardinality(Old(b)) \in Nat
        /\ \A g \in Of(b) : g \in Grant /\ g.ago \in Nat /\ g.ago < Window /\ g.nth \in Nat
        /\ PerMinute \in Nat \ {0} /\ Window \in Nat \ {0}
    BY <1>0, GrantsKnown, LimiterAssumption
  <2>1. CASE Closed(b)
    <3>1. Closed(b)'
      BY <2>1 DEF Closed, Tick
    <3>2. Cardinality(Aging(Of(b))) <= Cardinality(Of(b)) /\ Cardinality(Aging(Of(b))) \in Nat
      BY <1>3, <2>0, FS_Subset, FS_CardinalityType
    <3>3. Cardinality(Of(b)') < PerMinute
      <4>1. Cardinality(Of(b)) < PerMinute
        BY <2>1 DEF LimiterInv, ClosedSound
      <4>2. Cardinality(Of(b)') = Cardinality(Aging(Of(b)))
        BY <1>3
      <4> QED BY <2>0, <3>2, <4>1, <4>2
    <3>4. \A g \in Of(b)' : g.ago # 0
      BY <1>3
    <3> QED BY <3>1, <3>3, <3>4 DEF ClosedSound
  <2>2. ASSUME ~Closed(b)
        PROVE  /\ windows[b].age \in Nat /\ windows[b].age < Window /\ OpenSound(b)
               /\ windows[b].count \in 1 .. PerMinute + 1
               /\ windows'[b].age = windows[b].age + 1 /\ windows'[b].count = windows[b].count
               /\ windows'[b] # NoWindow
    <3>1. /\ windows[b].age \in Nat /\ windows[b].age < Window /\ windows[b].count \in 1 .. PerMinute + 1
      BY <1>0, <2>2, GrantsKnown
    <3>2. windows[b] \in [age : 0 .. Window, count : 1 .. PerMinute + 1]
      BY <1>0, <2>2 DEF LimiterTypeOK, Closed
    <3>3. windows'[b] = [windows[b] EXCEPT !.age = @ + 1]
      BY <2>2 DEF Closed, Tick
    <3>4. windows'[b] \in [age : Nat, count : Nat]
      BY <3>2, <3>3, LimiterAssumption
    <3> QED BY <2>2, <3>1, <3>2, <3>3, <3>4, LimiterAssumption DEF LimiterInv
  <2>3. CASE ~Closed(b) /\ windows[b].age + 1 = Window
    <3>1. Closed(b)'
      BY <2>2, <2>3 DEF Closed
    <3>2. PICK first \in Live(b) : first.ago = windows[b].age
      BY <2>2, <2>3 DEF OpenSound
    <3>3. Aging(Of(b)) \subseteq Live(b) \ {first}
      <4> SUFFICES ASSUME NEW g \in Of(b), g.ago + 1 \in Ages PROVE g \in Live(b) /\ g # first
        BY DEF Aging
      <4>1. g.ago \in Nat /\ g.ago + 1 <= Window - 1
        BY <2>0 DEF Ages
      <4> QED BY <2>0, <2>2, <2>3, <3>2, <4>1 DEF Live
    <3>4. /\ IsFiniteSet(Live(b) \ {first})
          /\ Cardinality(Live(b) \ {first}) = Cardinality(Live(b)) - 1
      BY <2>0, <3>2, FS_RemoveElement
    <3>5. /\ Cardinality(Aging(Of(b))) \in Nat
          /\ Cardinality(Aging(Of(b))) <= Cardinality(Live(b)) - 1
      BY <3>3, <3>4, FS_Subset, FS_CardinalityType
    <3>6. Cardinality(Live(b)) <= PerMinute
      BY <2>0, <2>2, <2>3 DEF OpenSound
    <3>7. Cardinality(Of(b)') < PerMinute
      <4>1. Cardinality(Of(b)') = Cardinality(Aging(Of(b)))
        BY <1>3
      <4> QED BY <2>0, <3>5, <3>6, <4>1
    <3>8. \A g \in Of(b)' : g.ago # 0
      BY <1>3
    <3> QED BY <3>1, <3>7, <3>8 DEF ClosedSound
  <2>4. CASE ~Closed(b) /\ windows[b].age + 1 # Window
    <3>0. ~Closed(b)'
      BY <2>2, <2>4 DEF Closed
    <3>1. Live(b)' = Aged(Live(b))
      <4>1. \A g \in Live(b) : g \in Aging(Of(b))
        <5> TAKE g \in Live(b)
        <5>1. g \in Of(b) /\ g.ago <= windows[b].age /\ g.ago \in Nat
          BY <2>0 DEF Live
        <5>2. g.ago + 1 \in Ages
          BY <2>0, <2>2, <2>4, <5>1 DEF Ages
        <5> QED BY <5>1, <5>2 DEF Aging
      <4>2. \A g \in Of(b) : /\ [g EXCEPT !.ago = @ + 1].ago = g.ago + 1
                             /\ g.ago + 1 <= windows[b].age + 1 <=> g.ago <= windows[b].age
        BY <2>0, <2>2, <2>4 DEF Grant
      <4>3. Live(b)' = {h \in Aged(Aging(Of(b))) : h.ago <= windows[b].age + 1}
        BY <1>3, <2>2, <2>4 DEF Live
      <4> QED BY <4>1, <4>2, <4>3 DEF Aged, Aging, Live
    <3>2. Old(b)' = Aged(Aging(Old(b)))
      <4>1. \A g \in Of(b) : /\ [g EXCEPT !.ago = @ + 1].ago = g.ago + 1
                             /\ g.ago + 1 > windows[b].age + 1 <=> g.ago > windows[b].age
        BY <2>0, <2>2, <2>4 DEF Grant
      <4>2. Old(b)' = {h \in Aged(Aging(Of(b))) : h.ago > windows[b].age + 1}
        BY <1>3, <2>2, <2>4 DEF Old
      <4> QED BY <4>1, <4>2 DEF Aged, Aging, Old
    <3>3. Cardinality(Live(b)') = Cardinality(Live(b))
      BY <1>3, <2>0, <3>1
    <3>4. Cardinality(Old(b)') < PerMinute
      <4>1. Aging(Old(b)) \in SUBSET Old(b)
        BY DEF Aging
      <4>2. Cardinality(Aging(Old(b))) <= Cardinality(Old(b)) /\ Cardinality(Aging(Old(b))) \in Nat
        BY <2>0, <4>1, FS_Subset, FS_CardinalityType
      <4>3. Cardinality(Old(b)) < PerMinute
        BY <2>2, <2>4 DEF OpenSound
      <4>4. Cardinality(Old(b)') = Cardinality(Aging(Old(b)))
        BY <1>3, <2>0, <3>2, <4>1
      <4> QED BY <2>0, <4>2, <4>3, <4>4
    <3>5. \A h \in Live(b)' : h.nth <= windows'[b].count
      <4> SUFFICES ASSUME NEW g \in Live(b) PROVE [g EXCEPT !.ago = @ + 1].nth <= windows'[b].count
        BY <3>1 DEF Aged
      <4>1. [g EXCEPT !.ago = @ + 1].nth = g.nth
        BY <2>0 DEF Grant
      <4> QED BY <2>2, <2>4, <4>1 DEF OpenSound
    <3>6. \E h \in Live(b)' : h.ago = windows'[b].age
      <4>1. PICK g \in Live(b) : g.ago = windows[b].age
        BY <2>2, <2>4 DEF OpenSound
      <4>2. [g EXCEPT !.ago = @ + 1] \in Live(b)'
        BY <3>1 DEF Aged
      <4>3. [g EXCEPT !.ago = @ + 1].ago = g.ago + 1
        BY <2>0 DEF Grant
      <4> QED BY <2>2, <2>4, <4>1, <4>2, <4>3
    <3>7. OpenSound(b)'
      BY <2>2, <2>4, <3>3, <3>4, <3>5, <3>6 DEF OpenSound
    <3> QED BY <3>0, <3>7
  <2> QED BY <2>1, <2>3, <2>4
<1>5. RunawayIsolated'
  BY DEF RunawayIsolated, Tick
<1> QED BY <1>1, <1>2, <1>4, <1>5 DEF LimiterInv

\* A request counts in its own budget's window, and is granted while that has
\* room.
LEMMA RequestKeeps ==
    ASSUME LimiterInv, NEW caller \in Callers, Request(caller)
    PROVE  LimiterInv'
<1> DEFINE mine == RateKey(caller)
           w == Evicted[mine]
           opened == w = NoWindow
           count == IF opened THEN 1 ELSE w.count + 1
           allowed == opened \/ count <= PerMinute
           new == [by |-> caller, ago |-> 0, nth |-> count]
<1>0. /\ LimiterTypeOK /\ IsFiniteSet(grants) /\ mine \in Buckets
      /\ PerMinute \in Nat \ {0} /\ Window \in Nat \ {0}
  BY OneBudget, LimiterAssumption DEF LimiterInv
<1>1. /\ windows' = [Evicted EXCEPT ![mine] = [age |-> IF opened THEN 0 ELSE w.age,
                                               count |-> IF count > PerMinute THEN PerMinute + 1 ELSE count]]
      /\ grants' = IF allowed THEN grants \cup {new} ELSE grants
      /\ last' = [caller |-> caller, allowed |-> allowed]
  BY DEF Request
<1>2. /\ Evicted \in [Buckets -> [age : 0 .. Window, count : 1 .. PerMinute + 1] \cup {NoWindow}]
      /\ \A b \in Buckets : /\ Closed(b) <=> Evicted[b] = NoWindow
                            /\ ~Closed(b) => Evicted[b] = windows[b]
  <2>1. \A b \in Buckets : windows[b] \in [age : 0 .. Window, count : 1 .. PerMinute + 1] \cup {NoWindow}
    BY <1>0 DEF LimiterTypeOK
  <2>2. \A b \in Buckets : /\ Closed(b) => Evicted[b] = NoWindow
                           /\ ~Closed(b) => Evicted[b] = windows[b] /\ windows[b] # NoWindow
    BY <1>0, <2>1 DEF Evicted, Expired, Closed
  <2> QED BY <2>1, <2>2 DEF Evicted
<1>3. opened <=> Closed(mine)
  BY <1>0, <1>2
<1>4. ~opened => w = windows[mine] /\ w.count \in 1 .. PerMinute + 1 /\ w.age \in Nat /\ w.age < Window
  BY <1>0, <1>2, <1>3, GrantsKnown
<1>5. count \in Nat /\ count > 0 /\ (allowed => count \in 1 .. PerMinute)
  BY <1>0, <1>4
<1>6. new \in [by : {caller}, ago : {0}, nth : {count}] /\ (allowed => new \in Grant)
  BY <1>0, <1>5 DEF Grant, Ages
<1> DEFINE mineThen == [age |-> IF opened THEN 0 ELSE w.age,
                        count |-> IF count > PerMinute THEN PerMinute + 1 ELSE count]
<1>7. /\ mineThen \in [age : 0 .. Window, count : 1 .. PerMinute + 1]
      /\ windows'[mine] = mineThen /\ windows'[mine] # NoWindow
      /\ windows'[mine].age = (IF opened THEN 0 ELSE w.age)
      /\ windows'[mine].count = (IF count > PerMinute THEN PerMinute + 1 ELSE count)
      /\ \A b \in Buckets : b # mine => windows'[b] = Evicted[b]
      /\ windows' \in [Buckets -> [age : 0 .. Window, count : 1 .. PerMinute + 1] \cup {NoWindow}]
  <2>1. mineThen \in [age : 0 .. Window, count : 1 .. PerMinute + 1]
    BY <1>0, <1>4, <1>5
  <2>2. mineThen # NoWindow
    <3>1. mineThen \in [age : Nat, count : Nat]
      BY <1>0, <2>1
    <3> QED BY <3>1, LimiterAssumption
  <2> QED BY <1>0, <1>1, <1>2, <2>1, <2>2
<1> HIDE DEF mineThen
<1>8. LimiterTypeOK' /\ IsFiniteSet(grants')
  <2>1. grants' \subseteq Grant
    BY <1>0, <1>1, <1>6 DEF LimiterTypeOK
  <2>2. IsFiniteSet(grants')
    BY <1>0, <1>1, FS_AddElement
  <2>3. allowed \in BOOLEAN
    BY <1>0, <1>5
  <2>4. last' \in [caller : Callers, allowed : BOOLEAN] \cup {NoRequest}
    BY <1>1, <2>3
  <2> QED BY <1>7, <2>1, <2>2, <2>4 DEF LimiterTypeOK
<1>9. ~Closed(mine)'
  BY <1>0, <1>4, <1>7 DEF Closed
<1>10. Of(mine)' = IF allowed THEN Of(mine) \cup {new} ELSE Of(mine)
  BY <1>0, <1>1, <1>6, OneBudget DEF Of
<1>11. /\ IsFiniteSet(Live(mine)) /\ Cardinality(Live(mine)) \in Nat
       /\ \A g \in Of(mine) : g.ago \in Nat
       /\ Live(mine) \subseteq Of(mine)
  BY <1>0, GrantsKnown
<1>12. ASSUME opened PROVE OpenSound(mine)' /\ RunawayIsolated'
  <2>1. ClosedSound(mine) /\ allowed /\ count = 1
    BY <1>0, <1>3, <1>12 DEF LimiterInv
  <2>2. windows'[mine].age = 0 /\ windows'[mine].count = 1
    BY <1>0, <1>7, <1>12
  <2>3. Live(mine)' = {new}
    <3>1. \A g \in Of(mine) : ~(g.ago <= 0)
      BY <1>11, <2>1 DEF ClosedSound
    <3>2. Live(mine)' = {g \in Of(mine) \cup {new} : g.ago <= 0}
      BY <1>10, <2>1, <2>2 DEF Live
    <3>3. new.ago = 0
      OBVIOUS
    <3> HIDE DEF new
    <3> QED BY <3>1, <3>2, <3>3
  <2>4. Old(mine)' = Of(mine)
    <3>1. \A g \in Of(mine) : g.ago > 0
      BY <1>11, <2>1 DEF ClosedSound
    <3>2. Old(mine)' = {g \in Of(mine) \cup {new} : g.ago > 0}
      BY <1>10, <2>1, <2>2 DEF Old
    <3>3. ~(new.ago > 0)
      OBVIOUS
    <3> HIDE DEF new
    <3> QED BY <3>1, <3>2, <3>3
  <2>5. Cardinality({new}) = 1
    BY FS_Singleton
  <2>6. new.nth = 1 /\ new.ago = 0
    BY <2>1
  <2>7. OpenSound(mine)'
    <3>1. Cardinality(Live(mine)') = IF windows'[mine].count <= PerMinute THEN windows'[mine].count ELSE PerMinute
      BY <1>0, <2>2, <2>3, <2>5
    <3>2. Cardinality(Old(mine)') < PerMinute
      BY <2>1, <2>4 DEF ClosedSound
    <3>3. \A g \in Live(mine)' : g.nth <= windows'[mine].count
      BY <2>2, <2>3, <2>6
    <3>4. \E g \in Live(mine)' : g.ago = windows'[mine].age
      BY <2>2, <2>3, <2>6
    <3> QED BY <3>1, <3>2, <3>3, <3>4 DEF OpenSound
  <2>8. RunawayIsolated'
    BY <1>1, <2>1 DEF RunawayIsolated
  <2> QED BY <2>7, <2>8
<1>13. ASSUME ~opened, allowed PROVE OpenSound(mine)' /\ RunawayIsolated'
  <2>1. OpenSound(mine) /\ w = windows[mine] /\ count = windows[mine].count + 1 /\ count <= PerMinute
    BY <1>0, <1>3, <1>4, <1>13 DEF LimiterInv
  <2>2. windows'[mine].age = windows[mine].age /\ windows'[mine].count = count
    BY <1>0, <1>5, <1>7, <1>13, <2>1
  <2>3. /\ windows[mine].age \in Nat /\ windows[mine].count \in Nat
    BY <1>0, <1>4, <1>13, <2>1
  <2>4. new.ago = 0 /\ new.nth = count
    OBVIOUS
  <2> HIDE DEF new
  <2>5. Live(mine)' = Live(mine) \cup {new}
    <3>1. Live(mine)' = {g \in Of(mine) \cup {new} : g.ago <= windows[mine].age}
      BY <1>10, <1>13, <2>2 DEF Live
    <3> QED BY <2>3, <2>4, <3>1 DEF Live
  <2>6. Old(mine)' = Old(mine)
    <3>1. Old(mine)' = {g \in Of(mine) \cup {new} : g.ago > windows[mine].age}
      BY <1>10, <1>13, <2>2 DEF Old
    <3> QED BY <2>3, <2>4, <3>1 DEF Old
  <2>7. new \notin Live(mine)
    <3>1. \A g \in Live(mine) : g.nth <= windows[mine].count
      BY <2>1 DEF OpenSound
    <3> QED BY <2>1, <2>3, <2>4, <3>1
  <2>8. Cardinality(Live(mine) \cup {new}) = Cardinality(Live(mine)) + 1
    BY <1>11, <2>7, FS_AddElement
  <2>9. OpenSound(mine)'
    <3>1. Cardinality(Live(mine)') = IF windows'[mine].count <= PerMinute THEN windows'[mine].count ELSE PerMinute
      <4>1. Cardinality(Live(mine)) = windows[mine].count
        BY <1>0, <2>1, <2>3 DEF OpenSound
      <4> QED BY <2>1, <2>2, <2>5, <2>8, <4>1
    <3>2. Cardinality(Old(mine)') < PerMinute
      BY <2>1, <2>6 DEF OpenSound
    <3>3. \A g \in Live(mine)' : g.nth <= windows'[mine].count
      <4> TAKE g \in Live(mine)'
      <4>1. CASE g = new
        BY <1>5, <2>2, <2>4, <4>1
      <4>2. CASE g \in Live(mine)
        <5>1. g.nth <= windows[mine].count /\ g.nth \in Nat
          BY <1>0, <2>1, <4>2, GrantsKnown DEF OpenSound
        <5> QED BY <2>1, <2>2, <2>3, <5>1
      <4> QED BY <2>5, <4>1, <4>2
    <3>4. \E g \in Live(mine)' : g.ago = windows'[mine].age
      BY <2>1, <2>2, <2>5 DEF OpenSound
    <3> QED BY <3>1, <3>2, <3>3, <3>4 DEF OpenSound
  <2>10. RunawayIsolated'
    BY <1>1, <1>13 DEF RunawayIsolated
  <2> QED BY <2>9, <2>10
<1>14. ASSUME ~opened, ~allowed PROVE OpenSound(mine)' /\ RunawayIsolated'
  <2>1. OpenSound(mine) /\ w = windows[mine] /\ count = windows[mine].count + 1 /\ count > PerMinute
    BY <1>0, <1>3, <1>4, <1>5, <1>14 DEF LimiterInv
  <2>2. windows'[mine].age = windows[mine].age /\ windows'[mine].count = PerMinute + 1
    BY <1>0, <1>7, <1>14, <2>1
  <2>3. windows[mine].count \in Nat /\ grants' = grants
    BY <1>0, <1>1, <1>4, <1>14, <2>1
  <2>4. Of(mine)' = Of(mine) /\ Live(mine)' = Live(mine) /\ Old(mine)' = Old(mine)
    BY <2>2, <2>3 DEF Of, Live, Old
  <2>5. Cardinality(Live(mine)) = PerMinute
    BY <1>0, <2>1, <2>3 DEF OpenSound
  <2>6. OpenSound(mine)'
    <3>1. Cardinality(Live(mine)') = IF windows'[mine].count <= PerMinute THEN windows'[mine].count ELSE PerMinute
      BY <1>0, <2>2, <2>4, <2>5
    <3>2. Cardinality(Old(mine)') < PerMinute
      BY <2>1, <2>4 DEF OpenSound
    <3>3. \A g \in Live(mine)' : g.nth <= windows'[mine].count
      <4> TAKE g \in Live(mine)'
      <4>1. g.nth <= windows[mine].count /\ g.nth \in Nat
        BY <1>0, <2>1, <2>4, GrantsKnown DEF OpenSound
      <4>2. windows[mine].count <= PerMinute + 1
        BY <1>4, <1>14, <2>1
      <4> QED BY <1>0, <2>2, <2>3, <4>1, <4>2
    <3>4. \E g \in Live(mine)' : g.ago = windows'[mine].age
      BY <2>1, <2>2, <2>4 DEF OpenSound
    <3> QED BY <3>1, <3>2, <3>3, <3>4 DEF OpenSound
  <2>7. RunawayIsolated'
    <3> SUFFICES ASSUME caller \in Secrets
                 PROVE  Cardinality({g \in grants : g.by \in {caller}}) >= PerMinute
      BY <1>1, <2>3 DEF RunawayIsolated, GrantedTo
    <3> DEFINE own == {g \in grants : g.by \in {caller}}
    <3>1. Live(mine) \subseteq own
      <4>1. Sharing(mine) = {caller}
        BY LimiterAssumption DEF Sharing, RateKey, Callers
      <4> QED BY <4>1 DEF Live, Of
    <3>2. IsFiniteSet(own) /\ Cardinality(own) \in Nat
      BY <1>0, FS_Subset, FS_CardinalityType
    <3> HIDE DEF own
    <3>3. Cardinality(Live(mine)) <= Cardinality(own)
      BY <3>1, <3>2, FS_Subset
    <3>4. Cardinality(own) >= PerMinute
      BY <1>0, <2>5, <3>2, <3>3
    <3> QED BY <3>4 DEF own
  <2> QED BY <2>6, <2>7
<1>15. ASSUME NEW b \in Buckets, b # mine
       PROVE  IF Closed(b)' THEN ClosedSound(b)' ELSE OpenSound(b)'
  <2>1. Of(b)' = Of(b)
    BY <1>0, <1>1, <1>6, <1>15, OneBudget DEF Of
  <2>2. windows'[b] = Evicted[b]
    BY <1>7, <1>15
  <2>3. CASE Closed(b)
    <3>1. Closed(b)'
      BY <1>2, <2>2, <2>3 DEF Closed
    <3>2. ClosedSound(b)'
      BY <2>1, <2>3 DEF LimiterInv, ClosedSound
    <3> QED BY <3>1, <3>2
  <2>4. CASE ~Closed(b)
    <3>1. windows'[b] = windows[b]
      BY <1>2, <2>2, <2>4
    <3>2. ~Closed(b)'
      BY <2>4, <3>1 DEF Closed
    <3>3. Live(b)' = Live(b) /\ Old(b)' = Old(b)
      BY <2>1, <3>1 DEF Live, Old
    <3>4. OpenSound(b)'
      BY <2>4, <3>1, <3>3 DEF LimiterInv, OpenSound
    <3> QED BY <3>2, <3>4
  <2> QED BY <2>3, <2>4
<1>16. OpenSound(mine)' /\ RunawayIsolated'
  BY <1>12, <1>13, <1>14
<1>17. \A b \in Buckets : IF Closed(b)' THEN ClosedSound(b)' ELSE OpenSound(b)'
  BY <1>9, <1>15, <1>16
<1> QED BY <1>8, <1>16, <1>17 DEF LimiterInv

\* Every reachable state of the limiter satisfies its invariant.
THEOREM LimiterInvariance == LimiterSpec => []LimiterInv
<1>1. LimiterInit => LimiterInv
  <2> SUFFICES ASSUME LimiterInit PROVE LimiterInv
    OBVIOUS
  <2>1. LimiterTypeOK /\ RunawayIsolated
    BY DEF LimiterInit, LimiterTypeOK, RunawayIsolated
  <2>2. IsFiniteSet(grants)
    BY FS_EmptySet DEF LimiterInit
  <2>3. \A b \in Buckets : Closed(b) /\ ClosedSound(b)
    <3> TAKE b \in Buckets
    <3>1. Of(b) = {}
      BY DEF Of, LimiterInit
    <3>2. Cardinality(Of(b)) < PerMinute
      BY <3>1, FS_EmptySet, LimiterAssumption
    <3> QED BY <3>1, <3>2 DEF Closed, ClosedSound, LimiterInit
  <2> QED BY <2>1, <2>2, <2>3 DEF LimiterInv
<1>2. LimiterInv /\ [LimiterNext]_limiterVars => LimiterInv'
  <2> SUFFICES ASSUME LimiterInv, [LimiterNext]_limiterVars PROVE LimiterInv'
    OBVIOUS
  <2>1. CASE Tick
    BY <2>1, TickKeeps
  <2>2. CASE \E c \in Callers : Request(c)
    BY <2>2, RequestKeeps
  <2>3. CASE UNCHANGED limiterVars
    <3>0. UNCHANGED <<windows, grants, last>>
      BY <2>3 DEF limiterVars
    <3>1. LimiterTypeOK' /\ RunawayIsolated' /\ IsFiniteSet(grants')
      BY <3>0 DEF LimiterInv, LimiterTypeOK, RunawayIsolated, GrantedTo
    <3>2. \A b \in Buckets : /\ Of(b)' = Of(b) /\ Live(b)' = Live(b) /\ Old(b)' = Old(b)
                             /\ Closed(b)' <=> Closed(b)
      BY <3>0 DEF Of, Live, Old, Closed
    <3>3. \A b \in Buckets : (ClosedSound(b)' <=> ClosedSound(b)) /\ (OpenSound(b)' <=> OpenSound(b))
      BY <3>0, <3>2 DEF ClosedSound, OpenSound
    <3> QED BY <3>1, <3>2, <3>3 DEF LimiterInv
  <2> QED BY <2>1, <2>2, <2>3 DEF LimiterNext
<1> QED BY <1>1, <1>2, PTL DEF LimiterSpec

\* Whatever traffic there is, a secret is refused only after its own requests
\* filled its budget, and no secret, nor all strangers together, is granted two
\* budgets in any span of a window (internal/server/ratelimit.go: allow, rateKey).
THEOREM CallersStayApart == LimiterSpec => []CallersApart
<1>1. LimiterInv => CallersApart
  <2> SUFFICES ASSUME LimiterInv, NEW b \in Buckets
               PROVE  Cardinality({g \in grants : g.by \in Sharing(b)}) < 2 * PerMinute
    BY DEF CallersApart, LimiterInv, TrafficBounded, GrantedTo
  <2>1. LimiterTypeOK /\ IsFiniteSet(grants) /\ PerMinute \in Nat \ {0}
    BY LimiterAssumption DEF LimiterInv
  <2>2. /\ Cardinality(Of(b)) \in Nat /\ IsFiniteSet(Of(b))
        /\ IsFiniteSet(Live(b)) /\ Cardinality(Live(b)) \in Nat
        /\ IsFiniteSet(Old(b)) /\ Cardinality(Old(b)) \in Nat
        /\ \A g \in Of(b) : g.ago \in Nat
        /\ Live(b) \subseteq Of(b) /\ Old(b) \subseteq Of(b)
    BY <2>1, GrantsKnown
  <2>3. Cardinality(Of(b)) < 2 * PerMinute
    <3>1. CASE Closed(b)
      BY <2>1, <2>2, <3>1 DEF LimiterInv, ClosedSound
    <3>2. CASE ~Closed(b)
      <4>1. windows[b].age \in Nat
        BY <2>1, <3>2, GrantsKnown
      <4>2. Of(b) = Live(b) \cup Old(b)
        BY <2>2, <4>1 DEF Live, Old
      <4>3. /\ Cardinality(Of(b)) = Cardinality(Live(b)) + Cardinality(Old(b)) - Cardinality(Live(b) \cap Old(b))
            /\ Cardinality(Live(b) \cap Old(b)) \in Nat
        <5>1. IsFiniteSet(Live(b) \cap Old(b)) /\ Cardinality(Live(b) \cap Old(b)) \in Nat
          <6>1. Live(b) \cap Old(b) \in SUBSET Live(b)
            OBVIOUS
          <6> QED BY <2>2, <6>1, FS_Subset, FS_CardinalityType
        <5> QED BY <2>2, <4>2, <5>1, FS_Union
      <4>4. Cardinality(Live(b)) <= PerMinute /\ Cardinality(Old(b)) < PerMinute
        BY <2>1, <2>2, <3>2 DEF LimiterInv, OpenSound
      <4> QED BY <2>1, <2>2, <4>3, <4>4
    <3> QED BY <3>1, <3>2
  <2> QED BY <2>3 DEF Of
<1> QED BY <1>1, LimiterInvariance, PTL
=============================================================================
