-------------------------------- MODULE Sync --------------------------------
(***************************************************************************)
(* Team sync: `assaio-agent sync` (internal/cli/sync.go, sync_push.go)     *)
(* exports a machine's rows and posts them; `assaio-agent serve`           *)
(* (internal/server) admits, validates and stores them under the member's  *)
(* name; `serve migrate-sync` (internal/store/sync_identity.go) once moves *)
(* a store of protocol 1 to keyed names.  Several syncs of one machine may *)
(* be in flight, answers and requests get lost, clients stop waiting, and  *)
(* the server stops and starts at any point.                               *)
(*                                                                         *)
(* How a local row came to hold what it holds is the subject of Restate:   *)
(* here it goes through the readings of a constant sequence.  How the      *)
(* server decides that a request is one too many is the subject of         *)
(* RateLimit: here it may refuse any request with 429.                     *)
(***************************************************************************)
EXTENDS Integers, Sequences, FiniteSets

CONSTANTS
    Clients,      \* machines that run `assaio-agent sync`
    Pushes,       \* bound: syncs in flight at a time
    ClientOf,     \* whose sync each of them is
    Keys,         \* dedupe keys, as the machines know them
    Aggregates,   \* keys "agent:<id>" among them
    Recent,       \* keys inside the shorter of the two --since windows in use
    Readings,     \* Readings[c][k]: what c's row for k holds, one after another
    Labels, NoName,
    Digests,      \* keyed member names of protocol 2
    OldNames,     \* member names of protocol 1
    Digest,       \* Digest[c]: what syncMemberDigest computes on c
    Secret,       \* Secret[c]: the bearer token c presents
    Config,       \* server.members: the secret of each configured digest
    OldName,      \* OldName[c]: the name c synced under in protocol 1
    Manifest,     \* the operator's map from old names to digests
    Legacy,       \* Legacy[c]: keys c had synced before the upgrade
    MaxCount,     \* bound: any count in a record
    MaxFaults,    \* bound: lost requests or answers, and server stops
    MaxForgets,   \* bound: local `clear --all`
    NoMember, NoRow, NoPush

Counts == 0..MaxCount
Names == OldNames \cup Digests

\* A local row, as Export reads it: the project is empty when the row has none
\* or lost it to a conflict.
Record ==
    [output : Counts, calls : Counts, project : Labels \cup {NoName},
     branch : BOOLEAN]

ASSUME ClientAssumption ==
    /\ ClientOf \in [Pushes -> Clients]
    /\ Aggregates \subseteq Keys /\ Recent \subseteq Keys
    /\ Legacy \in [Clients -> SUBSET Keys]
    /\ NoName \notin Labels /\ NoMember \notin Names

\* A row's vendor figures never go down (Restate!VendorFigures).
ASSUME ReadingAssumption ==
    \A c \in Clients, k \in Keys :
      /\ Readings[c][k] \in Seq(Record)
      /\ \A i, j \in DOMAIN Readings[c][k] :
           i <= j => Readings[c][k][i].output <= Readings[c][k][j].output
      /\ k \in Legacy[c] => Readings[c][k] # <<>>

\* Members.Validate, and names that two machines do not share.
ASSUME IdentityAssumption ==
    /\ OldNames \cap Digests = {}
    /\ Digest \in [Clients -> Digests] /\ DOMAIN Config \subseteq Digests
    /\ \A d, e \in DOMAIN Config : Config[d] = Config[e] => d = e
    /\ OldName \in [Clients -> OldNames] /\ Manifest \in [OldNames -> Digests]
    /\ \A c \in Clients : Manifest[OldName[c]] = Digest[c]
    /\ \A c, d \in Clients :
         OldName[c] = OldName[d] \/ Digest[c] = Digest[d] => c = d

ASSUME BoundsAssumption ==
    MaxCount \in Nat /\ MaxFaults \in Nat /\ MaxForgets \in Nat

VARIABLES
    local,      \* local[c][k]: which reading the row holds, 0 for no row
    push,       \* the syncs in flight
    server,     \* the central store's rows, by dedupe key
    version,    \* sync_protocol.version
    up,         \* is `serve` running?
    confirmed,  \* history: the highest output each client was told is stored
    faults, forgets

vars == <<local, push, server, version, up, confirmed, faults, forgets>>

\* The key a row is stored under: the member's name in front of the machine's
\* own key.
StoredKey == [name : Names, key : Keys]

ServerRow ==
    [member : Names, output : Counts, calls : Counts,
     project : Labels \cup {NoName}, branch : BOOLEAN,
     from : SUBSET Clients]      \* history: whose pushes made the row

Bodies == UNION {[ks -> Record] : ks \in SUBSET Keys}

Push ==
    [body : Bodies, at : {"sent", "admitted", "stored"}, waiting : BOOLEAN]

ASSUME SentinelAssumption == NoRow \notin ServerRow /\ NoPush \notin Push

TypeOK ==
    /\ local \in [Clients -> [Keys -> Nat]]
    /\ \A c \in Clients, k \in Keys : local[c][k] \in 0..Len(Readings[c][k])
    /\ push \in [Pushes -> Push \cup {NoPush}]
    /\ server \in [StoredKey -> ServerRow \cup {NoRow}]
    /\ version \in {1, 2} /\ up \in BOOLEAN
    /\ confirmed \in [Clients -> [Keys -> Counts]]
    /\ faults \in 0..MaxFaults /\ forgets \in 0..MaxForgets

\* What a protocol 1 server stored for c, under a name that is not keyed.
LegacyRow(c, k) ==
    LET r == Readings[c][k][1] IN
    [member |-> OldName[c], output |-> r.output, calls |-> r.calls,
     project |-> r.project, branch |-> r.branch, from |-> {c}]

\* Migration 0015: a store with member rows waits for its identity migration.
Init ==
    /\ local = [c \in Clients |-> [k \in Keys |-> IF k \in Legacy[c] THEN 1 ELSE 0]]
    /\ push = [p \in Pushes |-> NoPush]
    /\ server = [d \in StoredKey |->
                   IF \E c \in Clients : d.name = OldName[c] /\ d.key \in Legacy[c]
                   THEN LegacyRow(CHOOSE c \in Clients : d.name = OldName[c], d.key)
                   ELSE NoRow]
    /\ version = IF \A c \in Clients : Legacy[c] = {} THEN 2 ELSE 1
    /\ up = TRUE
    /\ confirmed = [c \in Clients |-> [k \in Keys |-> 0]]
    /\ faults = 0 /\ forgets = 0

-----------------------------------------------------------------------------
(* The machine.                                                            *)

\* Later backfills: the row moves on to a later reading.
Import(c, k) ==
    /\ \E r \in (local[c][k] + 1)..Len(Readings[c][k]) :
         local' = [local EXCEPT ![c][k] = r]
    /\ UNCHANGED <<push, server, version, up, confirmed, faults, forgets>>

\* A local clear is not a message to the server.
Forget(c) ==
    /\ forgets < MaxForgets /\ forgets' = forgets + 1
    /\ local' = [local EXCEPT ![c] = [k \in Keys |-> 0]]
    /\ UNCHANGED <<push, server, version, up, confirmed, faults>>

\* NewSyncRecordV2: the allowlist has no field for the branch.
Wire(r) == [r EXCEPT !.branch = FALSE]

\* Export and the POST.  A sync with nothing to send changes nothing.
Export(p) ==
    LET c == ClientOf[p] IN
    /\ push[p] = NoPush
    /\ \E since \in {Keys, Recent} :
         LET ks == {k \in since : local[c][k] > 0} IN
         /\ ks # {}
         /\ push' = [push EXCEPT ![p] =
              [body |-> [k \in ks |-> Wire(Readings[c][k][local[c][k]])],
               at |-> "sent", waiting |-> TRUE]]
    /\ UNCHANGED <<local, server, version, up, confirmed, faults, forgets>>

\* The client's timeout or a Ctrl-C: the request may be processed all the same.
StopWaiting(p) ==
    /\ push[p] # NoPush /\ push[p].waiting
    /\ push' = [push EXCEPT ![p].waiting = FALSE]
    /\ UNCHANGED <<local, server, version, up, confirmed, faults, forgets>>

-----------------------------------------------------------------------------
(* handleUsageV2.                                                          *)

Drop(p) ==
    /\ push' = [push EXCEPT ![p] = NoPush]
    /\ UNCHANGED <<local, server, version, up, confirmed, forgets>>

Known(secret) == \E d \in DOMAIN Config : Config[d] = secret
MemberFor(secret) == CHOOSE d \in DOMAIN Config : Config[d] = secret

\* Seeded fault: the store's protocol is not looked at.
AdmissibleAnyVersion(p) == Known(Secret[ClientOf[p]])

\* Up to the body: a known secret, and a store that accepts protocol 2.
Admissible(p) == Known(Secret[ClientOf[p]]) /\ version = 2

Admit(p) ==
    /\ up /\ push[p] # NoPush /\ push[p].at = "sent" /\ Admissible(p)
    /\ push' = [push EXCEPT ![p].at = "admitted"]
    /\ UNCHANGED <<local, server, version, up, confirmed, faults, forgets>>

\* 401, 409, 426, and 429: nothing is stored and the client's command fails.
Refuse(p) ==
    /\ up /\ push[p] # NoPush /\ push[p].at = "sent" /\ ~Admissible(p)
    /\ Drop(p) /\ UNCHANGED faults

\* The member is whoever holds the secret.
Member(p) == MemberFor(Secret[ClientOf[p]])

\* Seeded fault: a digest that is not the secret's is let through.
MatchAnyDigest(p) == TRUE

\* push.MemberDigest is compared with the secret's member.
Match(p) == Digest[ClientOf[p]] = Member(p)

\* 403.
Mismatch(p) ==
    /\ up /\ push[p] # NoPush /\ push[p].at = "admitted" /\ ~Match(p)
    /\ Drop(p) /\ UNCHANGED faults

\* restateActivitySQL on the central store.  A stored key begins with a
\* member's name there, so the rule for a sub-agent's aggregate, which asks for
\* a key that begins with "agent:", finds none.
IsAggregate(d) == d.name = NoMember /\ d.key \in Aggregates

\* Seeded fault: a late push lowers the vendor's figure.
VendorAssigned(old, new) == new

Vendor(old, new) == IF old >= new THEN old ELSE new

\* Seeded fault: the first push wins.
RestatedFirstWins(d, old, new, c) == old

Restated(d, old, new, c) ==
    [member  |-> old.member,
     output  |-> Vendor(old.output, new.output),
     calls   |-> new.calls,
     project |-> IF IsAggregate(d) /\ NoName \notin {old.project, new.project}
                    /\ old.project # new.project
                 THEN NoName
                 ELSE IF new.project # NoName THEN new.project ELSE old.project,
     branch  |-> old.branch \/ new.branch,
     from    |-> old.from \cup {c}]

Fresh(m, new, c) ==
    [member |-> m, output |-> new.output, calls |-> new.calls,
     project |-> new.project, branch |-> new.branch, from |-> {c}]

\* validateRecord and InsertSynced, one transaction.
Store(p) ==
    LET c == ClientOf[p]
        m == Member(p)
        body == push[p].body
    IN
    /\ up /\ push[p] # NoPush /\ push[p].at = "admitted" /\ Match(p)
    /\ server' = [d \in StoredKey |->
         IF d.name # m \/ d.key \notin DOMAIN body THEN server[d]
         ELSE IF server[d] = NoRow THEN Fresh(m, body[d.key], c)
         ELSE Restated(d, server[d], body[d.key], c)]
    /\ push' = [push EXCEPT ![p].at = "stored"]
    /\ UNCHANGED <<local, version, up, confirmed, faults, forgets>>

\* The answer reaches the client, if it still waits.
Reply(p) ==
    LET c == ClientOf[p] IN
    /\ up /\ push[p] # NoPush /\ push[p].at = "stored"
    /\ confirmed' =
         IF push[p].waiting
         THEN [confirmed EXCEPT ![c] = [k \in Keys |->
                 IF k \in DOMAIN push[p].body
                 THEN Vendor(@[k], push[p].body[k].output) ELSE @[k]]]
         ELSE confirmed
    /\ push' = [push EXCEPT ![p] = NoPush]
    /\ UNCHANGED <<local, server, version, up, faults, forgets>>

\* A request that never arrives, is one too many (429), or is rolled back when
\* its client goes away; an answer that never arrives.
Lose(p) ==
    /\ push[p] # NoPush /\ faults < MaxFaults /\ faults' = faults + 1
    /\ Drop(p)

\* The server is stopped; a request that has arrived is gone.
Stop ==
    /\ up /\ faults < MaxFaults /\ faults' = faults + 1
    /\ up' = FALSE
    /\ push' = [p \in Pushes |->
                  IF push[p] # NoPush /\ push[p].at # "sent" THEN NoPush ELSE push[p]]
    /\ UNCHANGED <<local, server, version, confirmed, forgets>>

Start ==
    /\ ~up /\ up' = TRUE
    /\ UNCHANGED <<local, push, server, version, confirmed, faults, forgets>>

-----------------------------------------------------------------------------
(* serve migrate-sync.                                                     *)

Existing == {server[d].member : d \in {e \in StoredKey : server[e] # NoRow}}

\* validateSyncMapping: complete, distinct, onto names that own nothing, and
\* every row under its member's prefix.
ValidMapping(names) ==
    /\ names # {} /\ Existing = names
    /\ \A n, o \in names : Manifest[n] = Manifest[o] => n = o
    /\ \A n \in names : Manifest[n] \notin Existing
    /\ \A d \in StoredKey : server[d] # NoRow => server[d].member = d.name

\* verifySyncMigration.
Verified(rows) ==
    \A d \in StoredKey : rows[d] # NoRow => rows[d].member \in Digests /\ ~rows[d].branch

\* The rows after the two UPDATEs, member and key prefix together.
Rekeyed(names) ==
    [d \in StoredKey |->
       IF \E n \in names : d.name = Manifest[n] /\ server[[name |-> n, key |-> d.key]] # NoRow
       THEN LET n == CHOOSE o \in names : d.name = Manifest[o] IN
            [server[[name |-> n, key |-> d.key]] EXCEPT !.member = d.name, !.branch = FALSE]
       ELSE IF d.name \in names THEN NoRow ELSE server[d]]

\* The operator is told to stop `serve` first; nothing makes sure he has.
Migrate(names) ==
    /\ version = 1 /\ ValidMapping(names)
    /\ server' = Rekeyed(names) /\ Verified(server')
    /\ version' = 2
    /\ UNCHANGED <<local, push, up, confirmed, faults, forgets>>

-----------------------------------------------------------------------------
Handle(p) == Admit(p) \/ Refuse(p) \/ Mismatch(p) \/ Store(p) \/ Reply(p)

Next ==
    \/ \E c \in Clients, k \in Keys : Import(c, k)
    \/ \E c \in Clients : Forget(c)
    \/ \E p \in Pushes : Export(p) \/ StopWaiting(p) \/ Handle(p) \/ Lose(p)
    \/ \E names \in SUBSET OldNames : Migrate(names)
    \/ Stop \/ Start

Spec == Init /\ [][Next]_vars

\* The scheduled sync keeps running, a live server works through what reaches
\* it, is started again, and the operator finishes the upgrade.
Fairness ==
    /\ \A p \in Pushes : WF_vars(Export(p)) /\ WF_vars(Handle(p))
    /\ WF_vars(Start)
    /\ \A names \in SUBSET OldNames : WF_vars(Migrate(names))

FairSpec == Spec /\ Fairness

-----------------------------------------------------------------------------
(* Properties                                                              *)

\* A row has exactly one possible writer (store.InsertSynced): the machine
\* whose name it is filed under, old or new.
OneWriter ==
    \A d \in StoredKey : server[d] # NoRow =>
      \E c \in Clients :
        /\ server[d].from = {c}
        /\ server[d].member = d.name /\ d.name \in {OldName[c], Digest[c]}

\* Once the store speaks protocol 2 it holds no branch.
BranchFree ==
    version = 2 => \A d \in StoredKey : server[d] # NoRow => ~server[d].branch

\* Of every row: its type, one machine that may write it, and no branch.
RowsOwned == TypeOK /\ OneWriter /\ BranchFree

\* What a machine synced is counted once, across the change of its name.
CountedOnce ==
    \A c \in Clients, k \in Keys :
      Cardinality({d \in StoredKey : server[d] # NoRow /\ d.key = k
                                     /\ c \in server[d].from}) <= 1

\* What the client was told is stored stays stored, whatever overtakes it.
ConfirmedStored ==
    \A c \in Clients, k \in Keys : confirmed[c][k] > 0 =>
      LET d == [name |-> Digest[c], key |-> k] IN
      server[d] # NoRow /\ server[d].output >= confirmed[c][k]

Admitted(c) == Digest[c] \in DOMAIN Config /\ Config[Digest[c]] = Secret[c]

\* Once a machine's row has settled, repeated syncs bring the server's figures
\* to it, although an older push may have landed last.
EventuallySynced ==
    \A c \in Clients, k \in Recent :
      Admitted(c) =>
        \A r \in DOMAIN Readings[c][k] :
          <>[](local[c][k] = r) =>
            <>[](LET row == server[[name |-> Digest[c], key |-> k]] IN
                 /\ row # NoRow /\ row.output >= Readings[c][k][r].output
                 /\ row.calls = Readings[c][k][r].calls)

=============================================================================
