--------------------------- MODULE Restate_proofs ---------------------------
(***************************************************************************)
(* Restate, for any number of importers, transcripts, keys and builds and  *)
(* any parser and resolver: the columns of a row agree with each other,    *)
(* with the registry, and with every answer ever offered for the row.      *)
(***************************************************************************)
EXTENDS Restate, TLAPS

Claims(k) == IF k \in Aggregates THEN claims[k] ELSE {}

\* What one row owes to the registry reg and to the claims made for it.
RowSound(k, row, reg, cl) ==
    /\ row.reasoning <= row.output /\ row.reads + row.other = row.calls
    /\ row.repo >= -1
    /\ row.repo > 0 =>
         row.repo \in 1..Len(reg) /\ reg[row.repo].label = row.project
    /\ row.conflict => row.project = NoName /\ row.repo = -1
    /\ k \in Aggregates =>
         /\ row.project # NoName => \A c \in cl : c.label = row.project
         /\ row.project = NoName /\ ~row.conflict => cl = {}
         /\ row.repo > 0 => \A c \in cl : c.root \in {NoRoot, reg[row.repo].root}
         /\ row.repo = 0 => \A c \in cl : c.root = NoRoot

RowsSound == \A k \in Keys : Held(k) => RowSound(k, rows[k], registry, Claims(k))

UnheldUnclaimed == \A k \in Aggregates : ~Held(k) => claims[k] = {}

\* Every answer a run carries is one the resolver gives.
Answer(res) == res \in Resolution /\ (res.guessed \/ res.label = NoName => res.root = NoRoot)

AnswersResolved ==
    \A p \in Runs :
      run[p] # NoRun /\ run[p].in # NoInput => Answer(run[p].in.answer)

\* Without a clear in between, a run's salt is the one in force.
RunSalt == \A p \in Runs : run[p] # NoRun => run[p].salt = salt

RInv ==
    /\ TypeOK /\ AnswersResolved /\ RunSalt
    /\ RegistryCurrent /\ UnheldUnclaimed /\ RowsSound

-----------------------------------------------------------------------------
(* The registry only grows, and gives a keyed answer its own entry.        *)

LEMMA EntryType ==
    ASSUME NEW s \in 0..MaxClears, NEW res, Answer(res), res.root # NoRoot
    PROVE  Entry(s, res) \in Repository /\ res.label # NoName /\ ~res.guessed
BY DEF Answer, Resolution, Entry, Repository

LEMMA RegisterGrows ==
    ASSUME NEW reg \in Seq(Repository), NEW s \in 0..MaxClears, NEW res, Answer(res)
    PROVE  LET repos == Register(reg, s, res) IN
           /\ repos \in Seq(Repository)
           /\ Len(reg) <= Len(repos)
           /\ \A i \in 1..Len(reg) : repos[i] = reg[i]
           /\ \A i \in 1..Len(repos) : i \in 1..Len(reg) \/ repos[i] = Entry(s, res)
<1>1. CASE res.root = NoRoot \/ Ids(reg, Entry(s, res)) # {}
  BY <1>1 DEF Register
<1>2. CASE ~(res.root = NoRoot \/ Ids(reg, Entry(s, res)) # {})
  <2>1. Entry(s, res) \in Repository
    BY <1>2, EntryType
  <2>2. Register(reg, s, res) = Append(reg, Entry(s, res))
    BY <1>2 DEF Register
  <2>3. QED
    BY <2>1, <2>2
<1>3. QED
  BY <1>1, <1>2

LEMMA RepoIdNames ==
    ASSUME NEW reg \in Seq(Repository), NEW s \in 0..MaxClears, NEW res, Answer(res)
    PROVE  LET repos == Register(reg, s, res)
               id    == RepoId(repos, s, res)
           IN /\ res.root = NoRoot => id = 0
              /\ res.root # NoRoot => id \in 1..Len(repos) /\ repos[id] = Entry(s, res)
<1> DEFINE repos == Register(reg, s, res)
           ids == Ids(repos, Entry(s, res))
<1>1. repos \in Seq(Repository)
  BY RegisterGrows
<1>2. CASE res.root = NoRoot
  <2>1. ASSUME NEW i \in 1..Len(repos)
        PROVE  repos[i].root \in Roots
    <3>1. repos[i] \in Repository
      BY <1>1
    <3>2. QED
      BY <3>1 DEF Repository
  <2>2. ids = {}
    BY <1>2, <2>1, BoundsAssumption DEF Ids, Entry
  <2>3. QED
    BY <1>2, <2>2 DEF RepoId
<1>3. CASE res.root # NoRoot
  <2>1. ids # {}
    <3>1. CASE Ids(reg, Entry(s, res)) # {}
      BY <1>3, <3>1 DEF Register
    <3>2. CASE Ids(reg, Entry(s, res)) = {}
      <4>1. repos = Append(reg, Entry(s, res))
        BY <1>3, <3>2 DEF Register
      <4>2. Len(repos) = Len(reg) + 1 /\ repos[Len(reg) + 1] = Entry(s, res)
        BY <4>1, <1>3, EntryType
      <4>3. Len(reg) + 1 \in ids
        BY <4>2 DEF Ids
      <4>4. QED
        BY <4>3
    <3>3. QED
      BY <3>1, <3>2
  <2>2. RepoId(repos, s, res) \in ids
    BY <2>1 DEF RepoId
  <2>3. QED
    BY <1>3, <2>2 DEF Ids
<1>4. QED
  BY <1>2, <1>3

-----------------------------------------------------------------------------
(* One record against one row.                                             *)

\* What an answer contributes: its id, and the claim it makes.
NewClaims(k, res, cl) ==
    IF k \notin Aggregates \/ res.guessed \/ res.label = NoName THEN cl
    ELSE cl \cup {[label |-> res.label, root |-> res.root]}

IdSound(reg, res, id) ==
    /\ id \in Nat
    /\ id = 0 <=> res.root = NoRoot
    /\ id > 0 => /\ id \in 1..Len(reg)
                 /\ reg[id].label = res.label /\ reg[id].root = res.root

RecordSound(new) ==
    new \in Reading /\ new.reasoning <= new.output /\ new.reads + new.other = new.calls

LEMMA ParserSound ==
    ASSUME NEW b \in Builds, NEW f \in Files, NEW n \in Sizes
    PROVE  \A k \in DOMAIN Parsed[b][f][n] : k \in Keys /\ RecordSound(Parsed[b][f][n][k])
<1>1. /\ DOMAIN Parsed[b][f][n] \subseteq Keys
      /\ \A k \in DOMAIN Parsed[b][f][n] :
           LET r == Parsed[b][f][n][k] IN
           r \in Reading /\ r.reasoning <= r.output /\ r.reads + r.other = r.calls
  BY ParserAssumption
<1>2. QED
  BY <1>1 DEF RecordSound

LEMMA FreshSound ==
    ASSUME NEW k, NEW new, RecordSound(new), NEW res, Answer(res),
           NEW reg \in Seq(Repository), NEW id, IdSound(reg, res, id)
    PROVE  /\ Fresh(new, res, id) \in Row
           /\ RowSound(k, Fresh(new, res, id), reg, NewClaims(k, res, {}))
BY BoundsAssumption
   DEF RecordSound, Reading, Answer, Resolution, IdSound, Fresh, Row, RowSound,
       NewClaims, Counts

LEMMA RestatedType ==
    ASSUME NEW k, NEW old \in Row, NEW new, RecordSound(new), NEW res, Answer(res),
           NEW id \in Nat
    PROVE  Restated(k, old, new, res, id) \in Row
BY DEF RecordSound, Reading, Answer, Resolution, Restated, Row, Time, Vendor,
       Derived, Named, Offered, Competing, Repo, TwoRepos

LEMMA RestatedSound ==
    ASSUME NEW k, NEW old \in Row, NEW new, RecordSound(new), NEW res, Answer(res),
           NEW reg \in Seq(Repository), NEW id, IdSound(reg, res, id),
           NEW cl, RowSound(k, old, reg, cl)
    PROVE  RowSound(k, Restated(k, old, new, res, id), reg, NewClaims(k, res, cl))
<1> DEFINE row == Restated(k, old, new, res, id)
           offered == Offered(res)
           offeredId == IF res.guessed THEN 0 ELSE id
           withdrawn == old.conflict \/ Competing(k, old, offered)
<1>1. /\ row.project = IF withdrawn THEN NoName ELSE Named(offered, old.project)
      /\ row.conflict = withdrawn
      /\ row.repo = Repo(k, old, offered, offeredId)
  BY DEF Restated
<1>2. row.reasoning <= row.output /\ row.reads + row.other = row.calls
  <2>1. /\ row.reasoning = Vendor(old.reasoning, new.reasoning)
        /\ row.output = Vendor(old.output, new.output)
        /\ row.reads = new.reads /\ row.other = new.other /\ row.calls = new.calls
    BY DEF Restated, Derived
  <2>2. /\ old.reasoning \in Int /\ old.output \in Int /\ new.reasoning \in Int
        /\ new.output \in Int /\ old.reasoning <= old.output
        /\ new.reasoning <= new.output /\ new.reads + new.other = new.calls
    BY BoundsAssumption DEF RecordSound, RowSound, Row, Reading, Counts
  <2>3. QED
    BY <2>1, <2>2 DEF Vendor
<1>3. /\ old.repo \in Int /\ old.conflict \in BOOLEAN
      /\ old.project \in Labels \cup {NoName}
      /\ id \in Nat /\ offeredId \in Nat
      /\ offeredId > 0 => offeredId = id /\ ~res.guessed /\ offered = res.label
                          /\ offered # NoName
      /\ offered # NoName => ~res.guessed /\ offered = res.label
      /\ offered \in Labels \cup {NoName}
  BY DEF Row, IdSound, Answer, Resolution, Offered
<1>4. CASE withdrawn
  <2>1. row.project = NoName /\ row.conflict /\ row.repo = -1
    BY <1>1, <1>4 DEF Repo
  <2>2. QED
    BY <1>2, <2>1 DEF RowSound
<1>5. CASE ~withdrawn
  <2>1. ~old.conflict /\ ~Competing(k, old, offered)
    BY <1>5
  <2>2. row.project = Named(offered, old.project) /\ ~row.conflict
    BY <1>1, <1>5, <1>3, <2>1
  <2>3. row.repo >= -1
    BY <1>1, <1>3 DEF Repo, RowSound
  <2>4. ASSUME row.repo > 0
        PROVE  row.repo \in 1..Len(reg) /\ reg[row.repo].label = row.project
    <3>1. CASE offeredId > 0
      BY <1>1, <1>3, <2>2, <2>4, <3>1 DEF Repo, IdSound, Named
    <3>2. CASE offeredId = 0
      BY <1>1, <1>3, <2>2, <2>4, <3>2 DEF Repo, RowSound, Named
    <3>3. QED
      BY <1>3, <3>1, <3>2
  <2>5. ASSUME k \in Aggregates
        PROVE  LET all == NewClaims(k, res, cl) IN
               /\ row.project # NoName => \A c \in all : c.label = row.project
               /\ row.project = NoName => all = {}
               /\ row.repo > 0 =>
                    \A c \in all : c.root \in {NoRoot, reg[row.repo].root}
               /\ row.repo = 0 => \A c \in all : c.root = NoRoot
    <3> DEFINE all == NewClaims(k, res, cl)
    <3>1. CASE offered = NoName
      <4>1. all = cl /\ offeredId = 0
        BY <1>3, <3>1 DEF NewClaims, Offered
      <4>2. row.project = old.project
        BY <2>2, <3>1 DEF Named
      <4>3. row.repo = old.repo
        BY <1>1, <2>1, <3>1, <4>1, <1>3 DEF Repo, TwoRepos
      <4>4. QED
        BY <4>1, <4>2, <4>3, <2>1, <2>5 DEF RowSound
    <3>2. CASE offered # NoName
      <4>1. all = cl \cup {[label |-> offered, root |-> res.root]}
        BY <1>3, <2>5, <3>2 DEF NewClaims
      <4>2. row.project = offered
        BY <2>2, <3>2 DEF Named
      <4>3. old.project \in {NoName, offered}
        BY <2>1, <2>5, <3>2 DEF Competing
      <4>4. \A c \in cl : c.label = offered
        BY <2>1, <2>5, <4>3 DEF RowSound
      <4>5. offeredId = id
        BY <1>3, <3>2
      <4>6. CASE id > 0
        <5>1. old.repo = -1 \/ TwoRepos(k, old, id) => row.repo = -1
          BY <1>1, <4>5 DEF Repo
        <5>2. ~(old.repo = -1 \/ TwoRepos(k, old, id)) => row.repo = id
          BY <1>1, <2>1, <4>5, <4>6 DEF Repo
        <5>3. ASSUME ~(old.repo = -1 \/ TwoRepos(k, old, id))
              PROVE  \A c \in cl : c.root \in {NoRoot, reg[id].root}
          <6>1. old.repo = id \/ old.repo = 0
            BY <5>3, <2>5, <4>6, <1>3 DEF TwoRepos, RowSound
          <6>2. QED
            BY <6>1, <2>5, <4>6 DEF RowSound
        <5>4. reg[id].root = res.root
          BY <4>6 DEF IdSound
        <5>5. QED
          BY <5>1, <5>2, <5>3, <5>4, <4>1, <4>2, <4>4, <4>6, <1>3, <3>2
      <4>7. CASE id = 0
        <5>1. res.root = NoRoot
          BY <4>7 DEF IdSound
        <5>2. row.repo = old.repo \/ (row.repo = 0 /\ old.project = NoName)
          BY <1>1, <2>1, <4>5, <4>7, <4>3, <1>3 DEF Repo, TwoRepos
        <5>3. old.project = NoName => cl = {}
          BY <2>1, <2>5 DEF RowSound
        <5>4. QED
          BY <5>1, <5>2, <5>3, <4>1, <4>2, <4>4, <3>2, <2>5 DEF RowSound
      <4>8. QED
        BY <4>6, <4>7, <1>3
    <3>3. QED
      BY <3>1, <3>2
  <2>6. QED
    BY <1>2, <2>2, <2>3, <2>4, <2>5 DEF RowSound
<1>6. QED
  BY <1>4, <1>5

\* A row owes the same to a registry that has grown.
LEMMA SoundInGrown ==
    ASSUME NEW k, NEW row \in Row, NEW cl, NEW reg \in Seq(Repository),
           NEW repos \in Seq(Repository), Len(reg) <= Len(repos),
           \A i \in 1..Len(reg) : repos[i] = reg[i],
           RowSound(k, row, reg, cl)
    PROVE  RowSound(k, row, repos, cl)
<1>1. row.repo > 0 => row.repo \in 1..Len(repos) /\ repos[row.repo] = reg[row.repo]
  BY DEF RowSound
<1>2. QED
  BY <1>1 DEF RowSound

-----------------------------------------------------------------------------
(* One action at a time.                                                   *)

LEMMA InitStep ==
    ASSUME Init
    PROVE  RInv
<1>1. TypeOK
  BY BoundsAssumption DEF Init, TypeOK, Sizes
<1>2. AnswersResolved /\ RunSalt
  BY DEF Init, AnswersResolved, RunSalt
<1>3. RegistryCurrent /\ UnheldUnclaimed /\ RowsSound
  BY DEF Init, RegistryCurrent, UnheldUnclaimed, RowsSound, Held
<1>4. QED
  BY <1>1, <1>2, <1>3 DEF RInv

StoreUnchanged == UNCHANGED <<rows, registry, salt, clears, claims>>

\* A step of a run that does not touch the store.
LEMMA RunOnly ==
    ASSUME RInv, StoreUnchanged,
           len' \in [Files -> Sizes], marks' \subseteq Mark,
           run' \in [Runs -> Run \cup {NoRun}],
           AnswersResolved', RunSalt'
    PROVE  RInv'
<1>1. TypeOK'
  BY DEF RInv, TypeOK, StoreUnchanged
<1>2. RegistryCurrent' /\ UnheldUnclaimed' /\ RowsSound'
  BY DEF RInv, StoreUnchanged, RegistryCurrent, UnheldUnclaimed, RowsSound, Held,
         Claims
<1>3. QED
  BY <1>1, <1>2 DEF RInv

LEMMA GrowStep ==
    ASSUME RInv, NEW f \in Files, Grow(f)
    PROVE  RInv'
<1>1. len' \in [Files -> Sizes]
  <2>1. len \in [Files -> Sizes] /\ len' = [len EXCEPT ![f] = @ + 1]
    BY DEF Grow, RInv, TypeOK
  <2>2. len[f] \in 1..MaxLen /\ Limit[f] \in 1..MaxLen /\ len[f] < Limit[f]
    BY <2>1, BoundsAssumption DEF Grow, Sizes
  <2>3. len[f] + 1 \in Sizes
    BY <2>2, BoundsAssumption DEF Sizes
  <2>4. QED
    BY <2>1, <2>3
<1>2. AnswersResolved' /\ RunSalt'
  BY DEF Grow, RInv, AnswersResolved, RunSalt
<1>3. QED
  BY <1>1, <1>2, RunOnly DEF Grow, StoreUnchanged, RInv, TypeOK

LEMMA BeginStep ==
    ASSUME RInv, NEW p \in Runs, Begin(p)
    PROVE  RInv'
<1>1. PICK b \in Builds :
        run' = [run EXCEPT ![p] =
                  [build |-> b, salt |-> salt, in |-> NoInput, done |-> {}]]
  BY DEF Begin
<1>2. run' \in [Runs -> Run \cup {NoRun}]
  BY <1>1 DEF RInv, TypeOK, Run
<1>3. AnswersResolved' /\ RunSalt'
  BY <1>1 DEF Begin, RInv, TypeOK, AnswersResolved, RunSalt
<1>4. QED
  BY <1>2, <1>3, RunOnly DEF Begin, StoreUnchanged, RInv, TypeOK

LEMMA ParseStep ==
    ASSUME RInv, NEW p \in Runs, NEW f \in Files, Parse(p, f)
    PROVE  RInv'
<1>1. PICK w \in Places :
        run' = [run EXCEPT ![p].in =
                  [file |-> f, size |-> len[f], answer |-> Resolves[f][w]]]
  BY DEF Parse
<1>2. run[p] \in Run
  BY DEF Parse, RInv, TypeOK
<1>3. Answer(Resolves[f][w])
  BY ResolutionAssumption DEF Answer
<1>4. [file |-> f, size |-> len[f], answer |-> Resolves[f][w]] \in Input
  BY <1>3 DEF RInv, TypeOK, Input, Answer
<1>5. run' \in [Runs -> Run \cup {NoRun}]
  BY <1>1, <1>2, <1>4 DEF RInv, TypeOK, Run
<1>6. AnswersResolved'
  <2>1. ASSUME NEW q \in Runs, run'[q] # NoRun, run'[q].in # NoInput
        PROVE  Answer(run'[q].in.answer)
    BY <1>1, <1>2, <1>3, <2>1 DEF RInv, TypeOK, AnswersResolved, Run
  <2>2. QED
    BY <2>1 DEF AnswersResolved
<1>7. RunSalt'
  BY <1>1, <1>2 DEF Parse, RInv, TypeOK, RunSalt, Run
<1>8. QED
  BY <1>5, <1>6, <1>7, RunOnly DEF Parse, StoreUnchanged, RInv, TypeOK

LEMMA FlushCrashStep ==
    ASSUME RInv, NEW p \in Runs, Flush(p) \/ Crash(p)
    PROVE  RInv'
<1>1. run[p] \in Run /\ run' = [run EXCEPT ![p] = NoRun]
  BY DEF Flush, Crash, RInv, TypeOK
<1>2. run' \in [Runs -> Run \cup {NoRun}]
  BY <1>1 DEF RInv, TypeOK
<1>3. marks' \subseteq Mark
  BY <1>1 DEF Flush, Crash, RInv, TypeOK, Run
<1>4. AnswersResolved' /\ RunSalt'
  BY <1>1 DEF Flush, Crash, RInv, TypeOK, AnswersResolved, RunSalt
<1>5. QED
  BY <1>2, <1>3, <1>4, RunOnly DEF Flush, Crash, StoreUnchanged, RInv, TypeOK

\* The registry after an insert: keyed as before, each repository once.
LEMMA RegisterCurrent ==
    ASSUME NEW reg \in Seq(Repository), NEW s \in 0..MaxClears, NEW res, Answer(res),
           \A i \in 1..Len(reg) : reg[i].salt = s,
           \A i, j \in 1..Len(reg) :
             reg[i].label = reg[j].label /\ reg[i].root = reg[j].root => i = j
    PROVE  LET repos == Register(reg, s, res) IN
           /\ \A i \in 1..Len(repos) : repos[i].salt = s
           /\ \A i, j \in 1..Len(repos) :
                repos[i].label = repos[j].label /\ repos[i].root = repos[j].root => i = j
<1>1. CASE res.root = NoRoot \/ Ids(reg, Entry(s, res)) # {}
  BY <1>1 DEF Register
<1>2. CASE ~(res.root = NoRoot \/ Ids(reg, Entry(s, res)) # {})
  <2> DEFINE new == Entry(s, res)
             repos == Append(reg, new)
  <2>1. Register(reg, s, res) = repos
    BY <1>2 DEF Register
  <2>2. new \in Repository /\ new.salt = s
    BY <1>2, EntryType DEF Entry
  <2>3. /\ Len(repos) = Len(reg) + 1 /\ repos[Len(reg) + 1] = new
        /\ \A i \in 1..Len(reg) : repos[i] = reg[i]
    BY <2>2
  <2>4. ASSUME NEW i \in 1..Len(reg)
        PROVE  ~(reg[i].label = new.label /\ reg[i].root = new.root)
    <3>1. reg[i] \in Repository /\ reg[i].salt = s
      OBVIOUS
    <3>2. reg[i] # new
      BY <1>2 DEF Ids
    <3>3. QED
      BY <2>2, <3>1, <3>2 DEF Repository
  <2>5. \A i \in 1..Len(repos) : i \in 1..Len(reg) \/ i = Len(reg) + 1
    BY <2>3
  <2>6. \A i \in 1..Len(repos) : repos[i].salt = s
    BY <2>2, <2>3, <2>5
  <2>7. ASSUME NEW i \in 1..Len(repos), NEW j \in 1..Len(repos),
               repos[i].label = repos[j].label, repos[i].root = repos[j].root
        PROVE  i = j
    <3> HIDE DEF repos, new
    <3>1. CASE i \in 1..Len(reg) /\ j \in 1..Len(reg)
      BY <2>3, <2>7, <3>1
    <3>2. CASE i = Len(reg) + 1 /\ j = Len(reg) + 1
      BY <3>2
    <3>3. CASE i \in 1..Len(reg) /\ j = Len(reg) + 1
      BY <2>3, <2>4, <2>7, <3>3
    <3>4. CASE j \in 1..Len(reg) /\ i = Len(reg) + 1
      BY <2>3, <2>4, <2>7, <3>4
    <3>5. QED
      BY <2>5, <3>1, <3>2, <3>3, <3>4
  <2>8. QED
    BY <2>1, <2>6, <2>7
<1>3. QED
  BY <1>1, <1>2

LEMMA InsertLocalStep ==
    ASSUME RInv, NEW p \in Runs, InsertLocal(p)
    PROVE  RInv'
<1> DEFINE in    == run[p].in
           recs  == Parsed[run[p].build][in.file][in.size]
           res   == in.answer
           repos == IF DOMAIN recs = {} THEN registry
                    ELSE Register(registry, run[p].salt, res)
           id    == RepoId(repos, run[p].salt, res)
           mark  == [file |-> in.file, build |-> run[p].build, size |-> in.size]
<1>1. /\ run[p] \in Run /\ in \in Input /\ Answer(res) /\ run[p].salt = salt
      /\ mark \in Mark
  <2>1. run[p] \in Run /\ run[p].in # NoInput
    BY DEF InsertLocal, RInv, TypeOK
  <2>2. in \in Input
    BY <2>1 DEF Run
  <2>3. Answer(res) /\ run[p].salt = salt
    BY <2>1 DEF InsertLocal, RInv, AnswersResolved, RunSalt
  <2>4. QED
    BY <2>1, <2>2, <2>3 DEF Run, Input, Mark
<1>2. /\ registry \in Seq(Repository) /\ salt \in 0..MaxClears
      /\ rows \in [Keys -> Row \cup {NoRow}]
      /\ claims \in [Aggregates -> SUBSET [label : Labels, root : Roots \cup {NoRoot}]]
  BY DEF RInv, TypeOK
<1>3. /\ registry' = repos
      /\ rows' = [k \in Keys |->
                    IF k \notin DOMAIN recs THEN rows[k]
                    ELSE IF Held(k) THEN Restated(k, rows[k], recs[k], res, id)
                    ELSE Fresh(recs[k], res, id)]
      /\ claims' = [k \in Aggregates |->
                      IF k \notin DOMAIN recs \/ res.guessed \/ res.label = NoName
                      THEN claims[k]
                      ELSE claims[k] \cup {[label |-> res.label, root |-> res.root]}]
      /\ run' = [run EXCEPT ![p].in = NoInput, ![p].done = @ \cup {mark}]
      /\ UNCHANGED <<len, salt, marks, clears>>
  BY DEF InsertLocal
<1>4. ASSUME NEW k \in DOMAIN recs
      PROVE  k \in Keys /\ RecordSound(recs[k])
  <2>1. run[p].build \in Builds /\ in.file \in Files /\ in.size \in Sizes
    BY <1>1 DEF Run, Input
  <2>2. QED
    BY <2>1, ParserSound
<1>5. /\ repos \in Seq(Repository)
      /\ Len(registry) <= Len(repos)
      /\ \A i \in 1..Len(registry) : repos[i] = registry[i]
  <2>1. CASE DOMAIN recs = {}
    BY <1>2, <2>1
  <2>2. CASE DOMAIN recs # {}
    <3>1. repos = Register(registry, salt, res)
      BY <1>1, <2>2
    <3>2. /\ Register(registry, salt, res) \in Seq(Repository)
          /\ Len(registry) <= Len(Register(registry, salt, res))
          /\ \A i \in 1..Len(registry) : Register(registry, salt, res)[i] = registry[i]
      BY <1>1, <1>2, RegisterGrows
    <3> HIDE DEF repos
    <3>3. QED
      BY <3>1, <3>2
  <2>3. QED
    BY <2>1, <2>2
<1>6. DOMAIN recs # {} => IdSound(repos, res, id)
  <2>1. SUFFICES ASSUME DOMAIN recs # {} PROVE IdSound(repos, res, id)
    OBVIOUS
  <2>2. repos = Register(registry, salt, res) /\ id = RepoId(repos, salt, res)
    BY <1>1, <2>1
  <2>3. /\ res.root = NoRoot => id = 0
        /\ res.root # NoRoot => id \in 1..Len(repos) /\ repos[id] = Entry(salt, res)
    <3> HIDE DEF in, repos, id
    <3>1. PICK grown, at : grown = Register(registry, salt, res) /\ at = RepoId(grown, salt, res)
      OBVIOUS
    <3>2. /\ res.root = NoRoot => at = 0
          /\ res.root # NoRoot => at \in 1..Len(grown) /\ grown[at] = Entry(salt, res)
      BY <1>1, <1>2, <3>1, RepoIdNames
    <3>3. repos = grown /\ id = at
      BY <2>2, <3>1
    <3>4. QED
      BY <3>2, <3>3
  <2> HIDE DEF in, repos, id
  <2>4. Len(repos) \in Nat
    BY <1>5
  <2>5. CASE res.root = NoRoot
    BY <2>3, <2>5 DEF IdSound
  <2>6. CASE res.root # NoRoot
    <3>1. id \in 1..Len(repos) /\ repos[id] = Entry(salt, res)
      BY <2>3, <2>6
    <3>2. repos[id].label = res.label /\ repos[id].root = res.root
      BY <3>1 DEF Entry
    <3>3. id \in Nat /\ id > 0
      BY <2>4, <3>1
    <3>4. QED
      BY <2>6, <3>1, <3>2, <3>3 DEF IdSound
  <2>7. QED
    BY <2>5, <2>6
<1>7. RegistryCurrent'
  <2>1. CASE DOMAIN recs = {}
    BY <1>3, <2>1 DEF RInv, RegistryCurrent
  <2>2. CASE DOMAIN recs # {}
    <3>1. repos = Register(registry, salt, res)
      BY <1>1, <2>2
    <3>2. /\ \A i \in 1..Len(registry) : registry[i].salt = salt
          /\ \A i, j \in 1..Len(registry) :
               registry[i].label = registry[j].label /\ registry[i].root = registry[j].root
                 => i = j
      BY <1>2 DEF RInv, RegistryCurrent
    <3>3. /\ \A i \in 1..Len(repos) : repos[i].salt = salt
          /\ \A i, j \in 1..Len(repos) :
               repos[i].label = repos[j].label /\ repos[i].root = repos[j].root => i = j
      <4> HIDE DEF in, repos
      <4>1. salt \in 0..MaxClears /\ registry \in Seq(Repository)
        BY <1>1, <1>2
      <4>2. /\ \A i \in 1..Len(Register(registry, salt, res)) :
                 Register(registry, salt, res)[i].salt = salt
            /\ \A i, j \in 1..Len(Register(registry, salt, res)) :
                 Register(registry, salt, res)[i].label = Register(registry, salt, res)[j].label
                   /\ Register(registry, salt, res)[i].root = Register(registry, salt, res)[j].root
                   => i = j
        BY <1>1, <1>2, <3>2, <4>1, RegisterCurrent
      <4>3. QED
        BY <3>1, <4>2
    <3> HIDE DEF in, repos
    <3>4. DOMAIN repos = 1..Len(repos)
      BY <1>5
    <3>5. registry' = repos /\ salt' = salt
      BY <1>3
    <3>6. QED
      BY <3>3, <3>4, <3>5 DEF RegistryCurrent
  <2>3. QED
    BY <2>1, <2>2
<1> HIDE DEF repos, id, recs, res, in, mark
<1>8. ASSUME NEW k \in Keys
      PROVE  /\ rows'[k] \in Row \cup {NoRow}
             /\ rows'[k] # NoRow => RowSound(k, rows'[k], registry', Claims(k)')
             /\ k \in Aggregates /\ rows'[k] = NoRow => claims'[k] = {}
  <2>1. Held(k) => rows[k] \in Row /\ RowSound(k, rows[k], registry, Claims(k))
    BY <1>2 DEF Held, RInv, RowsSound
  <2>2. CASE k \notin DOMAIN recs
    <3>1. rows'[k] = rows[k] /\ Claims(k)' = Claims(k)
      BY <1>3, <2>2 DEF Claims
    <3>2. Held(k) => RowSound(k, rows[k], registry', Claims(k))
      BY <1>2, <1>3, <1>5, <2>1, SoundInGrown
    <3>3. k \in Aggregates /\ ~Held(k) => claims[k] = {}
      BY DEF RInv, UnheldUnclaimed
    <3>4. QED
      BY <1>2, <1>3, <2>2, <3>1, <3>2, <3>3 DEF Held
  <2>3. CASE k \in DOMAIN recs
    <3>1. IdSound(repos, res, id) /\ RecordSound(recs[k])
      BY <1>4, <1>6, <2>3
    <3>2. Claims(k)' = NewClaims(k, res, Claims(k))
      BY <1>3, <2>3 DEF Claims, NewClaims
    <3>3. CASE Held(k)
      <4>1. rows'[k] = Restated(k, rows[k], recs[k], res, id)
        BY <1>3, <2>3, <3>3
      <4>2. RowSound(k, rows[k], repos, Claims(k))
        BY <1>2, <1>5, <2>1, <3>3, SoundInGrown
      <4>3. RowSound(k, rows'[k], repos, Claims(k)')
        BY <1>1, <1>5, <2>1, <3>1, <3>2, <3>3, <4>1, <4>2, RestatedSound
      <4>4. rows'[k] \in Row
        BY <1>1, <2>1, <3>1, <3>3, <4>1, RestatedType DEF IdSound
      <4>5. QED
        BY <1>3, <4>3, <4>4, SentinelAssumption
    <3>4. CASE ~Held(k)
      <4>1. rows'[k] = Fresh(recs[k], res, id)
        BY <1>3, <2>3, <3>4
      <4>2. Claims(k) = {}
        BY <3>4 DEF Claims, RInv, UnheldUnclaimed
      <4>3. /\ rows'[k] \in Row
            /\ RowSound(k, rows'[k], repos, Claims(k)')
        BY <1>1, <1>5, <3>1, <3>2, <4>1, <4>2, FreshSound
      <4>4. QED
        BY <1>3, <4>3, SentinelAssumption
    <3>5. QED
      BY <3>3, <3>4
  <2>4. QED
    BY <2>2, <2>3
<1>9. run'[p].in = NoInput /\ run'[p].salt = run[p].salt /\ run'[p] \in Run
  BY <1>1, <1>3 DEF RInv, TypeOK, Run
<1>10. \A q \in Runs : q # p => run'[q] = run[q]
  BY <1>3 DEF RInv, TypeOK
<1>11. run' \in [Runs -> Run \cup {NoRun}]
  BY <1>3, <1>9, <1>10 DEF RInv, TypeOK
<1>12. claims' \in [Aggregates -> SUBSET [label : Labels, root : Roots \cup {NoRoot}]]
  BY <1>1, <1>2, <1>3 DEF Answer, Resolution
<1>13. rows' \in [Keys -> Row \cup {NoRow}]
  BY <1>3, <1>8
<1>14. TypeOK'
  BY <1>3, <1>5, <1>11, <1>12, <1>13 DEF RInv, TypeOK
<1>15. AnswersResolved' /\ RunSalt'
  BY <1>3, <1>9, <1>10, <1>1 DEF RInv, AnswersResolved, RunSalt
<1>16. RowsSound'
  BY <1>8 DEF RowsSound, Held
<1>17. UnheldUnclaimed'
  BY <1>8, BoundsAssumption DEF UnheldUnclaimed, Held
<1>18. QED
  BY <1>7, <1>14, <1>15, <1>16, <1>17 DEF RInv

\* What a clear does, by scope, when it finds no run in progress.
ClearedBy(gone) ==
    /\ rows' = [k \in Keys |-> IF k \in gone THEN NoRow ELSE rows[k]]
    /\ claims' = [k \in Aggregates |-> IF k \in gone THEN {} ELSE claims[k]]
    /\ \/ gone = Keys /\ registry' = <<>> /\ salt' = salt + 1
       \/ registry' = registry /\ salt' = salt
    /\ marks' \subseteq marks
    /\ clears < MaxClears /\ clears' = clears + 1
    /\ \A p \in Runs : run[p] = NoRun
    /\ UNCHANGED <<len, run>>

LEMMA ClearStep ==
    ASSUME RInv, NEW gone, ClearedBy(gone), salt <= clears
    PROVE  RInv'
<1>1. TypeOK'
  <2>1. salt' \in 0..MaxClears /\ clears' \in 0..MaxClears
    BY BoundsAssumption DEF ClearedBy, RInv, TypeOK
  <2>2. registry' \in Seq(Repository)
    <3>1. registry \in Seq(Repository) /\ (registry' = registry \/ registry' = <<>>)
      BY DEF ClearedBy, RInv, TypeOK
    <3>2. <<>> \in Seq(Repository)
      OBVIOUS
    <3>3. QED
      BY <3>1, <3>2
  <2>3. rows' \in [Keys -> Row \cup {NoRow}]
    BY DEF ClearedBy, RInv, TypeOK
  <2>4. claims' \in [Aggregates -> SUBSET [label : Labels, root : Roots \cup {NoRoot}]]
    BY DEF ClearedBy, RInv, TypeOK
  <2>5. QED
    BY <2>1, <2>2, <2>3, <2>4 DEF ClearedBy, RInv, TypeOK
<1>2. AnswersResolved' /\ RunSalt'
  BY DEF ClearedBy, AnswersResolved, RunSalt
<1>3. RegistryCurrent'
  BY DEF ClearedBy, RInv, RegistryCurrent
<1>4. UnheldUnclaimed'
  BY BoundsAssumption DEF ClearedBy, RInv, UnheldUnclaimed, Held
<1>5. RowsSound'
  <2>1. ASSUME NEW k \in Keys, rows'[k] # NoRow
        PROVE  RowSound(k, rows'[k], registry', Claims(k)')
    <3>1. k \notin gone /\ rows'[k] = rows[k] /\ Held(k)
      BY <2>1 DEF ClearedBy, Held
    <3>2. registry' = registry /\ Claims(k)' = Claims(k)
      BY <3>1 DEF ClearedBy, Claims
    <3>3. QED
      BY <3>1, <3>2 DEF RInv, RowsSound
  <2>2. QED
    BY <2>1 DEF RowsSound, Held
<1>6. QED
  BY <1>1, <1>2, <1>3, <1>4, <1>5 DEF RInv

\* Each clear redraws the salt at most once.
RInvC == RInv /\ salt <= clears

LEMMA NextStep ==
    ASSUME ClearOverlaps = FALSE, RInvC, [Next]_vars
    PROVE  RInvC'
<1> USE DEF RInvC
<1>1. ASSUME NEW f \in Files, Grow(f)
      PROVE  RInvC'
  BY <1>1, GrowStep DEF Grow
<1>2. ASSUME NEW p \in Runs, Begin(p)
      PROVE  RInvC'
  BY <1>2, BeginStep DEF Begin
<1>3. ASSUME NEW p \in Runs, Flush(p) \/ Crash(p)
      PROVE  RInvC'
  BY <1>3, FlushCrashStep DEF Flush, Crash
<1>4. ASSUME NEW p \in Runs, InsertLocal(p)
      PROVE  RInvC'
  BY <1>4, InsertLocalStep DEF InsertLocal
<1>5. ASSUME NEW p \in Runs, NEW f \in Files, Parse(p, f)
      PROVE  RInvC'
  BY <1>5, ParseStep DEF Parse
<1>6. CASE ClearAll \/ ClearTool \/ ClearBefore
  <2>1. /\ clears < MaxClears /\ clears' = clears + 1
        /\ \A p \in Runs : run[p] = NoRun
        /\ UNCHANGED <<len, run>>
    BY <1>6 DEF ClearAll, ClearTool, ClearBefore, MayClear
  <2>2. CASE ClearAll
    <3>1. ClearedBy(Keys)
      BY <2>1, <2>2 DEF ClearAll, Forget, ClearedBy
    <3>2. QED
      BY <2>1, <2>2, <3>1, ClearStep DEF ClearAll, RInv, TypeOK
  <2>3. CASE ClearTool
    <3>1. ClearedBy(Keys)
      BY <2>1, <2>3 DEF ClearTool, Forget, ClearedBy
    <3>2. QED
      BY <2>1, <2>3, <3>1, ClearStep DEF ClearTool, RInv, TypeOK
  <2>4. CASE ClearBefore
    <3>1. ClearedBy(Old)
      BY <2>1, <2>4 DEF ClearBefore, Forget, ClearedBy
    <3>2. QED
      BY <2>1, <2>4, <3>1, ClearStep DEF ClearBefore, RInv, TypeOK
  <2>5. QED
    BY <1>6, <2>2, <2>3, <2>4
<1>7. CASE UNCHANGED vars
  BY <1>7, RunOnly DEF vars, StoreUnchanged, RInv, TypeOK, AnswersResolved, RunSalt
<1>8. QED
  BY <1>1, <1>2, <1>3, <1>4, <1>5, <1>6, <1>7 DEF Next

-----------------------------------------------------------------------------
(* The theorems.                                                           *)

LEMMA RestateInvariant ==
    ASSUME ClearOverlaps = FALSE
    PROVE  Spec => []RInvC
<1>1. Init => RInvC
  BY InitStep DEF Init, RInvC
<1>2. RInvC /\ [Next]_vars => RInvC'
  BY NextStep
<1>3. QED
  BY <1>1, <1>2, PTL DEF Spec

\* The store and its importers stay well-typed whatever is parsed, resolved,
\* restated and cleared.
THEOREM TypeCorrect ==
    ASSUME ClearOverlaps = FALSE
    PROVE  Spec => []TypeOK
<1>1. RInvC => TypeOK
  BY DEF RInvC, RInv
<1>2. QED
  BY <1>1, RestateInvariant, PTL

\* With no clear during an import, a row's repository always exists and has
\* the row's own project label, for any overlap of importers.
THEOREM RepositoryIsTheLabels ==
    ASSUME ClearOverlaps = FALSE
    PROVE  Spec => []RepoNamesLabel
<1>1. RInvC => RepoNamesLabel
  <2>1. ASSUME RInv, NEW k \in Keys, Held(k), rows[k].repo > 0
        PROVE  /\ rows[k].repo \in DOMAIN registry
               /\ registry[rows[k].repo].label = rows[k].project
    BY <2>1 DEF RInv, TypeOK, RowsSound, RowSound
  <2>2. QED
    BY <2>1 DEF RInvC, RepoNamesLabel
<1>2. QED
  BY <1>1, RestateInvariant, PTL

\* The mixed maximum-and-assignment rule never lets a part exceed its whole,
\* nor the purposes drift from the calls they split.
THEOREM CountsStayTogether ==
    ASSUME ClearOverlaps = FALSE
    PROVE  Spec => []CountsAgree
<1>1. RInvC => CountsAgree
  BY DEF RInvC, RInv, RowsSound, RowSound, CountsAgree
<1>2. QED
  BY <1>1, RestateInvariant, PTL

\* With no clear during an import, every registered repository is keyed with
\* the salt in force and registered once.
THEOREM RegistryStaysCurrent ==
    ASSUME ClearOverlaps = FALSE
    PROVE  Spec => []RegistryCurrent
<1>1. RInvC => RegistryCurrent
  BY DEF RInvC, RInv
<1>2. QED
  BY <1>1, RestateInvariant, PTL

\* In whatever order transcripts are read, a sub-agent's aggregate holds a
\* project or a repository only if no transcript ever answered otherwise.
THEOREM AggregatesAreUnanimous ==
    ASSUME ClearOverlaps = FALSE
    PROVE  Spec => []Unanimous
<1>1. RInvC => Unanimous
  <2>1. ASSUME RInv, NEW k \in Aggregates, Held(k)
        PROVE  /\ rows[k].project # NoName =>
                    \A c \in claims[k] : c.label = rows[k].project
               /\ rows[k].repo > 0 =>
                    \A c \in claims[k] : c.root \in {NoRoot, registry[rows[k].repo].root}
    BY <2>1, BoundsAssumption DEF RInv, RowsSound, RowSound, Claims
  <2>2. QED
    BY <2>1 DEF RInvC, Unanimous
<1>2. QED
  BY <1>1, RestateInvariant, PTL

-----------------------------------------------------------------------------
(* What was read stays.                                                    *)

\* The row holds at least what the parser read for k.
AtLeast(k, rec) ==
    /\ Held(k)
    /\ rows[k].output >= rec.output
    /\ k \in ClaudeKeys => rows[k].ts <= rec.ts

\* What a watermark, written or to be written, says of the rows.
ReadKept(m) ==
    LET recs == Parsed[m.build][m.file][m.size] IN
    \A k \in DOMAIN recs \ Old : AtLeast(k, recs[k])

FiguresKept ==
    /\ \A m \in marks : ReadKept(m)
    /\ \A p \in Runs : run[p] # NoRun => \A m \in run[p].done : ReadKept(m)

\* No row goes away or loses a figure, but for the ones a clear may take.
RowsAdvance ==
    \A k \in Keys \ Old : Held(k) =>
      /\ Held(k)'
      /\ rows'[k].output >= rows[k].output
      /\ k \in ClaudeKeys => rows'[k].ts <= rows[k].ts

LEMMA KeptStable ==
    ASSUME TypeOK, TypeOK', RowsAdvance, NEW m \in Mark, ReadKept(m)
    PROVE  ReadKept(m)'
<1> DEFINE recs == Parsed[m.build][m.file][m.size]
<1>1. m.build \in Builds /\ m.file \in Files /\ m.size \in Sizes
  BY DEF Mark
<1>2. ASSUME NEW k \in DOMAIN recs \ Old
      PROVE  AtLeast(k, recs[k])'
  <2>1. k \in Keys /\ recs[k] \in Reading
    BY <1>1, ParserSound DEF RecordSound
  <2>2. AtLeast(k, recs[k])
    BY DEF ReadKept
  <2>3. /\ Held(k)' /\ rows'[k].output >= rows[k].output
        /\ k \in ClaudeKeys => rows'[k].ts <= rows[k].ts
    BY <2>1, <2>2 DEF RowsAdvance, AtLeast
  <2>4. rows[k] \in Row /\ rows'[k] \in Row
    BY <2>1, <2>2, <2>3 DEF AtLeast, Held, TypeOK
  <2>5. /\ rows[k].output \in Int /\ rows'[k].output \in Int /\ recs[k].output \in Int
        /\ rows[k].ts \in Int /\ rows'[k].ts \in Int /\ recs[k].ts \in Int
    <3> HIDE DEF recs
    <3>1. \A r \in Row : r.output \in Int /\ r.ts \in Int
      BY BoundsAssumption DEF Row, Counts, Times
    <3>2. \A r \in Reading : r.output \in Int /\ r.ts \in Int
      BY BoundsAssumption DEF Reading, Counts, Times
    <3>3. QED
      BY <2>1, <2>4, <3>1, <3>2
  <2>6. rows[k].output >= recs[k].output /\ (k \in ClaudeKeys => rows[k].ts <= recs[k].ts)
    BY <2>2 DEF AtLeast
  <2>7. rows'[k].output >= recs[k].output /\ (k \in ClaudeKeys => rows'[k].ts <= recs[k].ts)
    BY <2>3, <2>5, <2>6
  <2>8. QED
    BY <2>3, <2>7 DEF AtLeast, Held
<1>3. QED
  BY <1>2 DEF ReadKept

\* A reading leaves the row with at least its own figures and the stored ones.
LEMMA ReadingLands ==
    ASSUME NEW k, NEW old \in Row, NEW new \in Reading, NEW res, NEW id
    PROVE  LET row == Restated(k, old, new, res, id) IN
           /\ row.output >= old.output /\ row.output >= new.output
           /\ k \in ClaudeKeys => row.ts <= old.ts /\ row.ts <= new.ts
<1>1. /\ old.output \in Int /\ new.output \in Int
      /\ old.ts \in Int /\ new.ts \in Int
  BY BoundsAssumption DEF Row, Reading, Counts, Times
<1>2. /\ Restated(k, old, new, res, id).output = Vendor(old.output, new.output)
      /\ Restated(k, old, new, res, id).ts = Time(k, old.ts, new.ts)
  BY DEF Restated
<1>3. QED
  BY <1>1, <1>2 DEF Vendor, Time

LEMMA InsertLocalKeeps ==
    ASSUME RInv, RInv', FiguresKept, NEW p \in Runs, InsertLocal(p)
    PROVE  FiguresKept'
<1> DEFINE in   == run[p].in
           recs == Parsed[run[p].build][in.file][in.size]
           res  == in.answer
           repos == IF DOMAIN recs = {} THEN registry
                    ELSE Register(registry, run[p].salt, res)
           id   == RepoId(repos, run[p].salt, res)
           mark == [file |-> in.file, build |-> run[p].build, size |-> in.size]
<1>1. run[p] \in Run /\ in \in Input /\ Answer(res) /\ run[p].salt \in 0..MaxClears
  <2>1. run[p] \in Run /\ in # NoInput /\ Answer(res)
    BY DEF InsertLocal, RInv, TypeOK, AnswersResolved
  <2>2. QED
    BY <2>1 DEF Run
<1>2. run[p].build \in Builds /\ in.file \in Files /\ in.size \in Sizes
  BY <1>1 DEF Run, Input
<1>3. rows' = [k \in Keys |->
                 IF k \notin DOMAIN recs THEN rows[k]
                 ELSE IF Held(k) THEN Restated(k, rows[k], recs[k], res, id)
                 ELSE Fresh(recs[k], res, id)]
  BY DEF InsertLocal
<1>4. run' = [run EXCEPT ![p].in = NoInput, ![p].done = @ \cup {mark}] /\ marks' = marks
  BY DEF InsertLocal
<1>5. \A k \in DOMAIN recs : k \in Keys /\ RecordSound(recs[k])
  BY <1>2, ParserSound
<1>6. id \in Nat
  <2>1. repos \in Seq(Repository)
    <3>1. registry \in Seq(Repository)
      BY DEF RInv, TypeOK
    <3>2. Register(registry, run[p].salt, res) \in Seq(Repository)
      BY <1>1, <3>1, RegisterGrows
    <3>3. QED
      BY <3>1, <3>2
  <2>2. Ids(repos, Entry(run[p].salt, res)) \subseteq Nat
    <3> HIDE DEF repos, in, recs, mark
    <3>1. Len(repos) \in Nat
      BY <2>1
    <3>2. QED
      BY <3>1 DEF Ids
  <2>3. QED
    BY <2>2 DEF RepoId
<1>7. mark \in Mark /\ recs = Parsed[mark.build][mark.file][mark.size]
  BY <1>2 DEF Mark
<1> DEFINE LandedAt(k) == /\ rows'[k] # NoRow
                          /\ rows'[k].output >= recs[k].output
                          /\ k \in ClaudeKeys => rows'[k].ts <= recs[k].ts
<1> HIDE DEF repos, id, recs, mark
<1>8. ASSUME NEW k \in Keys, Held(k)
      PROVE  /\ Held(k)'
             /\ rows'[k].output >= rows[k].output
             /\ k \in ClaudeKeys => rows'[k].ts <= rows[k].ts
             /\ k \in DOMAIN recs => LandedAt(k)
  <2>1. rows[k] \in Row
    BY <1>8 DEF RInv, TypeOK, Held
  <2>2. rows[k].output \in Int /\ rows[k].ts \in Int
    BY <2>1, BoundsAssumption DEF Row, Counts, Times
  <2>3. CASE k \notin DOMAIN recs
    BY <1>3, <1>8, <2>2, <2>3 DEF Held
  <2>4. CASE k \in DOMAIN recs
    <3>1. rows'[k] = Restated(k, rows[k], recs[k], res, id)
      BY <1>3, <1>8, <2>4
    <3>2. rows'[k] \in Row /\ recs[k] \in Reading
      BY <1>1, <1>5, <1>6, <2>1, <2>4, <3>1, RestatedType DEF RecordSound
    <3>3. rows'[k] # NoRow
      BY <3>2, SentinelAssumption
    <3>4. /\ rows'[k].output >= rows[k].output /\ rows'[k].output >= recs[k].output
          /\ k \in ClaudeKeys => rows'[k].ts <= rows[k].ts /\ rows'[k].ts <= recs[k].ts
      BY <2>1, <3>1, <3>2, ReadingLands
    <3>5. QED
      BY <3>3, <3>4 DEF Held
  <2>5. QED
    BY <2>3, <2>4
<1>9. ASSUME NEW k \in DOMAIN recs, ~Held(k)
      PROVE  LandedAt(k)
  <2>1. rows'[k] = Fresh(recs[k], res, id)
    BY <1>3, <1>5, <1>9
  <2>2. Fresh(recs[k], res, id) \in Row /\ recs[k] \in Reading
    BY <1>1, <1>5, <1>6 DEF Fresh, Row, RecordSound, Reading, Answer, Resolution
  <2>3. recs[k].output \in Int /\ recs[k].ts \in Int
    BY <2>2, BoundsAssumption DEF Reading, Counts, Times
  <2>4. rows'[k] # NoRow
    BY <2>1, <2>2, SentinelAssumption
  <2>5. QED
    BY <2>1, <2>3, <2>4 DEF Fresh
<1>10. ASSUME NEW m \in Mark, m = mark
       PROVE  ReadKept(m)'
  <2>1. recs = Parsed[m.build][m.file][m.size]
    BY <1>7, <1>10
  <2>2. \A k \in DOMAIN recs : LandedAt(k)
    BY <1>5, <1>8, <1>9
  <2>3. QED
    BY <2>1, <2>2 DEF ReadKept, AtLeast, Held
<1>11. RowsAdvance
  BY <1>8 DEF RowsAdvance
<1>12. \A m \in Mark : ReadKept(m) => ReadKept(m)'
  BY <1>11, KeptStable DEF RInv
<1>13. marks \subseteq Mark /\ \A q \in Runs : run[q] # NoRun => run[q].done \subseteq Mark
  BY DEF RInv, TypeOK, Run
<1>14. ASSUME NEW q \in Runs, run'[q] # NoRun, NEW m \in run'[q].done
      PROVE  m = mark \/ (run[q] # NoRun /\ m \in run[q].done)
  <2>1. CASE q = p
    BY <1>1, <1>4, <1>14, <2>1, SentinelAssumption DEF RInv, TypeOK, Run
  <2>2. CASE q # p
    BY <1>4, <1>14, <2>2 DEF RInv, TypeOK
  <2>3. QED
    BY <2>1, <2>2
<1>15. ASSUME NEW q \in Runs, run'[q] # NoRun, NEW m \in run'[q].done
       PROVE  ReadKept(m)'
  BY <1>7, <1>10, <1>12, <1>13, <1>14, <1>15 DEF FiguresKept
<1>16. \A m \in marks' : ReadKept(m)'
  BY <1>4, <1>12, <1>13 DEF FiguresKept
<1>17. QED
  BY <1>15, <1>16 DEF FiguresKept

\* Every other step leaves the rows alone, or is a clear.
LEMMA FiguresStep ==
    ASSUME ClearOverlaps = FALSE, RInvC, RInvC', FiguresKept, [Next]_vars
    PROVE  FiguresKept'
<1>1. marks \subseteq Mark /\ \A q \in Runs : run[q] # NoRun => run[q].done \subseteq Mark
  BY DEF RInvC, RInv, TypeOK, Run
<1>2. ASSUME rows' = rows, NEW m \in Mark, ReadKept(m)
      PROVE  ReadKept(m)'
  BY <1>2 DEF ReadKept, AtLeast, Held
<1>3. CASE \E p \in Runs : InsertLocal(p)
  BY <1>3, InsertLocalKeeps DEF RInvC
<1>4. CASE UNCHANGED <<rows, marks, run>>
  BY <1>1, <1>2, <1>4 DEF FiguresKept
<1>5. ASSUME NEW p \in Runs, Begin(p)
      PROVE  FiguresKept'
  <2>1. \A q \in Runs : run'[q] = run[q] \/ run'[q].done = {}
    BY <1>5 DEF Begin, RInvC, RInv, TypeOK
  <2>2. QED
    BY <1>1, <1>2, <1>5, <2>1 DEF Begin, FiguresKept
<1>6. ASSUME NEW p \in Runs, NEW f \in Files, Parse(p, f)
      PROVE  FiguresKept'
  <2>1. run[p] \in Run
    BY <1>6 DEF Parse, RInvC, RInv, TypeOK
  <2>2. \A q \in Runs : run'[q] # NoRun => run[q] # NoRun /\ run'[q].done = run[q].done
    BY <1>6, <2>1 DEF Parse, RInvC, RInv, TypeOK, Run
  <2>3. QED
    BY <1>1, <1>2, <1>6, <2>2 DEF Parse, FiguresKept
<1>7. ASSUME NEW p \in Runs, Flush(p) \/ Crash(p)
      PROVE  FiguresKept'
  <2>1. \A q \in Runs : run'[q] = run[q] \/ run'[q] = NoRun
    BY <1>7 DEF Flush, Crash, RInvC, RInv, TypeOK
  <2>2. /\ rows' = rows
        /\ \/ marks' \subseteq marks \cup run[p].done /\ run[p] # NoRun
           \/ marks' = marks
    BY <1>7 DEF Flush, Crash
  <2>3. QED
    BY <1>1, <1>2, <1>7, <2>1, <2>2 DEF FiguresKept
<1>8. CASE ClearAll \/ ClearTool \/ ClearBefore
  <2>1. /\ \A p \in Runs : run'[p] = NoRun
        /\ \/ marks' = {}
           \/ marks' = marks /\ rows' = [k \in Keys |-> IF k \in Old THEN NoRow ELSE rows[k]]
    BY <1>8 DEF ClearAll, ClearTool, ClearBefore, MayClear, Forget
  <2>2. ASSUME rows' = [k \in Keys |-> IF k \in Old THEN NoRow ELSE rows[k]]
        PROVE  RowsAdvance
    <3>1. ASSUME NEW k \in Keys \ Old, Held(k)
          PROVE  rows'[k] = rows[k] /\ rows[k].output \in Int /\ rows[k].ts \in Int
      BY <2>2, <3>1, BoundsAssumption DEF Held, RInvC, RInv, TypeOK, Row, Counts, Times
    <3>2. QED
      BY <3>1 DEF RowsAdvance, Held
  <2>3. QED
    BY <1>1, <2>1, <2>2, KeptStable DEF FiguresKept, RInvC, RInv
<1>9. QED
  BY <1>3, <1>4, <1>5, <1>6, <1>7, <1>8 DEF Next, Grow, vars

\* One step, one row.
LEMMA CorrectionStep ==
    ASSUME RInv, [Next]_vars, NEW k \in Keys, Held(k), rows'[k] # NoRow
    PROVE  /\ rows[k].conflict => rows'[k].conflict
           /\ rows[k].repo = -1 => rows'[k].repo = -1
           /\ rows'[k].project \notin {rows[k].project, NoName} =>
                \E p \in Runs : RealAnswer(p, rows'[k].project)
           /\ rows'[k].project = NoName /\ rows[k].project # NoName =>
                rows'[k].conflict
           /\ rows[k].repo > 0 /\ rows'[k].repo = 0 =>
                rows'[k].project # rows[k].project
<1>1. CASE rows'[k] = rows[k]
  BY <1>1
<1>2. ASSUME NEW p \in Runs, InsertLocal(p), rows'[k] # rows[k]
      PROVE  /\ rows[k].conflict => rows'[k].conflict
             /\ rows[k].repo = -1 => rows'[k].repo = -1
             /\ rows'[k].project \notin {rows[k].project, NoName} =>
                  \E q \in Runs : RealAnswer(q, rows'[k].project)
             /\ rows'[k].project = NoName /\ rows[k].project # NoName =>
                  rows'[k].conflict
             /\ rows[k].repo > 0 /\ rows'[k].repo = 0 =>
                  rows'[k].project # rows[k].project
  <2> DEFINE res == run[p].in.answer
             offered == Offered(res)
             old == rows[k]
  <2>1. PICK new, id : rows'[k] = Restated(k, old, new, res, id)
    BY <1>2 DEF InsertLocal
  <2>2. /\ rows'[k].conflict = (old.conflict \/ Competing(k, old, offered))
        /\ rows'[k].project = IF old.conflict \/ Competing(k, old, offered) THEN NoName
                              ELSE Named(offered, old.project)
        /\ rows'[k].repo = Repo(k, old, offered, IF res.guessed THEN 0 ELSE id)
    BY <2>1 DEF Restated
  <2>3. offered # NoName => RealAnswer(p, offered)
    BY <1>2 DEF InsertLocal, Offered, RealAnswer
  <2> HIDE DEF res, offered, old
  <2>4. old.conflict => rows'[k].conflict
    BY <2>2
  <2>5. old.repo = -1 => rows'[k].repo = -1
    BY <2>2 DEF Repo
  <2>6. rows'[k].project \notin {old.project, NoName} => RealAnswer(p, rows'[k].project)
    BY <2>2, <2>3 DEF Named
  <2>7. rows'[k].project = NoName /\ old.project # NoName => rows'[k].conflict
    BY <2>2 DEF Named
  <2>8. old.repo > 0 /\ rows'[k].repo = 0 => rows'[k].project # old.project
    BY <2>2 DEF Repo, Named
  <2>9. QED
    BY <2>4, <2>5, <2>6, <2>7, <2>8 DEF old
<1>3. ASSUME \A p \in Runs : ~InsertLocal(p)
      PROVE  rows'[k] = rows[k]
  BY <1>3 DEF Next, vars, Grow, Begin, Flush, Crash, Parse, ClearAll, ClearTool, ClearBefore, Forget
<1>4. QED
  BY <1>1, <1>2, <1>3

\* With no clear during an import, what a watermark says was read stays in the row, and a
\* re-read takes nothing away that it has no answer for (store/insert_local.go:
\* restateActivitySQL; ingest/skip.go).
THEOREM NothingIsErased ==
    ASSUME ClearOverlaps = FALSE
    PROVE  Spec => NothingErased
<1>1. Init => FiguresKept
  BY DEF Init, FiguresKept
<1>2. FiguresKept /\ RInvC /\ RInvC' /\ [Next]_vars => FiguresKept'
  BY FiguresStep
<1>3. FiguresKept => VendorFigures
  BY DEF FiguresKept, ReadKept, AtLeast, VendorFigures
<1>4. RInvC /\ [Next]_vars =>
        [\A k \in Keys : Held(k) /\ rows'[k] # NoRow =>
         /\ rows[k].conflict => rows'[k].conflict
         /\ rows[k].repo = -1 => rows'[k].repo = -1
         /\ rows'[k].project \notin {rows[k].project, NoName} =>
              \E p \in Runs : RealAnswer(p, rows'[k].project)
         /\ rows'[k].project = NoName /\ rows[k].project # NoName =>
              rows'[k].conflict
         /\ rows[k].repo > 0 /\ rows'[k].repo = 0 =>
              rows'[k].project # rows[k].project]_vars
  BY CorrectionStep DEF RInvC
<1>5. Spec => []RInvC
  BY RestateInvariant
<1>6. QED
  BY <1>1, <1>2, <1>3, <1>4, <1>5, PTL DEF Spec, NothingErased, CorrectedNotErased

=============================================================================
