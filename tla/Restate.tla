------------------------------ MODULE Restate ------------------------------
(***************************************************************************)
(* What a second reading does to a stored row (internal/store/insert.go,   *)
(* insert_local.go, repository_register.go): counts the vendor wrote keep  *)
(* their maximum, counts assaio derived are assigned, names are replaced   *)
(* only by names, and a sub-agent's aggregate, which several parent        *)
(* transcripts may carry, loses its project for good once two of them      *)
(* disagree.  Importers overlap, working directories move and vanish       *)
(* between readings, and `clear` empties rows, repositories and salt.      *)
(*                                                                         *)
(* Which inputs a run may skip, and when it may be killed, is the subject  *)
(* of Ingest; here a run may read any transcript.                          *)
(***************************************************************************)
EXTENDS Integers, Sequences

CONSTANTS
    Runs, Builds,
    Files,         \* transcripts, numbered in the order they are discovered
    Keys,          \* dedupe keys
    ClaudeKeys,    \* keys of the tool whose earliest carrier gives the time
    Aggregates,    \* keys "agent:<id>" among them
    Old,           \* keys stamped before the cutoff of `clear --older-than`
    Labels,        \* project names
    Roots,         \* repository roots
    Subpaths,
    Models,
    NoName,        \* the empty string: no label, no subpath, no model
    NoRoot,        \* the directory is in no repository, or is gone
    Places,        \* what a transcript's working directory may be when it is read
    Resolves,      \* Resolves[f][place]: what project resolution answers
    Parsed,        \* Parsed[b][f][n]: records build b reads from n chunks of f
    MaxLen,        \* bound: chunks in the longest transcript
    Limit,         \* bound: chunks in each
    MaxTime,       \* bound: timestamps
    MaxCount,      \* bound: any count in a record
    MaxClears,     \* bound: `clear` invocations
    ClearOverlaps, \* may `clear` run while a backfill is in progress?
    NoRow, NoInput, NoRun

Times == 0..MaxTime
Counts == 0..MaxCount
Sizes == 1..MaxLen

Resolution ==
    [label : Labels \cup {NoName}, subpath : Subpaths \cup {NoName},
     root : Roots \cup {NoRoot}, guessed : BOOLEAN]

\* A record as the parser emits it, before its project is resolved.
Reading ==
    [ts : Times, output : Counts, reasoning : Counts, calls : Counts,
     reads : Counts, other : Counts, model : Models \cup {NoName}]

ASSUME BoundsAssumption ==
    /\ MaxLen \in Nat /\ MaxTime \in Nat /\ MaxCount \in Nat /\ MaxClears \in Nat
    /\ Files \subseteq Nat /\ Limit \in [Files -> Sizes] /\ ClearOverlaps \in BOOLEAN
    /\ Aggregates \subseteq ClaudeKeys /\ ClaudeKeys \subseteq Keys
    /\ Old \subseteq Keys
    /\ NoName \notin Labels /\ NoRoot \notin Roots

\* A root found above a directory that is gone, or for a record that has no
\* label, is never keyed.
ASSUME ResolutionAssumption ==
    /\ Resolves \in [Files -> [Places -> Resolution]]
    /\ \A f \in Files, w \in Places :
         LET r == Resolves[f][w] IN
         r.guessed \/ r.label = NoName => r.root = NoRoot

\* What the parsers promise: the reasoning tokens are part of the output, the
\* purposes split the calls, and a longer log never takes a record or an
\* output token back.
ASSUME ParserAssumption ==
    /\ DOMAIN Parsed = Builds
    /\ \A b \in Builds : DOMAIN Parsed[b] = Files
    /\ \A b \in Builds, f \in Files : DOMAIN Parsed[b][f] = Sizes
    /\ \A b \in Builds, f \in Files, n \in Sizes :
         /\ DOMAIN Parsed[b][f][n] \subseteq Keys
         /\ \A k \in DOMAIN Parsed[b][f][n] :
              LET r == Parsed[b][f][n][k] IN
              /\ r \in Reading
              /\ r.reasoning <= r.output /\ r.reads + r.other = r.calls
              /\ \A m \in n..MaxLen :
                   /\ k \in DOMAIN Parsed[b][f][m]
                   /\ r.output <= Parsed[b][f][m][k].output

Row ==
    [ts : Times, output : Counts, reasoning : Counts, calls : Counts,
     reads : Counts, other : Counts, model : Models \cup {NoName},
     project : Labels \cup {NoName}, subpath : Subpaths \cup {NoName},
     conflict : BOOLEAN, repo : Int]

\* A registered repository.  Its id is its place in the registry, and so is
\* its rank among the ordinals of its label: ordinals are given out as
\* maximum plus one and an entry leaves only when all of them do.  A key is
\* the keyed hash of a root: the salt it was made with, and the root.
Repository == [label : Labels, salt : 0..MaxClears, root : Roots]

Mark == [file : Files, build : Builds, size : Sizes]

\* A run has a build and the salt it loaded at its start; in is what it parsed
\* and has not inserted, done the watermarks it will flush.
Input == [file : Files, size : Sizes, answer : Resolution]
Run == [build : Builds, salt : 0..MaxClears,
        in : Input \cup {NoInput}, done : SUBSET Mark]

ASSUME SentinelAssumption ==
    NoInput \notin Input /\ NoRow \notin Row /\ NoRun \notin Run

VARIABLES
    len,      \* chunks in each transcript
    rows, registry, salt, marks,
    run,
    clears,
    claims    \* history: real (label, root) answers offered for a stored
              \* aggregate

vars == <<len, rows, registry, salt, marks, run, clears, claims>>

Held(k) == rows[k] # NoRow

TypeOK ==
    /\ len \in [Files -> Sizes]
    /\ rows \in [Keys -> Row \cup {NoRow}]
    /\ registry \in Seq(Repository) /\ salt \in 0..MaxClears
    /\ marks \subseteq Mark
    /\ run \in [Runs -> Run \cup {NoRun}]
    /\ clears \in 0..MaxClears
    /\ claims \in [Aggregates -> SUBSET [label : Labels, root : Roots \cup {NoRoot}]]

Init ==
    /\ len = [f \in Files |-> 1]
    /\ rows = [k \in Keys |-> NoRow]
    /\ registry = <<>> /\ salt = 0
    /\ marks = {}
    /\ run = [p \in Runs |-> NoRun]
    /\ clears = 0
    /\ claims = [k \in Aggregates |-> {}]

-----------------------------------------------------------------------------
(* The machine's side: a session is still being written.                   *)

Grow(f) ==
    /\ len[f] < Limit[f]
    /\ len' = [len EXCEPT ![f] = @ + 1]
    /\ UNCHANGED <<rows, registry, salt, marks, run, clears, claims>>

-----------------------------------------------------------------------------
(* One reading of one record against the row it finds.                     *)

Named(offered, stored) == IF offered # NoName THEN offered ELSE stored

Entry(s, res) == [label |-> res.label, salt |-> s, root |-> res.root]

Ids(repos, entry) == {i \in 1..Len(repos) : repos[i] = entry}

\* Seeded fault: an answer without a repository is registered too.
RegisterUnkeyed(repos, s, res) ==
    IF Ids(repos, Entry(s, res)) # {} THEN repos ELSE Append(repos, Entry(s, res))

\* registerRepositories: the registry with this answer's repository in it.
Register(repos, s, res) ==
    IF res.root = NoRoot \/ Ids(repos, Entry(s, res)) # {} THEN repos
    ELSE Append(repos, Entry(s, res))

\* repoID: 0 when the answer names no repository.
RepoId(repos, s, res) ==
    LET ids == Ids(repos, Entry(s, res))
    IN IF ids = {} THEN 0 ELSE CHOOSE i \in ids : TRUE

\* The INSERT of insertWith: a first reading is stored as it is, a guess too.
Fresh(new, res, id) ==
    [ts |-> new.ts, output |-> new.output, reasoning |-> new.reasoning,
     calls |-> new.calls, reads |-> new.reads, other |-> new.other,
     model |-> new.model, project |-> res.label, subpath |-> res.subpath,
     conflict |-> FALSE, repo |-> id]

(* restateActivitySQL, column by column.                                   *)

\* A count the vendor wrote: a truncated or older reading never lowers it.
Vendor(old, new) == IF old >= new THEN old ELSE new

\* Seeded fault: each derived count keeps its own maximum.
DerivedMaximum(old, new) == IF old >= new THEN old ELSE new

\* A count assaio derived: the current reading's, so a correction reaches it.
Derived(old, new) == new

\* The earliest carrier of a Claude response gives its time.
Time(k, old, new) == IF k \in ClaudeKeys /\ old < new THEN old ELSE new

\* Seeded fault: a guess is an answer like any other.
OfferedGuess(res) == res.label

\* A guessed project is offered as no answer.
Offered(res) == IF res.guessed THEN NoName ELSE res.label

\* Seeded fault: an aggregate is corrected like an ordinary turn.
CompetingNever(k, old, offered) == FALSE

\* Two different projects for one aggregate: neither is proven.
Competing(k, old, offered) ==
    /\ k \in Aggregates
    /\ offered # NoName /\ old.project # NoName /\ old.project # offered

\* Two repositories under one label, likewise.
TwoRepos(k, old, id) ==
    k \in Aggregates /\ id > 0 /\ old.repo > 0 /\ old.repo # id

\* Seeded fault: a repository outlives the label it was stored with.
RepoKept(k, old, offered, id) ==
    IF old.conflict \/ Competing(k, old, offered) \/ old.repo = -1 \/ TwoRepos(k, old, id)
    THEN -1
    ELSE IF id > 0 THEN id ELSE old.repo

\* A new label without a repository drops the stored one, the same label
\* without one keeps it.
Repo(k, old, offered, id) ==
    IF old.conflict \/ Competing(k, old, offered) \/ old.repo = -1 \/ TwoRepos(k, old, id)
    THEN -1
    ELSE IF id > 0 THEN id
    ELSE IF offered # NoName /\ offered # old.project THEN 0 ELSE old.repo

Restated(k, old, new, res, id) ==
    LET offered   == Offered(res)
        withdrawn == old.conflict \/ Competing(k, old, offered)
    IN [ts        |-> Time(k, old.ts, new.ts),
        output    |-> Vendor(old.output, new.output),
        reasoning |-> Vendor(old.reasoning, new.reasoning),
        calls     |-> Derived(old.calls, new.calls),
        reads     |-> Derived(old.reads, new.reads),
        other     |-> Derived(old.other, new.other),
        model     |-> Named(new.model, old.model),
        project   |-> IF withdrawn THEN NoName ELSE Named(offered, old.project),
        subpath   |-> IF withdrawn THEN NoName
                      ELSE IF offered # NoName THEN res.subpath ELSE old.subpath,
        conflict  |-> withdrawn,
        repo      |-> Repo(k, old, offered, IF res.guessed THEN 0 ELSE id)]

-----------------------------------------------------------------------------
(* ingest.Run over this store.                                             *)

\* The salt is loaded once, when the run starts.
Begin(p) ==
    /\ run[p] = NoRun
    /\ \E b \in Builds :
         run' = [run EXCEPT ![p] =
                   [build |-> b, salt |-> salt, in |-> NoInput, done |-> {}]]
    /\ UNCHANGED <<len, rows, registry, salt, marks, clears, claims>>

\* fileInput, parseFile and resolveProjects, at one moment: that a log may
\* grow between its signature and its parse is modelled in Ingest.  Between
\* two readings the working directory may have been removed, restored, moved
\* or made a repository.
Parse(p, f) ==
    /\ run[p] # NoRun /\ run[p].in = NoInput
    /\ \A m \in run[p].done : m.file < f
    /\ \E w \in Places :
         run' = [run EXCEPT ![p].in =
                   [file |-> f, size |-> len[f], answer |-> Resolves[f][w]]]
    /\ UNCHANGED <<len, rows, registry, salt, marks, clears, claims>>

\* InsertLocal, one transaction, then skipper.record.
InsertLocal(p) ==
    /\ run[p] # NoRun /\ run[p].in # NoInput
    /\ LET in    == run[p].in
           recs  == Parsed[run[p].build][in.file][in.size]
           res   == in.answer
           repos == IF DOMAIN recs = {} THEN registry
                    ELSE Register(registry, run[p].salt, res)
           id    == RepoId(repos, run[p].salt, res)
       IN /\ registry' = repos
          /\ rows' = [k \in Keys |->
                        IF k \notin DOMAIN recs THEN rows[k]
                        ELSE IF Held(k) THEN Restated(k, rows[k], recs[k], res, id)
                        ELSE Fresh(recs[k], res, id)]
          /\ claims' = [k \in Aggregates |->
                          IF k \notin DOMAIN recs \/ res.guessed \/ res.label = NoName
                          THEN claims[k]
                          ELSE claims[k] \cup {[label |-> res.label, root |-> res.root]}]
          /\ run' = [run EXCEPT ![p].in = NoInput,
                       ![p].done = @ \cup {[file |-> in.file, build |-> run[p].build,
                                            size |-> in.size]}]
    /\ UNCHANGED <<len, salt, marks, clears>>

\* RecordIngest: one row per path, the last writer's.
Flush(p) ==
    /\ run[p] # NoRun /\ run[p].in = NoInput
    /\ marks' = {m \in marks : \A d \in run[p].done : d.file # m.file} \cup run[p].done
    /\ run' = [run EXCEPT ![p] = NoRun]
    /\ UNCHANGED <<len, rows, registry, salt, clears, claims>>

Crash(p) ==
    /\ run[p] # NoRun
    /\ run' = [run EXCEPT ![p] = NoRun]
    /\ UNCHANGED <<len, rows, registry, salt, marks, clears, claims>>

-----------------------------------------------------------------------------
(* store.Clear                                                             *)

MayClear ==
    /\ clears < MaxClears /\ clears' = clears + 1
    /\ ClearOverlaps \/ \A p \in Runs : run[p] = NoRun
    /\ UNCHANGED <<len, run>>

Forget(gone) ==
    /\ rows' = [k \in Keys |-> IF k \in gone THEN NoRow ELSE rows[k]]
    /\ claims' = [k \in Aggregates |-> IF k \in gone THEN {} ELSE claims[k]]

\* Seeded fault: the salt is redrawn but the registry is kept.
ClearAllKeepRegistry ==
    /\ MayClear /\ Forget(Keys)
    /\ marks' = {} /\ salt' = salt + 1 /\ UNCHANGED registry

\* --all: the registry is emptied and a new salt drawn (forgetRepositories).
ClearAll ==
    /\ MayClear /\ Forget(Keys)
    /\ marks' = {} /\ registry' = <<>> /\ salt' = salt + 1

\* --tool, of the tool these transcripts belong to.
ClearTool ==
    /\ MayClear /\ Forget(Keys)
    /\ marks' = {}
    /\ UNCHANGED <<registry, salt>>

\* --older-than.
ClearBefore ==
    /\ MayClear /\ Forget(Old)
    /\ UNCHANGED <<marks, registry, salt>>

-----------------------------------------------------------------------------
Next ==
    \/ \E f \in Files : Grow(f)
    \/ \E p \in Runs : Begin(p) \/ Flush(p) \/ Crash(p) \/ InsertLocal(p)
    \/ \E p \in Runs, f \in Files : Parse(p, f)
    \/ ClearAll \/ ClearTool \/ ClearBefore

Spec == Init /\ [][Next]_vars

-----------------------------------------------------------------------------
(* Properties                                                              *)

\* A row that names a repository names a registered one, and carries the label
\* it was registered under, whichever of its two columns a re-read moved.
RepoNamesLabel ==
    \A k \in Keys : Held(k) /\ rows[k].repo > 0 =>
      /\ rows[k].repo \in DOMAIN registry
      /\ registry[rows[k].repo].label = rows[k].project

\* A part never exceeds its whole, and the purposes always sum to the calls
\* they split, although the columns of one row may come from different
\* readings by different builds.
CountsAgree ==
    \A k \in Keys : Held(k) =>
      /\ rows[k].reasoning <= rows[k].output
      /\ rows[k].reads + rows[k].other = rows[k].calls

\* Every registered repository is keyed with the salt in force, and a
\* repository has one id.
RegistryCurrent ==
    /\ \A i \in DOMAIN registry : registry[i].salt = salt
    /\ \A i, j \in DOMAIN registry :
         registry[i].label = registry[j].label /\ registry[i].root = registry[j].root
           => i = j

\* A sub-agent's aggregate keeps a project only while every transcript that
\* answered for it gave that one, and a repository only while none gave another.
Unanimous ==
    \A k \in Aggregates : Held(k) =>
      /\ rows[k].project # NoName =>
           \A c \in claims[k] : c.label = rows[k].project
      /\ rows[k].repo > 0 =>
           \A c \in claims[k] : c.root \in {NoRoot, registry[rows[k].repo].root}

\* What a watermark says was read is in the row: at least its tokens, and for
\* Claude a time no later than any carrier's, in whatever order overlapping
\* runs wrote.
VendorFigures ==
    \A m \in marks :
      LET recs == Parsed[m.build][m.file][m.size] IN
      \A k \in DOMAIN recs \ Old :
        /\ Held(k)
        /\ rows[k].output >= recs[k].output
        /\ k \in ClaudeKeys => rows[k].ts <= recs[k].ts

RealAnswer(p, label) ==
    /\ run[p] # NoRun /\ run[p].in # NoInput
    /\ run[p].in.answer.label = label /\ ~run[p].in.answer.guessed

\* A re-read takes nothing away that it has no answer for: a withdrawn project
\* or repository stays withdrawn, a project is replaced only by one a real
\* directory gave, and a repository is dropped only together with its label.
CorrectedNotErased ==
    [][\A k \in Keys : Held(k) /\ rows'[k] # NoRow =>
         /\ rows[k].conflict => rows'[k].conflict
         /\ rows[k].repo = -1 => rows'[k].repo = -1
         /\ rows'[k].project \notin {rows[k].project, NoName} =>
              \E p \in Runs : RealAnswer(p, rows'[k].project)
         /\ rows'[k].project = NoName /\ rows[k].project # NoName =>
              rows'[k].conflict
         /\ rows[k].repo > 0 /\ rows'[k].repo = 0 =>
              rows'[k].project # rows[k].project]_vars

\* What was read stays: a vendor's figures under a watermark, and what was corrected.
NothingErased == []VendorFigures /\ CorrectedNotErased

=============================================================================
