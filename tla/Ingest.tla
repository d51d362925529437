------------------------------- MODULE Ingest -------------------------------
(***************************************************************************)
(* `backfill` (internal/ingest): several runs of the importer, each in its *)
(* own process, over one log tree and one SQLite store, with `clear`       *)
(* (internal/store/clear.go), crashes, unreadable files, growing and       *)
(* rotated logs, and two builds of the program that extract different      *)
(* records from the same bytes.                                            *)
(*                                                                         *)
(* A log is append-only.  Yield[b][f][n] is the set of record keys that    *)
(* build b extracts from the first n chunks of f, Trace[b][f][n] the set   *)
(* of step keys.  A Claude main transcript may also yield Agg[s], the      *)
(* one-line summary ("agent:<id>") of the sub-agent whose own transcript   *)
(* is the file s.  A store row is its key: what a second reading does to   *)
(* the columns of a row that exists is the subject of Restate.             *)
(*                                                                         *)
(* Each SQLite transaction is one action; everything between two           *)
(* transactions is an interleaving point.                                  *)
(***************************************************************************)
EXTENDS Integers, FiniteSets

CONSTANTS
    Runs,          \* importer processes
    Builds,        \* build identities (buildIdentity)
    Files,         \* every log input that may ever exist
    SubFiles,      \* the Claude sub-agent transcripts among them
    Claude,        \* the tool whose main transcripts summarise sub-agents
    Tools,
    ToolOf,        \* the tool each input belongs to
    Keys,          \* dedupe keys of records and of steps
    KeyTool,       \* the tool column of a row with this key
    Yield, Trace,  \* what a build reads from a prefix of an input
    Agg,           \* the aggregate key a sub-agent transcript supersedes
    Old,           \* keys stamped before the cutoff of `clear --older-than`
    Horizon,       \* step keys past the trace horizon, {} when there is none
    MaxSize,       \* bound: chunks the longest input may grow to
    Limit,         \* bound: chunks each input may grow to
    MaxFaults,     \* bound: crashes and unreadable inputs
    MaxClears,     \* bound: `clear` invocations
    ClearOverlaps, \* may `clear` run while a backfill is in progress?
    NoInput,       \* no input is being read
    NoBuild        \* no run is in progress

Sizes == 0..MaxSize

ASSUME BoundsAssumption ==
    MaxSize \in Nat /\ Limit \in [Files -> Sizes] /\ MaxFaults \in Nat /\ MaxClears \in Nat

ASSUME ShapeAssumption ==
    /\ SubFiles \subseteq Files /\ Claude \in Tools
    /\ ToolOf \in [Files -> Tools] /\ \A s \in SubFiles : ToolOf[s] = Claude
    /\ KeyTool \in [Keys -> Tools]
    /\ Old \subseteq Keys /\ Horizon \subseteq Keys
    /\ Agg \in [SubFiles -> Keys]
    /\ \A s \in SubFiles : KeyTool[Agg[s]] = Claude
    /\ ClearOverlaps \in BOOLEAN

\* A parser is a function of the bytes, stamps its own tool on what it reads,
\* and never un-reads a record because more was appended.
ASSUME ParserAssumption ==
    /\ Yield \in [Builds -> [Files -> [Sizes -> SUBSET Keys]]]
    /\ Trace \in [Builds -> [Files -> [Sizes -> SUBSET Keys]]]
    /\ \A b \in Builds, f \in Files, n \in Sizes :
         /\ \A k \in Yield[b][f][n] \cup Trace[b][f][n] :
              KeyTool[k] = ToolOf[f]
         /\ \A m \in Sizes : m <= n =>
              Yield[b][f][m] \subseteq Yield[b][f][n]
              /\ Trace[b][f][m] \subseteq Trace[b][f][n]

\* A watermark: build b parsed this input cleanly when it had this signature.
\* Sizes and mtimes move together in an append-only log.
Mark == [file : Files, build : Builds, size : Sizes]

\* One input between its Stat and its last insert.  read is how much of it the
\* parser saw; clean is FALSE once the Stat, the open or the parse failed.
Input == [file : Files, size : Sizes, read : Sizes, clean : BOOLEAN]

ASSUME SentinelAssumption == NoInput \notin Input /\ NoBuild \notin Builds

VARIABLES
    onDisk,  \* onDisk[f] \in {"absent", "present", "gone"}
    size,    \* size[f]: chunks written so far
    rows,    \* usage_record, by key
    steps,   \* session_step, by key
    marks,   \* ingest_file
    pc,      \* where each run is
    build,   \* its build identity
    known,   \* skipper.known: the watermarks it loaded at its start
    seen,    \* inputs it has discovered
    todo,    \* discovered inputs of the current source not yet handled
    current, \* the input it is on
    done,    \* skipper.ingested: watermarks it will write at its end
    faults, clears

diskVars == <<onDisk, size>>
storeVars == <<rows, steps, marks>>
runVars == <<pc, build, known, seen, todo, current, done>>
budget == <<faults, clears>>
vars == <<onDisk, size, rows, steps, marks, pc, build, known, seen, todo,
          current, done, faults, clears>>

Stages == {"idle", "begun", "prune-trace", "drop-superseded", "claude",
           "claude-read", "claude-trace", "sources", "sources-read",
           "sources-trace", "prune"}

\* CoveredAgents: the sub-agents whose transcript this run found.
Covered(p) == seen[p] \cap SubFiles

\* SuppressCovered: the aggregates this run keeps out of what it parses.
AggOf(S) == {Agg[s] : s \in S}

Present(t) == {f \in Files : onDisk[f] = "present" /\ ToolOf[f] \in t}

Others == Tools \ {Claude}

Idle(p) == pc[p] = "idle"

TypeOK ==
    /\ onDisk \in [Files -> {"absent", "present", "gone"}]
    /\ size \in [Files -> Sizes]
    /\ rows \subseteq Keys /\ steps \subseteq Keys /\ marks \subseteq Mark
    /\ pc \in [Runs -> Stages] /\ build \in [Runs -> Builds \cup {NoBuild}]
    /\ known \in [Runs -> SUBSET Mark] /\ done \in [Runs -> SUBSET Mark]
    /\ seen \in [Runs -> SUBSET Files] /\ todo \in [Runs -> SUBSET Files]
    /\ current \in [Runs -> Input \cup {NoInput}]
    /\ faults \in 0..MaxFaults /\ clears \in 0..MaxClears

Init ==
    /\ onDisk = [f \in Files |-> "absent"]
    /\ size = [f \in Files |-> 0]
    /\ rows = {} /\ steps = {} /\ marks = {}
    /\ pc = [p \in Runs |-> "idle"]
    /\ build = [p \in Runs |-> NoBuild]
    /\ known = [p \in Runs |-> {}]
    /\ seen = [p \in Runs |-> {}]
    /\ todo = [p \in Runs |-> {}]
    /\ current = [p \in Runs |-> NoInput]
    /\ done = [p \in Runs |-> {}]
    /\ faults = 0 /\ clears = 0

-----------------------------------------------------------------------------
(* The vendors' side: logs appear, grow and are rotated away.              *)

Append(f) ==
    /\ onDisk[f] # "gone" /\ size[f] < Limit[f]
    /\ onDisk' = [onDisk EXCEPT ![f] = "present"]
    /\ size' = [size EXCEPT ![f] = @ + 1]
    /\ UNCHANGED <<storeVars, runVars, budget>>

Rotate(f) ==
    /\ onDisk[f] = "present"
    /\ onDisk' = [onDisk EXCEPT ![f] = "gone"]
    /\ UNCHANGED <<size, storeVars, runVars, budget>>

-----------------------------------------------------------------------------
(* ingest.Run                                                              *)

Goto(p, from, to) == pc[p] = from /\ pc' = [pc EXCEPT ![p] = to]

\* newSkipper: a plain run trusts the watermarks of its own build, --full none.
Begin(p) ==
    /\ Goto(p, "idle", "begun")
    /\ \E b \in Builds, full \in BOOLEAN :
         /\ build' = [build EXCEPT ![p] = b]
         /\ known' = [known EXCEPT ![p] =
                        IF full THEN {} ELSE {m \in marks : m.build = b}]
    /\ UNCHANGED <<diskVars, storeVars, seen, todo, current, done, budget>>

DiscoverClaude(p) ==
    /\ Goto(p, "begun", "prune-trace")
    /\ seen' = [seen EXCEPT ![p] = Present({Claude})]
    /\ todo' = [todo EXCEPT ![p] = Present({Claude})]
    /\ UNCHANGED <<diskVars, storeVars, build, known, current, done, budget>>

\* pruneTrace: every stored step past the horizon is deleted.
PruneTrace(p) ==
    /\ Goto(p, "prune-trace", "drop-superseded")
    /\ steps' = steps \ Horizon
    /\ UNCHANGED <<diskVars, rows, marks, build, known, seen, todo, current,
                   done, budget>>

DropSuperseded(p) ==
    /\ Goto(p, "drop-superseded", "claude")
    /\ rows' = rows \ AggOf(Covered(p))
    /\ UNCHANGED <<diskVars, steps, marks, build, known, seen, todo, current,
                   done, budget>>

\* Claude's sub-agent transcripts come before its main ones.
IsNext(p, f) ==
    f \in todo[p] /\ (f \in SubFiles \/ todo[p] \cap SubFiles = {})

\* Seeded fault: a path once read is never read again, whatever its signature.
UnchangedPath(p, f) ==
    onDisk[f] = "present" /\ \E m \in known[p] : m.file = f

\* skipper.skip: the signature on disk is the one the loaded watermark holds.
Unchanged(p, f) ==
    onDisk[f] = "present" /\ \E m \in known[p] : m.file = f /\ m.size = size[f]

Skip(p, f) ==
    /\ pc[p] \in {"claude", "sources"}
    /\ IsNext(p, f) /\ Unchanged(p, f)
    /\ todo' = [todo EXCEPT ![p] = @ \ {f}]
    /\ UNCHANGED <<diskVars, storeVars, pc, build, known, seen, current, done,
                   budget>>

\* fileInput / dirInput: the signature is taken before the input is opened.
Stat(p, f) ==
    /\ \/ Goto(p, "claude", "claude-read")
       \/ Goto(p, "sources", "sources-read")
    /\ IsNext(p, f) /\ ~Unchanged(p, f)
    /\ todo' = [todo EXCEPT ![p] = @ \ {f}]
    /\ current' = [current EXCEPT ![p] =
                     [file |-> f, size |-> size[f], read |-> 0,
                      clean |-> onDisk[f] = "present"]]
    /\ UNCHANGED <<diskVars, storeVars, build, known, seen, done, budget>>

\* Seeded fault: SuppressCovered is not applied.
InsertReadUnsuppressed(p, n, clean) ==
    LET in == current[p] IN
    /\ \/ Goto(p, "claude-read", "claude-trace")
       \/ Goto(p, "sources-read", "sources-trace")
    /\ current' = [current EXCEPT ![p] =
                     [file |-> in.file, size |-> in.size,
                      read |-> n, clean |-> clean]]
    /\ rows' = rows \cup Yield[build[p]][in.file][n]
    /\ UNCHANGED <<diskVars, steps, marks, build, known, seen, todo, done>>

InsertRead(p, n, clean) ==
    LET in == current[p] IN
    /\ \/ Goto(p, "claude-read", "claude-trace")
       \/ Goto(p, "sources-read", "sources-trace")
    /\ current' = [current EXCEPT ![p] =
                     [file |-> in.file, size |-> in.size,
                      read |-> n, clean |-> clean]]
    /\ rows' = rows \cup (Yield[build[p]][in.file][n] \ AggOf(Covered(p)))
    /\ UNCHANGED <<diskVars, steps, marks, build, known, seen, todo, done>>

\* parseFile then ingestParsed.  The parser sees at least what Stat saw, and
\* everything it recovers is stored in one transaction.  A log rotated after
\* the open is still read to its end.
ParseClean(p) ==
    /\ current[p] # NoInput /\ current[p].clean
    /\ \E n \in current[p].size .. size[current[p].file] : InsertRead(p, n, TRUE)
    /\ UNCHANGED budget

\* The open failed, or the parse did: what was recovered before that is still
\* stored, the input is counted as Failed and will not be marked.
ParseFailed(p) ==
    /\ current[p] # NoInput
    /\ \/ /\ onDisk[current[p].file] = "gone"
          /\ InsertRead(p, 0, FALSE)
          /\ UNCHANGED budget
       \/ /\ current[p].clean /\ faults < MaxFaults
          /\ \E n \in 0 .. size[current[p].file] : InsertRead(p, n, FALSE)
          /\ faults' = faults + 1 /\ UNCHANGED clears

\* The body of InsertSteps, for the watermarks it records.
InsertStepsRecording(p, recorded) ==
    LET in == current[p] IN
    /\ \/ Goto(p, "claude-trace", "claude")
       \/ Goto(p, "sources-trace", "sources")
    /\ steps' = steps \cup (Trace[build[p]][in.file][in.read] \ Horizon)
    /\ done' = [done EXCEPT ![p] = @ \cup recorded]
    /\ current' = [current EXCEPT ![p] = NoInput]
    /\ UNCHANGED <<diskVars, rows, marks, build, known, seen, todo, budget>>

\* Seeded fault: an input whose parse failed is recorded as well.
InsertStepsRecordFailed(p) ==
    InsertStepsRecording(p,
      {[file |-> current[p].file, build |-> build[p], size |-> current[p].size]})

\* Seeded fault: the signature is taken after the parse, not before it.
InsertStepsStatLate(p) ==
    InsertStepsRecording(p,
      IF current[p].clean
      THEN {[file |-> current[p].file, build |-> build[p],
             size |-> size[current[p].file]]}
      ELSE {})

\* Seeded fault: the input itself is recorded, not its watermark.
InsertStepsRecordInput(p) ==
    InsertStepsRecording(p, IF current[p].clean THEN {current[p]} ELSE {})

\* ingestSteps, a transaction of its own, then skipper.record.  A step past
\* the horizon is dropped, not stored.
InsertSteps(p) ==
    InsertStepsRecording(p,
      IF current[p].clean
      THEN {[file |-> current[p].file, build |-> build[p],
             size |-> current[p].size]}
      ELSE {})

\* discoverSources and discoverDirSources, once the Claude inputs are through.
DiscoverSources(p) ==
    /\ Goto(p, "claude", "sources") /\ todo[p] = {}
    /\ seen' = [seen EXCEPT ![p] = @ \cup Present(Others)]
    /\ todo' = [todo EXCEPT ![p] = Present(Others)]
    /\ UNCHANGED <<diskVars, storeVars, build, known, current, done, budget>>

\* skipper.flush / RecordIngest: every mark of the run in one transaction, one
\* row per path, the last writer's.
Flush(p) ==
    /\ Goto(p, "sources", "prune") /\ todo[p] = {}
    /\ marks' = {m \in marks : \A d \in done[p] : d.file # m.file} \cup done[p]
    /\ UNCHANGED <<diskVars, rows, steps, build, known, seen, todo, current,
                   done, budget>>

Reset(p) ==
    /\ pc' = [pc EXCEPT ![p] = "idle"]
    /\ build' = [build EXCEPT ![p] = NoBuild]
    /\ known' = [known EXCEPT ![p] = {}]
    /\ seen' = [seen EXCEPT ![p] = {}]
    /\ todo' = [todo EXCEPT ![p] = {}]
    /\ current' = [current EXCEPT ![p] = NoInput]
    /\ done' = [done EXCEPT ![p] = {}]

\* pruneVanished: marks of inputs this run did not find go, except a source's
\* whose discovery canary fired (see Drift for when it does).
PruneVanished(p) ==
    /\ pc[p] = "prune" /\ Reset(p)
    /\ \E lost \in SUBSET Tools :
         marks' = {m \in marks : m.file \in seen[p] \/ ToolOf[m.file] \in lost}
    /\ UNCHANGED <<diskVars, rows, steps, budget>>

\* The process is killed, or a store call fails and Run returns the error.
Crash(p) ==
    /\ ~Idle(p) /\ faults < MaxFaults
    /\ Reset(p)
    /\ faults' = faults + 1
    /\ UNCHANGED <<diskVars, storeVars, clears>>

-----------------------------------------------------------------------------
(* store.Clear: one transaction in the `clear` command's own process.      *)

MayClear ==
    /\ clears < MaxClears
    /\ ClearOverlaps \/ \A p \in Runs : Idle(p)

\* --all (scope is every tool) and --tool: rows, steps and watermarks go
\* together.
ClearTools(scope) ==
    /\ MayClear
    /\ rows' = {k \in rows : KeyTool[k] \notin scope}
    /\ steps' = {k \in steps : KeyTool[k] \notin scope}
    /\ marks' = {m \in marks : ToolOf[m.file] \notin scope}
    /\ clears' = clears + 1
    /\ UNCHANGED <<diskVars, runVars, faults>>

\* Seeded fault: the age is ignored when a tool is given.
ClearBeforeAnyAge(scope) ==
    /\ MayClear
    /\ rows' = {k \in rows : KeyTool[k] \notin scope}
    /\ steps' = {k \in steps : KeyTool[k] \notin scope}
    /\ clears' = clears + 1
    /\ UNCHANGED <<diskVars, marks, runVars, faults>>

\* --older-than, with or without --tool: the watermarks are kept.
ClearBefore(scope) ==
    /\ MayClear
    /\ rows' = {k \in rows : k \notin Old \/ KeyTool[k] \notin scope}
    /\ steps' = {k \in steps : k \notin Old \/ KeyTool[k] \notin scope}
    /\ clears' = clears + 1
    /\ UNCHANGED <<diskVars, marks, runVars, faults>>

Scopes == {Tools} \cup {{t} : t \in Tools}

-----------------------------------------------------------------------------
RunStep(p) ==
    \/ Begin(p) \/ DiscoverClaude(p) \/ PruneTrace(p) \/ DropSuperseded(p)
    \/ \E f \in Files : Skip(p, f) \/ Stat(p, f)
    \/ ParseClean(p) \/ ParseFailed(p) \/ InsertSteps(p)
    \/ DiscoverSources(p) \/ Flush(p) \/ PruneVanished(p)

Next ==
    \/ \E f \in Files : Append(f) \/ Rotate(f)
    \/ \E p \in Runs : RunStep(p) \/ Crash(p)
    \/ \E scope \in Scopes : ClearTools(scope) \/ ClearBefore(scope)

Spec == Init /\ [][Next]_vars

\* Someone (cron, a hook, the person) keeps running backfill, and a run that
\* has started keeps going unless it is killed.
FairSpec == Spec /\ \A p \in Runs : WF_vars(RunStep(p))

-----------------------------------------------------------------------------
(* Properties                                                              *)

\* What the importer promises: the sub-agent transcripts of the promise are
\* those that have ever been on disk.
Ledger == INSTANCE ImportLedger WITH
    transcripts <- {s \in SubFiles : onDisk[s] # "absent"}

\* Every step of the importer, of the logs and of `clear` is one of the
\* promise's, or does not touch the store.
ImplementsLedger == Ledger!Spec

\* A watermark is only ever held for an input whose records and steps are all
\* stored, whatever was killed between the two inserts and the flush, appended
\* while it was read, or deleted since.
WatermarkSound == Ledger!ClaimsHold

\* A run skips an input on a watermark it loaded at its start.  By the time it
\* does, the store still holds everything this build reads from the bytes now
\* on disk, so the skip loses nothing.
SkipSound ==
    [][\A p \in Runs, f \in Files :
         Skip(p, f) => Ledger!Imported(build[p], f, size[f])]_vars

\* One importer at a time never counts a sub-agent twice while its transcript
\* is there: from the superseded pass to the end of the run, no aggregate of
\* a discovered transcript is stored.
NoAggregateBesideTranscript ==
    \A p \in Runs :
      pc[p] \notin {"idle", "begun", "prune-trace", "drop-superseded"} =>
        rows \cap AggOf(Covered(p)) = {}

\* What a sub-agent's own transcript contributes, in any build.
TurnsOf(s) == UNION {Yield[b][s][MaxSize] : b \in Builds}

\* FEATURES.md:136, "re-runs never double-count": no run ends with a
\* sub-agent's aggregate stored beside the turns it summarises.
CountedOnce ==
    \A p \in Runs, s \in SubFiles :
      pc[p] = "prune" => Agg[s] \notin rows \/ TurnsOf(s) \cap rows = {}

\* A record every build extracts from a log that stays on disk is eventually
\* stored, through crashes, failed reads and a clear that forgot it.
EventuallyImported ==
    \A f \in Files, k \in Keys :
      (onDisk[f] = "present" /\ \A b \in Builds : k \in Yield[b][f][size[f]])
        ~> (k \in rows \/ Ledger!RowExcused(k) \/ onDisk[f] = "gone")

\* An aggregate stored before its sub-agent's transcript appeared does not
\* stay beside it: a parent skipped as unchanged is never parsed again, so
\* only the superseded pass can reach that row.
EventuallySuperseded ==
    \A s \in SubFiles :
      onDisk[s] = "present" ~> (Agg[s] \notin rows \/ onDisk[s] = "gone")

\* The store settles on what is on disk, each thing once.
EventuallySettled == EventuallyImported /\ EventuallySuperseded

=============================================================================
