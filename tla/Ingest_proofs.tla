---------------------------- MODULE Ingest_proofs ----------------------------
(***************************************************************************)
(* Ingest, for any number of importers, inputs, builds and keys: every     *)
(* watermark is sound and every skip is harmless as long as `clear` does   *)
(* not run during an import, and the importer implements ImportLedger.     *)
(***************************************************************************)
EXTENDS Ingest, TLAPS

Reading(p) == pc[p] \in {"claude-read", "sources-read"}
Tracing(p) == pc[p] \in {"claude-trace", "sources-trace"}

\* How the variables of a run hang together.
RunShape ==
    \A p \in Runs :
      /\ pc[p] = "idle" => known[p] = {} /\ done[p] = {}
      /\ pc[p] # "idle" => build[p] \in Builds
      /\ Reading(p) \/ Tracing(p) => current[p] # NoInput
      /\ current[p] # NoInput => current[p].size <= size[current[p].file]

\* A discovered transcript has been on disk.
SeenWasOnDisk ==
    \A p \in Runs : \A s \in seen[p] : onDisk[s] # "absent"

\* Between its two inserts, a cleanly parsed input has its records stored, at
\* least up to the signature that will be recorded.
InsertedRecords ==
    \A p \in Runs :
      Tracing(p) /\ current[p].clean =>
        /\ current[p].size <= current[p].read
        /\ \A k \in Yield[build[p]][current[p].file][current[p].read] :
             k \in rows \/ Ledger!RowExcused(k)

\* What a run will mark is stored, and what it loaded as marked still is.
RunClaimsHold ==
    \A p \in Runs :
      /\ \A m \in done[p] : Ledger!Claimed(m)
      /\ \A m \in known[p] : m.build = build[p] /\ Ledger!Claimed(m)

IInv ==
    /\ TypeOK
    /\ RunShape
    /\ SeenWasOnDisk
    /\ InsertedRecords
    /\ RunClaimsHold
    /\ WatermarkSound

-----------------------------------------------------------------------------
(* A claim survives every step that loses only what may be missing.        *)

NoLoss ==
    /\ \A k \in Keys : k \in rows => k \in rows' \/ Ledger!RowExcused(k)'
    /\ \A k \in Keys : k \in steps => k \in steps' \/ Ledger!StepExcused(k)
    /\ \A f \in Files : onDisk[f] # "absent" => onDisk'[f] # "absent"

LEMMA ExcuseStable ==
    ASSUME NoLoss, NEW k, Ledger!RowExcused(k)
    PROVE  Ledger!RowExcused(k)'
BY ShapeAssumption DEF NoLoss, Ledger!RowExcused

LEMMA ClaimStable ==
    ASSUME NoLoss, NEW m \in Mark, Ledger!Claimed(m)
    PROVE  Ledger!Claimed(m)'
<1>1. m.build \in Builds /\ m.file \in Files /\ m.size \in Sizes
  BY DEF Mark
<1>2. /\ Yield[m.build][m.file][m.size] \subseteq Keys
      /\ Trace[m.build][m.file][m.size] \subseteq Keys
  BY <1>1, ParserAssumption
<1>3. ASSUME NEW k \in Yield[m.build][m.file][m.size]
      PROVE  k \in rows' \/ Ledger!RowExcused(k)'
  <2>1. k \in rows \/ Ledger!RowExcused(k)
    BY DEF Ledger!Claimed, Ledger!Imported
  <2>2. QED
    BY <2>1, <1>2, ExcuseStable DEF NoLoss
<1>4. ASSUME NEW k \in Trace[m.build][m.file][m.size]
      PROVE  k \in steps' \/ Ledger!StepExcused(k)
  BY <1>2 DEF NoLoss, Ledger!Claimed, Ledger!Imported
<1>5. QED
  BY <1>3, <1>4 DEF Ledger!Claimed, Ledger!Imported, Ledger!StepExcused

\* A step that neither loses anything nor claims anything new.
ClaimsNothingNew ==
    /\ NoLoss
    /\ marks' \subseteq marks
    /\ \A p \in Runs :
         /\ done'[p] \subseteq done[p] /\ known'[p] \subseteq known[p]
         /\ build'[p] = build[p] \/ known'[p] = {}

LEMMA NothingNew ==
    ASSUME IInv, ClaimsNothingNew
    PROVE  RunClaimsHold' /\ WatermarkSound'
<1>1. NoLoss
  BY DEF ClaimsNothingNew
<1>2. /\ marks \subseteq Mark
      /\ \A p \in Runs : done[p] \subseteq Mark /\ known[p] \subseteq Mark
  BY DEF IInv, TypeOK
<1>3. WatermarkSound'
  <2>1. \A m \in marks : Ledger!Claimed(m)
    BY DEF IInv, WatermarkSound, Ledger!ClaimsHold
  <2>2. \A m \in marks' : Ledger!Claimed(m)'
    BY <1>1, <1>2, <2>1, ClaimStable DEF ClaimsNothingNew
  <2>3. QED
    BY <2>2 DEF WatermarkSound, Ledger!ClaimsHold
<1>4. ASSUME NEW p \in Runs
      PROVE  /\ \A m \in done'[p] : Ledger!Claimed(m)'
             /\ \A m \in known'[p] : m.build = build'[p] /\ Ledger!Claimed(m)'
  <2>1. /\ \A m \in done[p] : Ledger!Claimed(m)
        /\ \A m \in known[p] : m.build = build[p] /\ Ledger!Claimed(m)
    BY DEF IInv, RunClaimsHold
  <2>2. \A m \in done'[p] : Ledger!Claimed(m)'
    BY <1>1, <1>2, <2>1, ClaimStable DEF ClaimsNothingNew
  <2>3. \A m \in known'[p] : Ledger!Claimed(m)'
    BY <1>1, <1>2, <2>1, ClaimStable DEF ClaimsNothingNew
  <2>4. \A m \in known'[p] : m.build = build'[p]
    BY <2>1 DEF ClaimsNothingNew
  <2>5. QED
    BY <2>2, <2>3, <2>4
<1>5. QED
  BY <1>3, <1>4 DEF RunClaimsHold

-----------------------------------------------------------------------------
(* The steps of the logs.                                                  *)

LEMMA AppendStep ==
    ASSUME IInv, NEW f \in Files, Append(f)
    PROVE  IInv'
<1> USE DEF Append, storeVars, runVars, budget
<1>0. size[f] + 1 \in Sizes /\ size \in [Files -> Sizes]
  <2>1. size \in [Files -> Sizes] /\ Limit[f] \in Sizes /\ size[f] < Limit[f]
    BY BoundsAssumption DEF IInv, TypeOK
  <2>2. size[f] \in Sizes
    BY <2>1
  <2>3. QED
    BY <2>1, <2>2, BoundsAssumption DEF Sizes
<1>1. onDisk' \in [Files -> {"absent", "present", "gone"}] /\ size' \in [Files -> Sizes]
  BY <1>0 DEF IInv, TypeOK
<1>2. TypeOK'
  BY <1>1 DEF IInv, TypeOK
<1>3. NoLoss
  BY DEF IInv, TypeOK, NoLoss
<1>4. RunShape'
  <2>1. \A g \in Files : size[g] <= size'[g] /\ size[g] \in Int /\ size'[g] \in Int
    BY <1>1, BoundsAssumption DEF IInv, TypeOK, Sizes
  <2>2. ASSUME NEW p \in Runs, current[p] # NoInput
        PROVE  current[p].file \in Files /\ current[p].size \in Int
    BY <2>2, BoundsAssumption DEF IInv, TypeOK, Input, Sizes
  <2>3. QED
    BY <2>1, <2>2 DEF IInv, RunShape, Reading, Tracing
<1>5. SeenWasOnDisk'
  BY DEF IInv, TypeOK, SeenWasOnDisk
<1>6. InsertedRecords'
  BY <1>3, ExcuseStable DEF IInv, InsertedRecords, Tracing
<1>7. ClaimsNothingNew
  BY <1>3 DEF ClaimsNothingNew
<1>8. QED
  BY <1>2, <1>4, <1>5, <1>6, <1>7, NothingNew DEF IInv

LEMMA RotateStep ==
    ASSUME IInv, NEW f \in Files, Rotate(f)
    PROVE  IInv'
<1> USE DEF Rotate, storeVars, runVars, budget
<1>1. TypeOK'
  BY DEF IInv, TypeOK
<1>2. NoLoss
  BY DEF IInv, TypeOK, NoLoss
<1>3. RunShape' /\ SeenWasOnDisk'
  BY DEF IInv, TypeOK, RunShape, Reading, Tracing, SeenWasOnDisk
<1>4. InsertedRecords'
  BY <1>2, ExcuseStable DEF IInv, InsertedRecords, Tracing
<1>5. ClaimsNothingNew
  BY <1>2 DEF ClaimsNothingNew
<1>6. QED
  BY <1>1, <1>3, <1>4, <1>5, NothingNew DEF IInv

-----------------------------------------------------------------------------
(* The steps of a run.                                                     *)

LEMMA BeginStep ==
    ASSUME IInv, NEW p \in Runs, Begin(p)
    PROVE  IInv'
<1> USE DEF Begin, Goto, diskVars, storeVars, budget
<1>1. TypeOK'
  BY DEF IInv, TypeOK, Stages
<1>2. RunShape' /\ SeenWasOnDisk' /\ InsertedRecords'
  <2>1. RunShape'
    BY DEF IInv, TypeOK, RunShape, Reading, Tracing
  <2>2. InsertedRecords'
    BY DEF IInv, TypeOK, InsertedRecords, Tracing, Ledger!RowExcused
  <2>3. QED
    BY <2>1, <2>2 DEF IInv, SeenWasOnDisk
<1>3. \A m : Ledger!Claimed(m) <=> Ledger!Claimed(m)'
  BY DEF Ledger!Claimed, Ledger!Imported, Ledger!RowExcused, Ledger!StepExcused
<1>4. \A m \in marks : Ledger!Claimed(m)
  BY DEF IInv, WatermarkSound, Ledger!ClaimsHold
<1>5. WatermarkSound'
  BY <1>3, <1>4 DEF WatermarkSound, Ledger!ClaimsHold
<1>6. ASSUME NEW q \in Runs
      PROVE  /\ \A m \in done'[q] : Ledger!Claimed(m)'
             /\ \A m \in known'[q] : m.build = build'[q] /\ Ledger!Claimed(m)'
  <2>1. CASE q = p
    BY <2>1, <1>3, <1>4 DEF IInv, TypeOK, RunClaimsHold
  <2>2. CASE q # p
    BY <2>2, <1>3 DEF IInv, TypeOK, RunClaimsHold
  <2>3. QED
    BY <2>1, <2>2
<1>7. QED
  BY <1>1, <1>2, <1>5, <1>6 DEF IInv, RunClaimsHold

LEMMA DiscoverClaudeStep ==
    ASSUME IInv, NEW p \in Runs, DiscoverClaude(p)
    PROVE  IInv'
<1> USE DEF DiscoverClaude, Goto, diskVars, storeVars, budget
<1>1. Present({Claude}) \subseteq Files
      /\ \A f \in Present({Claude}) : onDisk[f] # "absent"
  BY DEF Present
<1>2. TypeOK'
  BY <1>1 DEF IInv, TypeOK, Stages
<1>3. RunShape'
  BY DEF IInv, TypeOK, RunShape, Reading, Tracing
<1>4. SeenWasOnDisk'
  BY <1>1 DEF IInv, TypeOK, SeenWasOnDisk
<1>5. NoLoss
  BY DEF IInv, TypeOK, NoLoss
<1>6. InsertedRecords'
  BY DEF IInv, TypeOK, InsertedRecords, Tracing, Ledger!RowExcused
<1>7. ClaimsNothingNew
  BY <1>5 DEF ClaimsNothingNew
<1>8. QED
  BY <1>2, <1>3, <1>4, <1>6, <1>7, NothingNew DEF IInv

LEMMA PruneTraceStep ==
    ASSUME IInv, NEW p \in Runs, PruneTrace(p)
    PROVE  IInv'
<1> USE DEF PruneTrace, Goto, diskVars, budget
<1>1. TypeOK'
  BY DEF IInv, TypeOK, Stages
<1>2. RunShape' /\ SeenWasOnDisk'
  BY DEF IInv, TypeOK, RunShape, Reading, Tracing, SeenWasOnDisk
<1>3. NoLoss
  BY DEF IInv, TypeOK, NoLoss, Ledger!StepExcused
<1>4. InsertedRecords'
  BY DEF IInv, TypeOK, InsertedRecords, Tracing, Ledger!RowExcused
<1>5. ClaimsNothingNew
  BY <1>3 DEF ClaimsNothingNew
<1>6. QED
  BY <1>1, <1>2, <1>4, <1>5, NothingNew DEF IInv

LEMMA DropSupersededStep ==
    ASSUME IInv, NEW p \in Runs, DropSuperseded(p)
    PROVE  IInv'
<1> USE DEF DropSuperseded, Goto, diskVars, budget
<1>1. TypeOK'
  BY DEF IInv, TypeOK, Stages
<1>2. RunShape' /\ SeenWasOnDisk'
  BY DEF IInv, TypeOK, RunShape, Reading, Tracing, SeenWasOnDisk
<1>3. \A k \in AggOf(Covered(p)) : Ledger!RowExcused(k)
  BY DEF IInv, SeenWasOnDisk, AggOf, Covered, Ledger!RowExcused
<1>4. \A k : Ledger!RowExcused(k) => Ledger!RowExcused(k)'
  BY DEF Ledger!RowExcused
<1>5. NoLoss
  BY <1>3, <1>4 DEF IInv, TypeOK, NoLoss
<1>6. InsertedRecords'
  BY <1>3, <1>4 DEF IInv, TypeOK, InsertedRecords, Tracing
<1>7. ClaimsNothingNew
  BY <1>5 DEF ClaimsNothingNew
<1>8. QED
  BY <1>1, <1>2, <1>6, <1>7, NothingNew DEF IInv

LEMMA SkipStep ==
    ASSUME IInv, NEW p \in Runs, NEW f \in Files, Skip(p, f)
    PROVE  IInv'
<1> USE DEF Skip, diskVars, storeVars, budget
<1>1. TypeOK'
  BY DEF IInv, TypeOK
<1>2. RunShape' /\ SeenWasOnDisk' /\ InsertedRecords'
  BY DEF IInv, RunShape, Reading, Tracing, SeenWasOnDisk, InsertedRecords,
         Ledger!RowExcused
<1>3. NoLoss
  BY DEF IInv, TypeOK, NoLoss
<1>4. ClaimsNothingNew
  BY <1>3 DEF ClaimsNothingNew
<1>5. QED
  BY <1>1, <1>2, <1>4, NothingNew DEF IInv

LEMMA StatStep ==
    ASSUME IInv, NEW p \in Runs, NEW f \in Files, Stat(p, f)
    PROVE  IInv'
<1> USE DEF Stat, Goto, diskVars, storeVars, budget
<1>1. size[f] \in Sizes /\ 0 \in Sizes
  BY BoundsAssumption DEF IInv, TypeOK, Sizes
<1>2. TypeOK'
  <2>1. current' \in [Runs -> Input \cup {NoInput}]
    BY <1>1 DEF IInv, TypeOK, Input
  <2>2. pc' \in [Runs -> Stages] /\ todo' \in [Runs -> SUBSET Files]
    BY DEF IInv, TypeOK, Stages
  <2>3. QED
    BY <2>1, <2>2 DEF IInv, TypeOK
<1>3. RunShape'
  <2> DEFINE in == [file |-> f, size |-> size[f], read |-> 0,
                    clean |-> onDisk[f] = "present"]
  <2>1. in # NoInput
    <3>1. in \in Input
      BY <1>1 DEF Input
    <3>2. QED
      BY <3>1, SentinelAssumption
  <2>2. current'[p] = in /\ size'[f] = size[f] /\ size[f] <= size[f]
    BY <1>1, BoundsAssumption DEF IInv, TypeOK, Sizes
  <2>3. ASSUME NEW q \in Runs
        PROVE  /\ pc'[q] = "idle" => known'[q] = {} /\ done'[q] = {}
               /\ pc'[q] # "idle" => build'[q] \in Builds
               /\ Reading(q)' \/ Tracing(q)' => current'[q] # NoInput
               /\ current'[q] # NoInput => current'[q].size <= size'[current'[q].file]
    <3>1. CASE q = p
      BY <2>1, <2>2, <3>1 DEF IInv, TypeOK, RunShape, Reading, Tracing
    <3>2. CASE q # p
      BY <3>2 DEF IInv, TypeOK, RunShape, Reading, Tracing
    <3>3. QED
      BY <3>1, <3>2
  <2>4. QED
    BY <2>3 DEF RunShape, Reading, Tracing
<1>4. SeenWasOnDisk'
  BY DEF IInv, SeenWasOnDisk
<1>5. InsertedRecords'
  BY DEF IInv, TypeOK, InsertedRecords, Tracing, Ledger!RowExcused
<1>6. NoLoss
  BY DEF IInv, TypeOK, NoLoss
<1>7. ClaimsNothingNew
  BY <1>6 DEF ClaimsNothingNew
<1>8. QED
  BY <1>2, <1>3, <1>4, <1>5, <1>7, NothingNew DEF IInv

\* Both outcomes of a parse store what was read up to n.
LEMMA InsertReadStep ==
    ASSUME IInv, NEW p \in Runs, current[p] # NoInput,
           NEW n \in Sizes, NEW clean \in BOOLEAN,
           clean => current[p].size <= n,
           InsertRead(p, n, clean),
           faults' \in 0..MaxFaults, clears' = clears
    PROVE  IInv'
<1> USE DEF InsertRead, diskVars
<1> DEFINE in == current[p]
<1>1. in \in Input /\ build[p] \in Builds
  BY DEF IInv, TypeOK, RunShape, Goto
<1>2. Yield[build[p]][in.file][n] \subseteq Keys
  BY <1>1, ParserAssumption DEF Input
<1>3. pc' \in [Runs -> Stages]
  BY DEF IInv, TypeOK, Stages, Goto
<1>4. current'[p] = [file |-> in.file, size |-> in.size, read |-> n, clean |-> clean]
      /\ current'[p] \in Input
      /\ \A q \in Runs : q # p => current'[q] = current[q]
  BY <1>1 DEF IInv, TypeOK, Input
<1>5. TypeOK'
  <2>1. current' \in [Runs -> Input \cup {NoInput}]
    BY <1>4 DEF IInv, TypeOK
  <2>2. rows' \subseteq Keys
    BY <1>2 DEF IInv, TypeOK
  <2>3. QED
    BY <1>3, <2>1, <2>2 DEF IInv, TypeOK
<1>6. RunShape'
  <2>1. current'[p] # NoInput
    BY <1>4, SentinelAssumption
  <2>2. current'[p].size <= size'[current'[p].file]
    BY <1>4 DEF IInv, RunShape
  <2>3. \A q \in Runs : q # p => pc'[q] = pc[q]
    BY DEF Goto, IInv, TypeOK
  <2>4. pc'[p] # "idle" /\ build[p] \in Builds
    BY <1>1 DEF Goto, IInv, TypeOK
  <2>5. QED
    BY <1>4, <2>1, <2>2, <2>3, <2>4 DEF IInv, RunShape, Reading, Tracing
<1>7. SeenWasOnDisk'
  BY DEF IInv, SeenWasOnDisk
<1>8. NoLoss
  BY DEF IInv, TypeOK, NoLoss
<1>9. InsertedRecords'
  <2>1. \A k : Ledger!RowExcused(k) <=> Ledger!RowExcused(k)'
    BY DEF Ledger!RowExcused
  <2>2. \A k \in AggOf(Covered(p)) : Ledger!RowExcused(k)
    BY DEF IInv, SeenWasOnDisk, AggOf, Covered, Ledger!RowExcused
  <2>3. \A k \in Yield[build[p]][in.file][n] : k \in rows' \/ Ledger!RowExcused(k)'
    BY <2>1, <2>2
  <2>4. ASSUME NEW q \in Runs, Tracing(q)', current'[q].clean
        PROVE  /\ current'[q].size <= current'[q].read
               /\ \A k \in Yield[build'[q]][current'[q].file][current'[q].read] :
                    k \in rows' \/ Ledger!RowExcused(k)'
    <3>1. CASE q = p
      BY <3>1, <1>4, <2>3, <2>4
    <3>2. CASE q # p
      <4>1. Tracing(q) /\ current'[q] = current[q] /\ build'[q] = build[q]
        BY <3>2, <1>4, <2>4 DEF Tracing, Goto, IInv, TypeOK
      <4>2. QED
        BY <4>1, <2>1, <2>4 DEF IInv, InsertedRecords
    <3>3. QED
      BY <3>1, <3>2
  <2>5. QED
    BY <2>4 DEF InsertedRecords, Tracing
<1>10. ClaimsNothingNew
  BY <1>8 DEF ClaimsNothingNew
<1>11. QED
  BY <1>5, <1>6, <1>7, <1>9, <1>10, NothingNew DEF IInv

LEMMA ParseCleanStep ==
    ASSUME IInv, NEW p \in Runs, ParseClean(p)
    PROVE  IInv'
<1>1. current[p] \in Input
  BY DEF ParseClean, IInv, TypeOK
<1>2. PICK n \in current[p].size .. size[current[p].file] : InsertRead(p, n, TRUE)
  BY DEF ParseClean
<1>3. size[current[p].file] \in Sizes /\ current[p].size \in Sizes
  BY <1>1 DEF IInv, TypeOK, Input
<1>4. n \in Sizes /\ current[p].size <= n
  BY <1>3, BoundsAssumption DEF Sizes
<1>5. faults' \in 0..MaxFaults /\ clears' = clears
  BY DEF ParseClean, budget, IInv, TypeOK
<1>6. current[p] # NoInput
  BY DEF ParseClean
<1>7. QED
  BY <1>2, <1>4, <1>5, <1>6, InsertReadStep

LEMMA ParseFailedStep ==
    ASSUME IInv, NEW p \in Runs, ParseFailed(p)
    PROVE  IInv'
<1>1. current[p] \in Input /\ current[p] # NoInput
  BY DEF ParseFailed, IInv, TypeOK
<1>2. size[current[p].file] \in Sizes
  BY <1>1 DEF IInv, TypeOK, Input
<1>3. 0 \in 0 .. size[current[p].file]
  BY <1>2, BoundsAssumption DEF Sizes
<1>4. PICK n \in 0 .. size[current[p].file] : InsertRead(p, n, FALSE)
  BY <1>3 DEF ParseFailed
<1>5. n \in Sizes
  BY <1>2, <1>4, BoundsAssumption DEF Sizes
<1>6. faults' \in 0..MaxFaults /\ clears' = clears
  <2>1. faults \in 0..MaxFaults
    BY DEF IInv, TypeOK
  <2>2. CASE UNCHANGED budget
    BY <2>1, <2>2 DEF budget
  <2>3. CASE faults < MaxFaults /\ faults' = faults + 1 /\ UNCHANGED clears
    BY <2>1, <2>3, BoundsAssumption
  <2>4. QED
    BY <2>2, <2>3 DEF ParseFailed
<1>7. QED
  BY <1>1, <1>4, <1>5, <1>6, InsertReadStep

LEMMA InsertStepsStep ==
    ASSUME IInv, NEW p \in Runs, InsertSteps(p)
    PROVE  IInv'
<1> DEFINE in == current[p]
           mark == [file |-> in.file, build |-> build[p], size |-> in.size]
           recorded == IF in.clean THEN {mark} ELSE {}
<1> USE DEF InsertSteps, InsertStepsRecording, diskVars, budget
<1>1. /\ in \in Input /\ build[p] \in Builds
      /\ pc[p] # "idle" /\ Tracing(p)
  BY DEF IInv, TypeOK, RunShape, Goto, Tracing
<1>2. mark \in Mark
  BY <1>1 DEF Mark, Input
<1>3. Trace[build[p]][in.file][in.read] \subseteq Keys
  BY <1>1, ParserAssumption DEF Input
<1>4. TypeOK'
  <2>1. pc' \in [Runs -> Stages]
    BY DEF IInv, TypeOK, Stages, Goto
  <2>2. steps' \subseteq Keys
    BY <1>3 DEF IInv, TypeOK
  <2>3. done' \in [Runs -> SUBSET Mark]
    BY <1>2 DEF IInv, TypeOK
  <2>4. current' \in [Runs -> Input \cup {NoInput}]
    BY DEF IInv, TypeOK
  <2>5. QED
    BY <2>1, <2>2, <2>3, <2>4 DEF IInv, TypeOK
<1>5. RunShape'
  <2>1. pc'[p] # "idle" /\ pc'[p] \in {"claude", "sources"}
    BY DEF IInv, TypeOK, Goto
  <2>2. \A q \in Runs : q # p =>
          pc'[q] = pc[q] /\ current'[q] = current[q] /\ done'[q] = done[q]
    BY DEF IInv, TypeOK, Goto
  <2>3. current'[p] = NoInput
    BY DEF IInv, TypeOK
  <2>4. QED
    BY <1>1, <2>1, <2>2, <2>3 DEF IInv, RunShape, Reading, Tracing
<1>6. SeenWasOnDisk'
  BY DEF IInv, SeenWasOnDisk
<1>7. NoLoss
  BY DEF IInv, TypeOK, NoLoss
<1>8. InsertedRecords'
  BY DEF IInv, TypeOK, InsertedRecords, Tracing, Goto, Ledger!RowExcused
<1>9. \A m \in recorded : Ledger!Claimed(m)'
  <2> SUFFICES ASSUME NEW m \in recorded
               PROVE  Ledger!Claimed(m)'
    OBVIOUS
  <2>1. in.clean /\ m.build = build[p] /\ m.file = in.file /\ m.size = in.size
    OBVIOUS
  <2>2. /\ in.size \in Sizes /\ in.read \in Sizes /\ in.file \in Files
        /\ in.size <= in.read
    BY <1>1, <2>1 DEF IInv, InsertedRecords, Input
  <2>3. /\ Yield[build[p]][in.file][in.size] \subseteq Yield[build[p]][in.file][in.read]
        /\ Trace[build[p]][in.file][in.size] \subseteq Trace[build[p]][in.file][in.read]
    BY <1>1, <2>2, ParserAssumption
  <2>4. \A k \in Yield[build[p]][in.file][in.read] : k \in rows \/ Ledger!RowExcused(k)
    BY <1>1, <2>1 DEF IInv, InsertedRecords
  <2>5. \A k \in Trace[build[p]][in.file][in.read] : k \in steps' \/ k \in Horizon
    OBVIOUS
  <2>6. rows' = rows /\ \A k : Ledger!RowExcused(k) => Ledger!RowExcused(k)'
    BY DEF Ledger!RowExcused
  <2>7. \A k \in Yield[m.build][m.file][m.size] : k \in rows' \/ Ledger!RowExcused(k)'
    BY <2>1, <2>3, <2>4, <2>6
  <2>8. \A k \in Trace[m.build][m.file][m.size] : k \in steps' \/ k \in Horizon
    BY <2>1, <2>3, <2>5
  <2>9. QED
    BY <2>7, <2>8 DEF Ledger!Claimed, Ledger!Imported, Ledger!StepExcused
<1>10. WatermarkSound'
  BY <1>7, ClaimStable DEF IInv, TypeOK, WatermarkSound, Ledger!ClaimsHold
<1>11. RunClaimsHold'
  <2> SUFFICES ASSUME NEW q \in Runs
               PROVE  /\ \A m \in done'[q] : Ledger!Claimed(m)'
                      /\ \A m \in known[q] : m.build = build[q] /\ Ledger!Claimed(m)'
    BY DEF RunClaimsHold
  <2>1. done'[q] \subseteq done[q] \cup (IF q = p THEN recorded ELSE {})
    BY DEF IInv, TypeOK
  <2>2. done[q] \subseteq Mark /\ known[q] \subseteq Mark
    BY DEF IInv, TypeOK
  <2>3. \A m \in done[q] : Ledger!Claimed(m)'
    BY <1>7, <2>2, ClaimStable DEF IInv, RunClaimsHold
  <2>4. \A m \in known[q] : m.build = build[q] /\ Ledger!Claimed(m)'
    BY <1>7, <2>2, ClaimStable DEF IInv, RunClaimsHold
  <2>5. QED
    BY <1>9, <2>1, <2>3, <2>4
<1>12. QED
  BY <1>4, <1>5, <1>6, <1>8, <1>10, <1>11 DEF IInv

LEMMA DiscoverSourcesStep ==
    ASSUME IInv, NEW p \in Runs, DiscoverSources(p)
    PROVE  IInv'
<1> USE DEF DiscoverSources, Goto, diskVars, storeVars, budget
<1>1. Present(Others) \subseteq Files
      /\ \A f \in Present(Others) : onDisk[f] # "absent"
  BY DEF Present
<1>2. TypeOK'
  BY <1>1 DEF IInv, TypeOK, Stages
<1>3. RunShape'
  BY DEF IInv, TypeOK, RunShape, Reading, Tracing
<1>4. SeenWasOnDisk'
  BY <1>1 DEF IInv, TypeOK, SeenWasOnDisk
<1>5. NoLoss
  BY DEF IInv, TypeOK, NoLoss
<1>6. InsertedRecords'
  BY DEF IInv, TypeOK, InsertedRecords, Tracing, Ledger!RowExcused
<1>7. ClaimsNothingNew
  BY <1>5 DEF ClaimsNothingNew
<1>8. QED
  BY <1>2, <1>3, <1>4, <1>6, <1>7, NothingNew DEF IInv

LEMMA FlushStep ==
    ASSUME IInv, NEW p \in Runs, Flush(p)
    PROVE  IInv'
<1> USE DEF Flush, Goto, diskVars, budget
<1>1. marks' \subseteq marks \cup done[p]
  OBVIOUS
<1>2. TypeOK'
  BY <1>1 DEF IInv, TypeOK, Stages
<1>3. RunShape' /\ SeenWasOnDisk'
  BY DEF IInv, TypeOK, RunShape, Reading, Tracing, SeenWasOnDisk
<1>4. InsertedRecords'
  BY DEF IInv, TypeOK, InsertedRecords, Tracing, Ledger!RowExcused
<1>5. \A m : Ledger!Claimed(m) <=> Ledger!Claimed(m)'
  BY DEF Ledger!Claimed, Ledger!Imported, Ledger!RowExcused, Ledger!StepExcused
<1>6. WatermarkSound'
  BY <1>1, <1>5 DEF IInv, RunClaimsHold, WatermarkSound, Ledger!ClaimsHold
<1>7. RunClaimsHold'
  BY <1>5 DEF IInv, RunClaimsHold
<1>8. QED
  BY <1>2, <1>3, <1>4, <1>6, <1>7 DEF IInv

\* A run that ends or dies forgets what it was going to mark.
LEMMA ResetStep ==
    ASSUME IInv, NEW p \in Runs, Reset(p), marks' \subseteq marks,
           faults' \in 0..MaxFaults,
           UNCHANGED <<onDisk, size, rows, steps, clears>>
    PROVE  IInv'
<1> USE DEF Reset
<1>1. TypeOK'
  BY DEF IInv, TypeOK, Stages
<1>2. RunShape'
  BY DEF IInv, TypeOK, RunShape, Reading, Tracing
<1>3. SeenWasOnDisk'
  BY DEF IInv, TypeOK, SeenWasOnDisk
<1>4. InsertedRecords'
  BY DEF IInv, TypeOK, InsertedRecords, Tracing, Ledger!RowExcused
<1>5. NoLoss
  BY DEF IInv, TypeOK, NoLoss
<1>6. ClaimsNothingNew
  BY <1>5 DEF IInv, TypeOK, ClaimsNothingNew
<1>7. QED
  BY <1>1, <1>2, <1>3, <1>4, <1>6, NothingNew DEF IInv

LEMMA PruneVanishedStep ==
    ASSUME IInv, NEW p \in Runs, PruneVanished(p)
    PROVE  IInv'
<1>1. marks' \subseteq marks
  BY DEF PruneVanished
<1>2. Reset(p) /\ faults' \in 0..MaxFaults
      /\ UNCHANGED <<onDisk, size, rows, steps, clears>>
  BY DEF PruneVanished, diskVars, budget, IInv, TypeOK
<1>3. QED
  BY <1>1, <1>2, ResetStep

LEMMA CrashStep ==
    ASSUME IInv, NEW p \in Runs, Crash(p)
    PROVE  IInv'
<1>1. faults' \in 0..MaxFaults
  BY BoundsAssumption DEF Crash, IInv, TypeOK
<1>2. Reset(p) /\ marks' \subseteq marks
      /\ UNCHANGED <<onDisk, size, rows, steps, clears>>
  BY DEF Crash, diskVars, storeVars
<1>3. QED
  BY <1>1, <1>2, ResetStep

-----------------------------------------------------------------------------
(* The steps of `clear`, which must find no run in progress.               *)

LEMMA ClearToolsStep ==
    ASSUME IInv, ClearOverlaps = FALSE, NEW scope, ClearTools(scope)
    PROVE  IInv'
<1> USE DEF ClearTools, diskVars, runVars
<1>1. \A p \in Runs : pc[p] = "idle" /\ known[p] = {} /\ done[p] = {}
  BY DEF MayClear, Idle, IInv, RunShape
<1>2. TypeOK'
  <2>1. clears' \in 0..MaxClears
    BY BoundsAssumption DEF MayClear, IInv, TypeOK
  <2>2. QED
    BY <2>1 DEF IInv, TypeOK
<1>3. RunShape' /\ SeenWasOnDisk' /\ InsertedRecords'
  BY <1>1 DEF IInv, RunShape, Reading, Tracing, SeenWasOnDisk, InsertedRecords
<1>4. RunClaimsHold'
  BY <1>1 DEF RunClaimsHold
<1>5. ASSUME NEW m \in marks'
      PROVE  Ledger!Claimed(m)'
  <2>1. /\ m \in marks /\ ToolOf[m.file] \notin scope
        /\ m.build \in Builds /\ m.file \in Files /\ m.size \in Sizes
    BY <1>5 DEF IInv, TypeOK, Mark
  <2>2. Ledger!Claimed(m)
    BY <2>1 DEF IInv, WatermarkSound, Ledger!ClaimsHold
  <2>3. \A k \in Yield[m.build][m.file][m.size] \cup Trace[m.build][m.file][m.size] :
          KeyTool[k] \notin scope
    BY <2>1, ParserAssumption
  <2>4. \A k : Ledger!RowExcused(k) => Ledger!RowExcused(k)'
    BY DEF Ledger!RowExcused
  <2>5. QED
    BY <2>2, <2>3, <2>4 DEF Ledger!Claimed, Ledger!Imported, Ledger!StepExcused
<1>6. QED
  BY <1>2, <1>3, <1>4, <1>5 DEF IInv, WatermarkSound, Ledger!ClaimsHold

LEMMA ClearBeforeStep ==
    ASSUME IInv, NEW scope, ClearBefore(scope)
    PROVE  IInv'
<1> USE DEF ClearBefore, diskVars, runVars
<1>1. TypeOK'
  <2>1. clears' \in 0..MaxClears
    BY BoundsAssumption DEF MayClear, IInv, TypeOK
  <2>2. QED
    BY <2>1 DEF IInv, TypeOK
<1>2. RunShape' /\ SeenWasOnDisk'
  BY DEF IInv, RunShape, Reading, Tracing, SeenWasOnDisk
<1>3. /\ \A k : Ledger!RowExcused(k) => Ledger!RowExcused(k)'
      /\ \A k \in Old : Ledger!RowExcused(k)'
  BY DEF Ledger!RowExcused
<1>4. InsertedRecords'
  BY <1>3 DEF IInv, InsertedRecords, Tracing
<1>5. NoLoss
  BY <1>3 DEF IInv, TypeOK, NoLoss, Ledger!StepExcused
<1>6. ClaimsNothingNew
  BY <1>5 DEF ClaimsNothingNew
<1>7. QED
  BY <1>1, <1>2, <1>4, <1>6, NothingNew DEF IInv

-----------------------------------------------------------------------------
(* The theorems.                                                           *)

LEMMA InitIInv == Init => IInv
<1> SUFFICES ASSUME Init PROVE IInv
  OBVIOUS
<1>1. TypeOK
  BY BoundsAssumption DEF Init, TypeOK, Stages, Sizes
<1>2. RunShape /\ SeenWasOnDisk /\ InsertedRecords /\ RunClaimsHold
  BY DEF Init, RunShape, Reading, Tracing, SeenWasOnDisk, InsertedRecords,
         RunClaimsHold
<1>3. WatermarkSound
  BY DEF Init, WatermarkSound, Ledger!ClaimsHold
<1>4. QED
  BY <1>1, <1>2, <1>3 DEF IInv

LEMMA RunStepIInv ==
    ASSUME IInv, NEW p \in Runs, RunStep(p) \/ Crash(p)
    PROVE  IInv'
BY BeginStep, DiscoverClaudeStep, PruneTraceStep, DropSupersededStep, SkipStep,
   StatStep, ParseCleanStep, ParseFailedStep, InsertStepsStep,
   DiscoverSourcesStep, FlushStep, PruneVanishedStep, CrashStep DEF RunStep

LEMMA StutterIInv ==
    ASSUME IInv, UNCHANGED vars
    PROVE  IInv'
<1> USE DEF vars
<1>1. \A m : Ledger!Claimed(m) <=> Ledger!Claimed(m)'
  BY DEF Ledger!Claimed, Ledger!Imported, Ledger!RowExcused, Ledger!StepExcused
<1>2. WatermarkSound' /\ RunClaimsHold'
  BY <1>1 DEF IInv, WatermarkSound, Ledger!ClaimsHold, RunClaimsHold
<1>3. TypeOK' /\ RunShape' /\ SeenWasOnDisk'
  BY DEF IInv, TypeOK, RunShape, Reading, Tracing, SeenWasOnDisk
<1>4. InsertedRecords'
  BY DEF IInv, InsertedRecords, Tracing, Ledger!RowExcused
<1>5. QED
  BY <1>2, <1>3, <1>4 DEF IInv

LEMMA NextIInv ==
    ASSUME ClearOverlaps = FALSE, IInv, [Next]_vars
    PROVE  IInv'
BY AppendStep, RotateStep, RunStepIInv, ClearToolsStep, ClearBeforeStep,
   StutterIInv DEF Next

\* Ingest: whatever is killed, appended, rotated or re-read between the inserts
\* of a run and its flush, its state stays well-formed and a watermark is only
\* held for an input whose records and steps are stored.
THEOREM IngestInvariant ==
    ASSUME ClearOverlaps = FALSE
    PROVE  Spec => []IInv
<1>1. Init => IInv
  BY InitIInv
<1>2. IInv /\ [Next]_vars => IInv'
  BY NextIInv
<1>3. QED
  BY <1>1, <1>2, PTL DEF Spec

\* The importers, the store and the logs stay well-typed whatever is killed, appended,
\* rotated and cleared.
THEOREM TypeCorrect ==
    ASSUME ClearOverlaps = FALSE
    PROVE  Spec => []TypeOK
<1>1. IInv => TypeOK
  BY DEF IInv
<1>2. QED
  BY <1>1, IngestInvariant, PTL

\* The watermark table never claims more than the store holds.
THEOREM WatermarksAreSound ==
    ASSUME ClearOverlaps = FALSE
    PROVE  Spec => []WatermarkSound
<1>1. IInv => WatermarkSound
  BY DEF IInv
<1>2. QED
  BY <1>1, IngestInvariant, PTL

\* Skipping an unchanged input loses nothing, although the watermark was loaded
\* at the start of the run and the store has changed since.
THEOREM SkipsAreSound ==
    ASSUME ClearOverlaps = FALSE
    PROVE  Spec => SkipSound
<1> DEFINE SkipOK == \A p \in Runs, f \in Files :
                       Skip(p, f) => Ledger!Imported(build[p], f, size[f])
<1>1. IInv => SkipOK
  <2> SUFFICES ASSUME IInv, NEW p \in Runs, NEW f \in Files, Skip(p, f)
               PROVE  Ledger!Imported(build[p], f, size[f])
    OBVIOUS
  <2>1. PICK m \in known[p] : m.file = f /\ m.size = size[f]
    BY DEF Skip, Unchanged
  <2>2. m.build = build[p] /\ Ledger!Claimed(m)
    BY DEF IInv, RunClaimsHold
  <2>3. QED
    BY <2>1, <2>2 DEF Ledger!Claimed
<1>2. IInv /\ [Next]_vars => [SkipOK]_vars
  BY <1>1
<1>3. QED
  BY <1>2, IngestInvariant, PTL DEF Spec, SkipSound

-----------------------------------------------------------------------------
(* One importer at a time keeps out what it has dropped.                   *)

\* Where a run may be without having dropped the superseded rows.
Undropped == {"idle", "begun", "prune-trace", "drop-superseded"}

Dropped ==
    /\ pc \in [Runs -> Stages] /\ seen \in [Runs -> SUBSET Files]
    /\ NoAggregateBesideTranscript

\* Sources other than Claude's have no sub-agent transcripts.
LEMMA OthersHaveNoAgents == Present(Others) \cap SubFiles = {}
BY ShapeAssumption DEF Present, Others

LEMMA DroppedStep ==
    ASSUME \A p, q \in Runs : p = q, Dropped, [Next]_vars
    PROVE  Dropped'
<1>1. ASSUME UNCHANGED <<pc, seen>>, rows' \subseteq rows
      PROVE  Dropped'
  BY <1>1 DEF Dropped, NoAggregateBesideTranscript, Covered, AggOf
<1>2. ASSUME NEW p \in Runs, NEW from \in Stages, NEW to \in Stages, Goto(p, from, to),
             UNCHANGED seen,
             to \notin Undropped => from \notin Undropped,
             rows' \cap AggOf(Covered(p)) \subseteq rows
      PROVE  Dropped'
  <2>1. pc' \in [Runs -> Stages] /\ seen' \in [Runs -> SUBSET Files]
    BY <1>2 DEF Dropped, Goto
  <2>2. pc[p] = from /\ pc'[p] = to
    BY <1>2 DEF Dropped, Goto
  <2>3. to \notin Undropped => rows' \cap AggOf(Covered(p)) = {}
    BY <1>2, <2>2 DEF Dropped, NoAggregateBesideTranscript, Undropped
  <2>4. QED
    BY <1>2, <2>1, <2>2, <2>3
       DEF Dropped, NoAggregateBesideTranscript, Covered, AggOf, Undropped
<1>3. ASSUME NEW p \in Runs, Reset(p), rows' = rows
      PROVE  Dropped'
  <2>1. pc' \in [Runs -> Stages] /\ seen' \in [Runs -> SUBSET Files] /\ pc'[p] = "idle"
    BY <1>3 DEF Dropped, Reset, Stages
  <2>2. QED
    BY <2>1 DEF Dropped, NoAggregateBesideTranscript
<1>4. ASSUME NEW p \in Runs, NEW n, NEW clean, InsertRead(p, n, clean)
      PROVE  Dropped'
  <2>1. rows' \cap AggOf(Covered(p)) \subseteq rows
    BY <1>4 DEF InsertRead
  <2>2. Goto(p, "claude-read", "claude-trace") \/ Goto(p, "sources-read", "sources-trace")
    BY <1>4 DEF InsertRead
  <2>3. QED
    BY <1>2, <1>4, <2>1, <2>2 DEF InsertRead, Stages, Undropped
<1>5. ASSUME NEW p \in Runs, DropSuperseded(p)
      PROVE  Dropped'
  <2>1. pc' \in [Runs -> Stages] /\ seen' = seen
    BY <1>5 DEF Dropped, DropSuperseded, Goto, Stages
  <2>2. rows' \cap AggOf(Covered(p)) = {}
    BY <1>5 DEF DropSuperseded
  <2>3. QED
    BY <2>1, <2>2 DEF Dropped, NoAggregateBesideTranscript, Covered, AggOf
<1>6. ASSUME NEW p \in Runs, DiscoverClaude(p)
      PROVE  Dropped'
  <2>1. /\ pc' \in [Runs -> Stages] /\ pc'[p] = "prune-trace"
        /\ seen' \in [Runs -> SUBSET Files]
    BY <1>6 DEF Dropped, DiscoverClaude, Goto, Stages, Present
  <2>2. QED
    BY <2>1 DEF Dropped, NoAggregateBesideTranscript
<1>7. ASSUME NEW p \in Runs, DiscoverSources(p)
      PROVE  Dropped'
  <2>1. /\ pc' \in [Runs -> Stages] /\ pc[p] = "claude" /\ rows' = rows
        /\ seen' \in [Runs -> SUBSET Files] /\ seen'[p] = seen[p] \cup Present(Others)
    BY <1>7 DEF Dropped, DiscoverSources, Goto, Stages, Present, storeVars
  <2>2. Covered(p)' = Covered(p)
    BY <2>1, OthersHaveNoAgents DEF Covered
  <2>3. rows \cap AggOf(Covered(p)) = {}
    BY <2>1 DEF Dropped, NoAggregateBesideTranscript
  <2>4. QED
    BY <2>1, <2>2, <2>3 DEF Dropped, NoAggregateBesideTranscript, AggOf
<1>8. ASSUME NEW p \in Runs, RunStep(p) \/ Crash(p)
      PROVE  Dropped'
  <2>1. CASE Begin(p)
    BY <1>2, <2>1 DEF Begin, Stages, Undropped, storeVars
  <2>2. CASE PruneTrace(p)
    BY <1>2, <2>2 DEF PruneTrace, Stages, Undropped
  <2>3. CASE \E f \in Files : Skip(p, f)
    BY <1>1, <2>3 DEF Skip, storeVars
  <2>4. CASE \E f \in Files : Stat(p, f)
    BY <1>2, <2>4 DEF Stat, Stages, Undropped, storeVars
  <2>5. CASE ParseClean(p) \/ ParseFailed(p)
    BY <1>4, <2>5 DEF ParseClean, ParseFailed
  <2>6. CASE InsertSteps(p)
    BY <1>2, <2>6 DEF InsertSteps, InsertStepsRecording, Stages, Undropped
  <2>7. CASE Flush(p)
    BY <1>2, <2>7 DEF Flush, Stages, Undropped
  <2>8. CASE PruneVanished(p) \/ Crash(p)
    BY <1>3, <2>8 DEF PruneVanished, Crash, storeVars
  <2>9. QED
    BY <1>5, <1>6, <1>7, <1>8, <2>1, <2>2, <2>3, <2>4, <2>5, <2>6, <2>7, <2>8 DEF RunStep
<1>9. CASE \E f \in Files : Append(f) \/ Rotate(f)
  BY <1>1, <1>9 DEF Append, Rotate, storeVars, runVars
<1>10. CASE \E scope \in Scopes : ClearTools(scope) \/ ClearBefore(scope)
  BY <1>1, <1>10 DEF ClearTools, ClearBefore, runVars
<1>11. CASE UNCHANGED vars
  BY <1>1, <1>11 DEF vars
<1>12. QED
  BY <1>8, <1>9, <1>10, <1>11 DEF Next

\* One importer at a time never stores a sub-agent's aggregate beside the transcript it
\* found, from its superseded pass to its end, whatever is cleared meanwhile
\* (ingest/superseded.go: dropSupersededAggregates; ingest/claude.go: SuppressCovered).
THEOREM AggregatesStayOut ==
    ASSUME \A p, q \in Runs : p = q
    PROVE  Spec => []NoAggregateBesideTranscript
<1>1. Init => Dropped
  BY DEF Init, Dropped, Stages, NoAggregateBesideTranscript
<1>2. Dropped /\ [Next]_vars => Dropped'
  BY DroppedStep
<1>3. Dropped => NoAggregateBesideTranscript
  BY DEF Dropped
<1>4. QED
  BY <1>1, <1>2, <1>3, PTL DEF Spec

-----------------------------------------------------------------------------
(* Ingest implements ImportLedger.                                         *)

Transcripts == {s \in SubFiles : onDisk[s] # "absent"}

LEMMA LedgerStep ==
    ASSUME ClearOverlaps = FALSE, IInv, [Next]_vars
    PROVE  [Ledger!Next]_(Ledger!ledger)
<1> USE DEF Ledger!Next, Ledger!ledger
<1>1. ASSUME NEW f \in Files, Append(f) \/ Rotate(f)
      PROVE  Ledger!Observe
  BY <1>1, ShapeAssumption
     DEF Append, Rotate, storeVars, IInv, TypeOK, Ledger!Observe
<1>2. ASSUME NEW p \in Runs, RunStep(p) \/ Crash(p)
      PROVE  [Ledger!Next]_(Ledger!ledger)
  <2>1. CASE Begin(p) \/ DiscoverClaude(p) \/ DiscoverSources(p) \/ Crash(p)
             \/ \E f \in Files : Skip(p, f) \/ Stat(p, f)
    BY <2>1 DEF Begin, DiscoverClaude, DiscoverSources, Crash, Skip, Stat,
                diskVars, storeVars
  <2>2. CASE PruneTrace(p)
    <3>1. Ledger!Expire
      BY <2>2 DEF PruneTrace, diskVars, Ledger!Expire
    <3>2. QED
      BY <3>1
  <2>3. CASE DropSuperseded(p)
    <3>1. AggOf(Covered(p)) \subseteq {Agg[s] : s \in Transcripts}
      BY DEF IInv, SeenWasOnDisk, AggOf, Covered, Transcripts
    <3>2. Ledger!Supersede
      BY <2>3, <3>1 DEF DropSuperseded, diskVars, Ledger!Supersede, Transcripts
    <3>3. QED
      BY <3>2
  <2>4. CASE ParseClean(p) \/ ParseFailed(p)
    <3>1. Ledger!Import
      BY <2>4 DEF ParseClean, ParseFailed, InsertRead, diskVars, Ledger!Import
    <3>2. QED
      BY <3>1
  <2>5. CASE InsertSteps(p)
    <3>1. Ledger!Import
      BY <2>5 DEF InsertSteps, InsertStepsRecording, diskVars, Ledger!Import
    <3>2. QED
      BY <3>1
  <2>6. CASE Flush(p)
    <3>1. done[p] \subseteq Mark /\ \A m \in done[p] : Ledger!Claimed(m)
      BY DEF IInv, TypeOK, RunClaimsHold
    <3>2. Ledger!Claim
      BY <2>6, <3>1 DEF Flush, diskVars, Ledger!Claim
    <3>3. QED
      BY <3>2
  <2>7. CASE PruneVanished(p)
    <3>1. Ledger!Claim
      BY <2>7 DEF PruneVanished, diskVars, Ledger!Claim
    <3>2. QED
      BY <3>1
  <2>8. QED
    BY <1>2, <2>1, <2>2, <2>3, <2>4, <2>5, <2>6, <2>7 DEF RunStep
<1>3. ASSUME NEW scope \in Scopes, ClearTools(scope)
      PROVE  Ledger!ForgetTools
  BY <1>3 DEF ClearTools, diskVars, Scopes, Ledger!ForgetTools
<1>4. ASSUME NEW scope \in Scopes, ClearBefore(scope)
      PROVE  Ledger!ForgetOld
  BY <1>4 DEF ClearBefore, diskVars, Ledger!ForgetOld
<1>5. CASE UNCHANGED vars
  BY <1>5 DEF vars
<1>6. QED
  BY <1>1, <1>2, <1>3, <1>4, <1>5 DEF Next

\* Whatever interleaving of importers, crashes, growing and rotated logs and
\* sequential clears: seen from the store, an importer only adds what it
\* reads, claims what is held, and removes what it may.
THEOREM ImporterImplementsLedger ==
    ASSUME ClearOverlaps = FALSE
    PROVE  Spec => ImplementsLedger
<1>1. Init => Ledger!Init
  BY ShapeAssumption DEF Init, Ledger!Init
<1>2. IInv /\ [Next]_vars => [Ledger!Next]_(Ledger!ledger)
  BY LedgerStep
<1>3. QED
  BY <1>1, <1>2, IngestInvariant, PTL DEF Spec, ImplementsLedger, Ledger!Spec

=============================================================================
