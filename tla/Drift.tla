-------------------------------- MODULE Drift --------------------------------
(***************************************************************************)
(* The drift canaries of one file-backed source (internal/drift), the      *)
(* history of ingest runs they judge (internal/store/ingest_source.go,     *)
(* internal/ingest/drift.go) and the pruning of watermarks that one of     *)
(* them holds back (internal/ingest/prune.go).                             *)
(*                                                                         *)
(* A file is read whole whenever it changed, so what it yields depends on  *)
(* the shape it was last written in.  Shares are compared multiplied out,  *)
(* a median is kept doubled, and records per file are multiplied by Scale, *)
(* so that every number is an integer.                                     *)
(***************************************************************************)
EXTENDS Integers, Sequences, FiniteSets, FiniteSetsExt

CONSTANTS
    Inputs,         \* bound: the files a source may ever have
    Gone,           \* not on disk
    Shapes,         \* the shapes a vendor may write a file in
    Healthy,        \* those of them this build reads right; they differ by less than a canary minds
    Yields,         \* Yields[shape]: the records, skips and zero-token records of a file
    Scale,          \* a multiple of every number of files
    MaxMishaps,     \* bound: what happens to a source besides growth
    Retained,       \* maxSourceRuns
    DiscoveryMin,   \* discoveryBaselineMin
    YieldMin,       \* yieldParsedMin
    SkippedMin,     \* skippedLinesMin
    ZeroTokenMin    \* zeroTokenRecordsMin

ASSUME DriftAssumption ==
    /\ IsFiniteSet(Inputs) /\ Gone \notin Shapes /\ Healthy \subseteq Shapes
    /\ Yields \in [Shapes -> [records : Nat, skipped : Nat, zeroToken : Nat]]
    /\ \A s \in Healthy : Yields[s].records > 0 /\ Yields[s].skipped = 0
    /\ \A s, t \in Healthy : /\ Yields[t].records <= 4 * Yields[s].records
                             /\ 4 * Yields[t].zeroToken < Yields[s].records
    /\ MaxMishaps \in Nat /\ Retained \in Nat \ {0} /\ Scale \in Nat \ {0}
    /\ {DiscoveryMin, YieldMin, SkippedMin, ZeroTokenMin} \subseteq Nat \ {0}
    /\ \A n \in 1..Cardinality(Inputs) : Scale % n = 0

VARIABLES
    disk,      \* disk[i]: the shape i was last written in
    changed,   \* files written since they were last read
    root,      \* does discovery look where the files are?
    history,   \* ingest_source: the retained runs, oldest first
    marks,     \* ingest_file: the files with a watermark
    mishaps    \* history: what happened to the source besides growth

driftVars == <<disk, changed, root, history, marks, mishaps>>

Files == {i \in Inputs : disk[i] # Gone}

SourceRun ==
    [discovered : Nat, parsed : Nat, records : Nat, skipped : Nat, zeroToken : Nat]

DriftTypeOK ==
    /\ disk \in [Inputs -> Shapes \cup {Gone}]
    /\ changed \subseteq Inputs /\ marks \subseteq Inputs
    /\ root \in BOOLEAN /\ mishaps \in 0..MaxMishaps
    /\ history \in Seq(SourceRun) /\ Len(history) <= Retained

DriftInit ==
    /\ disk = [i \in Inputs |-> Gone]
    /\ changed = {} /\ marks = {} /\ history = <<>>
    /\ root = TRUE /\ mishaps = 0

-----------------------------------------------------------------------------
(* The canaries: cur is the run judged, prev the runs before it.           *)

Below(vals, v) == {i \in DOMAIN vals : vals[i] < v}

UpTo(vals, v) == {i \in DOMAIN vals : vals[i] <= v}

\* The k-th smallest of some values, told apart by an index.
Nth(vals, k) ==
    CHOOSE v \in {vals[i] : i \in DOMAIN vals} :
      Cardinality(Below(vals, v)) < k /\ Cardinality(UpTo(vals, v)) >= k

MedianTwice(vals) ==
    LET n == Cardinality(DOMAIN vals) IN
    IF DOMAIN vals = {} THEN 0 ELSE Nth(vals, (n + 1) \div 2) + Nth(vals, n \div 2 + 1)

\* Seeded fault: the files a run read are taken for those it found.
DiscoveryOfRead(cur, prev) ==
    LET base == MedianTwice([i \in DOMAIN prev |-> prev[i].parsed]) IN
    /\ base > 0
    /\ \/ cur.parsed = 0
       \/ base >= 2 * DiscoveryMin /\ 4 * cur.parsed < base

Discovery(cur, prev) ==
    LET base == MedianTwice([i \in DOMAIN prev |-> prev[i].discovered]) IN
    /\ base > 0
    /\ \/ cur.discovered = 0
       \/ base >= 2 * DiscoveryMin /\ 4 * cur.discovered < base

Barren(cur, prev) ==
    /\ cur.discovered > 0 /\ cur.records = 0
    /\ \A i \in DOMAIN prev : prev[i].records = 0

Reading(runs) == {i \in DOMAIN runs : runs[i].parsed # 0}

PerFile(r) == (r.records * Scale) \div r.parsed

\* Seeded fault: a run that read nothing contributes a yield of zero.
YieldOfAll(cur, prev) ==
    LET base == MedianTwice([i \in DOMAIN prev |->
                  IF prev[i].parsed = 0 THEN 0 ELSE PerFile(prev[i])]) IN
    /\ cur.parsed >= YieldMin
    /\ 8 * PerFile(cur) < base

\* A run that read nothing has no yield.
Yield(cur, prev) ==
    LET base == MedianTwice([i \in Reading(prev) |-> PerFile(prev[i])])
    IN  /\ cur.parsed >= YieldMin
        /\ 8 * PerFile(cur) < base

Skipped(cur) == cur.skipped >= SkippedMin /\ cur.parsed > 0 /\ cur.skipped >= cur.parsed

\* Of a source whose depth row declares a token counter.
ZeroToken(cur) == cur.records >= ZeroTokenMin /\ 4 * cur.zeroToken >= cur.records

Evaluate(runs) ==
    IF runs = <<>> THEN {}
    ELSE LET cur == runs[Len(runs)]
             prev == SubSeq(runs, 1, Len(runs) - 1)
         IN  {c \in {"discovery", "barren", "yield", "skipped", "zero-token"} :
                CASE c = "discovery" -> Discovery(cur, prev)
                  [] c = "barren"    -> Barren(cur, prev)
                  [] c = "yield"     -> Yield(cur, prev)
                  [] c = "skipped"   -> Skipped(cur)
                  [] OTHER           -> ZeroToken(cur)}

-----------------------------------------------------------------------------
(* The vendor and its log tree.                                            *)

\* Bound: history of what is not plain growth.
Mishap == mishaps < MaxMishaps /\ mishaps' = mishaps + 1

Write(i, shape) ==
    /\ disk' = [disk EXCEPT ![i] = shape]
    /\ changed' = changed \cup {i}
    /\ IF shape \in Healthy THEN UNCHANGED mishaps ELSE Mishap
    /\ UNCHANGED <<root, history, marks>>

Rotate(i) ==
    /\ disk[i] # Gone
    /\ disk' = [disk EXCEPT ![i] = Gone]
    /\ changed' = changed \ {i}
    /\ Mishap
    /\ UNCHANGED <<root, history, marks>>

\* The log tree moves away from where discovery looks, or comes back.
Move ==
    /\ root' = ~root
    /\ Mishap
    /\ UNCHANGED <<disk, changed, history, marks>>

-----------------------------------------------------------------------------
(* A backfill: fileRun's numbers, RecordSourceRun, pruneVanished.          *)

\* What the files read hold of something, told apart by file and place.
Total(field, read) == Cardinality(UNION {{i} \X (1 .. Yields[disk[i]][field]) : i \in read})

FileRun(found, read) ==
    [discovered |-> Cardinality(found), parsed |-> Cardinality(read),
     records |-> Total("records", read), skipped |-> Total("skipped", read),
     zeroToken |-> Total("zeroToken", read)]

Retain(runs) == SubSeq(runs, Len(runs) - Min({Len(runs), Retained}) + 1, Len(runs))

\* Seeded fault: watermarks are pruned to what was found, whatever was found.
PruneAlways(runs, found, held) == held \cap found

PruneVanished(runs, found, held) ==
    IF "discovery" \in Evaluate(runs) THEN held ELSE held \cap found

\* full: --full, or a new build, reads files whose watermark matches.
BackfillSource(full) ==
    LET found == IF root THEN Files ELSE {}
        read == {i \in found : full \/ i \in changed \/ i \notin marks}
    IN  \E runs \in {Retain(Append(history, FileRun(found, read)))} :
          /\ history' = runs
          /\ marks' = PruneVanished(runs, found, marks \cup read)
          /\ changed' = changed \ read
          /\ UNCHANGED <<disk, root, mishaps>>

DriftNext ==
    \/ \E i \in Inputs : (\E shape \in Shapes : Write(i, shape)) \/ Rotate(i)
    \/ Move
    \/ \E full \in BOOLEAN : BackfillSource(full)

DriftSpec == DriftInit /\ [][DriftNext]_driftVars

-----------------------------------------------------------------------------
(* Properties                                                              *)

\* "It needs the history to say "never"" (drift.go:108): barren is raised only
\* of a source that has never yielded a record.
NeverYielded == mishaps = 0 => "barren" \notin Evaluate(history)

Earlier == SubSeq(history, 1, Len(history) - 1)

\* No false alarm.  A source that only ever grew, in shapes this build reads, raises no
\* canary that compares or measures, whatever mix of idle, partial and full runs the
\* history holds; and "one odd pass cannot move the baseline" (drift.go:65): a run that
\* found as many files as all the runs before it but one is never a lost discovery.
OneOddPass ==
    Len(history) >= 4 =>
        LET found == history[Len(history)].discovered
            odd == {i \in DOMAIN Earlier : Earlier[i].discovered # found}
        IN  Cardinality(odd) <= 1 => "discovery" \notin Evaluate(history)

NoFalseAlarm == (mishaps = 0 => Evaluate(history) \subseteq {"barren"}) /\ OneOddPass

\* The history's types with the bound on runs, and what its canaries never do.
HistorySound == DriftTypeOK /\ NoFalseAlarm

\* What watermarks outlive.  A run that finds nothing, where no more than half of the
\* runs on record found nothing, says so and keeps every watermark: nothing has to be
\* read again when the files come back.  The freeze ends: once every run on record found
\* as many files as this one, no watermark is held for a file that is not there.
OutlivesLoss ==
    history' # history =>
        LET before == SubSeq(history', 1, Len(history') - 1)
            last == history'[Len(history')].discovered
            blind == {i \in DOMAIN before : before[i].discovered = 0}
        IN  /\ last = 0 /\ before # <<>> /\ 2 * Cardinality(blind) <= Len(before) =>
                 "discovery" \in Evaluate(history') /\ marks' = marks
            /\ Len(history') = Retained /\ (\A i \in DOMAIN before : before[i].discovered = last) =>
                 marks' \subseteq (IF root THEN Files ELSE {})

MarksOutliveLoss == [][OutlivesLoss]_driftVars

\* Under-reporting is never silent: a run that read enough files and got no token out
\* of them raises a canary, if most reading runs before it got records out of theirs.
SilenceIsHeard ==
    history # <<>> =>
      LET cur == history[Len(history)]
          well == {i \in Reading(Earlier) : Earlier[i].records > 0}
      IN  /\ cur.parsed >= YieldMin /\ cur.records = cur.zeroToken
          /\ cur.records = 0 \/ cur.records >= ZeroTokenMin
          /\ 2 * Cardinality(well) > Cardinality(Reading(Earlier))
          => Evaluate(history) # {}
=============================================================================
