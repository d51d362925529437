------------------------------ MODULE Opening -------------------------------
(* Opening the store: every command that touches it first heals columns and *)
(* applies the migrations it does not find recorded, and several commands   *)
(* (a statusline, a cron backfill, a server) may do so at once, and die in  *)
(* the middle.  A migration's body and its record are one transaction; the  *)
(* question whether it is recorded is asked before that transaction begins. *)
(*                                                                          *)
(* A body is a sequence of steps: <<"make", t>> a table if there is none,   *)
(* <<"add", c>> a column, which fails if there is one, <<"move", g>> rows   *)
(* of a grain into the archive, <<"forget", s>> the watermarks of a source. *)
EXTENDS Integers, Sequences, FiniteSets

CONSTANTS
    Openers,        \* processes that may open the store
    Bodies,         \* the embedded migrations, in file name order: their bodies
    Declared,       \* columns 0001 declares, healed before any migration
    OldGrain,       \* the grain rows were stored in before the archive
    MaxFailures     \* bound on the openings that fail or crash

\* What the steps of one kind in a migration's body name.
Named(m, kind) == {Bodies[m][i][2] : i \in {j \in DOMAIN Bodies[m] : Bodies[m][j][1] = kind}}

\* The first migration, and no other, makes the usage table; a column is added by one
\* migration, and never one that 0001 declares; only rows of the old grain are moved.
ASSUME OpeningAssumption ==
    /\ Bodies \in Seq(Seq({"make", "add", "move", "forget"} \X STRING)) /\ Bodies # <<>>
    /\ \A m \in DOMAIN Bodies : "usage_record" \in Named(m, "make") <=> m = 1
    /\ \A m \in DOMAIN Bodies : Named(m, "add") \cap Declared = {}
    /\ \A m, n \in DOMAIN Bodies : m # n => Named(m, "add") \cap Named(n, "add") = {}
    /\ \A m \in DOMAIN Bodies : Named(m, "move") \subseteq {OldGrain}
    /\ OldGrain # "turn"

VARIABLES
    schema,         \* what the file holds: [tables, columns, recorded, rows, archive, marks]
    opener,         \* opener -> [step, at, missing]
    failures        \* openings that failed or crashed so far

openVars == <<schema, opener, failures>>

Closed == [step |-> "closed", at |-> 0, missing |-> {}]

\* Stores that exist: an empty file, and one an earlier release left, with the
\* first n migrations recorded and, before columns were immutable, a hole in 0001.
NamedUpTo(n, kind) == UNION {Named(m, kind) : m \in 1 .. n}

Left(n, hole, rows) ==
    [tables   |-> NamedUpTo(n, "make"),
     columns  |-> NamedUpTo(n, "add") \cup (IF n = 0 THEN {} ELSE Declared \ hole),
     recorded |-> 1 .. n, rows |-> rows, archive |-> {},
     marks    |-> {r[2] : r \in rows}]

OpenInit ==
    /\ \E n \in 0 .. Len(Bodies), hole \in SUBSET Declared, old \in BOOLEAN :
        /\ n = 0 => hole = {} /\ ~old
        /\ old => \E m \in n + 1 .. Len(Bodies) : Named(m, "move") # {}
        /\ schema = Left(n, hole, IF old THEN {<<OldGrain, "claude">>, <<"other", "codex">>} ELSE {})
    /\ opener = [o \in Openers |-> Closed] /\ failures = 0

Go(o, step, at) ==
    opener' = [opener EXCEPT ![o] = [step |-> step, at |-> at, missing |-> opener[o].missing]]

Fails(o) ==
    /\ failures < MaxFailures /\ failures' = failures + 1
    /\ opener' = [opener EXCEPT ![o] = Closed]

\* reconcileColumns looks which of 0001's columns an existing table lacks.
Look(o) ==
    /\ opener[o].step = "closed"
    /\ opener' = [opener EXCEPT ![o] =
        [step |-> "heal", at |-> 1,
         missing |-> IF "usage_record" \notin schema.tables THEN {} ELSE Declared \ schema.columns]]
    /\ UNCHANGED <<schema, failures>>

\* It adds them one by one; a column somebody else added meanwhile fails the opening.
Heal(o) ==
    /\ opener[o].step = "heal"
    /\ IF opener[o].missing = {}
       THEN Go(o, "ask", 1) /\ UNCHANGED <<schema, failures>>
       ELSE LET c == CHOOSE d \in opener[o].missing : TRUE IN
            IF c \in schema.columns
            THEN Fails(o) /\ UNCHANGED schema
            ELSE /\ schema' = [schema EXCEPT !.columns = @ \cup {c}]
                 /\ opener' = [opener EXCEPT ![o].missing = @ \ {c}]
                 /\ UNCHANGED failures

\* migrate asks, outside any transaction, whether the next migration is recorded.
Ask(o) ==
    /\ opener[o].step = "ask"
    /\ IF opener[o].at > Len(Bodies) THEN Go(o, "open", opener[o].at)
       ELSE IF opener[o].at \in schema.recorded THEN Go(o, "ask", opener[o].at + 1)
       ELSE Go(o, "apply", opener[o].at)
    /\ UNCHANGED <<schema, failures>>

\* A body's effect: 0001 makes the usage table with the columns it declares.
Performed(m) ==
    [schema EXCEPT !.tables  = @ \cup Named(m, "make"),
                   !.columns = @ \cup Named(m, "add")
                                 \cup (IF m = 1 /\ "usage_record" \notin schema.tables THEN Declared ELSE {}),
                   !.archive = @ \cup {r \in schema.rows : r[1] \in Named(m, "move")},
                   !.rows    = {r \in @ : r[1] \notin Named(m, "move")},
                   !.marks   = @ \ Named(m, "forget")]

\* Seeded fault: the record is INSERT OR IGNORE, and bodies are taken to be repeatable.
RefusedByColumns(m) ==
    Named(m, "add") \cap schema.columns # {}

\* Adding a column that is there fails, and so does recording a name twice.
Refused(m) == m \in schema.recorded \/ Named(m, "add") \cap schema.columns # {}

\* Body and record commit together, or the transaction is rolled back and Open fails.
Apply(o) ==
    LET m == opener[o].at IN
    /\ opener[o].step = "apply"
    /\ IF Refused(m)
       THEN Fails(o) /\ UNCHANGED schema
       ELSE /\ schema' = [Performed(m) EXCEPT !.recorded = @ \cup {m}]
            /\ Go(o, "ask", m + 1) /\ UNCHANGED failures

\* An open store is read and written: a backfill adds rows and watermarks.
Write(o) ==
    /\ opener[o].step = "open"
    /\ schema' = [schema EXCEPT !.rows = @ \cup {<<"turn", "claude">>}, !.marks = @ \cup {"claude"}]
    /\ UNCHANGED <<opener, failures>>

Close(o) ==
    /\ opener[o].step = "open"
    /\ opener' = [opener EXCEPT ![o] = Closed]
    /\ UNCHANGED <<schema, failures>>

\* Killed between two statements; an open transaction is rolled back.
Die(o) ==
    /\ opener[o].step \in {"heal", "ask", "apply"}
    /\ Fails(o) /\ UNCHANGED schema

OpenStep(o) == Look(o) \/ Heal(o) \/ Ask(o) \/ Apply(o)

OpenNext == \E o \in Openers : OpenStep(o) \/ Write(o) \/ Close(o) \/ Die(o)

OpenSpec == OpenInit /\ [][OpenNext]_openVars

-----------------------------------------------------------------------------
\* What is recorded is what was applied, in order: a recorded migration's columns
\* are there and no other's, the recorded ones are a prefix, and whoever has the
\* store open has all of it, with no row left in the old grain (store/schema.go).
OpenedWhole ==
    /\ \A m \in DOMAIN Bodies : \A c \in Named(m, "add") :
        c \in schema.columns <=> m \in schema.recorded
    /\ schema.recorded = 1 .. Cardinality(schema.recorded)
    /\ \A o \in Openers : opener[o].step = "open" =>
        /\ schema.recorded = DOMAIN Bodies
        /\ Declared \subseteq schema.columns
        /\ \A r \in schema.rows : r[1] # OldGrain

\* However openings interleave or die, that holds, and none destroys a row: it is in
\* the usage table or in the archive (migration 0008), and what a command wrote
\* that found everything applied is neither moved nor forgotten by a late migration.
OpensSafely ==
    /\ []OpenedWhole
    /\ [][/\ schema.rows \cup schema.archive \subseteq schema'.rows \cup schema'.archive
          /\ {r \in schema.rows : r[1] # OldGrain} \subseteq schema'.rows
          /\ schema.recorded = DOMAIN Bodies => schema.marks \subseteq schema'.marks]_openVars
=============================================================================
