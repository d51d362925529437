-------------------------------- MODULE Desk --------------------------------
(***************************************************************************)
(* What a person keeps beside the imported records: session labels         *)
(* (`mark`, `mark --accept-suggested`; internal/cli/mark.go,               *)
(* mark_suggest.go, internal/store/label.go), the digests' snapshots       *)
(* (`digest`; internal/cli/digest.go, internal/store/digest_snapshot.go),  *)
(* and the deletion that takes records, labels and snapshots away          *)
(* (`clear`; internal/cli/clear.go, internal/store/clear.go).              *)
(*                                                                         *)
(* A command is several transactions and may die between any two of them.  *)
(* Which commands may run at the same time is a parameter.                 *)
(***************************************************************************)
EXTENDS Integers, Sequences, FiniteSets, FiniteSetsExt

CONSTANTS
    Sessions, Tools,
    Axes,        \* task, outcome, difficulty
    Values,      \* the values of an axis
    None,        \* an axis that is not set: ""
    NoLabel,     \* no row in session_label
    Suggested,   \* Suggested[s]: the axes the engine derives for s, and their values
    Windows,     \* the --since windows digests are taken over
    Kept,        \* DigestSnapshotsKept
    Commands,    \* bound: commands that run at a time
    Idle,
    MayOverlap,  \* which kinds of command may run at the same time
    SameSecond,  \* may two digests be taken within one second?
    MaxClock,    \* bound: seconds
    MaxClears,   \* bound: completed clears
    NoBasis

ASSUME SuggestedAssumption ==
    \A s \in Sessions : \E axes \in SUBSET Axes : Suggested[s] \in [axes -> Values]

ASSUME DeskAssumption ==
    /\ Kept \in Nat \ {0} /\ MaxClock \in Nat /\ MaxClears \in Nat
    /\ None \notin Values

VARIABLES
    rows,       \* rows[s]: which of s's records are stored, by tool and age
    label,      \* session_label
    snapshots,  \* digest_snapshot, by taken_at
    command,    \* what each running command has read and has still to do
    clock,      \* the second taken_at is formatted to
    clears,     \* history: completed clears
    hand,       \* history: the label as the last edit by hand left it
    saved       \* history: saved[w]: stamps of w's digests since the last clear

vars == <<rows, label, snapshots, command, clock, clears, hand, saved>>

\* A record's tool, and on which side of an --older-than cutoff it lies.
Record == Tools \X {"old", "new"}

\* clear's scopes: --all, --older-than, --tool, or both of the latter.
Scopes ==
    {ts \X ages : ts \in {Tools} \cup {{t} : t \in Tools},
                  ages \in {{"old"}, {"old", "new"}}}

Label == {l \in [Axes -> Values \cup {None}] : \E a \in Axes : l[a] # None}

\* What one `mark` asks for: a value, or none, for some of the axes.
Edits == UNION {[axes -> Values \cup {None}] : axes \in SUBSET Axes \ {{}}}

Snapshot == [window : Windows, clears : 0..MaxClears]

Basis == [at : 0..MaxClock, clears : 0..MaxClears]

Mark == [kind : {"mark"}, session : Sessions, set : Edits, read : Label \cup {NoLabel}]
Accept == [kind : {"accept"}, todo : SUBSET Sessions, session : Sessions \cup {None},
           read : Label \cup {NoLabel}]
Clear == [kind : {"clear"}, scope : Scopes, taken : SUBSET Sessions]
Digest == [kind : {"digest"}, at : 0..MaxClock, window : Windows, clears : 0..MaxClears,
           compared : BOOLEAN, basis : Basis \cup {NoBasis}]

Command == Mark \cup Accept \cup Clear \cup Digest

ASSUME AbsentAssumption ==
    /\ NoLabel \notin Label /\ Idle \notin Command /\ NoBasis \notin Basis
    /\ None \notin Sessions

\* The types, and the bound digest_snapshot keeps at every point.
TypeOK ==
    /\ rows \in [Sessions -> SUBSET Record]
    /\ label \in [Sessions -> Label \cup {NoLabel}]
    /\ \E stamps \in SUBSET (0..MaxClock) : snapshots \in [stamps -> Snapshot]
    /\ command \in [Commands -> Command \cup {Idle}]
    /\ clock \in 0..MaxClock /\ clears \in 0..MaxClears
    /\ hand \in [Sessions -> Label \cup {NoLabel}]
    /\ saved \in [Windows -> SUBSET (0..MaxClock)]
    /\ \A w \in Windows :
         Cardinality({t \in DOMAIN snapshots : snapshots[t].window = w}) <= Kept

Init ==
    /\ rows = [s \in Sessions |-> {}]
    /\ label = [s \in Sessions |-> NoLabel]
    /\ snapshots = <<>>
    /\ command = [c \in Commands |-> Idle]
    /\ clock = 0 /\ clears = 0
    /\ hand = [s \in Sessions |-> NoLabel]
    /\ saved = [w \in Windows |-> {}]

Running == {c \in Commands : command[c] # Idle}

\* Nothing keeps two commands apart: the guard is the operator's habit, which
\* MayOverlap describes.
MayStart(c, kind) ==
    /\ command[c] = Idle
    /\ \A d \in Running : {kind, command[d].kind} \in MayOverlap

Does(c, kind) == command[c] # Idle /\ command[c].kind = kind

Finish(c) == command' = [command EXCEPT ![c] = Idle]

(* Records ***************************************************************)

\* A backfill stores some of a session's records, in a transaction of its own;
\* never between the two steps of a clear (Ingest and Restate let it).
Backfill(s, records) ==
    /\ records \ rows[s] # {}
    /\ \A c \in Running : command[c].kind # "clear"
    /\ rows' = [rows EXCEPT ![s] = @ \cup records]
    /\ UNCHANGED <<label, snapshots, command, clock, clears, hand, saved>>

\* Records age past the cutoff.
Age ==
    /\ \E s \in Sessions, t \in Tools : <<t, "new">> \in rows[s]
    /\ \A c \in Running : command[c].kind # "clear"
    /\ rows' = [s \in Sessions |-> {<<r[1], "old">> : r \in rows[s]}]
    /\ UNCHANGED <<label, snapshots, command, clock, clears, hand, saved>>

(* Labels ****************************************************************)

\* mark reads what is stored, merges the axes it was given over it, and
\* writes the whole row; a row with no axis left is deleted instead.
MarkRead(c, s, set) ==
    /\ MayStart(c, "mark")
    /\ rows[s] # {}                       \* resolveMarkTarget finds it by its usage
    /\ command' = [command EXCEPT ![c] =
         [kind |-> "mark", session |-> s, set |-> set, read |-> label[s]]]
    /\ UNCHANGED <<rows, label, snapshots, clock, clears, hand, saved>>

Over(set, read) ==
    [a \in Axes |->
        IF a \in DOMAIN set THEN set[a]
        ELSE IF read = NoLabel THEN None ELSE read[a]]

Stored(l) == IF l \in Label THEN l ELSE NoLabel

MarkWrite(c) ==
    /\ Does(c, "mark")
    /\ LET s == command[c].session
           merged == Stored(Over(command[c].set, command[c].read))
       IN  /\ label' = [label EXCEPT ![s] = merged]
           /\ hand' = [hand EXCEPT ![s] =
                Stored(Over(command[c].set, IF hand[s] = NoLabel THEN label[s] ELSE hand[s]))]
    /\ Finish(c)
    /\ UNCHANGED <<rows, snapshots, clock, clears, saved>>

Unmark(c, s) ==
    /\ MayStart(c, "mark")
    /\ rows[s] # {} /\ label[s] # NoLabel
    /\ label' = [label EXCEPT ![s] = NoLabel]
    /\ hand' = [hand EXCEPT ![s] = NoLabel]
    /\ UNCHANGED <<rows, snapshots, command, clock, clears, saved>>

\* Seeded fault: suggestions are accepted for labelled sessions too.
FreshAnyLabel(s) == rows[s] # {} /\ DOMAIN Suggested[s] # {}

\* The sessions --accept-suggested writes: those with a derivation and no label.
Fresh(s) == rows[s] # {} /\ DOMAIN Suggested[s] # {} /\ label[s] = NoLabel

AcceptRead(c) ==
    /\ MayStart(c, "accept")
    /\ \E s \in Sessions : Fresh(s)
    /\ command' = [command EXCEPT ![c] =
         [kind |-> "accept", todo |-> {s \in Sessions : Fresh(s)},
          session |-> None, read |-> NoLabel]]
    /\ UNCHANGED <<rows, label, snapshots, clock, clears, hand, saved>>

\* The loop reads one session's label, then writes it, in any order of sessions.
AcceptNext(c, s) ==
    /\ Does(c, "accept") /\ command[c].session = None
    /\ s \in command[c].todo
    /\ LET accept == command[c] IN
       command' = [command EXCEPT ![c] =
         [accept EXCEPT !.todo = @ \ {s}, !.session = s, !.read = label[s]]]
    /\ UNCHANGED <<rows, label, snapshots, clock, clears, hand, saved>>

AcceptWrite(c) ==
    /\ Does(c, "accept") /\ command[c].session # None
    /\ LET s == command[c].session IN
       label' = [label EXCEPT ![s] = Over(Suggested[s], command[c].read)]
    /\ command' = [command EXCEPT ![c] =
         IF @.todo = {} THEN Idle ELSE [@ EXCEPT !.session = None, !.read = NoLabel]]
    /\ UNCHANGED <<rows, snapshots, clock, clears, hand, saved>>

(* Clearing **************************************************************)

\* The labels a scoped `clear --labels` takes: of the sessions with records in
\* the scope and none outside it.
Taken(scope) == {s \in Sessions : rows[s] # {} /\ rows[s] \subseteq scope}

\* DeleteLabels treats --all and no scope alike: every label goes.
ClearLabels(c, scope) ==
    /\ MayStart(c, "clear") /\ clears < MaxClears
    /\ LET gone == IF scope = Record THEN Sessions ELSE Taken(scope) IN
       /\ label' = [s \in Sessions |-> IF s \in gone THEN NoLabel ELSE label[s]]
       /\ hand' = [s \in Sessions |-> IF s \in gone THEN NoLabel ELSE hand[s]]
       /\ \/ command' = [command EXCEPT ![c] =
               [kind |-> "clear", scope |-> scope,
                taken |-> {s \in gone : label[s] # NoLabel}]]
          \/ scope = Record /\ UNCHANGED command       \* --labels alone
    /\ UNCHANGED <<rows, snapshots, clock, clears, saved>>

\* Without --labels the labels are only counted.
ClearBegin(c, scope) ==
    /\ MayStart(c, "clear") /\ clears < MaxClears
    /\ command' = [command EXCEPT ![c] =
         [kind |-> "clear", scope |-> scope, taken |-> {}]]
    /\ UNCHANGED <<rows, label, snapshots, clock, clears, hand, saved>>

\* Store.Clear: the records of the scope and every digest snapshot.
ClearRows(c) ==
    /\ Does(c, "clear") /\ clears < MaxClears
    /\ rows' = [s \in Sessions |-> rows[s] \ command[c].scope]
    /\ snapshots' = <<>>
    /\ saved' = [w \in Windows |-> {}]
    /\ clears' = clears + 1
    /\ Finish(c)
    /\ UNCHANGED <<label, clock, hand>>

(* Digests ***************************************************************)

\* runDigest reads the window, then stamps what it read.  The window's many
\* queries are taken as one.
DigestTake(c, w) ==
    /\ MayStart(c, "digest")
    /\ \E s \in Sessions : rows[s] # {}
    /\ SameSecond \/ /\ clock \notin UNION {saved[v] : v \in Windows}
                     /\ \A d \in Running : Does(d, "digest") => command[d].at # clock
    /\ command' = [command EXCEPT ![c] =
         [kind |-> "digest", at |-> clock, window |-> w, clears |-> clears,
          compared |-> FALSE, basis |-> NoBasis]]
    /\ UNCHANGED <<rows, label, snapshots, clock, clears, hand, saved>>

Of(w) == {t \in DOMAIN snapshots : snapshots[t].window = w}

\* Seeded fault: the newest of any window.
PreviousAnyWindow(w, at) ==
    LET earlier == {t \in DOMAIN snapshots : t < at} IN
    IF earlier = {} THEN NoBasis
    ELSE [at |-> Max(earlier), clears |-> snapshots[Max(earlier)].clears]

\* PreviousDigestSnapshot: the newest of the window, strictly before this one.
Previous(w, at) ==
    LET earlier == {t \in Of(w) : t < at} IN
    IF earlier = {} THEN NoBasis
    ELSE [at |-> Max(earlier), clears |-> snapshots[Max(earlier)].clears]

DigestCompare(c) ==
    /\ Does(c, "digest") /\ ~command[c].compared
    /\ LET d == command[c] IN
       command' = [command EXCEPT ![c] =
         [d EXCEPT !.compared = TRUE, !.basis = Previous(d.window, d.at)]]
    /\ UNCHANGED <<rows, label, snapshots, clock, clears, hand, saved>>

\* A snapshot table without the oldest of w's beyond Kept.
Trim(table, w) ==
    LET stamps == {t \in DOMAIN table : table[t].window = w}
        newer(t) == {u \in stamps : u > t}
        gone == {t \in stamps : Cardinality(newer(t)) >= Kept}
    IN  [t \in DOMAIN table \ gone |-> table[t]]

\* SaveDigestSnapshot: taken_at alone is the key, and a row with it is replaced.
DigestSave(c) ==
    /\ Does(c, "digest") /\ command[c].compared
    /\ LET d == command[c]
           row == [window |-> d.window, clears |-> d.clears]
           table == [t \in DOMAIN snapshots \cup {d.at} |->
                        IF t = d.at THEN row ELSE snapshots[t]]
       IN  /\ snapshots' = Trim(table, d.window)
           /\ saved' = [saved EXCEPT ![d.window] = @ \cup {d.at}]
    /\ Finish(c)
    /\ UNCHANGED <<rows, label, clock, clears, hand>>

\* A dry run ends here; so does a command that fails or is killed.
Stop(c) ==
    /\ command[c] # Idle
    /\ Finish(c)
    /\ UNCHANGED <<rows, label, snapshots, clock, clears, hand, saved>>

Tick ==
    /\ clock < MaxClock
    /\ clock' = clock + 1
    /\ UNCHANGED <<rows, label, snapshots, command, clears, hand, saved>>

Next ==
    \/ \E s \in Sessions, records \in SUBSET Record : Backfill(s, records)
    \/ Age \/ Tick
    \/ \E c \in Commands :
         \/ \E s \in Sessions, set \in Edits : MarkRead(c, s, set)
         \/ \E s \in Sessions : Unmark(c, s) \/ AcceptNext(c, s)
         \/ MarkWrite(c) \/ AcceptRead(c) \/ AcceptWrite(c)
         \/ \E scope \in Scopes : ClearLabels(c, scope) \/ ClearBegin(c, scope)
         \/ ClearRows(c)
         \/ \E w \in Windows : DigestTake(c, w)
         \/ DigestCompare(c) \/ DigestSave(c)
         \/ Stop(c)

Spec == Init /\ [][Next]_vars

(* Properties ************************************************************)

\* A label edited by hand stays as the edit left it, each axis of it, until it
\* is edited again, unmarked or cleared with --labels: accepting suggestions,
\* clearing records and re-importing them leave it alone.
HandStands ==
    \A s \in Sessions : hand[s] # NoLabel => label[s] = hand[s]

\* A clear that runs to its end took labels only of sessions it removed entirely.
OnlyRemovedSessions ==
    [][\A c \in Commands :
         Does(c, "clear") /\ clears' # clears =>
           \A s \in command[c].taken : rows'[s] = {}]_vars

\* The desk's types with the bound on snapshots, what a person typed, and what a clear
\* may take of it.
LabelsStand == [](TypeOK /\ HandStands) /\ OnlyRemovedSessions

\* A digest reports movement, and all of it: between what it read and what it is compared
\* with nothing was cleared, and that is the last digest of its window saved before it was
\* taken, unless a clear or Kept later ones took that away.
ReportsMovement ==
    \A c \in Commands :
        LET d == command'[c]
            earlier == {t \in saved[d.window] : t < d.at}
        IN  command'[c] # Idle /\ d.kind = "digest" /\ d.compared =>
              /\ d.basis # NoBasis => d.basis.clears = d.clears
              /\ ~command[c].compared =>
                   IF d.basis = NoBasis
                   THEN earlier = {} \/ Cardinality(saved[d.window]) > Kept
                   ELSE earlier # {} /\ d.basis.at = Max(earlier)

MovementOnly == [][ReportsMovement]_vars
=============================================================================
