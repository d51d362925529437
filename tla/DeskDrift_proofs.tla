-------------------------- MODULE DeskDrift_proofs --------------------------
(* Proofs about what is kept beside the records.  About labels and digests   *)
(* (Desk), for every set of sessions, axes, windows and commands and every   *)
(* number of snapshots kept: labels made by hand stand, a clear takes the    *)
(* labels of removed sessions only, and digests report movement and all of   *)
(* it.  About the drift canaries (Drift), for every number of files and      *)
(* shapes, every floor and every number of retained runs: watermarks outlive *)
(* a root that has moved and go once the loss is the norm, one odd pass      *)
(* moves no baseline, a source that only grew raises no canary, and a run    *)
(* that got no token out of what it read raises one.                         *)
EXTENDS Desk, Drift, SetFacts, FiniteSetTheorems, SequenceTheorems, TLAPS

(* Labels and digests: types *)

\* What the sessions an accept still writes derive, so that it writes a label.
DerivesSome ==
    \A c \in Commands : Does(c, "accept") =>
        /\ \A s \in command[c].todo : DOMAIN Suggested[s] # {}
        /\ command[c].session # None => DOMAIN Suggested[command[c].session] # {}

LEMMA KindOf ==
    ASSUME NEW x \in Command
    PROVE  /\ x.kind \in {"mark", "accept", "clear", "digest"}
           /\ x.kind = "mark" => x \in Mark
           /\ x.kind = "accept" => x \in Accept
           /\ x.kind = "clear" => x \in Clear
           /\ x.kind = "digest" => x \in Digest
BY DEF Command, Mark, Accept, Clear, Digest

LEMMA StoredIsLabel == \A l : Stored(l) \in Label \cup {NoLabel}
BY DEF Stored

LEMMA OverIsRow ==
    ASSUME NEW axes \in SUBSET Axes, NEW set \in [axes -> Values \cup {None}],
           NEW read \in Label \cup {NoLabel}
    PROVE  Over(set, read) \in [Axes -> Values \cup {None}]
BY AbsentAssumption DEF Over, Label

LEMMA SuggestionIsLabel ==
    ASSUME NEW s \in Sessions, DOMAIN Suggested[s] # {}, NEW read \in Label \cup {NoLabel}
    PROVE  Over(Suggested[s], read) \in Label
<1>1. PICK axes \in SUBSET Axes : Suggested[s] \in [axes -> Values]
  BY SuggestedAssumption
<1>2. Suggested[s] \in [axes -> Values \cup {None}] /\ DOMAIN Suggested[s] = axes
  BY <1>1
<1>3. Over(Suggested[s], read) \in [Axes -> Values \cup {None}]
  BY <1>2, OverIsRow
<1>4. PICK a \in axes : TRUE
  BY <1>2
<1>5. Over(Suggested[s], read)[a] = Suggested[s][a] /\ Suggested[s][a] \in Values
  BY <1>1, <1>2, <1>4 DEF Over
<1> QED BY <1>3, <1>5, DeskAssumption DEF Label

Types ==
    /\ rows \in [Sessions -> SUBSET Record]
    /\ label \in [Sessions -> Label \cup {NoLabel}]
    /\ DOMAIN snapshots \in SUBSET (0 .. MaxClock) /\ snapshots \in [DOMAIN snapshots -> Snapshot]
    /\ command \in [Commands -> Command \cup {Idle}]
    /\ clock \in 0 .. MaxClock /\ clears \in 0 .. MaxClears
    /\ hand \in [Sessions -> Label \cup {NoLabel}]
    /\ saved \in [Windows -> SUBSET (0 .. MaxClock)]

LEMMA DoesIn ==
    ASSUME Types, NEW c \in Commands, NEW kind, Does(c, kind)
    PROVE  command[c] \in Command /\ command[c].kind = kind
BY DEF Types, Does

\* A step that only starts or moves one command on, to a well-typed one.
LEMMA CommandMoves ==
    ASSUME Types, NEW c \in Commands, NEW x \in Command \cup {Idle},
           command' = [command EXCEPT ![c] = x]
    PROVE  /\ command' \in [Commands -> Command \cup {Idle}]
           /\ command'[c] = x
           /\ \A d \in Commands : d # c => command'[d] = command[d]
BY DEF Types

LEMMA DerivesKept ==
    ASSUME DerivesSome, Types, NEW c \in Commands,
           \A d \in Commands : d # c => command'[d] = command[d],
           command'[c] # Idle /\ command'[c].kind = "accept" =>
               /\ \A s \in command'[c].todo : DOMAIN Suggested[s] # {}
               /\ command'[c].session # None => DOMAIN Suggested[command'[c].session] # {}
    PROVE  DerivesSome'
BY DEF DerivesSome, Does

LEMMA TypesInit == Init => Types /\ DerivesSome
BY DeskAssumption DEF Init, Types, DerivesSome, Does, Record

LEMMA TypesMarkRead ==
    ASSUME Types, DerivesSome, NEW c \in Commands, NEW s \in Sessions, NEW set \in Edits,
           MarkRead(c, s, set)
    PROVE  Types' /\ DerivesSome'
<1> DEFINE x == [kind |-> "mark", session |-> s, set |-> set, read |-> label[s]]
<1>1. x \in Mark
  BY DEF Mark, Types
<1>2. x \in Command /\ x.kind = "mark"
  BY <1>1 DEF Command
<1>3. command' = [command EXCEPT ![c] = x]
  BY DEF MarkRead
<1> HIDE DEF x
<1>4. DerivesSome'
  BY <1>2, <1>3, CommandMoves, DerivesKept
<1> QED BY <1>2, <1>3, <1>4, CommandMoves DEF Types, MarkRead

LEMMA TypesFinish ==
    ASSUME Types, DerivesSome, NEW c \in Commands, Finish(c)
    PROVE  /\ command' \in [Commands -> Command \cup {Idle}]
           /\ DerivesSome'
<1>1. command' = [command EXCEPT ![c] = Idle]
  BY DEF Finish
<1> QED BY <1>1, CommandMoves, DerivesKept

LEMMA TypesMarkWrite ==
    ASSUME Types, DerivesSome, NEW c \in Commands, MarkWrite(c)
    PROVE  Types' /\ DerivesSome'
<1>1. command[c] \in Mark
  BY DoesIn, KindOf DEF MarkWrite
<1> DEFINE s == command[c].session
           new == Stored(Over(command[c].set, command[c].read))
           edited == Stored(Over(command[c].set, IF hand[s] = NoLabel THEN label[s] ELSE hand[s]))
<1>2. s \in Sessions /\ new \in Label \cup {NoLabel} /\ edited \in Label \cup {NoLabel}
  BY <1>1, StoredIsLabel DEF Mark
<1>3. label' = [label EXCEPT ![s] = new] /\ hand' = [hand EXCEPT ![s] = edited]
  BY DEF MarkWrite
<1> HIDE DEF new, edited, s
<1>4. Finish(c) /\ UNCHANGED <<rows, snapshots, clock, clears, saved>>
  BY DEF MarkWrite
<1> QED BY <1>2, <1>3, <1>4, TypesFinish DEF Types

LEMMA TypesUnmark ==
    ASSUME Types, DerivesSome, NEW c \in Commands, NEW s \in Sessions, Unmark(c, s)
    PROVE  Types' /\ DerivesSome'
BY DEF Types, DerivesSome, Does, Unmark

LEMMA TypesAcceptRead ==
    ASSUME Types, DerivesSome, NEW c \in Commands, AcceptRead(c)
    PROVE  Types' /\ DerivesSome'
<1> DEFINE x == [kind |-> "accept", todo |-> {s \in Sessions : Fresh(s)}, session |-> None, read |-> NoLabel]
<1>1. x \in Accept
  BY DEF Accept
<1>2. x \in Command /\ x.session = None /\ \A s \in x.todo : DOMAIN Suggested[s] # {}
  BY <1>1 DEF Command, Fresh
<1>3. command' = [command EXCEPT ![c] = x]
  BY DEF AcceptRead
<1> HIDE DEF x
<1>4. DerivesSome'
  BY <1>2, <1>3, CommandMoves, DerivesKept
<1> QED BY <1>2, <1>3, <1>4, CommandMoves DEF Types, AcceptRead

LEMMA TypesAcceptNext ==
    ASSUME Types, DerivesSome, NEW c \in Commands, NEW s \in Sessions, AcceptNext(c, s)
    PROVE  Types' /\ DerivesSome'
<1>1. command[c] \in Accept
  BY DoesIn, KindOf DEF AcceptNext
<1> DEFINE x == [command[c] EXCEPT !.todo = @ \ {s}, !.session = s, !.read = label[s]]
<1>2. x \in Accept /\ x.todo = command[c].todo \ {s} /\ x.session = s
  BY <1>1 DEF Accept, Types
<1>3. x \in Command
  BY <1>2 DEF Command
<1>4. \A t \in command[c].todo : DOMAIN Suggested[t] # {}
  BY DEF DerivesSome, AcceptNext
<1>5. command' = [command EXCEPT ![c] = x]
  BY DEF AcceptNext
<1>6. s \in command[c].todo
  BY DEF AcceptNext
<1> HIDE DEF x
<1>7. DerivesSome'
  BY <1>2, <1>3, <1>4, <1>5, <1>6, CommandMoves, DerivesKept
<1> QED BY <1>3, <1>5, <1>7, CommandMoves DEF Types, AcceptNext

LEMMA TypesAcceptWrite ==
    ASSUME Types, DerivesSome, NEW c \in Commands, AcceptWrite(c)
    PROVE  Types' /\ DerivesSome'
<1>1. command[c] \in Accept
  BY DoesIn, KindOf DEF AcceptWrite
<1> DEFINE s == command[c].session
           new == Over(Suggested[s], command[c].read)
           x == IF command[c].todo = {} THEN Idle ELSE [command[c] EXCEPT !.session = None, !.read = NoLabel]
<1>2. s \in Sessions /\ DOMAIN Suggested[s] # {} /\ command[c].read \in Label \cup {NoLabel}
  BY <1>1 DEF Accept, AcceptWrite, DerivesSome
<1>3. new \in Label
  BY <1>2, SuggestionIsLabel
<1>4. x # Idle => x \in Accept /\ x.todo = command[c].todo /\ x.session = None
  BY <1>1 DEF Accept
<1>5. x \in Command \cup {Idle}
  BY <1>4 DEF Command
<1>6. label' = [label EXCEPT ![s] = new] /\ command' = [command EXCEPT ![c] = x]
  BY DEF AcceptWrite
<1>7. \A t \in command[c].todo : DOMAIN Suggested[t] # {}
  BY DEF DerivesSome, AcceptWrite
<1> HIDE DEF x, new, s
<1>8. DerivesSome'
  BY <1>4, <1>5, <1>6, <1>7, CommandMoves, DerivesKept
<1>9. command' \in [Commands -> Command \cup {Idle}]
  BY <1>5, <1>6, CommandMoves
<1>10. label' \in [Sessions -> Label \cup {NoLabel}]
  BY <1>2, <1>3, <1>6 DEF Types
<1> QED BY <1>8, <1>9, <1>10 DEF Types, AcceptWrite

LEMMA TypesClearStart ==
    ASSUME Types, DerivesSome, NEW c \in Commands, NEW scope \in Scopes,
           NEW taken \in SUBSET Sessions,
           command' = [command EXCEPT ![c] = [kind |-> "clear", scope |-> scope, taken |-> taken]]
    PROVE  command' \in [Commands -> Command \cup {Idle}] /\ DerivesSome'
<1> DEFINE x == [kind |-> "clear", scope |-> scope, taken |-> taken]
<1>1. x \in Command /\ x.kind = "clear"
  BY DEF Command, Clear
<1>2. command' = [command EXCEPT ![c] = x]
  OBVIOUS
<1> HIDE DEF x
<1> QED BY <1>1, <1>2, CommandMoves, DerivesKept

LEMMA TypesClearLabels ==
    ASSUME Types, DerivesSome, NEW c \in Commands, NEW scope \in Scopes, ClearLabels(c, scope)
    PROVE  Types' /\ DerivesSome'
<1> DEFINE gone == IF scope = Record THEN Sessions ELSE Taken(scope)
           taken == {s \in gone : label[s] # NoLabel}
<1>1. gone \subseteq Sessions /\ taken \in SUBSET Sessions
  BY DEF Taken
<1>2. /\ label' = [s \in Sessions |-> IF s \in gone THEN NoLabel ELSE label[s]]
      /\ hand' = [s \in Sessions |-> IF s \in gone THEN NoLabel ELSE hand[s]]
      /\ \/ command' = [command EXCEPT ![c] = [kind |-> "clear", scope |-> scope, taken |-> taken]]
         \/ UNCHANGED command
      /\ UNCHANGED <<rows, snapshots, clock, clears, saved>>
  BY DEF ClearLabels
<1> HIDE DEF gone, taken
<1>3. command' \in [Commands -> Command \cup {Idle}] /\ DerivesSome'
  BY <1>1, <1>2, TypesClearStart DEF Types, DerivesSome, Does
<1> QED BY <1>2, <1>3 DEF Types

LEMMA TypesClearBegin ==
    ASSUME Types, DerivesSome, NEW c \in Commands, NEW scope \in Scopes, ClearBegin(c, scope)
    PROVE  Types' /\ DerivesSome'
<1>1. command' = [command EXCEPT ![c] = [kind |-> "clear", scope |-> scope, taken |-> {}]]
  BY DEF ClearBegin
<1>2. {} \in SUBSET Sessions
  OBVIOUS
<1>3. command' \in [Commands -> Command \cup {Idle}] /\ DerivesSome'
  BY <1>1, <1>2, TypesClearStart
<1> QED BY <1>3 DEF ClearBegin, Types

LEMMA TypesClearRows ==
    ASSUME Types, DerivesSome, NEW c \in Commands, ClearRows(c)
    PROVE  Types' /\ DerivesSome'
<1>1. rows' \in [Sessions -> SUBSET Record]
  BY DEF ClearRows, Types
<1>2. clears' \in 0 .. MaxClears
  BY DeskAssumption DEF ClearRows, Types
<1>3. /\ DOMAIN snapshots' \in SUBSET (0 .. MaxClock) /\ snapshots' \in [DOMAIN snapshots' -> Snapshot]
      /\ saved' \in [Windows -> SUBSET (0 .. MaxClock)]
  BY DEF ClearRows
<1> QED BY <1>1, <1>2, <1>3, TypesFinish DEF ClearRows, Types

LEMMA TypesDigestTake ==
    ASSUME Types, DerivesSome, NEW c \in Commands, NEW w \in Windows, DigestTake(c, w)
    PROVE  Types' /\ DerivesSome'
<1> DEFINE x == [kind |-> "digest", at |-> clock, window |-> w, clears |-> clears,
                compared |-> FALSE, basis |-> NoBasis]
<1>1. x \in Digest
  BY DEF Digest, Types
<1>2. x \in Command /\ x.kind = "digest"
  BY <1>1 DEF Command
<1>3. command' = [command EXCEPT ![c] = x]
  BY DEF DigestTake
<1> HIDE DEF x
<1>4. DerivesSome'
  BY <1>2, <1>3, CommandMoves, DerivesKept
<1> QED BY <1>2, <1>3, <1>4, CommandMoves DEF Types, DigestTake

LEMMA MaxOf ==
    ASSUME NEW S \in SUBSET (0 .. MaxClock), S # {}
    PROVE  Max(S) \in S /\ \A n \in S : Max(S) >= n
<1>1. \E m \in S : \A n \in S : m >= n
  BY GreatestOf, DeskAssumption
<1> QED BY <1>1 DEF Max

LEMMA PreviousTyped ==
    ASSUME Types, NEW w, NEW at
    PROVE  Previous(w, at) \in Basis \cup {NoBasis}
<1> DEFINE earlier == {t \in Of(w) : t < at}
<1>1. CASE earlier = {}
  BY <1>1 DEF Previous
<1>2. CASE earlier # {}
  <2>1. earlier \in SUBSET (0 .. MaxClock) /\ earlier \subseteq DOMAIN snapshots
    BY DEF Of, Types
  <2>2. Max(earlier) \in earlier
    BY <1>2, <2>1, MaxOf
  <2>3. Max(earlier) \in 0 .. MaxClock /\ snapshots[Max(earlier)].clears \in 0 .. MaxClears
    BY <2>1, <2>2 DEF Types, Snapshot
  <2>4. Previous(w, at) = [at |-> Max(earlier), clears |-> snapshots[Max(earlier)].clears]
    BY <1>2 DEF Previous
  <2> HIDE DEF earlier
  <2> QED BY <2>3, <2>4 DEF Basis
<1> QED BY <1>1, <1>2

LEMMA TypesDigestCompare ==
    ASSUME Types, DerivesSome, NEW c \in Commands, DigestCompare(c)
    PROVE  Types' /\ DerivesSome'
<1>1. command[c] \in Digest
  BY DoesIn, KindOf DEF DigestCompare
<1> DEFINE d == command[c]
           basis == Previous(d.window, d.at)
           x == [d EXCEPT !.compared = TRUE, !.basis = basis]
<1>2. basis \in Basis \cup {NoBasis}
  BY PreviousTyped
<1> HIDE DEF basis
<1>3. x \in Digest
  BY <1>1, <1>2 DEF Digest
<1>4. x \in Command /\ x.kind = "digest"
  BY <1>3 DEF Command, Digest
<1>5. command' = [command EXCEPT ![c] = x]
  BY DEF DigestCompare, basis
<1> HIDE DEF x
<1>6. DerivesSome'
  BY <1>4, <1>5, CommandMoves, DerivesKept
<1> QED BY <1>4, <1>5, <1>6, CommandMoves DEF Types, DigestCompare

\* What the table is once a digest has saved its row, before the oldest are dropped.
SavedTable(d) ==
    [t \in DOMAIN snapshots \cup {d.at} |->
        IF t = d.at THEN [window |-> d.window, clears |-> d.clears] ELSE snapshots[t]]

LEMMA SavedTableTyped ==
    ASSUME Types, NEW d \in Digest
    PROVE  /\ DOMAIN SavedTable(d) = DOMAIN snapshots \cup {d.at}
           /\ DOMAIN SavedTable(d) \in SUBSET (0 .. MaxClock)
           /\ SavedTable(d) \in [DOMAIN SavedTable(d) -> Snapshot]
BY DEF SavedTable, Digest, Snapshot, Types

LEMMA TypesDigestSave ==
    ASSUME Types, DerivesSome, NEW c \in Commands, DigestSave(c)
    PROVE  Types' /\ DerivesSome'
<1> DEFINE d == command[c]
           table == SavedTable(d)
<1>1. d \in Digest
  BY DoesIn, KindOf DEF DigestSave
<1>2. snapshots' = Trim(table, d.window) /\ saved' = [saved EXCEPT ![d.window] = @ \cup {d.at}]
  BY DEF DigestSave, SavedTable
<1>3. d.window \in Windows /\ d.at \in 0 .. MaxClock
  BY <1>1 DEF Digest
<1>4. DOMAIN table \in SUBSET (0 .. MaxClock) /\ table \in [DOMAIN table -> Snapshot]
  BY <1>1, SavedTableTyped
<1> HIDE DEF table, d
<1>5. DOMAIN snapshots' \in SUBSET (0 .. MaxClock) /\ snapshots' \in [DOMAIN snapshots' -> Snapshot]
  BY <1>2, <1>4 DEF Trim
<1>6. saved' \in [Windows -> SUBSET (0 .. MaxClock)]
  BY <1>2, <1>3 DEF Types
<1> QED BY <1>5, <1>6, TypesFinish DEF Types, DigestSave

LEMMA TypesStep ==
    ASSUME Types, DerivesSome, [Next]_vars
    PROVE  Types' /\ DerivesSome'
<1>1. CASE UNCHANGED vars
  BY <1>1 DEF vars, Types, DerivesSome, Does
<1>2. ASSUME NEW s \in Sessions, NEW records \in SUBSET Record, Backfill(s, records)
      PROVE  Types' /\ DerivesSome'
  BY <1>2 DEF Backfill, Types, DerivesSome, Does
<1>3. CASE Age
  BY <1>3 DEF Age, Types, DerivesSome, Does, Record
<1>4. CASE Tick
  BY <1>4, DeskAssumption DEF Tick, Types, DerivesSome, Does
<1>5. ASSUME NEW c \in Commands, Stop(c)
      PROVE  Types' /\ DerivesSome'
  BY <1>5, TypesFinish DEF Stop, Types
<1> QED BY <1>1, <1>2, <1>3, <1>4, <1>5, TypesMarkRead, TypesMarkWrite, TypesUnmark,
           TypesAcceptRead, TypesAcceptNext, TypesAcceptWrite, TypesClearLabels, TypesClearBegin,
           TypesClearRows, TypesDigestTake, TypesDigestCompare, TypesDigestSave DEF Next

(* Labels *)

LabelWriters == {"mark", "accept", "clear"}

\* The habit the labels rest on: commands that write labels are not run side by side.
LabelWritersApart == \A j, k \in LabelWriters : {j, k} \notin MayOverlap

OneLabelWriter ==
    \A c, d \in Commands :
        command[c] # Idle /\ command[c].kind \in LabelWriters /\
        command[d] # Idle /\ command[d].kind \in LabelWriters => c = d

\* What a command holds of the labels is what they are: a mark has read the label it is
\* about to replace, an accept is about to write sessions that have none, and a clear
\* has taken the labels of sessions its scope covers.
ReadsCurrent ==
    \A c \in Commands : Does(c, "mark") => command[c].read = label[command[c].session]
FreshTodo ==
    \A c \in Commands : Does(c, "accept") =>
        /\ command[c].session \notin command[c].todo
        /\ \A s \in command[c].todo : label[s] = NoLabel
        /\ command[c].session # None => label[command[c].session] = NoLabel /\ command[c].read = NoLabel
ClearCovers ==
    \A c \in Commands : Does(c, "clear") =>
        \A s \in command[c].taken : rows[s] \subseteq command[c].scope

LabelInv == OneLabelWriter /\ ReadsCurrent /\ FreshTodo /\ ClearCovers /\ HandStands

\* A writer of labels starts only while no other runs, and so while nobody holds a label.
LEMMA StartsAlone ==
    ASSUME Types, LabelWritersApart, NEW c \in Commands, NEW kind \in LabelWriters, MayStart(c, kind)
    PROVE  \A d \in Commands : command[d] # Idle => command[d].kind \notin LabelWriters
BY DEF MayStart, Running, LabelWritersApart

LEMMA LabelsInit == Init => LabelInv
BY DEF Init, LabelInv, OneLabelWriter, ReadsCurrent, FreshTodo, ClearCovers, HandStands, Does

\* A step that starts or ends digests only, and leaves labels and hand alone.
LEMMA LabelsUntouched ==
    ASSUME Types, LabelInv, UNCHANGED <<label, hand>>,
           \A c \in Commands : command'[c] = command[c] \/ command'[c] = Idle \/ command'[c].kind = "digest",
           \A s \in Sessions : rows'[s] \subseteq rows[s] \/ \A c \in Commands : ~Does(c, "clear")
    PROVE  LabelInv'
<1>1. OneLabelWriter'
  BY DEF LabelInv, OneLabelWriter, LabelWriters
<1>2. ReadsCurrent' /\ FreshTodo' /\ HandStands'
  BY DEF LabelInv, ReadsCurrent, FreshTodo, HandStands, Does
<1>3. ASSUME NEW c \in Commands, Does(c, "clear")', NEW s \in (command[c].taken)'
      PROVE  rows'[s] \subseteq command'[c].scope
  <2>1. command'[c] = command[c] /\ Does(c, "clear")
    BY <1>3 DEF Does
  <2>2. command[c] \in Clear
    BY <2>1, DoesIn, KindOf
  <2>3. s \in Sessions /\ rows[s] \subseteq command[c].scope
    BY <1>3, <2>1, <2>2 DEF Clear, LabelInv, ClearCovers
  <2> QED BY <2>1, <2>3
<1> QED BY <1>1, <1>2, <1>3 DEF LabelInv, ClearCovers

LEMMA LabelsMarkRead ==
    ASSUME Types, LabelInv, LabelWritersApart, NEW c \in Commands, NEW s \in Sessions, NEW set \in Edits,
           MarkRead(c, s, set)
    PROVE  LabelInv'
<1>1. \A d \in Commands : command[d] # Idle => command[d].kind \notin LabelWriters
  BY StartsAlone DEF MarkRead, LabelWriters
<1>2. /\ command'[c] = [kind |-> "mark", session |-> s, set |-> set, read |-> label[s]]
      /\ \A d \in Commands : d # c => command'[d] = command[d]
      /\ UNCHANGED <<rows, label, hand>>
  BY DEF MarkRead, Types
<1> QED BY <1>1, <1>2 DEF LabelInv, OneLabelWriter, ReadsCurrent, FreshTodo, ClearCovers, HandStands,
                           Does, LabelWriters

\* When a command that writes labels moves, no other holds one.
LEMMA OthersHoldNone ==
    ASSUME LabelInv, NEW c \in Commands, command[c] # Idle, command[c].kind \in LabelWriters
    PROVE  \A d \in Commands : d # c /\ command[d] # Idle => command[d].kind \notin LabelWriters
BY DEF LabelInv, OneLabelWriter

LEMMA LabelsMarkWrite ==
    ASSUME Types, LabelInv, NEW c \in Commands, MarkWrite(c)
    PROVE  LabelInv'
<1>1. command[c] \in Mark /\ Does(c, "mark")
  BY DoesIn, KindOf DEF MarkWrite
<1> DEFINE s == command[c].session
           new == Stored(Over(command[c].set, command[c].read))
<1>2. s \in Sessions
  BY <1>1 DEF Mark
<1>3. \A d \in Commands : d # c /\ command[d] # Idle => command[d].kind \notin LabelWriters
  BY <1>1, OthersHoldNone DEF Does, LabelWriters
<1>4. command[c].read = IF hand[s] = NoLabel THEN label[s] ELSE hand[s]
  BY <1>1, <1>2 DEF LabelInv, ReadsCurrent, HandStands
<1>5. label' = [label EXCEPT ![s] = new] /\ hand' = [hand EXCEPT ![s] = new]
  BY <1>4 DEF MarkWrite
<1>6. /\ command'[c] = Idle /\ \A d \in Commands : d # c => command'[d] = command[d]
      /\ UNCHANGED rows
  BY DEF MarkWrite, Finish, Types
<1> HIDE DEF new, s
<1>7. HandStands'
  BY <1>2, <1>5 DEF LabelInv, HandStands, Types
<1>8. \A d \in Commands : command'[d] # Idle => command'[d].kind \notin LabelWriters
  BY <1>3, <1>6
<1> QED BY <1>7, <1>8 DEF LabelInv, OneLabelWriter, ReadsCurrent, FreshTodo, ClearCovers, Does, LabelWriters

LEMMA LabelsUnmark ==
    ASSUME Types, LabelInv, LabelWritersApart, NEW c \in Commands, NEW s \in Sessions, Unmark(c, s)
    PROVE  LabelInv'
<1>1. \A d \in Commands : command[d] # Idle => command[d].kind \notin LabelWriters
  BY StartsAlone DEF Unmark, LabelWriters
<1>2. HandStands'
  BY DEF Unmark, LabelInv, HandStands, Types
<1> QED BY <1>1, <1>2 DEF Unmark, LabelInv, OneLabelWriter, ReadsCurrent, FreshTodo, ClearCovers, Does, LabelWriters

LEMMA LabelsAcceptRead ==
    ASSUME Types, LabelInv, LabelWritersApart, NEW c \in Commands, AcceptRead(c)
    PROVE  LabelInv'
<1>1. \A d \in Commands : command[d] # Idle => command[d].kind \notin LabelWriters
  BY StartsAlone DEF AcceptRead, LabelWriters
<1> DEFINE x == [kind |-> "accept", todo |-> {s \in Sessions : Fresh(s)}, session |-> None, read |-> NoLabel]
<1>2. /\ x.kind = "accept" /\ x.session = None
      /\ x.session \notin x.todo /\ \A s \in x.todo : label[s] = NoLabel
  BY AbsentAssumption DEF Fresh
<1>3. command' = [command EXCEPT ![c] = x] /\ UNCHANGED <<rows, label, hand>>
  BY DEF AcceptRead
<1> HIDE DEF x
<1>4. command'[c] = x /\ \A d \in Commands : d # c => command'[d] = command[d]
  BY <1>3 DEF Types
<1>5. \A d \in Commands : d # c => ~Does(d, "mark")' /\ ~Does(d, "accept")' /\ ~Does(d, "clear")'
  BY <1>1, <1>4 DEF Does, LabelWriters
<1>6. OneLabelWriter'
  BY <1>1, <1>4 DEF OneLabelWriter
<1>7. FreshTodo'
  BY <1>2, <1>3, <1>4, <1>5 DEF FreshTodo, Does
<1>8. ReadsCurrent' /\ ClearCovers'
  BY <1>2, <1>4, <1>5 DEF ReadsCurrent, ClearCovers, Does
<1> QED BY <1>3, <1>6, <1>7, <1>8 DEF LabelInv, HandStands

LEMMA LabelsAcceptNext ==
    ASSUME Types, LabelInv, NEW c \in Commands, NEW s \in Sessions, AcceptNext(c, s)
    PROVE  LabelInv'
<1>1. command[c] \in Accept /\ Does(c, "accept")
  BY DoesIn, KindOf DEF AcceptNext
<1>2. \A d \in Commands : d # c /\ command[d] # Idle => command[d].kind \notin LabelWriters
  BY <1>1, OthersHoldNone DEF Does, LabelWriters
<1> DEFINE x == [command[c] EXCEPT !.todo = @ \ {s}, !.session = s, !.read = label[s]]
<1>3. /\ x.kind = "accept" /\ x.todo = command[c].todo \ {s} /\ x.session = s /\ x.read = label[s]
  BY <1>1 DEF Accept
<1>4. command' = [command EXCEPT ![c] = x] /\ UNCHANGED <<rows, label, hand>> /\ s \in command[c].todo
  BY DEF AcceptNext
<1> HIDE DEF x
<1>5. command'[c] = x /\ \A d \in Commands : d # c => command'[d] = command[d]
  BY <1>4 DEF Types
<1>6. \A t \in command[c].todo : label[t] = NoLabel
  BY <1>1 DEF LabelInv, FreshTodo
<1> QED BY <1>1, <1>2, <1>3, <1>4, <1>5, <1>6
        DEF LabelInv, OneLabelWriter, ReadsCurrent, FreshTodo, ClearCovers, HandStands, Does, LabelWriters

LEMMA LabelsAcceptWrite ==
    ASSUME Types, LabelInv, DerivesSome, NEW c \in Commands, AcceptWrite(c)
    PROVE  LabelInv'
<1>1. command[c] \in Accept /\ Does(c, "accept")
  BY DoesIn, KindOf DEF AcceptWrite
<1>2. \A d \in Commands : d # c /\ command[d] # Idle => command[d].kind \notin LabelWriters
  BY <1>1, OthersHoldNone DEF Does, LabelWriters
<1> DEFINE s == command[c].session
           new == Over(Suggested[s], command[c].read)
           x == IF command[c].todo = {} THEN Idle ELSE [command[c] EXCEPT !.session = None, !.read = NoLabel]
<1>3. /\ s \notin command[c].todo /\ \A t \in command[c].todo : label[t] = NoLabel
      /\ label[s] = NoLabel /\ s \in Sessions /\ command[c].todo \subseteq Sessions
  BY <1>1 DEF LabelInv, FreshTodo, Accept, AcceptWrite
<1>4. hand[s] = NoLabel
  BY <1>3 DEF LabelInv, HandStands
<1>5. x # Idle => x.kind = "accept" /\ x.todo = command[c].todo /\ x.session = None /\ x.read = NoLabel
  BY <1>1 DEF Accept
<1>6. command' = [command EXCEPT ![c] = x] /\ label' = [label EXCEPT ![s] = new] /\ UNCHANGED <<rows, hand>>
  BY DEF AcceptWrite
<1> HIDE DEF x, new, s
<1>7. /\ command'[c] = x /\ \A d \in Commands : d # c => command'[d] = command[d]
      /\ \A t \in Sessions : t # s => label'[t] = label[t]
  BY <1>6 DEF Types
<1>8. HandStands'
  BY <1>4, <1>6, <1>7 DEF LabelInv, HandStands
<1>9. OneLabelWriter'
  BY <1>2, <1>7 DEF OneLabelWriter
<1>10. \A d \in Commands : d # c => ~Does(d, "mark")' /\ ~Does(d, "accept")' /\ ~Does(d, "clear")'
  BY <1>2, <1>7 DEF Does, LabelWriters
<1>11. ~Does(c, "mark")' /\ ~Does(c, "clear")'
  BY <1>5, <1>7 DEF Does
<1>12. ReadsCurrent' /\ ClearCovers'
  BY <1>10, <1>11 DEF ReadsCurrent, ClearCovers
<1>13. FreshTodo'
  <2> SUFFICES ASSUME Does(c, "accept")'
               PROVE  /\ (command[c].session \notin command[c].todo)'
                      /\ \A t \in (command[c].todo)' : label'[t] = NoLabel
                      /\ (command[c].session # None)' =>
                            (label[command[c].session] = NoLabel /\ command[c].read = NoLabel)'
    BY <1>10 DEF FreshTodo
  <2>1. x # Idle
    BY <1>7 DEF Does
  <2>2. None \notin Sessions
    BY AbsentAssumption
  <2> QED BY <1>3, <1>5, <1>7, <2>1, <2>2
<1> QED BY <1>8, <1>9, <1>12, <1>13 DEF LabelInv

\* A clear starts alone, so nothing held of the labels is about to be written over it.
LEMMA LabelsClearStart ==
    ASSUME Types, LabelInv, LabelWritersApart, NEW c \in Commands, MayStart(c, "clear"),
           NEW scope, NEW taken \in SUBSET Sessions,
           \A s \in taken : rows[s] \subseteq scope,
           UNCHANGED rows, HandStands',
           \/ command' = [command EXCEPT ![c] = [kind |-> "clear", scope |-> scope, taken |-> taken]]
           \/ UNCHANGED command
    PROVE  LabelInv'
<1>1. \A d \in Commands : command[d] # Idle => command[d].kind \notin LabelWriters
  BY StartsAlone DEF LabelWriters
<1>2. CASE UNCHANGED command
  BY <1>1, <1>2 DEF LabelInv, OneLabelWriter, ReadsCurrent, FreshTodo, ClearCovers, Does, LabelWriters
<1> DEFINE x == [kind |-> "clear", scope |-> scope, taken |-> taken]
<1>3. CASE command' = [command EXCEPT ![c] = x]
  <2>1. x.kind = "clear" /\ x.scope = scope /\ x.taken = taken
    OBVIOUS
  <2> HIDE DEF x
  <2>2. command'[c] = x /\ \A d \in Commands : d # c => command'[d] = command[d]
    BY <1>3 DEF Types
  <2>3. \A d \in Commands : d # c => ~Does(d, "mark")' /\ ~Does(d, "accept")' /\ ~Does(d, "clear")'
    BY <1>1, <2>2 DEF Does, LabelWriters
  <2>4. OneLabelWriter'
    BY <1>1, <2>2 DEF OneLabelWriter
  <2>5. ReadsCurrent' /\ FreshTodo'
    BY <2>1, <2>2, <2>3 DEF ReadsCurrent, FreshTodo, Does
  <2>6. ClearCovers'
    BY <2>1, <2>2, <2>3 DEF ClearCovers
  <2> QED BY <2>4, <2>5, <2>6 DEF LabelInv
<1> QED BY <1>2, <1>3

LEMMA LabelsClearLabels ==
    ASSUME Types, LabelInv, LabelWritersApart, NEW c \in Commands, NEW scope \in Scopes,
           ClearLabels(c, scope)
    PROVE  LabelInv'
<1> DEFINE gone == IF scope = Record THEN Sessions ELSE Taken(scope)
           taken == {s \in gone : label[s] # NoLabel}
<1>1. /\ label' = [s \in Sessions |-> IF s \in gone THEN NoLabel ELSE label[s]]
      /\ hand' = [s \in Sessions |-> IF s \in gone THEN NoLabel ELSE hand[s]]
      /\ \/ command' = [command EXCEPT ![c] = [kind |-> "clear", scope |-> scope, taken |-> taken]]
         \/ UNCHANGED command
      /\ UNCHANGED rows /\ MayStart(c, "clear")
  BY DEF ClearLabels
<1>2. \A s \in gone : s \in Sessions /\ rows[s] \subseteq scope
  BY DEF Types, Taken
<1>3. taken \in SUBSET Sessions /\ \A s \in taken : rows[s] \subseteq scope
  BY <1>2
<1> HIDE DEF gone, taken
<1>4. HandStands'
  BY <1>1 DEF LabelInv, HandStands
<1> QED BY <1>1, <1>3, <1>4, LabelsClearStart

LEMMA LabelsClearBegin ==
    ASSUME Types, LabelInv, LabelWritersApart, NEW c \in Commands, NEW scope \in Scopes,
           ClearBegin(c, scope)
    PROVE  LabelInv'
<1> DEFINE taken == {}
<1>1. /\ command' = [command EXCEPT ![c] = [kind |-> "clear", scope |-> scope, taken |-> taken]]
      /\ UNCHANGED <<rows, label, hand>> /\ MayStart(c, "clear")
  BY DEF ClearBegin
<1>2. taken \in SUBSET Sessions /\ \A s \in taken : rows[s] \subseteq scope
  OBVIOUS
<1> HIDE DEF taken
<1>3. HandStands'
  BY <1>1 DEF LabelInv, HandStands
<1> QED BY <1>1, <1>2, <1>3, LabelsClearStart

LEMMA LabelsStep ==
    ASSUME Types, DerivesSome, LabelInv, LabelWritersApart, [Next]_vars
    PROVE  LabelInv'
<1>1. CASE UNCHANGED vars
  BY <1>1, LabelsUntouched DEF vars
<1>2. ASSUME NEW s \in Sessions, NEW records \in SUBSET Record, Backfill(s, records)
      PROVE  LabelInv'
  <2>1. \A c \in Commands : ~Does(c, "clear")
    BY <1>2 DEF Backfill, Running, Does
  <2> QED BY <1>2, <2>1, LabelsUntouched DEF Backfill
<1>3. CASE Age
  <2>1. \A c \in Commands : ~Does(c, "clear")
    BY <1>3 DEF Age, Running, Does
  <2> QED BY <1>3, <2>1, LabelsUntouched DEF Age
<1>4. CASE Tick
  BY <1>4, LabelsUntouched DEF Tick
<1>5. ASSUME NEW c \in Commands, Stop(c) \/ ClearRows(c) \/ DigestSave(c)
      PROVE  LabelInv'
  <2>1. \A d \in Commands : command'[d] = command[d] \/ command'[d] = Idle
    BY <1>5 DEF Stop, ClearRows, DigestSave, Finish, Types
  <2>2. UNCHANGED <<label, hand>> /\ \A s \in Sessions : rows'[s] \subseteq rows[s]
    BY <1>5 DEF Stop, ClearRows, DigestSave
  <2> QED BY <2>1, <2>2, LabelsUntouched
<1>6. ASSUME NEW c \in Commands, NEW w \in Windows, DigestTake(c, w)
      PROVE  LabelInv'
  <2>1. \A d \in Commands : command'[d] = command[d] \/ command'[d].kind = "digest"
    BY <1>6 DEF DigestTake, Types
  <2> QED BY <1>6, <2>1, LabelsUntouched DEF DigestTake
<1>7. ASSUME NEW c \in Commands, DigestCompare(c)
      PROVE  LabelInv'
  <2>1. command[c] \in Digest
    BY <1>7, DoesIn, KindOf DEF DigestCompare
  <2>2. \A d \in Commands : command'[d] = command[d] \/ command'[d].kind = "digest"
    BY <1>7, <2>1 DEF DigestCompare, Types, Digest
  <2> QED BY <1>7, <2>2, LabelsUntouched DEF DigestCompare
<1> QED BY <1>1, <1>2, <1>3, <1>4, <1>5, <1>6, <1>7, LabelsMarkRead, LabelsMarkWrite, LabelsUnmark,
           LabelsAcceptRead, LabelsAcceptNext, LabelsAcceptWrite, LabelsClearLabels, LabelsClearBegin
        DEF Next

\* A clear that runs to its end finds no other that has taken labels, and removes all
\* the records its scope covered when it took them.
LEMMA ClearRemoves ==
    ASSUME Types, LabelInv, [Next]_vars, NEW c \in Commands, Does(c, "clear"), clears' # clears,
           NEW s \in command[c].taken
    PROVE  rows'[s] = {}
<1>1. command[c] \in Clear
  BY DoesIn, KindOf
<1>2. s \in Sessions /\ rows[s] \subseteq command[c].scope
  BY <1>1 DEF Clear, LabelInv, ClearCovers
<1>3. \E d \in Commands : ClearRows(d)
  BY DEF Next, vars, Backfill, Age, Tick, MarkRead, MarkWrite, Unmark, AcceptRead, AcceptNext,
         AcceptWrite, ClearLabels, ClearBegin, DigestTake, DigestCompare, DigestSave, Stop
<1>4. ClearRows(c)
  BY <1>3 DEF ClearRows, Does, LabelInv, OneLabelWriter, LabelWriters
<1> QED BY <1>2, <1>4 DEF ClearRows

(* Snapshots *)

Newer(t, S) == {u \in S : u > t}
NewestOf(S) == {t \in S : Cardinality(Newer(t, S)) < Kept}

LEMMA StampsFinite ==
    ASSUME NEW S \in SUBSET (0 .. MaxClock)
    PROVE  /\ IsFiniteSet(S) /\ Cardinality(S) \in Nat
           /\ \A t : IsFiniteSet(Newer(t, S)) /\ Cardinality(Newer(t, S)) \in Nat
<1>1. IsFiniteSet(0 .. MaxClock)
  BY DeskAssumption, FS_Interval
<1>2. IsFiniteSet(S)
  BY <1>1, FS_Subset
<1>3. \A t : IsFiniteSet(Newer(t, S))
  BY <1>2, FS_Subset DEF Newer
<1> QED BY <1>2, <1>3, FS_CardinalityType

\* At most Kept stamps have fewer than Kept newer ones: the oldest of them has the others.
LEMMA NewestAreFew ==
    ASSUME NEW S \in SUBSET (0 .. MaxClock)
    PROVE  Cardinality(NewestOf(S)) <= Kept
<1> DEFINE T == NewestOf(S)
<1>0. T \subseteq S /\ Kept \in Nat /\ T \in SUBSET Nat
  <2>1. T \subseteq S
    BY DEF NewestOf
  <2>2. S \subseteq Nat /\ Kept \in Nat
    BY DeskAssumption
  <2> QED BY <2>1, <2>2
<1>1. CASE T = {}
  BY <1>0, <1>1, FS_EmptySet
<1>2. CASE T # {}
  <2>1. PICK m \in T : \A t \in T : m <= t
    BY <1>0, <1>2, LeastOf
  <2>2. Cardinality(Newer(m, S)) < Kept
    BY <2>1 DEF NewestOf
  <2>3. IsFiniteSet(Newer(m, S)) /\ Cardinality(Newer(m, S)) \in Nat
    BY StampsFinite
  <2>4. IsFiniteSet(Newer(m, S) \cup {m})
        /\ (\/ Cardinality(Newer(m, S) \cup {m}) = Cardinality(Newer(m, S))
            \/ Cardinality(Newer(m, S) \cup {m}) = Cardinality(Newer(m, S)) + 1)
    BY <2>3, FS_AddElement
  <2>5. T \subseteq Newer(m, S) \cup {m}
    BY <1>0, <2>1 DEF Newer
  <2>6. Cardinality(T) <= Cardinality(Newer(m, S) \cup {m}) /\ Cardinality(T) \in Nat
    BY <2>4, <2>5, FS_Subset, FS_CardinalityType
  <2> QED BY <1>0, <2>2, <2>3, <2>4, <2>6
<1> QED BY <1>1, <1>2

\* Of at most Kept + 1 stamps, those newer than one that is dropped are kept.
LEMMA NewerAreKept ==
    ASSUME NEW S \in SUBSET (0 .. MaxClock), Cardinality(S) <= Kept + 1,
           NEW t \in S \ NewestOf(S)
    PROVE  Newer(t, S) \subseteq NewestOf(S)
<1> SUFFICES ASSUME NEW u \in Newer(t, S), u \notin NewestOf(S) PROVE FALSE
  OBVIOUS
<1>0. Kept \in Nat /\ S \subseteq Nat /\ u \in S /\ u > t /\ t \in S
  BY DeskAssumption DEF Newer
<1>1. IsFiniteSet(S) /\ Cardinality(S) \in Nat /\ IsFiniteSet(Newer(t, S))
      /\ Cardinality(Newer(t, S)) \in Nat /\ Cardinality(Newer(u, S)) \in Nat
  BY StampsFinite
<1>2. Cardinality(Newer(u, S)) >= Kept
  BY <1>0, <1>1 DEF NewestOf
<1>3. IsFiniteSet(Newer(t, S) \ {u}) /\ Cardinality(Newer(t, S) \ {u}) = Cardinality(Newer(t, S)) - 1
  BY <1>1, FS_RemoveElement
<1>4. IsFiniteSet(S \ {t}) /\ Cardinality(S \ {t}) = Cardinality(S) - 1
  BY <1>0, <1>1, FS_RemoveElement
<1>5. Newer(u, S) \subseteq Newer(t, S) \ {u} /\ Newer(t, S) \subseteq S \ {t}
  <2>1. ASSUME NEW v \in S, v > u PROVE v > t /\ v # u
    BY <1>0, <2>1
  <2>2. ASSUME NEW v \in S, v > t PROVE v # t
    BY <1>0, <2>2
  <2> QED BY <2>1, <2>2 DEF Newer
<1>6. Cardinality(Newer(u, S)) <= Cardinality(Newer(t, S) \ {u})
      /\ Cardinality(Newer(t, S)) <= Cardinality(S \ {t})
  BY <1>3, <1>4, <1>5, FS_Subset
<1> QED BY <1>0, <1>1, <1>2, <1>3, <1>4, <1>6

KeptBound == \A w \in Windows : Cardinality(Of(w)) <= Kept

\* Saving keeps the newest of the window's stamps and the saved one, and of the other
\* windows all but one taken in the same second.
LEMMA SaveKeeps ==
    ASSUME Types, NEW c \in Commands, DigestSave(c), NEW w \in Windows
    PROVE  /\ command[c] \in Digest
           /\ w = command[c].window => Of(w)' = NewestOf(Of(w) \cup {command[c].at})
           /\ w # command[c].window => Of(w)' = Of(w) \ {command[c].at}
           /\ \A t \in DOMAIN snapshots' :
                snapshots'[t].clears = IF t = command[c].at THEN command[c].clears ELSE snapshots[t].clears
           /\ DOMAIN snapshots' \subseteq DOMAIN snapshots \cup {command[c].at}
<1> DEFINE d == command[c]
           table == SavedTable(d)
           S == {t \in DOMAIN table : table[t].window = d.window}
<1>1. d \in Digest
  BY DoesIn, KindOf DEF DigestSave
<1>2. DOMAIN table = DOMAIN snapshots \cup {d.at}
  BY <1>1, SavedTableTyped
<1>3. \A t \in DOMAIN table :
        /\ table[t].window = IF t = d.at THEN d.window ELSE snapshots[t].window
        /\ table[t].clears = IF t = d.at THEN d.clears ELSE snapshots[t].clears
  BY DEF SavedTable
<1>4. S = Of(d.window) \cup {d.at}
  BY <1>2, <1>3 DEF Of
<1>5. snapshots' = Trim(table, d.window)
  BY DEF DigestSave, SavedTable
<1> HIDE DEF table
<1>6. DOMAIN snapshots' = DOMAIN table \ {t \in S : Cardinality(Newer(t, S)) >= Kept}
      /\ \A t \in DOMAIN snapshots' : snapshots'[t] = table[t]
  BY <1>5 DEF Trim, Newer
<1>7. DOMAIN table \in SUBSET (0 .. MaxClock)
  BY <1>1, SavedTableTyped DEF table
<1>8. \A t \in S : Cardinality(Newer(t, S)) >= Kept <=> t \notin NewestOf(S)
  <2>1. \A t : Cardinality(Newer(t, S)) \in Nat
    <3> S \in SUBSET (0 .. MaxClock)
      BY <1>7
    <3> QED BY StampsFinite
  <2> QED BY <2>1, DeskAssumption DEF NewestOf
<1>9. NewestOf(S) \subseteq S
  BY DEF NewestOf
<1>10. ASSUME w = d.window PROVE Of(w)' = NewestOf(S)
  <2>1. \A t : t \in Of(w)' <=> t \in DOMAIN snapshots' /\ table[t].window = w
    BY <1>6 DEF Of
  <2>2. \A t : t \in Of(w)' <=> t \in S /\ t \in NewestOf(S)
    BY <1>6, <1>8, <1>10, <2>1
  <2> QED BY <1>9, <2>2
<1>11. ASSUME w # d.window PROVE Of(w)' = Of(w) \ {d.at}
  <2>1. \A t : t \in Of(w)' <=> t \in DOMAIN snapshots' /\ table[t].window = w
    BY <1>6 DEF Of
  <2>2. \A t : t \in Of(w)' <=> t \in DOMAIN table /\ table[t].window = w
    BY <1>6, <1>11, <2>1
  <2> QED BY <1>2, <1>3, <1>11, <2>2 DEF Of
<1> QED BY <1>1, <1>2, <1>3, <1>4, <1>6, <1>10, <1>11

LEMMA OfUnchanged == UNCHANGED snapshots => \A w : Of(w)' = Of(w)
BY DEF Of

LEMMA OfSaved ==
    ASSUME Types, NEW w
    PROVE  Of(w) \in SUBSET (0 .. MaxClock)
BY DEF Of, Types

\* The steps that touch the snapshot table.
LEMMA TableSteps ==
    ASSUME [Next]_vars
    PROVE  \/ UNCHANGED <<snapshots, saved>>
           \/ \E c \in Commands : DigestSave(c) \/ ClearRows(c)
BY DEF Next, vars, Backfill, Age, Tick, MarkRead, MarkWrite, Unmark, AcceptRead, AcceptNext,
       AcceptWrite, ClearLabels, ClearBegin, DigestTake, DigestCompare, Stop

LEMMA KeptStep ==
    ASSUME Types, KeptBound, [Next]_vars
    PROVE  KeptBound'
<1> SUFFICES ASSUME NEW w \in Windows PROVE Cardinality(Of(w)') <= Kept
  BY DEF KeptBound
<1>1. CASE UNCHANGED snapshots
  BY <1>1, OfUnchanged DEF KeptBound
<1>2. ASSUME NEW c \in Commands, ClearRows(c) PROVE Cardinality(Of(w)') <= Kept
  <2>1. Of(w)' = {}
    BY <1>2 DEF ClearRows, Of
  <2> QED BY <2>1, FS_EmptySet, DeskAssumption
<1>3. ASSUME NEW c \in Commands, DigestSave(c) PROVE Cardinality(Of(w)') <= Kept
  <2> DEFINE at == command[c].at
  <2>1. command[c] \in Digest /\ Of(w) \in SUBSET (0 .. MaxClock)
    BY <1>3, SaveKeeps, OfSaved
  <2>2. at \in 0 .. MaxClock
    BY <2>1 DEF Digest
  <2>3. CASE w = command[c].window
    <3>1. Of(w) \cup {at} \in SUBSET (0 .. MaxClock)
      BY <2>1, <2>2
    <3>2. Of(w)' = NewestOf(Of(w) \cup {at})
      BY <1>3, <2>3, SaveKeeps
    <3> QED BY <3>1, <3>2, NewestAreFew
  <2>4. CASE w # command[c].window
    <3>1. Of(w)' = Of(w) \ {at}
      BY <1>3, <2>4, SaveKeeps
    <3>2. IsFiniteSet(Of(w)) /\ Cardinality(Of(w)) \in Nat /\ Cardinality(Of(w)) <= Kept
      BY <2>1, StampsFinite DEF KeptBound
    <3>3. Cardinality(Of(w)') <= Cardinality(Of(w)) /\ Cardinality(Of(w)') \in Nat
      BY <3>1, <3>2, FS_Subset, FS_CardinalityType
    <3> QED BY <3>2, <3>3, DeskAssumption
  <2> QED BY <2>3, <2>4
<1> QED BY <1>1, <1>2, <1>3, TableSteps

LEMMA KeptInit == Init => KeptBound
<1>1. Init => \A w : Of(w) = {}
  BY DEF Init, Of
<1> QED BY <1>1, FS_EmptySet, DeskAssumption DEF KeptBound

\* Typing, with the bound the table keeps, is inductive with no habit assumed.
THEOREM TypeCorrect == Spec => []TypeOK
<1> DEFINE Inv == Types /\ DerivesSome /\ KeptBound
<1>1. Init => Inv
  BY TypesInit, KeptInit
<1>2. Inv /\ [Next]_vars => Inv'
  BY TypesStep, KeptStep
<1>3. Inv => TypeOK
  <2> SUFFICES ASSUME Inv PROVE TypeOK
    OBVIOUS
  <2>1. \A w \in Windows : Cardinality({t \in DOMAIN snapshots : snapshots[t].window = w}) <= Kept
    BY DEF KeptBound, Of
  <2>2. \E stamps \in SUBSET (0 .. MaxClock) : snapshots \in [stamps -> Snapshot]
    BY DEF Types
  <2> QED BY <2>1, <2>2 DEF Types, TypeOK
<1> HIDE DEF Inv
<1> QED BY <1>1, <1>2, <1>3, PTL DEF Spec

\* As long as commands that write labels are not run side by side, a label made by hand
\* stays as it was made, and a clear takes the labels of sessions it removes entirely,
\* wherever each command is killed (cli/mark.go, cli/mark_suggest.go, cli/clear.go).
THEOREM HandMadeLabelsStand ==
    ASSUME LabelWritersApart
    PROVE  Spec => LabelsStand
<1> DEFINE Inv == Types /\ DerivesSome /\ LabelInv
<1>1. Init => Inv
  BY TypesInit, LabelsInit
<1>2. Inv /\ [Next]_vars => Inv'
  BY TypesStep, LabelsStep
<1>3. Inv => HandStands
  BY DEF LabelInv
<1>4. Inv /\ [Next]_vars =>
        [\A c \in Commands :
           Does(c, "clear") /\ clears' # clears =>
             \A s \in command[c].taken : rows'[s] = {}]_vars
  BY ClearRemoves
<1> HIDE DEF Inv
<1> QED BY <1>1, <1>2, <1>3, <1>4, TypeCorrect, PTL DEF Spec, LabelsStand, OnlyRemovedSessions

(* What a digest is compared with *)

\* The habits a digest rests on: no clear runs beside it, and no two stamps fall in one
\* second.
DigestsUndisturbed == ~SameSecond /\ {"digest", "clear"} \notin MayOverlap

NoClearBeside == \A c, d \in Commands : ~ (Does(c, "digest") /\ Does(d, "clear"))
StampsApart ==
    \A c \in Commands : Does(c, "digest") =>
        /\ \A w \in Windows : command[c].at \notin saved[w]
        /\ \A d \in Commands : Does(d, "digest") /\ command[d].at = command[c].at => c = d

\* Everything a digest could be compared with was taken since the last clear.
SnapshotsCurrent ==
    /\ \A t \in DOMAIN snapshots : snapshots[t].clears = clears
    /\ \A c \in Commands : Does(c, "digest") =>
        command[c].clears = clears /\ (command[c].basis # NoBasis => command[c].basis.clears = clears)

\* A window's snapshots are among its saved digests, and what is missing of them is
\* older than Kept that are there.
DroppedOlder ==
    \A w \in Windows :
        /\ Of(w) \subseteq saved[w]
        /\ \A t \in saved[w] \ Of(w) : Cardinality(Newer(t, Of(w))) >= Kept

DigestInv == NoClearBeside /\ StampsApart /\ SnapshotsCurrent /\ DroppedOlder

LEMMA DigestsInit == Init => DigestInv
BY DEF Init, DigestInv, NoClearBeside, StampsApart, SnapshotsCurrent, DroppedOlder, Does, Of

\* Steps of the other commands, and of a digest that ends without saving.
LEMMA DigestsUntouched ==
    ASSUME Types, DigestInv, UNCHANGED <<snapshots, saved, clears>>,
           \A c \in Commands :
               command'[c] = command[c] \/ command'[c] = Idle \/ command'[c].kind \in {"mark", "accept"}
    PROVE  DigestInv'
<1>1. \A c \in Commands, kind \in {"digest", "clear"} :
        Does(c, kind)' => Does(c, kind) /\ command'[c] = command[c]
  BY DEF Does
<1>2. DroppedOlder'
  BY OfUnchanged DEF DigestInv, DroppedOlder
<1> QED BY <1>1, <1>2 DEF DigestInv, NoClearBeside, StampsApart, SnapshotsCurrent

LEMMA DigestsClearStart ==
    ASSUME Types, DigestInv, DigestsUndisturbed, NEW c \in Commands, MayStart(c, "clear"),
           UNCHANGED <<snapshots, saved, clears>>,
           \A d \in Commands : d # c => command'[d] = command[d],
           command'[c] = Idle \/ command'[c].kind = "clear"
    PROVE  DigestInv'
<1>1. \A d \in Commands : ~Does(d, "digest")
  BY DEF MayStart, Running, Does, DigestsUndisturbed
<1>2. \A d \in Commands : ~Does(d, "digest")'
  BY <1>1 DEF Does
<1>3. DroppedOlder'
  BY OfUnchanged DEF DigestInv, DroppedOlder
<1> QED BY <1>2, <1>3 DEF DigestInv, NoClearBeside, StampsApart, SnapshotsCurrent

LEMMA DigestsTake ==
    ASSUME Types, DigestInv, DigestsUndisturbed, NEW c \in Commands, NEW w \in Windows,
           DigestTake(c, w)
    PROVE  DigestInv'
<1>1. /\ command'[c] = [kind |-> "digest", at |-> clock, window |-> w, clears |-> clears,
                        compared |-> FALSE, basis |-> NoBasis]
      /\ \A d \in Commands : d # c => command'[d] = command[d]
      /\ UNCHANGED <<snapshots, saved, clears>>
  BY DEF DigestTake, Types
<1>2. /\ clock \notin UNION {saved[v] : v \in Windows}
      /\ \A d \in Running : Does(d, "digest") => command[d].at # clock
  BY DEF DigestTake, DigestsUndisturbed
<1>3. /\ \A v \in Windows : clock \notin saved[v]
      /\ \A d \in Commands : Does(d, "digest") => command[d].at # clock
  BY <1>2 DEF Running, Does
<1>4. \A d \in Commands : ~Does(d, "clear")
  BY DEF DigestTake, MayStart, Running, Does, DigestsUndisturbed
<1>5. /\ command'[c].kind = "digest" /\ command'[c].at = clock /\ command'[c].clears = clears
      /\ command'[c].basis = NoBasis
  BY <1>1
<1>6. NoClearBeside'
  BY <1>1, <1>4, <1>5 DEF NoClearBeside, Does
<1>7. StampsApart'
  BY <1>1, <1>3, <1>5 DEF DigestInv, StampsApart, Does
<1>8. SnapshotsCurrent'
  BY <1>1, <1>5 DEF DigestInv, SnapshotsCurrent, Does
<1>9. DroppedOlder'
  BY <1>1, OfUnchanged DEF DigestInv, DroppedOlder
<1> QED BY <1>6, <1>7, <1>8, <1>9 DEF DigestInv

LEMMA DigestsCompare ==
    ASSUME Types, DigestInv, NEW c \in Commands, DigestCompare(c)
    PROVE  /\ DigestInv'
           /\ command[c] \in Digest
           /\ command'[c].basis = Previous(command[c].window, command[c].at)
           /\ command'[c].kind = "digest" /\ command'[c].at = command[c].at
           /\ command'[c].window = command[c].window /\ command'[c].clears = command[c].clears
           /\ \A d \in Commands : d # c => command'[d] = command[d]
<1>0. command[c] \in Digest /\ Does(c, "digest")
  BY DoesIn, KindOf DEF DigestCompare
<1> DEFINE d == command[c]
           basis == Previous(d.window, d.at)
           x == [d EXCEPT !.compared = TRUE, !.basis = basis]
<1>1. /\ command' = [command EXCEPT ![c] = x]
      /\ UNCHANGED <<snapshots, saved, clears>>
  BY DEF DigestCompare
<1>2. basis # NoBasis => basis.clears = clears
  <2> DEFINE earlier == {t \in Of(d.window) : t < d.at}
  <2>1. CASE earlier = {}
    BY <2>1 DEF Previous
  <2>2. CASE earlier # {}
    <3>1. basis = [at |-> Max(earlier), clears |-> snapshots[Max(earlier)].clears]
      BY <2>2 DEF Previous
    <3>2. earlier \in SUBSET (0 .. MaxClock) /\ earlier \subseteq DOMAIN snapshots
      BY DEF Of, Types
    <3>3. Max(earlier) \in DOMAIN snapshots
      BY <2>2, <3>2, MaxOf
    <3> QED BY <3>1, <3>3 DEF DigestInv, SnapshotsCurrent
  <2> QED BY <2>1, <2>2
<1> HIDE DEF basis
<1>3. /\ x.kind = "digest" /\ x.at = d.at /\ x.window = d.window /\ x.clears = d.clears /\ x.basis = basis
      /\ x # Idle
  <2>1. x \in Digest
    BY <1>0, PreviousTyped DEF Digest, basis
  <2> QED BY <1>0, <2>1, AbsentAssumption DEF Digest, Command
<1> HIDE DEF x
<1>4. command'[c] = x /\ \A e \in Commands : e # c => command'[e] = command[e]
  BY <1>1 DEF Types
<1>5. \A e \in Commands : (Does(e, "digest")' => Does(e, "digest")) /\ (Does(e, "clear")' => Does(e, "clear"))
                          /\ (Does(e, "digest") => command'[e].at = command[e].at /\ command'[e].clears = command[e].clears)
  BY <1>0, <1>3, <1>4 DEF Does
<1>6. NoClearBeside' /\ StampsApart'
  BY <1>1, <1>5 DEF DigestInv, NoClearBeside, StampsApart
<1>7. SnapshotsCurrent'
  BY <1>0, <1>1, <1>2, <1>3, <1>4, <1>5 DEF DigestInv, SnapshotsCurrent, Does
<1>8. DroppedOlder'
  BY <1>1, OfUnchanged DEF DigestInv, DroppedOlder
<1> QED BY <1>0, <1>3, <1>4, <1>6, <1>7, <1>8 DEF DigestInv, basis

LEMMA DigestsClearRows ==
    ASSUME Types, DigestInv, NEW c \in Commands, ClearRows(c)
    PROVE  DigestInv'
<1>1. \A d \in Commands : ~Does(d, "digest")
  BY DEF ClearRows, DigestInv, NoClearBeside
<1>2. \A d \in Commands : command'[d] = command[d] \/ command'[d] = Idle
  BY DEF ClearRows, Finish, Types
<1>3. \A d \in Commands : ~Does(d, "digest")'
  BY <1>1, <1>2 DEF Does
<1>4. DOMAIN snapshots' = {} /\ \A w \in Windows : saved'[w] = {} /\ Of(w)' = {}
  BY DEF ClearRows, Of
<1> QED BY <1>3, <1>4 DEF DigestInv, NoClearBeside, StampsApart, SnapshotsCurrent, DroppedOlder

\* Whatever is newer than a stamp the table lacks is still there when the next is saved.
LEMMA DroppedOlderSaved ==
    ASSUME Types, KeptBound, DroppedOlder, NEW c \in Commands, DigestSave(c),
           \A w \in Windows : command[c].at \notin saved[w]
    PROVE  DroppedOlder'
<1> DEFINE at == command[c].at
<1>1. command[c] \in Digest /\ saved' = [saved EXCEPT ![command[c].window] = @ \cup {at}]
  BY SaveKeeps, DoesIn, KindOf DEF DigestSave
<1>2. command[c].window \in Windows /\ at \in 0 .. MaxClock
  BY <1>1 DEF Digest
<1> SUFFICES ASSUME NEW w \in Windows
             PROVE  /\ Of(w)' \subseteq saved'[w]
                    /\ \A t \in saved'[w] \ Of(w)' : Cardinality(Newer(t, Of(w)')) >= Kept
  BY DEF DroppedOlder, Newer
<1>3. Of(w) \in SUBSET (0 .. MaxClock) /\ Of(w) \subseteq saved[w]
  BY OfSaved DEF DroppedOlder
<1>4. CASE w # command[c].window
  <2>1. saved'[w] = saved[w] /\ at \notin Of(w)
    BY <1>1, <1>2, <1>3, <1>4 DEF Types
  <2>2. Of(w)' = Of(w)
    <3>1. Of(w)' = Of(w) \ {at}
      BY <1>4, SaveKeeps
    <3> QED BY <2>1, <3>1
  <2> QED BY <2>1, <2>2 DEF DroppedOlder
<1>5. CASE w = command[c].window
  <2> DEFINE S == Of(w) \cup {at}
  <2>1. saved'[w] = saved[w] \cup {at}
    BY <1>1, <1>2, <1>5 DEF Types
  <2>2. Of(w)' = NewestOf(S)
    BY <1>5, SaveKeeps
  <2>3. S \in SUBSET (0 .. MaxClock) /\ NewestOf(S) \subseteq S /\ NewestOf(S) \in SUBSET (0 .. MaxClock)
    BY <1>2, <1>3 DEF NewestOf
  <2>4. Cardinality(S) <= Kept + 1
    <3>1. IsFiniteSet(Of(w)) /\ Cardinality(Of(w)) \in Nat /\ Cardinality(Of(w)) <= Kept
      BY <1>3, StampsFinite DEF KeptBound
    <3>2. Cardinality(S) = Cardinality(Of(w)) \/ Cardinality(S) = Cardinality(Of(w)) + 1
      BY <3>1, FS_AddElement
    <3> QED BY <3>1, <3>2, DeskAssumption
  <2> HIDE DEF S
  <2>5. ASSUME NEW t, NEW A \in SUBSET NewestOf(S), Cardinality(A) >= Kept,
               \A u \in A : u > t
        PROVE  Cardinality(Newer(t, NewestOf(S))) >= Kept
    <3>1. A \subseteq Newer(t, NewestOf(S))
      BY <2>5 DEF Newer
    <3>2. IsFiniteSet(Newer(t, NewestOf(S))) /\ Cardinality(Newer(t, NewestOf(S))) \in Nat
      BY <2>3, StampsFinite
    <3>3. Cardinality(A) <= Cardinality(Newer(t, NewestOf(S))) /\ Cardinality(A) \in Nat
      BY <3>1, <3>2, FS_Subset, FS_CardinalityType
    <3> QED BY <2>5, <3>2, <3>3, DeskAssumption
  <2>6. ASSUME NEW g \in S \ NewestOf(S)
        PROVE  Cardinality(Newer(g, S)) >= Kept /\ Newer(g, S) \subseteq NewestOf(S)
    <3>1. Newer(g, S) \subseteq NewestOf(S)
      BY <2>3, <2>4, <2>6, NewerAreKept
    <3>2. Cardinality(Newer(g, S)) \in Nat
      BY <2>3, StampsFinite
    <3> QED BY <2>6, <3>1, <3>2, DeskAssumption DEF NewestOf
  <2>7. ASSUME NEW t \in saved'[w] \ Of(w)'
        PROVE  Cardinality(Newer(t, Of(w)')) >= Kept
    <3>1. CASE t \in S
      <4>1. t \in S \ NewestOf(S)
        BY <2>2, <2>7, <3>1
      <4>2. Newer(t, S) \in SUBSET NewestOf(S) /\ Cardinality(Newer(t, S)) >= Kept
        BY <2>6, <4>1
      <4>3. \A u \in Newer(t, S) : u > t
        BY DEF Newer
      <4> QED BY <2>2, <2>5, <4>2, <4>3
    <3>2. CASE t \notin S
      <4> DEFINE A == Newer(t, Of(w))
      <4>1. t \in saved[w] \ Of(w)
        BY <2>1, <2>7, <3>2 DEF S
      <4>2. Cardinality(A) >= Kept
        BY <4>1 DEF DroppedOlder
      <4>3. A \subseteq S /\ \A u \in A : u > t
        BY DEF S, Newer
      <4>4. CASE A \subseteq NewestOf(S)
        BY <2>2, <2>5, <4>2, <4>3, <4>4
      <4>5. CASE ~ (A \subseteq NewestOf(S))
        <5>1. PICK g \in A : g \notin NewestOf(S)
          BY <4>5
        <5>2. g \in S \ NewestOf(S) /\ g > t
          BY <4>3, <5>1
        <5>3. Newer(g, S) \in SUBSET NewestOf(S) /\ Cardinality(Newer(g, S)) >= Kept
          BY <2>6, <5>2
        <5>4. \A u \in Newer(g, S) : u > t
          <6>1. t \in Nat /\ g \in Nat /\ S \subseteq Nat
            BY <1>2, <2>3, <4>1, <5>2, DeskAssumption DEF Types
          <6> QED BY <5>2, <6>1 DEF Newer
        <5> QED BY <2>2, <2>5, <5>3, <5>4
      <4> QED BY <4>4, <4>5
    <3> QED BY <3>1, <3>2
  <2> QED BY <1>3, <2>1, <2>2, <2>3, <2>7 DEF S
<1> QED BY <1>4, <1>5

LEMMA DigestsSave ==
    ASSUME Types, KeptBound, DigestInv, NEW c \in Commands, DigestSave(c)
    PROVE  DigestInv'
<1>1. Does(c, "digest") /\ command[c] \in Digest
  BY DoesIn, KindOf DEF DigestSave
<1>2. /\ command'[c] = Idle /\ \A d \in Commands : d # c => command'[d] = command[d]
      /\ UNCHANGED clears
      /\ saved' = [saved EXCEPT ![command[c].window] = @ \cup {command[c].at}]
  BY DEF DigestSave, Finish, Types
<1>3. \A d \in Commands, kind \in {"digest", "clear"} :
        Does(d, kind)' => d # c /\ Does(d, kind) /\ command'[d] = command[d]
  BY <1>2 DEF Does
<1>4. NoClearBeside'
  BY <1>3 DEF DigestInv, NoClearBeside
<1>5. StampsApart'
  <2> SUFFICES ASSUME NEW d \in Commands, Does(d, "digest")'
               PROVE  /\ \A w \in Windows : command'[d].at \notin saved'[w]
                      /\ \A e \in Commands : Does(e, "digest")' /\ command'[e].at = command'[d].at => d = e
    BY DEF StampsApart
  <2>1. d # c /\ Does(d, "digest") /\ command'[d] = command[d]
    BY <1>3
  <2>2. command[d].at # command[c].at /\ \A w \in Windows : command[d].at \notin saved[w]
    BY <1>1, <2>1 DEF DigestInv, StampsApart
  <2>3. \A w \in Windows : saved'[w] \subseteq saved[w] \cup {command[c].at}
    BY <1>2 DEF Types
  <2> QED BY <1>3, <2>1, <2>2, <2>3 DEF DigestInv, StampsApart
<1>6. SnapshotsCurrent'
  <2>1. command[c].clears = clears
    BY <1>1 DEF DigestInv, SnapshotsCurrent
  <2>2. PICK w \in Windows : TRUE
    BY <1>1 DEF Digest
  <2>3. \A t \in DOMAIN snapshots' : snapshots'[t].clears = clears
    BY <2>1, <2>2, SaveKeeps DEF DigestInv, SnapshotsCurrent
  <2> QED BY <1>2, <1>3, <2>3 DEF DigestInv, SnapshotsCurrent
<1>7. DroppedOlder'
  BY <1>1, DroppedOlderSaved DEF DigestInv, StampsApart
<1> QED BY <1>4, <1>5, <1>6, <1>7 DEF DigestInv

LEMMA DigestsStep ==
    ASSUME Types, KeptBound, DigestInv, DigestsUndisturbed, [Next]_vars
    PROVE  DigestInv'
<1>1. CASE UNCHANGED vars
  BY <1>1, DigestsUntouched DEF vars
<1>2. ASSUME NEW s \in Sessions, NEW records \in SUBSET Record, Backfill(s, records) PROVE DigestInv'
  BY <1>2, DigestsUntouched DEF Backfill
<1>3. CASE Age \/ Tick
  BY <1>3, DigestsUntouched DEF Age, Tick
<1>4. ASSUME NEW c \in Commands, NEW s \in Sessions, NEW set \in Edits, MarkRead(c, s, set) PROVE DigestInv'
  <2>1. \A d \in Commands : command'[d] = command[d] \/ command'[d].kind = "mark"
    BY <1>4 DEF MarkRead, Types
  <2> QED BY <1>4, <2>1, DigestsUntouched DEF MarkRead
<1>5. ASSUME NEW c \in Commands, MarkWrite(c) \/ Stop(c) PROVE DigestInv'
  <2>1. \A d \in Commands : command'[d] = command[d] \/ command'[d] = Idle
    BY <1>5 DEF MarkWrite, Stop, Finish, Types
  <2> QED BY <1>5, <2>1, DigestsUntouched DEF MarkWrite, Stop
<1>6. ASSUME NEW c \in Commands, NEW s \in Sessions, Unmark(c, s) PROVE DigestInv'
  BY <1>6, DigestsUntouched DEF Unmark
<1>7. ASSUME NEW c \in Commands, AcceptRead(c) PROVE DigestInv'
  <2>1. \A d \in Commands : command'[d] = command[d] \/ command'[d].kind = "accept"
    BY <1>7 DEF AcceptRead, Types
  <2> QED BY <1>7, <2>1, DigestsUntouched DEF AcceptRead
<1>8. ASSUME NEW c \in Commands, NEW s \in Sessions, AcceptNext(c, s) PROVE DigestInv'
  <2>1. command[c] \in Accept
    BY <1>8, DoesIn, KindOf DEF AcceptNext
  <2>2. \A d \in Commands : command'[d] = command[d] \/ command'[d].kind = "accept"
    BY <1>8, <2>1 DEF AcceptNext, Types, Accept
  <2> QED BY <1>8, <2>2, DigestsUntouched DEF AcceptNext
<1>9. ASSUME NEW c \in Commands, AcceptWrite(c) PROVE DigestInv'
  <2>1. command[c] \in Accept
    BY <1>9, DoesIn, KindOf DEF AcceptWrite
  <2>2. \A d \in Commands : command'[d] = command[d] \/ command'[d] = Idle \/ command'[d].kind = "accept"
    BY <1>9, <2>1 DEF AcceptWrite, Types, Accept
  <2> QED BY <1>9, <2>2, DigestsUntouched DEF AcceptWrite
<1>10. ASSUME NEW c \in Commands, NEW scope \in Scopes, ClearLabels(c, scope) \/ ClearBegin(c, scope)
       PROVE DigestInv'
  <2>1. \/ UNCHANGED command
        \/ \E taken : command' = [command EXCEPT ![c] = [kind |-> "clear", scope |-> scope, taken |-> taken]]
    BY <1>10 DEF ClearLabels, ClearBegin
  <2>2. /\ \A d \in Commands : d # c => command'[d] = command[d]
        /\ command'[c] = Idle \/ command'[c].kind = "clear"
    BY <1>10, <2>1 DEF Types, MayStart, ClearLabels, ClearBegin
  <2> QED BY <1>10, <2>2, DigestsClearStart DEF ClearLabels, ClearBegin
<1> QED BY <1>1, <1>2, <1>3, <1>4, <1>5, <1>6, <1>7, <1>8, <1>9, <1>10, DigestsTake, DigestsCompare,
           DigestsSave, DigestsClearRows DEF Next

\* The newest snapshot earlier than a digest is the last digest saved before it, unless
\* there is none and the window has saved more than it keeps.
LEMMA PreviousIsLast ==
    ASSUME Types, KeptBound, DroppedOlder, NEW w \in Windows, NEW at \in 0 .. MaxClock
    PROVE  LET earlier == {t \in saved[w] : t < at}
               basis == Previous(w, at)
           IN  IF basis = NoBasis THEN earlier = {} \/ Cardinality(saved[w]) > Kept
               ELSE earlier # {} /\ basis.at = Max(earlier)
<1> DEFINE there == {t \in Of(w) : t < at}
           earlier == {t \in saved[w] : t < at}
<1>1. /\ saved[w] \in SUBSET (0 .. MaxClock) /\ Of(w) \subseteq saved[w]
      /\ Of(w) \in SUBSET (0 .. MaxClock)
  BY OfSaved DEF Types, DroppedOlder
<1>2. Kept \in Nat /\ Kept > 0 /\ MaxClock \in Nat
  BY DeskAssumption
<1>3. /\ IsFiniteSet(Of(w)) /\ Cardinality(Of(w)) \in Nat /\ Cardinality(Of(w)) <= Kept
      /\ IsFiniteSet(saved[w]) /\ Cardinality(saved[w]) \in Nat
  BY <1>1, StampsFinite DEF KeptBound
\* What is missing is older than all that is there.
<1>4. ASSUME NEW t \in saved[w] \ Of(w)
      PROVE  /\ \A u \in Of(w) : u > t
             /\ Cardinality(saved[w]) > Kept
  <2>1. Cardinality(Newer(t, Of(w))) >= Kept /\ Newer(t, Of(w)) \subseteq Of(w)
    BY DEF DroppedOlder, Newer
  <2>2. IsFiniteSet(Newer(t, Of(w))) /\ Cardinality(Newer(t, Of(w))) \in Nat
    BY <1>1, StampsFinite
  <2>3. ASSUME NEW u \in Of(w), u \notin Newer(t, Of(w)) PROVE FALSE
    <3>1. IsFiniteSet(Of(w) \ {u}) /\ Cardinality(Of(w) \ {u}) = Cardinality(Of(w)) - 1
      BY <1>3, FS_RemoveElement
    <3>2. Newer(t, Of(w)) \subseteq Of(w) \ {u}
      BY <2>1, <2>3
    <3>3. Cardinality(Newer(t, Of(w))) <= Cardinality(Of(w) \ {u})
      BY <3>1, <3>2, FS_Subset
    <3> QED BY <1>2, <1>3, <2>1, <2>2, <3>1, <3>3
  <2>4. IsFiniteSet(saved[w] \ {t}) /\ Cardinality(saved[w] \ {t}) = Cardinality(saved[w]) - 1
    BY <1>3, FS_RemoveElement
  <2>5. Newer(t, Of(w)) \subseteq saved[w] \ {t}
    BY <1>1, <2>1
  <2>6. Cardinality(Newer(t, Of(w))) <= Cardinality(saved[w] \ {t})
    BY <2>4, <2>5, FS_Subset
  <2>7. \A u \in Of(w) : u > t
    BY <2>3 DEF Newer
  <2> QED BY <1>2, <1>3, <2>1, <2>2, <2>4, <2>6, <2>7
<1>5. there \subseteq earlier /\ there \in SUBSET (0 .. MaxClock) /\ earlier \in SUBSET (0 .. MaxClock)
  BY <1>1
<1>6. CASE there = {}
  <2>1. Previous(w, at) = NoBasis
    BY <1>6 DEF Previous
  <2>2. earlier = {} \/ Cardinality(saved[w]) > Kept
    <3> SUFFICES ASSUME NEW t \in earlier PROVE Cardinality(saved[w]) > Kept
      OBVIOUS
    <3>1. t \in saved[w] \ Of(w)
      BY <1>6
    <3> QED BY <1>4, <3>1
  <2> QED BY <2>1, <2>2
<1>7. CASE there # {}
  <2>1. Max(there) \in there /\ \A u \in there : Max(there) >= u
    BY <1>5, <1>7, MaxOf
  <2>2. Max(earlier) \in earlier /\ \A u \in earlier : Max(earlier) >= u
    BY <1>5, <1>7, MaxOf
  <2>3. Max(earlier) \in Of(w)
    <3>1. Max(earlier) >= Max(there) /\ Max(there) \in Of(w)
      BY <1>5, <2>1, <2>2
    <3>2. Max(earlier) \in Nat /\ Max(there) \in Nat
      BY <1>2, <1>5, <2>1, <2>2
    <3>3. ~ (Max(there) > Max(earlier))
      BY <3>1, <3>2
    <3> QED BY <1>4, <2>2, <3>1, <3>3
  <2>4. Max(earlier) = Max(there)
    <3>1. Max(there) >= Max(earlier) /\ Max(earlier) >= Max(there)
      BY <1>5, <2>1, <2>2, <2>3
    <3>2. Max(earlier) \in Nat /\ Max(there) \in Nat
      BY <1>2, <1>5, <2>1, <2>2
    <3> QED BY <3>1, <3>2
  <2>5. Previous(w, at) = [at |-> Max(there), clears |-> snapshots[Max(there)].clears]
    BY <1>7 DEF Previous
  <2>6. Previous(w, at) # NoBasis /\ Previous(w, at).at = Max(there)
    <3>1. Max(there) \in 0 .. MaxClock /\ snapshots[Max(there)].clears \in 0 .. MaxClears
      BY <1>5, <2>1 DEF Types, Snapshot, Of
    <3>2. Previous(w, at) \in Basis
      BY <2>5, <3>1 DEF Basis
    <3> QED BY <2>5, <3>2, AbsentAssumption
  <2> QED BY <2>2, <2>4, <2>6
<1> QED BY <1>6, <1>7

LEMMA Comparisons ==
    ASSUME Types, KeptBound, DigestInv, DigestInv', [Next]_vars,
           NEW c \in Commands, Does(c, "digest")', command'[c].compared
    PROVE  /\ command'[c].basis # NoBasis => command'[c].basis.clears = command'[c].clears
           /\ DigestCompare(c) \/ command[c].compared
<1>1. command'[c].basis # NoBasis => command'[c].basis.clears = command'[c].clears
  BY DEF DigestInv, SnapshotsCurrent
<1>2. CASE command'[c] = command[c]
  BY <1>1, <1>2
<1>3. CASE command'[c] # command[c]
  <2>1. command'[c] # Idle /\ command'[c].kind = "digest"
    BY DEF Does
  <2>2. ASSUME NEW d \in Commands, NEW x, command' = [command EXCEPT ![d] = x]
        PROVE  c = d /\ command'[c] = x
    BY <1>3, <2>2 DEF Types
  <2>3. ASSUME NEW d \in Commands, Finish(d) PROVE FALSE
    BY <2>1, <2>2, <2>3 DEF Finish
  <2>4. ASSUME NEW d \in Commands, NEW w \in Windows, DigestTake(d, w) PROVE FALSE
    <3>1. command'[c] = [kind |-> "digest", at |-> clock, window |-> w, clears |-> clears,
                         compared |-> FALSE, basis |-> NoBasis]
      BY <2>2, <2>4 DEF DigestTake
    <3> QED BY <3>1
  <2>5. ASSUME NEW d \in Commands, NEW s \in Sessions, NEW set \in Edits, MarkRead(d, s, set) PROVE FALSE
    <3>1. command'[c] = [kind |-> "mark", session |-> s, set |-> set, read |-> label[s]]
      BY <2>2, <2>5 DEF MarkRead
    <3> QED BY <2>1, <3>1
  <2>6. ASSUME NEW d \in Commands, AcceptRead(d) PROVE FALSE
    BY <2>1, <2>2, <2>6 DEF AcceptRead
  <2>7. ASSUME NEW d \in Commands, NEW s \in Sessions, AcceptNext(d, s) PROVE FALSE
    <3>1. command[d] \in Accept
      BY <2>7, DoesIn, KindOf DEF AcceptNext
    <3> QED BY <2>1, <2>7, <3>1, <1>3 DEF AcceptNext, Accept, Types
  <2>8. ASSUME NEW d \in Commands, AcceptWrite(d) PROVE FALSE
    <3>1. command[d] \in Accept
      BY <2>8, DoesIn, KindOf DEF AcceptWrite
    <3> QED BY <2>1, <2>8, <3>1, <1>3 DEF AcceptWrite, Accept, Types
  <2>9. ASSUME NEW d \in Commands, NEW scope \in Scopes, ClearLabels(d, scope) \/ ClearBegin(d, scope) PROVE FALSE
    <3>1. PICK taken : command' = [command EXCEPT ![d] = [kind |-> "clear", scope |-> scope, taken |-> taken]]
      BY <1>3, <2>9 DEF ClearLabels, ClearBegin
    <3>2. command'[c] = [kind |-> "clear", scope |-> scope, taken |-> taken]
      BY <2>2, <3>1
    <3> QED BY <2>1, <3>2
  <2>10. ASSUME NEW d \in Commands, DigestCompare(d) PROVE DigestCompare(c)
    BY <1>3, <2>10, DigestsCompare
  <2> QED BY <1>1, <1>3, <2>3, <2>4, <2>5, <2>6, <2>7, <2>8, <2>9, <2>10
       DEF Next, vars, Backfill, Age, Tick, MarkWrite, Unmark, ClearRows, DigestSave, Stop
<1> QED BY <1>2, <1>3

LEMMA MovementStep ==
    ASSUME Types, KeptBound, DigestInv, DigestInv', [Next]_vars
    PROVE  ReportsMovement
<1> SUFFICES ASSUME NEW c \in Commands, Does(c, "digest")', command'[c].compared
             PROVE  LET d == command'[c]
                        earlier == {t \in saved[d.window] : t < d.at}
                    IN  /\ d.basis # NoBasis => d.basis.clears = d.clears
                        /\ ~command[c].compared =>
                             IF d.basis = NoBasis
                             THEN earlier = {} \/ Cardinality(saved[d.window]) > Kept
                             ELSE earlier # {} /\ d.basis.at = Max(earlier)
  BY DEF ReportsMovement, Does
<1>1. command'[c].basis # NoBasis => command'[c].basis.clears = command'[c].clears
  BY Comparisons
<1>2. CASE command[c].compared
  BY <1>1, <1>2
<1>3. CASE ~command[c].compared
  <2>1. DigestCompare(c)
    BY <1>3, Comparisons
  <2>2. /\ command[c] \in Digest /\ command'[c].basis = Previous(command[c].window, command[c].at)
        /\ command'[c].at = command[c].at /\ command'[c].window = command[c].window
    BY <2>1, DigestsCompare
  <2>3. command[c].window \in Windows /\ command[c].at \in 0 .. MaxClock
    BY <2>2 DEF Digest
  <2>4. DroppedOlder
    BY DEF DigestInv
  <2> QED BY <1>1, <2>2, <2>3, <2>4, PreviousIsLast
<1> QED BY <1>2, <1>3

\* With no clear beside a digest and no two digests in one second, a digest reports
\* movement, and all of it: nothing was cleared between what it read and what it is
\* compared with, and that is the last digest of its window saved before it was taken,
\* unless Kept later ones took that away (cli/digest.go: runDigest;
\* store/digest_snapshot.go).
THEOREM DigestsReportMovement ==
    ASSUME DigestsUndisturbed
    PROVE  Spec => MovementOnly
<1> DEFINE Inv == Types /\ DerivesSome /\ KeptBound /\ DigestInv
<1>1. Init => Inv
  BY TypesInit, KeptInit, DigestsInit
<1>2. Inv /\ [Next]_vars => Inv'
  BY TypesStep, KeptStep, DigestsStep
<1>3. Inv /\ Inv' /\ [Next]_vars => [ReportsMovement]_vars
  BY MovementStep
<1> HIDE DEF Inv
<1>4. Spec => [][ReportsMovement]_vars
  BY <1>1, <1>2, <1>3, PTL DEF Spec
<1> QED BY <1>4 DEF MovementOnly

(* A history of runs *)

Bound == Cardinality(Inputs)

LEMMA BoundIsNat == Bound \in Nat
BY DriftAssumption, FS_CardinalityType DEF Bound

LEMMA Interval ==
    ASSUME NEW n \in Nat
    PROVE  IsFiniteSet(1 .. n) /\ Cardinality(1 .. n) = n
BY FS_Interval, n \in Int, 1 \in Int

(* The k-th smallest of some values, and the median *)

LEMMA PartOf ==
    ASSUME NEW D, IsFiniteSet(D), NEW S \in SUBSET D, NEW T \in SUBSET S
    PROVE  /\ IsFiniteSet(S) /\ IsFiniteSet(T) /\ Cardinality(D) \in Nat
           /\ Cardinality(S) \in 0 .. Cardinality(D) /\ Cardinality(T) \in 0 .. Cardinality(S)
<1>1. IsFiniteSet(S) /\ Cardinality(S) <= Cardinality(D)
  BY FS_Subset
<1>2. IsFiniteSet(T) /\ Cardinality(T) <= Cardinality(S)
  BY <1>1, FS_Subset
<1> QED BY <1>1, <1>2, FS_CardinalityType

LEMMA Others ==
    ASSUME NEW D, IsFiniteSet(D), NEW S \in SUBSET D
    PROVE  Cardinality(D \ S) = Cardinality(D) - Cardinality(S)
<1>1. D \cap S = S
  OBVIOUS
<1>2. Cardinality(D \ S) = Cardinality(D) - Cardinality(D \cap S)
  BY FS_Difference
<1> QED BY <1>1, <1>2

\* Finitely many naturals have a bound: a least set of them without one would, less
\* any of its elements, have one.
LEMMA Bounded ==
    ASSUME NEW D, IsFiniteSet(D), NEW vals \in [D -> Nat]
    PROVE  \E N \in Nat : vals \in [D -> 0 .. N]
<1> DEFINE Within(T) == \E N \in Nat : \A i \in T : vals[i] <= N
           Bad == {T \in SUBSET D : ~ Within(T)}
           R == StrictSubsetOrdering(D)
<1>1. IsWellFoundedOn(R, SUBSET D)
  BY FS_StrictSubsetOrderingWellFounded, FS_FiniteSubsetsOfFinite
<1>2. \A T, U \in SUBSET D : U \subseteq T /\ U # T => <<U, T>> \in R
  BY DEF StrictSubsetOrdering
<1>3. ASSUME Bad # {} PROVE FALSE
  <2> HIDE DEF R
  <2>1. PICK T \in Bad : \A U \in Bad : ~ (<<U, T>> \in R)
    <3>1. Bad \in SUBSET (SUBSET D)
      OBVIOUS
    <3> HIDE DEF Bad
    <3> QED BY <1>1, <1>3, <3>1, WFMin
  <2>2. T \in SUBSET D /\ ~ Within(T)
    BY <2>1
  <2>3. T # {}
    <3>1. Within({})
      BY 0 \in Nat
    <3> QED BY <2>2, <3>1
  <2>4. PICK x \in T : TRUE
    BY <2>3
  <2>5. Within(T \ {x})
    <3>1. T \ {x} \in SUBSET D /\ T \ {x} # T
      BY <2>2, <2>4
    <3>2. <<T \ {x}, T>> \in R
      BY <1>2, <2>2, <3>1
    <3> QED BY <2>1, <3>1, <3>2
  <2>6. PICK N \in Nat : \A i \in T \ {x} : vals[i] <= N
    BY <2>5
  <2>7. vals[x] \in Nat /\ N + vals[x] \in Nat
    BY <2>2, <2>4
  <2>8. \A i \in T : vals[i] <= N + vals[x]
    <3> TAKE i \in T
    <3>1. vals[i] \in Nat
      BY <2>2
    <3>2. CASE i = x
      BY <2>6, <2>7, <3>2
    <3>3. CASE i # x
      BY <2>6, <2>7, <3>1, <3>3
    <3> QED BY <3>2, <3>3
  <2> QED BY <2>2, <2>7, <2>8
<1>4. Within(D)
  BY <1>3
<1>5. PICK N \in Nat : \A i \in D : vals[i] <= N
  BY <1>4
<1>6. \A i \in D : vals[i] \in 0 .. N
  BY <1>5
<1> QED BY <1>6

Holding(vals, x) == {i \in DOMAIN vals : vals[i] = x}

\* These sets of indices, and what their sizes may be.
LEMMA Positions ==
    ASSUME NEW D, IsFiniteSet(D), NEW N \in Nat, NEW vals \in [D -> 0 .. N], NEW v \in Int
    PROVE  /\ Below(vals, v) \in SUBSET D /\ Cardinality(Below(vals, v)) \in 0 .. Cardinality(D)
           /\ UpTo(vals, v) \in SUBSET D /\ Cardinality(UpTo(vals, v)) \in 0 .. Cardinality(D)
           /\ Holding(vals, v) \in SUBSET D /\ Cardinality(Holding(vals, v)) \in 0 .. Cardinality(D)
           /\ Below(vals, v) = UpTo(vals, v - 1)
           /\ v <= 0 => Below(vals, v) = {}
           /\ v >= N => UpTo(vals, v) = D
           /\ v = 0 => UpTo(vals, v) = Holding(vals, v)
           /\ Holding(vals, v) = {} => UpTo(vals, v) = Below(vals, v)
<1>1. DOMAIN vals = D /\ \A i \in D : vals[i] \in 0 .. N
  OBVIOUS
<1>2. /\ Below(vals, v) \in SUBSET D
      /\ UpTo(vals, v) \in SUBSET D
      /\ Holding(vals, v) \in SUBSET D
  BY <1>1 DEF Below, UpTo, Holding
<1>3. \A S \in SUBSET D : Cardinality(S) \in 0 .. Cardinality(D)
  BY PartOf
<1>4. Below(vals, v) = UpTo(vals, v - 1)
  BY <1>1 DEF Below, UpTo
<1>5. v <= 0 => Below(vals, v) = {}
  BY <1>1 DEF Below
<1>6. v >= N => UpTo(vals, v) = D
  BY <1>1 DEF UpTo
<1>7. v = 0 => UpTo(vals, v) = Holding(vals, v)
  BY <1>1 DEF UpTo, Holding
<1>8. Holding(vals, v) = {} => UpTo(vals, v) = Below(vals, v)
  BY <1>1 DEF Below, UpTo, Holding
<1> QED BY <1>2, <1>3, <1>4, <1>5, <1>6, <1>7, <1>8

\* Some value has fewer than k others below it and at least k up to it.
LEMMA NthIs ==
    ASSUME NEW D, IsFiniteSet(D), NEW N \in Nat, NEW vals \in [D -> 0 .. N],
           NEW k \in 1 .. Cardinality(D)
    PROVE  /\ \E i \in D : Nth(vals, k) = vals[i]
           /\ Cardinality(Below(vals, Nth(vals, k))) < k
           /\ Cardinality(UpTo(vals, Nth(vals, k))) >= k
<1> DEFINE size(v) == Cardinality(UpTo(vals, v))
           n == Cardinality(D)
           Enough == {v \in 0 .. N : size(v) >= k}
<1>0. n \in Nat /\ k \in 1 .. n
  BY FS_CardinalityType
<1> HIDE DEF n
<1>1. N \in Enough
  <2>1. size(N) = n
    BY Positions DEF n
  <2> HIDE DEF size
  <2> QED BY <1>0, <2>1
<1>2. PICK v \in Enough : \A w \in Enough : v <= w
  <2> HIDE DEF size
  <2>1. Enough \in SUBSET Nat /\ Enough # {}
    BY <1>1
  <2> QED BY <2>1, LeastOf
<1>3. v \in 0 .. N /\ size(v) >= k
  <2> HIDE DEF size
  <2> QED BY <1>2
<1>4. Cardinality(Below(vals, v)) < k
  <2>1. CASE v = 0
    <3>1. Below(vals, v) = {}
      <4>1. v \in Int /\ v <= 0
        BY <1>3, <2>1
      <4> QED BY <4>1, Positions
    <3>2. Cardinality({}) = 0
      BY FS_EmptySet
    <3> QED BY <1>0, <3>1, <3>2
  <2>2. CASE v # 0
    <3>1. Below(vals, v) = UpTo(vals, v - 1) /\ size(v - 1) \in 0 .. n
      BY <1>3, Positions DEF n
    <3>2. size(v - 1) < k
      <4> HIDE DEF size
      <4>1. v - 1 \in 0 .. N /\ ~ (v <= v - 1)
        BY <1>3, <2>2
      <4>2. v - 1 \notin Enough
        BY <1>2, <4>1
      <4> QED BY <1>0, <3>1, <4>1, <4>2
    <3> QED BY <3>1, <3>2
  <2> QED BY <2>1, <2>2
<1>5. \E i \in D : v = vals[i]
  <2> SUFFICES ASSUME \A i \in D : v # vals[i]
               PROVE  FALSE
    OBVIOUS
  <2>1. Holding(vals, v) = {}
    BY DEF Holding
  <2>2. UpTo(vals, v) = Below(vals, v) /\ size(v) \in 0 .. n
    BY <1>3, <2>1, Positions DEF n
  <2> QED BY <1>0, <1>3, <1>4, <2>2
<1> DEFINE Fits(w) == Cardinality(Below(vals, w)) < k /\ Cardinality(UpTo(vals, w)) >= k
<1>6. DOMAIN vals = D
  OBVIOUS
<1>7. v \in {vals[i] : i \in DOMAIN vals} /\ Fits(v)
  BY <1>3, <1>4, <1>5, <1>6
<1>8. Nth(vals, k) = CHOOSE w \in {vals[i] : i \in DOMAIN vals} : Fits(w)
  BY DEF Nth
<1> HIDE DEF Fits
<1>9. Nth(vals, k) \in {vals[i] : i \in DOMAIN vals} /\ Fits(Nth(vals, k))
  BY <1>7, <1>8
<1> QED BY <1>6, <1>9 DEF Fits

LEMMA MedianIs ==
    ASSUME NEW D, IsFiniteSet(D), D # {}, NEW N \in Nat, NEW vals \in [D -> 0 .. N]
    PROVE  LET n == Cardinality(D) IN
           /\ MedianTwice(vals) = Nth(vals, (n + 1) \div 2) + Nth(vals, n \div 2 + 1)
           /\ n \in Nat \ {0} /\ (n + 1) \div 2 \in 1 .. n /\ n \div 2 + 1 \in 1 .. n
<1>1. PICK n : n = Cardinality(D)
  OBVIOUS
<1>2. n \in Nat \ {0}
  BY <1>1, FS_CardinalityType, FS_EmptySet
<1>3. (n + 1) \div 2 \in 1 .. n /\ n \div 2 + 1 \in 1 .. n
  BY <1>2
<1>4. DOMAIN vals = D
  OBVIOUS
<1>5. MedianTwice(vals) = Nth(vals, (n + 1) \div 2) + Nth(vals, n \div 2 + 1)
  BY <1>1, <1>4 DEF MedianTwice
<1> QED BY <1>1, <1>2, <1>3, <1>5

\* A median lies within the bounds of its values.
LEMMA MedianWithin ==
    ASSUME NEW D, IsFiniteSet(D), NEW N \in Nat, NEW vals \in [D -> 0 .. N]
    PROVE  MedianTwice(vals) \in 0 .. 2 * N
<1>1. CASE D = {}
  <2>1. DOMAIN vals = {}
    BY <1>1
  <2>2. MedianTwice(vals) = 0
    BY <2>1 DEF MedianTwice
  <2> QED BY <2>2
<1>2. CASE D # {}
  <2>1. \A k \in 1 .. Cardinality(D) : Nth(vals, k) \in 0 .. N
    <3> TAKE k \in 1 .. Cardinality(D)
    <3>1. PICK i \in D : Nth(vals, k) = vals[i]
      BY NthIs
    <3>2. vals[i] \in 0 .. N
      OBVIOUS
    <3> QED BY <3>1, <3>2
  <2>2. PICK n : n = Cardinality(D)
    OBVIOUS
  <2>3. /\ MedianTwice(vals) = Nth(vals, (n + 1) \div 2) + Nth(vals, n \div 2 + 1)
        /\ (n + 1) \div 2 \in 1 .. n /\ n \div 2 + 1 \in 1 .. n
    BY <1>2, <2>2, MedianIs
  <2>4. Nth(vals, (n + 1) \div 2) \in 0 .. N /\ Nth(vals, n \div 2 + 1) \in 0 .. N
    BY <2>1, <2>2, <2>3
  <2> QED BY <2>3, <2>4
<1> QED BY <1>1, <1>2

\* No more than half of the values are zero: the median is above zero.
LEMMA MedianAboveZero ==
    ASSUME NEW D, IsFiniteSet(D), D # {}, NEW N \in Nat, NEW vals \in [D -> 0 .. N],
           2 * Cardinality(Holding(vals, 0)) <= Cardinality(D)
    PROVE  MedianTwice(vals) \in Nat \ {0}
<1>0. PICK n : n = Cardinality(D)
  OBVIOUS
<1> DEFINE high == n \div 2 + 1
           low == (n + 1) \div 2
<1>1. n \in Nat \ {0} /\ high \in 1 .. n /\ low \in 1 .. n
  BY <1>0, MedianIs
<1>2. 2 * high > n
  BY <1>1
<1>3. MedianTwice(vals) = Nth(vals, low) + Nth(vals, high)
  BY <1>0, MedianIs
<1> HIDE DEF high, low
<1>4. Nth(vals, low) \in Nat
  <2>1. PICK l \in D : Nth(vals, low) = vals[l]
    BY <1>0, <1>1, NthIs
  <2>2. vals[l] \in 0 .. N
    OBVIOUS
  <2> QED BY <2>1, <2>2
<1>5. PICK h \in D : Nth(vals, high) = vals[h]
  BY <1>0, <1>1, NthIs
<1>6. Cardinality(UpTo(vals, vals[h])) >= high
  BY <1>0, <1>1, <1>5, NthIs
<1>7. vals[h] # 0
  <2> SUFFICES ASSUME vals[h] = 0
               PROVE  FALSE
    OBVIOUS
  <2>1. UpTo(vals, vals[h]) = Holding(vals, 0) /\ Cardinality(Holding(vals, 0)) \in 0 .. n
    BY <1>0, Positions
  <2> QED BY <1>0, <1>1, <1>2, <1>6, <2>1
<1>8. vals[h] \in 0 .. N
  OBVIOUS
<1> QED BY <1>3, <1>4, <1>5, <1>7, <1>8

\* Few enough of n not to matter to their median.
Few(odd, n) == odd = {} \/ (n >= 3 /\ Cardinality(odd) <= 1)

AlikeBut(odd, vals, x) == \A i \in DOMAIN vals : i \in odd \/ vals[i] = x

\* All values are the same, or all of three and more but one: so is the median.
LEMMA MedianOfAlike ==
    ASSUME NEW D, IsFiniteSet(D), D # {}, NEW N \in Nat, NEW vals \in [D -> 0 .. N],
           NEW x \in 0 .. N, NEW odd \in SUBSET D, AlikeBut(odd, vals, x),
           Few(odd, Cardinality(D))
    PROVE  MedianTwice(vals) = 2 * x
<1>0. PICK n : n = Cardinality(D)
  OBVIOUS
<1>1. n \in Nat \ {0} /\ Cardinality(odd) \in 0 .. n
  BY <1>0, PartOf, MedianIs
<1>2. \A k \in 1 .. n : k \in {(n + 1) \div 2, n \div 2 + 1} => Nth(vals, k) = x
  <2> TAKE k \in 1 .. n
  <2> HAVE k \in {(n + 1) \div 2, n \div 2 + 1}
  <2>1. PICK j \in D : Nth(vals, k) = vals[j]
    BY <1>0, NthIs
  <2>2. CASE odd = {}
    BY <2>1, <2>2 DEF AlikeBut
  <2>3. CASE n >= 3 /\ Cardinality(odd) <= 1
    <3>1. k \in 2 .. n - 1
      BY <1>1, <2>3
    <3>2. Cardinality(Below(vals, vals[j])) < k /\ Cardinality(UpTo(vals, vals[j])) >= k
      BY <1>0, <2>1, NthIs
    <3>0. vals[j] \in 0 .. N
      OBVIOUS
    <3>3. ~ (vals[j] < x)
      <4> SUFFICES ASSUME vals[j] < x
                   PROVE  FALSE
        OBVIOUS
      <4>1. UpTo(vals, vals[j]) \in SUBSET odd
        BY <3>0 DEF UpTo, AlikeBut
      <4>2. Cardinality(UpTo(vals, vals[j])) \in 0 .. Cardinality(odd)
        BY <4>1, PartOf
      <4> QED BY <1>1, <2>3, <3>1, <3>2, <4>2
    <3>4. ~ (vals[j] > x)
      <4> SUFFICES ASSUME vals[j] > x
                   PROVE  FALSE
        OBVIOUS
      <4>1. D \ odd \in SUBSET Below(vals, vals[j])
        BY <3>0 DEF Below, AlikeBut
      <4>2. Cardinality(D \ odd) = n - Cardinality(odd)
        BY <1>0, Others
      <4>3. Below(vals, vals[j]) \in SUBSET D /\ Cardinality(Below(vals, vals[j])) \in Nat
        BY <3>0, Positions
      <4>4. Cardinality(D \ odd) <= Cardinality(Below(vals, vals[j]))
        <5>1. Cardinality(D \ odd) \in 0 .. Cardinality(Below(vals, vals[j]))
          BY <4>1, <4>3, PartOf
        <5> QED BY <4>3, <5>1
      <4> QED BY <1>1, <2>3, <3>1, <3>2, <4>2, <4>3, <4>4
    <3> QED BY <2>1, <3>0, <3>3, <3>4
  <2> QED BY <1>0, <2>2, <2>3 DEF Few
<1>3. /\ MedianTwice(vals) = Nth(vals, (n + 1) \div 2) + Nth(vals, n \div 2 + 1)
      /\ (n + 1) \div 2 \in 1 .. n /\ n \div 2 + 1 \in 1 .. n
  BY <1>0, MedianIs
<1> QED BY <1>2, <1>3

(* The runs a source keeps *)

KnownRun == {r \in SourceRun : r.discovered <= Bound /\ r.parsed <= Bound}

KnownRuns(runs) == runs \in Seq(KnownRun)

LEMMA KnownRunIs ==
    ASSUME NEW runs, KnownRuns(runs), NEW i \in 1 .. Len(runs)
    PROVE  /\ runs[i] \in SourceRun
           /\ runs[i].discovered \in 0 .. Bound /\ runs[i].parsed \in 0 .. Bound
<1>1. runs[i] \in KnownRun
  BY DEF KnownRuns
<1> QED BY <1>1, BoundIsNat DEF KnownRun, SourceRun

LEMMA EarlierRuns ==
    ASSUME NEW runs, KnownRuns(runs), runs # <<>>
    PROVE  /\ Len(runs) - 1 \in Nat
           /\ Len(SubSeq(runs, 1, Len(runs) - 1)) = Len(runs) - 1
           /\ DOMAIN SubSeq(runs, 1, Len(runs) - 1) = 1 .. Len(runs) - 1
           /\ \A i \in 1 .. Len(runs) - 1 : SubSeq(runs, 1, Len(runs) - 1)[i] = runs[i]
<1>1. PICK S : runs \in Seq(S)
  BY DEF KnownRuns
<1> QED BY <1>1

LEMMA RetainIs ==
    ASSUME NEW runs, KnownRuns(runs), runs # <<>>
    PROVE  /\ KnownRuns(Retain(runs)) /\ Retain(runs) # <<>> /\ Len(Retain(runs)) \in 0 .. Retained
           /\ Retain(runs)[Len(Retain(runs))] = runs[Len(runs)]
           /\ \A i \in 1 .. Len(Retain(runs)) : \E j \in 1 .. Len(runs) : Retain(runs)[i] = runs[j]
<1>1. runs \in Seq(KnownRun)
  BY DEF KnownRuns
<1>2. Len(runs) \in Nat \ {0} /\ Retained \in Nat \ {0}
  BY <1>1, DriftAssumption
<1>3. PICK m \in {Len(runs), Retained} : m = Min({Len(runs), Retained}) /\ m <= Len(runs) /\ m <= Retained
  <2>1. \E x \in {Len(runs), Retained} : \A y \in {Len(runs), Retained} : x <= y
    BY <1>2
  <2> DEFINE Least(x) == \A y \in {Len(runs), Retained} : x <= y
  <2>2. Min({Len(runs), Retained}) = CHOOSE x \in {Len(runs), Retained} : Least(x)
    BY DEF Min
  <2>3. Least(Min({Len(runs), Retained})) /\ Min({Len(runs), Retained}) \in {Len(runs), Retained}
    <3> HIDE DEF Least
    <3>1. \E x \in {Len(runs), Retained} : Least(x)
      BY <2>1 DEF Least
    <3> QED BY <2>2, <3>1
  <2> QED BY <2>3
<1> DEFINE from == Len(runs) - m + 1
<1>4. m \in 1 .. Len(runs) /\ from \in 1 .. Len(runs) /\ m \in 0 .. Retained
  BY <1>2, <1>3
<1>5. Retain(runs) = SubSeq(runs, from, Len(runs))
  BY <1>3 DEF Retain
<1>6. /\ SubSeq(runs, from, Len(runs)) \in Seq(KnownRun)
      /\ Len(SubSeq(runs, from, Len(runs))) = m
      /\ \A i \in 1 .. m : SubSeq(runs, from, Len(runs))[i] = runs[from + i - 1]
  <2> HIDE DEF from
  <2>1. from = Len(runs) - m + 1
    BY DEF from
  <2> QED BY <1>1, <1>2, <1>4, <2>1
<1>7. \A i \in 1 .. m : from + i - 1 \in 1 .. Len(runs)
  BY <1>2, <1>4
<1>8. from + m - 1 = Len(runs)
  BY <1>2, <1>4
<1> HIDE DEF from
<1>9. Retain(runs)[m] = runs[Len(runs)] /\ Retain(runs) # <<>>
  <2>1. m \in 1 .. m /\ m # 0
    BY <1>4
  <2>2. SubSeq(runs, from, Len(runs))[m] = runs[from + m - 1]
    BY <1>6, <2>1
  <2> QED BY <1>5, <1>6, <1>8, <2>1, <2>2
<1>10. \A i \in 1 .. m : \E j \in 1 .. Len(runs) : Retain(runs)[i] = runs[j]
  BY <1>5, <1>6, <1>7
<1> QED BY <1>4, <1>5, <1>6, <1>9, <1>10 DEF KnownRuns

LEMMA AppendIs ==
    ASSUME NEW runs, KnownRuns(runs), NEW run \in KnownRun
    PROVE  /\ KnownRuns(Append(runs, run)) /\ Append(runs, run) # <<>>
           /\ Append(runs, run)[Len(Append(runs, run))] = run
           /\ \A i \in 1 .. Len(Append(runs, run)) :
                Append(runs, run)[i] = run \/ \E j \in 1 .. Len(runs) : Append(runs, run)[i] = runs[j]
<1>1. runs \in Seq(KnownRun) /\ Len(runs) \in Nat
  BY DEF KnownRuns
<1>2. /\ Append(runs, run) \in Seq(KnownRun) /\ Len(Append(runs, run)) = Len(runs) + 1
      /\ \A i \in 1 .. Len(runs) : Append(runs, run)[i] = runs[i]
      /\ Append(runs, run)[Len(runs) + 1] = run
  BY <1>1
<1>3. \A i \in 1 .. Len(runs) + 1 :
        Append(runs, run)[i] = run \/ \E j \in 1 .. Len(runs) : Append(runs, run)[i] = runs[j]
  <2> TAKE i \in 1 .. Len(runs) + 1
  <2>1. CASE i \in 1 .. Len(runs)
    BY <1>2, <2>1
  <2>2. CASE i = Len(runs) + 1
    BY <1>2, <2>2
  <2> QED BY <1>1, <2>1, <2>2
<1>4. Append(runs, run) # <<>>
  BY <1>1, <1>2
<1> QED BY <1>2, <1>3, <1>4 DEF KnownRuns

\* The numbers the discovery canary takes its baseline from.
Found(prev) == [i \in DOMAIN prev |-> prev[i].discovered]

LEMMA DiscoveryEvaluated ==
    ASSUME NEW runs, runs # <<>>
    PROVE  "discovery" \in Evaluate(runs)
             <=> Discovery(runs[Len(runs)], SubSeq(runs, 1, Len(runs) - 1))
BY DEF Evaluate

LEMMA FoundIs ==
    ASSUME NEW runs, KnownRuns(runs), runs # <<>>, Len(runs) - 1 # 0
    PROVE  /\ Len(runs) - 1 \in Nat \ {0}
           /\ Found(SubSeq(runs, 1, Len(runs) - 1)) \in [1 .. Len(runs) - 1 -> 0 .. Bound]
           /\ \A i \in 1 .. Len(runs) - 1 :
                Found(SubSeq(runs, 1, Len(runs) - 1))[i] = runs[i].discovered
<1>1. Len(runs) - 1 \in Nat \ {0}
  BY EarlierRuns
<1>2. \A i \in 1 .. Len(runs) - 1 : i \in 1 .. Len(runs) /\ runs[i].discovered \in 0 .. Bound
  BY <1>1, KnownRunIs
<1> QED BY <1>1, <1>2, EarlierRuns DEF Found

\* A run that finds nothing is a lost discovery unless most before it found nothing.
LEMMA LossIsSeen ==
    ASSUME NEW runs, KnownRuns(runs), runs # <<>>, Len(runs) - 1 # 0,
           runs[Len(runs)].discovered = 0,
           2 * Cardinality({i \in 1 .. Len(runs) - 1 : runs[i].discovered = 0}) <= Len(runs) - 1
    PROVE  "discovery" \in Evaluate(runs)
<1> DEFINE prev == SubSeq(runs, 1, Len(runs) - 1)
           n == Len(runs) - 1
<1>1. /\ n \in Nat \ {0} /\ Found(prev) \in [1 .. n -> 0 .. Bound]
      /\ \A i \in 1 .. n : Found(prev)[i] = runs[i].discovered
  BY FoundIs
<1>2. Holding(Found(prev), 0) = {i \in 1 .. n : runs[i].discovered = 0}
  BY <1>1 DEF Holding
<1>3. 2 * Cardinality(Holding(Found(prev), 0)) <= n
  BY <1>2
<1>4. MedianTwice(Found(prev)) \in Nat \ {0}
  <2> HIDE DEF n, prev
  <2>1. PICK D, vals : D = 1 .. n /\ vals = Found(prev)
    OBVIOUS
  <2>2. IsFiniteSet(D) /\ Cardinality(D) = n /\ D # {}
    <3>1. 1 \in D
      BY <1>1, <2>1
    <3>2. IsFiniteSet(1 .. n) /\ Cardinality(1 .. n) = n
      BY <1>1, Interval
    <3> QED BY <2>1, <3>1, <3>2
  <2>3. vals \in [D -> 0 .. Bound] /\ 2 * Cardinality(Holding(vals, 0)) <= Cardinality(D)
    BY <1>1, <1>3, <2>1, <2>2
  <2> QED BY <2>1, <2>2, <2>3, MedianAboveZero, BoundIsNat
<1>5. Discovery(runs[Len(runs)], prev)
  BY <1>4 DEF Discovery, Found
<1> QED BY <1>5, DiscoveryEvaluated

FoundAlikeBut(odd, runs) ==
    \A i \in 1 .. Len(runs) - 1 : i \in odd \/ runs[i].discovered = runs[Len(runs)].discovered

\* A run that finds what the runs before it found is never one.
LEMMA NoLossIsSeen ==
    ASSUME NEW runs, KnownRuns(runs), runs # <<>>,
           NEW odd \in SUBSET (1 .. Len(runs) - 1),
           FoundAlikeBut(odd, runs),
           Few(odd, Len(runs) - 1)
    PROVE  "discovery" \notin Evaluate(runs)
<1> DEFINE prev == SubSeq(runs, 1, Len(runs) - 1)
           n == Len(runs) - 1
           last == runs[Len(runs)].discovered
<1>1. n \in Nat /\ Len(prev) = n /\ DOMAIN prev = 1 .. n
  BY EarlierRuns
<1>2. last \in 0 .. Bound
  <2>1. Len(runs) \in 1 .. Len(runs)
    BY <1>1
  <2> QED BY <2>1, KnownRunIs
<1>3. MedianTwice(Found(prev)) \in {0, 2 * last}
  <2>1. CASE n = 0
    <3>1. Found(prev) \in [1 .. 0 -> {}]
      <4>1. DOMAIN prev = 1 .. 0 /\ 1 .. 0 = {}
        <5>1. 1 .. 0 = {}
          OBVIOUS
        <5> QED BY <1>1, <2>1, <5>1
      <4>2. DOMAIN Found(prev) = DOMAIN prev
        BY DEF Found
      <4>3. Found(prev) = [i \in 1 .. 0 |-> Found(prev)[i]]
        BY <4>1, <4>2 DEF Found
      <4> QED BY <4>1, <4>3
    <3>2. Found(prev) = <<>>
      BY <3>1, EmptySeq
    <3> QED BY <3>2 DEF MedianTwice
  <2>2. CASE n # 0
    <3>1. /\ n \in Nat \ {0} /\ Found(prev) \in [1 .. n -> 0 .. Bound]
          /\ \A i \in 1 .. n : Found(prev)[i] = runs[i].discovered
      BY <2>2, FoundIs
    <3>2. AlikeBut(odd, Found(prev), last)
      BY <3>1 DEF AlikeBut, FoundAlikeBut
    <3>3. odd \in SUBSET (1 .. n) /\ Few(odd, n)
      OBVIOUS
    <3>4. PICK vals : vals = Found(prev)
      OBVIOUS
    <3> HIDE DEF n, prev, last
    <3>5. /\ vals \in [1 .. n -> 0 .. Bound] /\ last \in 0 .. Bound /\ Bound \in Nat
          /\ AlikeBut(odd, vals, last)
      BY <1>2, <3>1, <3>2, <3>4, BoundIsNat
    <3>6. PICK D : D = 1 .. n
      OBVIOUS
    <3>7. /\ IsFiniteSet(D) /\ Cardinality(D) = n /\ D # {} /\ vals \in [D -> 0 .. Bound]
          /\ odd \in SUBSET D /\ Few(odd, Cardinality(D))
      <4>1. 1 \in D
        BY <3>1, <3>6
      <4>2. IsFiniteSet(1 .. n) /\ Cardinality(1 .. n) = n
        BY <3>1, Interval
      <4>3. IsFiniteSet(D) /\ Cardinality(D) = n
        BY <3>6, <4>2
      <4> QED BY <3>3, <3>5, <3>6, <4>1, <4>3
    <3>8. MedianTwice(vals) = 2 * last
      BY <3>5, <3>7, MedianOfAlike
    <3> QED BY <3>4, <3>8
  <2> QED BY <2>1, <2>2
<1>4. ~ Discovery(runs[Len(runs)], prev)
  <2>1. PICK base : base = MedianTwice(Found(prev))
    OBVIOUS
  <2>2. PICK x \in Nat : x = last
    BY <1>2, BoundIsNat
  <2>3. Discovery(runs[Len(runs)], prev) => base > 0 /\ (x = 0 \/ 4 * x < base)
    BY <2>1, <2>2 DEF Discovery, Found
  <2>4. base \in {0, 2 * x}
    BY <1>3, <2>1, <2>2
  <2> QED BY <2>3, <2>4
<1> QED BY <1>4, DiscoveryEvaluated

(* What a run counted *)

\* A pair for each unit of each amount: as many as they add up to.
Units(amounts) == UNION {{i} \X (1 .. amounts[i]) : i \in DOMAIN amounts}

\* Amounts between low and high add up to between low and high times their number.
LEMMA UnitsBetween ==
    ASSUME NEW D, IsFiniteSet(D), NEW amounts \in [D -> Nat], NEW low \in Nat, NEW high \in Nat,
           \A i \in D : low <= amounts[i] /\ amounts[i] <= high
    PROVE  /\ Cardinality(Units(amounts)) \in Nat
           /\ Cardinality(D) * low <= Cardinality(Units(amounts))
           /\ Cardinality(Units(amounts)) <= Cardinality(D) * high
<1>1. /\ IsFiniteSet(1 .. low) /\ Cardinality(1 .. low) = low
      /\ IsFiniteSet(1 .. high) /\ Cardinality(1 .. high) = high
  BY Interval
<1>2. /\ IsFiniteSet(D \X (1 .. low)) /\ Cardinality(D \X (1 .. low)) = Cardinality(D) * low
      /\ IsFiniteSet(D \X (1 .. high)) /\ Cardinality(D \X (1 .. high)) = Cardinality(D) * high
  <2>1. ASSUME NEW n \in Nat, NEW S, IsFiniteSet(S), Cardinality(S) = n
        PROVE  IsFiniteSet(D \X S) /\ Cardinality(D \X S) = Cardinality(D) * n
    BY <2>1, FS_Product
  <2> QED BY <1>1, <2>1
<1>3. Units(amounts) \in SUBSET (D \X (1 .. high))
  <2> SUFFICES ASSUME NEW u \in Units(amounts) PROVE u \in D \X (1 .. high)
    OBVIOUS
  <2>1. PICK i \in D : u \in {i} \X (1 .. amounts[i])
    BY DEF Units
  <2>2. 1 .. amounts[i] \in SUBSET (1 .. high)
    BY amounts[i] \in Nat
  <2> QED BY <2>1, <2>2
<1>4. D \X (1 .. low) \in SUBSET Units(amounts)
  <2> SUFFICES ASSUME NEW i \in D, NEW n \in 1 .. low PROVE <<i, n>> \in Units(amounts)
    OBVIOUS
  <2>1. n \in 1 .. amounts[i]
    BY amounts[i] \in Nat
  <2> QED BY <2>1 DEF Units
<1>5. IsFiniteSet(Units(amounts)) /\ Cardinality(Units(amounts)) <= Cardinality(D \X (1 .. high))
  BY <1>2, <1>3, FS_Subset
<1>6. Cardinality(D \X (1 .. low)) <= Cardinality(Units(amounts))
  BY <1>4, <1>5, FS_Subset
<1> QED BY <1>2, <1>5, <1>6, FS_CardinalityType

OnDisk(read) == read \in SUBSET Inputs /\ \A i \in read : disk[i] \in Shapes

Kinds == {"records", "skipped", "zeroToken"}

\* What the files read hold is a number, and as much as they hold each.
LEMMA TotalBetween ==
    ASSUME NEW read, OnDisk(read), NEW field \in Kinds
    PROVE  /\ Total(field, read) \in Nat
           /\ \A low, high \in Nat :
                (\A i \in read : low <= Yields[disk[i]][field] /\ Yields[disk[i]][field] <= high)
                  => Cardinality(read) * low <= Total(field, read)
                     /\ Total(field, read) <= Cardinality(read) * high
<1> DEFINE amounts == [i \in read |-> Yields[disk[i]][field]]
<1>1. IsFiniteSet(read)
  BY DriftAssumption, FS_Subset DEF OnDisk
<1>2. amounts \in [read -> Nat]
  <2>1. \A s \in Shapes : Yields[s][field] \in Nat
    BY DriftAssumption DEF Kinds
  <2> QED BY <2>1 DEF OnDisk
<1>3. Total(field, read) = Cardinality(Units(amounts))
  <2>1. DOMAIN amounts = read /\ \A i \in read : amounts[i] = Yields[disk[i]][field]
    OBVIOUS
  <2>2. Units(amounts) = UNION {{i} \X (1 .. Yields[disk[i]][field]) : i \in read}
    BY <2>1 DEF Units
  <2> QED BY <2>2 DEF Total
<1>4. Cardinality(Units(amounts)) \in Nat
  <2> HIDE DEF amounts
  <2>1. PICK N \in Nat : amounts \in [read -> 0 .. N]
    BY <1>1, <1>2, Bounded
  <2>2. \A i \in read : 0 <= amounts[i] /\ amounts[i] <= N
    BY <2>1
  <2> QED BY <1>1, <1>2, <2>2, UnitsBetween, 0 \in Nat
<1>5. ASSUME NEW low \in Nat, NEW high \in Nat,
             \A i \in read : low <= Yields[disk[i]][field] /\ Yields[disk[i]][field] <= high
      PROVE  Cardinality(read) * low <= Total(field, read) /\ Total(field, read) <= Cardinality(read) * high
  <2>1. \A i \in read : low <= amounts[i] /\ amounts[i] <= high
    BY <1>5
  <2> HIDE DEF amounts
  <2> QED BY <1>1, <1>2, <1>3, <2>1, UnitsBetween
<1> QED BY <1>3, <1>4, <1>5

LEMMA FileRunIs ==
    ASSUME NEW found, OnDisk(found), NEW read \in SUBSET found
    PROVE  /\ FileRun(found, read) \in KnownRun
           /\ FileRun(found, read).discovered = Cardinality(found)
           /\ FileRun(found, read).parsed = Cardinality(read)
           /\ \A field \in Kinds : FileRun(found, read)[field] = Total(field, read)
<1>1. Cardinality(found) \in 0 .. Bound /\ Cardinality(read) \in 0 .. Bound
  BY DriftAssumption, FS_Subset, FS_CardinalityType, BoundIsNat DEF Bound, OnDisk
<1>2. OnDisk(read)
  BY DEF OnDisk
<1>3. \A field \in Kinds : Total(field, read) \in Nat
  BY <1>2, TotalBetween
<1>4. Total("records", read) \in Nat /\ Total("skipped", read) \in Nat /\ Total("zeroToken", read) \in Nat
  BY <1>3 DEF Kinds
<1>5. /\ FileRun(found, read) \in SourceRun
      /\ FileRun(found, read).discovered = Cardinality(found) /\ FileRun(found, read).parsed = Cardinality(read)
  BY <1>1, <1>4, BoundIsNat DEF FileRun, SourceRun
<1>6. \A field \in Kinds : FileRun(found, read)[field] = Total(field, read)
  BY DEF FileRun, Kinds
<1> QED BY <1>1, <1>5, <1>6, BoundIsNat DEF KnownRun

(* The invariant, and what it gives *)

\* The least a file in a healthy shape yields, if there is such a shape.
Floor == CHOOSE m \in {Yields[s].records : s \in Healthy} : \A s \in Healthy : m <= Yields[s].records

\* Products of naturals keep the order of their factors.
LEMMA ScaledLess ==
    ASSUME NEW n \in Nat \ {0}, NEW a \in Nat, NEW b \in Nat, 4 * a < b
    PROVE  4 * (n * a) < n * b
<1>1. n * b >= n * (4 * a + 1)
  BY b >= 4 * a + 1
<1>2. n * (4 * a + 1) = 4 * (n * a) + n
  OBVIOUS
<1>3. n * a \in Nat /\ n * b \in Nat
  OBVIOUS
<1> QED BY <1>1, <1>2, <1>3

LEMMA FloorIs ==
    ASSUME NEW h \in Healthy
    PROVE  /\ Floor \in Nat \ {0}
           /\ \A s \in Healthy : /\ Floor <= Yields[s].records /\ Yields[s].records <= 4 * Floor
                                 /\ Yields[s].skipped = 0 /\ 4 * Yields[s].zeroToken < Floor
                                 /\ Yields[s].zeroToken \in Nat /\ Yields[s].records \in Nat
<1> DEFINE S == {Yields[s].records : s \in Healthy}
<1>1. \A s \in Healthy : /\ Yields[s].records \in Nat \ {0} /\ Yields[s].zeroToken \in Nat
                         /\ Yields[s].skipped = 0
  BY DriftAssumption
<1>2. S \in SUBSET Nat /\ S # {}
  BY <1>1
<1>3. PICK m \in S : \A n \in S : m <= n
  <2> HIDE DEF S
  <2> QED BY <1>2, LeastOf
<1>4. m \in S /\ \A s \in Healthy : m <= Yields[s].records
  BY <1>3
<1>5. Floor \in S /\ \A s \in Healthy : Floor <= Yields[s].records
  BY <1>4 DEF Floor
<1>6. PICK t \in Healthy : Floor = Yields[t].records
  BY <1>5
<1>7. \A s \in Healthy : Yields[s].records <= 4 * Yields[t].records /\ 4 * Yields[s].zeroToken < Yields[t].records
  BY DriftAssumption
<1> QED BY <1>1, <1>5, <1>6, <1>7

\* A run that read files in healthy shapes only.
HealthyRun(r) ==
    /\ r.skipped = 0
    /\ r.parsed = 0 => r.records = 0
    /\ r.parsed # 0 => /\ Floor \in Nat \ {0}
                       /\ r.parsed * Floor <= r.records /\ r.records <= r.parsed * (4 * Floor)
    /\ r.records # 0 => 4 * r.zeroToken < r.records

\* None of the runs found more than the last did, nor than there is.
OnlyGrew(runs, files) ==
    \A i \in 1 .. Len(runs) :
        /\ HealthyRun(runs[i])
        /\ runs[i].discovered <= Cardinality(files)
        /\ runs[i].discovered <= runs[Len(runs)].discovered

Grown ==
    mishaps = 0 => /\ root = TRUE /\ \A i \in Inputs : disk[i] \in Healthy \cup {Gone}
                   /\ OnlyGrew(history, Files)

DriftInv == DriftTypeOK /\ KnownRuns(history) /\ Grown

\* Where a backfill looks, and what it leaves: its own run is the last retained.
Seen == IF root THEN Files ELSE {}

LEMMA SeenOnDisk == DriftTypeOK => OnDisk(Seen) /\ OnDisk(Files)
BY DEF DriftTypeOK, OnDisk, Seen, Files

LEMMA Backfilled ==
    ASSUME DriftTypeOK, KnownRuns(history), NEW full \in BOOLEAN, BackfillSource(full)
    PROVE  /\ KnownRuns(history') /\ history' # <<>> /\ Len(history') \in 0 .. Retained
           /\ \E read \in SUBSET Seen :
                LET run == FileRun(Seen, read) IN
                /\ history'[Len(history')] = run
                /\ \A i \in 1 .. Len(history') :
                     history'[i] = run \/ \E j \in 1 .. Len(history) : history'[i] = history[j]
                /\ marks' = PruneVanished(history', Seen, marks \cup read)
                /\ changed' = changed \ read /\ UNCHANGED <<disk, root, mishaps>>
<1> DEFINE read == {i \in Seen : full \/ i \in changed \/ i \notin marks}
           run == FileRun(Seen, read)
<1>1. /\ history' = Retain(Append(history, run)) /\ marks' = PruneVanished(history', Seen, marks \cup read)
      /\ changed' = changed \ read /\ UNCHANGED <<disk, root, mishaps>>
  BY DEF BackfillSource, Seen
<1>2. read \in SUBSET Seen
  OBVIOUS
<1>3. run \in KnownRun
  <2> HIDE DEF read
  <2> QED BY <1>2, SeenOnDisk, FileRunIs
<1> HIDE DEF read, run
<1> DEFINE runs == Append(history, run)
<1>4. /\ KnownRuns(runs) /\ runs # <<>> /\ runs[Len(runs)] = run
      /\ \A i \in 1 .. Len(runs) : runs[i] = run \/ \E j \in 1 .. Len(history) : runs[i] = history[j]
  BY <1>3, AppendIs
<1> HIDE DEF runs
<1>5. history' = Retain(runs)
  BY <1>1 DEF runs
<1>6. /\ KnownRuns(history') /\ history' # <<>> /\ Len(history') \in 0 .. Retained
      /\ history'[Len(history')] = run
      /\ \A i \in 1 .. Len(history') : \E j \in 1 .. Len(runs) : history'[i] = runs[j]
  BY <1>4, <1>5, RetainIs
<1>7. \A i \in 1 .. Len(history') : history'[i] = run \/ \E j \in 1 .. Len(history) : history'[i] = history[j]
  BY <1>4, <1>6
<1> QED BY <1>1, <1>2, <1>6, <1>7 DEF run

\* Files in healthy shapes make a healthy run.
LEMMA HealthyRunIs ==
    ASSUME NEW found, OnDisk(found), NEW read \in SUBSET found, \A i \in found : disk[i] \in Healthy
    PROVE  HealthyRun(FileRun(found, read))
<1>1. PICK r : r = FileRun(found, read)
  OBVIOUS
<1>2. /\ r \in SourceRun /\ r.parsed = Cardinality(read)
      /\ r.records = Total("records", read) /\ r.skipped = Total("skipped", read)
      /\ r.zeroToken = Total("zeroToken", read)
  BY <1>1, FileRunIs DEF KnownRun, Kinds
<1>3. OnDisk(read) /\ IsFiniteSet(read)
  BY DriftAssumption, FS_Subset DEF OnDisk
<1>4. CASE read = {}
  <2>1. \A field \in Kinds : Total(field, read) = 0
    <3> TAKE field \in Kinds
    <3>1. UNION {{i} \X (1 .. Yields[disk[i]][field]) : i \in read} = {}
      BY <1>4
    <3> QED BY <3>1, FS_EmptySet DEF Total
  <2>2. r.parsed = 0 /\ r.records = 0 /\ r.skipped = 0
    BY <1>2, <1>4, <2>1, FS_EmptySet DEF Kinds
  <2> QED BY <1>1, <2>2 DEF HealthyRun
<1>5. CASE read # {}
  <2>1. PICK h \in Healthy : TRUE
    BY <1>5
  <2>2. Floor \in Nat \ {0}
    BY <2>1, FloorIs
  <2>3. \A i \in read : /\ Floor <= Yields[disk[i]].records /\ Yields[disk[i]].records <= 4 * Floor
                        /\ Yields[disk[i]].skipped = 0
                        /\ Yields[disk[i]].zeroToken \in Nat /\ 4 * Yields[disk[i]].zeroToken < Floor
    BY <2>1, FloorIs
  <2>4. PICK n : n = Cardinality(read)
    OBVIOUS
  <2>5. n \in Nat \ {0}
    BY <1>3, <1>5, <2>4, FS_CardinalityType, FS_EmptySet
  <2>6. n * Floor <= r.records /\ r.records <= n * (4 * Floor)
    <3>1. Floor \in Nat /\ 4 * Floor \in Nat
      BY <2>2
    <3> QED BY <1>2, <1>3, <2>3, <2>4, <3>1, TotalBetween DEF Kinds
  <2>7. r.skipped = 0
    <3>1. n * 0 <= r.skipped /\ r.skipped <= n * 0
      <4>1. \A i \in read : 0 <= Yields[disk[i]]["skipped"] /\ Yields[disk[i]]["skipped"] <= 0
        BY <2>3
      <4>2. \A low, high \in Nat :
              (\A i \in read : low <= Yields[disk[i]]["skipped"] /\ Yields[disk[i]]["skipped"] <= high)
                => n * low <= r.skipped /\ r.skipped <= n * high
        BY <1>2, <1>3, <2>4, TotalBetween DEF Kinds
      <4> QED BY <4>1, <4>2, 0 \in Nat
    <3>2. n * 0 = 0 /\ r.skipped \in Nat
      BY <1>2, <2>5 DEF SourceRun
    <3> QED BY <3>1, <3>2
  <2>8. 4 * r.zeroToken < r.records
    <3> DEFINE Z == (Floor - 1) \div 4
    <3>1. Z \in Nat /\ 4 * Z < Floor /\ \A z \in Nat : 4 * z < Floor => 0 <= z /\ z <= Z
      BY <2>2
    <3> HIDE DEF Z
    <3>2. \A i \in read : 0 <= Yields[disk[i]].zeroToken /\ Yields[disk[i]].zeroToken <= Z
      BY <2>3, <3>1
    <3>3. r.zeroToken <= n * Z
      BY <1>2, <1>3, <2>4, <3>1, <3>2, TotalBetween, 0 \in Nat DEF Kinds
    <3>4. 4 * (n * Z) < n * Floor
      BY <2>2, <2>5, <3>1, ScaledLess
    <3>5. r.zeroToken \in Nat /\ r.records \in Nat /\ n * Z \in Nat /\ n * Floor \in Nat
      BY <1>2, <2>2, <2>5, <3>1 DEF SourceRun
    <3> QED BY <2>6, <3>3, <3>4, <3>5
  <2>9. r.parsed = n
    BY <1>2, <2>4
  <2> QED BY <1>1, <2>2, <2>5, <2>6, <2>7, <2>8, <2>9 DEF HealthyRun
<1> QED BY <1>4, <1>5

LEMMA InitHolds == DriftInit => DriftInv
<1> SUFFICES ASSUME DriftInit PROVE DriftInv
  OBVIOUS
<1>1. history = <<>> /\ Len(history) = 0
  BY DEF DriftInit
<1>2. KnownRuns(history) /\ history \in Seq(SourceRun)
  BY <1>1 DEF KnownRuns
<1>3. DriftTypeOK
  BY <1>1, <1>2, DriftAssumption DEF DriftInit, DriftTypeOK
<1>4. Grown
  BY <1>1 DEF DriftInit, Grown, OnlyGrew
<1> QED BY <1>2, <1>3, <1>4 DEF DriftInv

LEMMA KnownAreRuns == ASSUME NEW runs, KnownRuns(runs) PROVE runs \in Seq(SourceRun)
<1>1. runs \in Seq(KnownRun)
  BY DEF KnownRuns
<1>2. Len(runs) \in Nat /\ runs \in [1 .. Len(runs) -> KnownRun]
  BY <1>1
<1>3. \A i \in 1 .. Len(runs) : runs[i] \in SourceRun
  BY <1>2 DEF KnownRun
<1> QED BY <1>2, <1>3

\* The source grows: a file is written.
LEMMA WriteStep ==
    ASSUME DriftInv, NEW i \in Inputs, NEW shape \in Shapes, Write(i, shape)
    PROVE  DriftInv'
<1>1. /\ disk' = [disk EXCEPT ![i] = shape] /\ changed' = changed \cup {i}
      /\ UNCHANGED <<root, history, marks>>
  BY DEF Write
<1>2. mishaps' \in 0 .. MaxMishaps /\ (mishaps' = 0 => mishaps = 0 /\ shape \in Healthy)
  <2>1. mishaps \in 0 .. MaxMishaps /\ MaxMishaps \in Nat
    BY DriftAssumption DEF DriftInv, DriftTypeOK
  <2>2. CASE shape \in Healthy
    BY <2>1, <2>2 DEF Write
  <2>3. CASE shape \notin Healthy
    <3>1. mishaps < MaxMishaps /\ mishaps' = mishaps + 1
      BY <2>3 DEF Write, Mishap
    <3> QED BY <2>1, <3>1
  <2> QED BY <2>2, <2>3
<1>3. DriftTypeOK'
  BY <1>1, <1>2 DEF DriftInv, DriftTypeOK
<1>4. KnownRuns(history')
  BY <1>1 DEF DriftInv
<1>5. Files \in SUBSET Files' /\ Files' \in SUBSET Inputs
  BY <1>1, DriftAssumption DEF DriftInv, DriftTypeOK, Files
<1>6. ASSUME mishaps' = 0
      PROVE  /\ root' = TRUE /\ \A j \in Inputs : disk'[j] \in Healthy \cup {Gone}
             /\ OnlyGrew(history', Files')
  <2>1. /\ root = TRUE /\ \A j \in Inputs : disk[j] \in Healthy \cup {Gone}
        /\ OnlyGrew(history, Files) /\ shape \in Healthy
    BY <1>2, <1>6 DEF DriftInv, Grown
  <2>2. \A j \in Inputs : disk'[j] \in Healthy \cup {Gone}
    BY <1>1, <2>1 DEF DriftInv, DriftTypeOK
  <2>3. /\ Cardinality(Files) \in Nat /\ Cardinality(Files') \in Nat
        /\ Cardinality(Files) <= Cardinality(Files')
    <3>1. IsFiniteSet(Files')
      BY <1>5, DriftAssumption, FS_Subset
    <3> QED BY <1>5, <3>1, FS_Subset, FS_CardinalityType
  <2>4. \A j \in 1 .. Len(history) : history[j].discovered \in Nat
    BY KnownRunIs, BoundIsNat DEF DriftInv
  <2>5. OnlyGrew(history, Files')
    BY <2>1, <2>3, <2>4 DEF OnlyGrew
  <2> QED BY <1>1, <2>1, <2>2, <2>5
<1>7. Grown'
  BY <1>6 DEF Grown
<1> QED BY <1>3, <1>4, <1>7 DEF DriftInv

\* What befalls a source besides is counted.
LEMMA MishapStep ==
    ASSUME DriftInv, (\E i \in Inputs : Rotate(i)) \/ Move
    PROVE  DriftInv'
<1>1. UNCHANGED <<history, marks>> /\ mishaps' \in 1 .. MaxMishaps
  BY DriftAssumption DEF Rotate, Move, Mishap, DriftInv, DriftTypeOK
<1>2. disk' \in [Inputs -> Shapes \cup {Gone}] /\ changed' \subseteq Inputs /\ root' \in BOOLEAN
  BY DEF Rotate, Move, DriftInv, DriftTypeOK
<1> QED BY <1>1, <1>2 DEF DriftInv, DriftTypeOK, Grown

LEMMA BackfillStep ==
    ASSUME DriftInv, NEW full \in BOOLEAN, BackfillSource(full)
    PROVE  DriftInv'
<1> USE DEF DriftInv
<1>1. PICK runs : runs = history'
  OBVIOUS
<1>2. KnownRuns(runs) /\ runs # <<>> /\ Len(runs) \in 0 .. Retained
  BY <1>1, Backfilled
<1>3. PICK read \in SUBSET Seen :
        /\ runs[Len(runs)] = FileRun(Seen, read)
        /\ \A i \in 1 .. Len(runs) :
             runs[i] = FileRun(Seen, read) \/ \E j \in 1 .. Len(history) : runs[i] = history[j]
        /\ marks' = PruneVanished(runs, Seen, marks \cup read)
        /\ changed' = changed \ read /\ UNCHANGED <<disk, root, mishaps>>
  BY <1>1, Backfilled
<1>4. Seen \in SUBSET Inputs /\ marks' \in SUBSET Inputs
  BY <1>3 DEF Seen, Files, PruneVanished, DriftTypeOK
<1>5. DriftTypeOK'
  <2>1. runs \in Seq(SourceRun) /\ Len(runs) <= Retained
    BY <1>2, KnownAreRuns, DriftAssumption
  <2> QED BY <1>1, <1>3, <1>4, <2>1 DEF DriftTypeOK
<1>6. ASSUME mishaps' = 0
      PROVE  /\ root' = TRUE /\ \A j \in Inputs : disk'[j] \in Healthy \cup {Gone}
             /\ OnlyGrew(runs, Files')
  <2>1. /\ root = TRUE /\ \A j \in Inputs : disk[j] \in Healthy \cup {Gone}
        /\ OnlyGrew(history, Files)
    BY <1>3, <1>6 DEF Grown
  <2>2. Seen = Files /\ Files' = Files /\ \A i \in Files : disk[i] \in Healthy
    BY <1>3, <2>1 DEF Seen, Files
  <2>3. HealthyRun(FileRun(Seen, read)) /\ FileRun(Seen, read).discovered = Cardinality(Files)
    BY <1>3, <2>2, SeenOnDisk, HealthyRunIs, FileRunIs
  <2>4. Cardinality(Files) \in Nat
    BY DriftAssumption, FS_Subset, FS_CardinalityType DEF Files
  <2>5. OnlyGrew(runs, Files)
    <3> SUFFICES ASSUME NEW i \in 1 .. Len(runs)
                 PROVE  HealthyRun(runs[i]) /\ runs[i].discovered <= Cardinality(Files)
      BY <1>3, <2>3 DEF OnlyGrew
    <3>1. CASE runs[i] = FileRun(Seen, read)
      BY <2>3, <2>4, <3>1
    <3>2. CASE \E j \in 1 .. Len(history) : runs[i] = history[j]
      BY <2>1, <3>2 DEF OnlyGrew
    <3> QED BY <1>3, <3>1, <3>2
  <2> QED BY <1>3, <2>1, <2>2, <2>5
<1>7. Grown'
  BY <1>1, <1>6 DEF Grown
<1> QED BY <1>1, <1>2, <1>5, <1>7

LEMMA Step == DriftInv /\ [DriftNext]_driftVars => DriftInv'
<1> SUFFICES ASSUME DriftInv, [DriftNext]_driftVars PROVE DriftInv'
  OBVIOUS
<1>1. CASE \E i \in Inputs, shape \in Shapes : Write(i, shape)
  BY <1>1, WriteStep
<1>2. CASE (\E i \in Inputs : Rotate(i)) \/ Move
  BY <1>2, MishapStep
<1>3. CASE \E full \in BOOLEAN : BackfillSource(full)
  BY <1>3, BackfillStep
<1>4. CASE UNCHANGED driftVars
  BY <1>4 DEF driftVars, DriftInv, DriftTypeOK, Grown, OnlyGrew, Files
<1> QED BY <1>1, <1>2, <1>3, <1>4 DEF DriftNext

\* Every reachable history is of runs whose numbers the files bound, and, of a source
\* that only grew, between what its files yield at least and at most.
THEOREM HistoryStaysKnown == DriftSpec => []DriftInv
<1> QED BY InitHolds, Step, PTL DEF DriftSpec

\* What watermarks outlive: a backfill that finds nothing, where no more than half of
\* the runs on record found nothing, says so and keeps every watermark; and one that
\* finds as much as all of them holds none for a file it did not find
\* (internal/drift/drift.go: checkDiscovery, internal/ingest/prune.go: pruneVanished).
LEMMA StepOutlives == DriftInv /\ [DriftNext]_driftVars => OutlivesLoss
<1> SUFFICES ASSUME DriftInv, [DriftNext]_driftVars, history' # history
             PROVE  OutlivesLoss
  BY DEF OutlivesLoss
<1>1. PICK full \in BOOLEAN : BackfillSource(full)
  BY DEF DriftNext, driftVars, Write, Rotate, Move
<1>2. PICK runs : runs = history'
  OBVIOUS
<1>0. KnownRuns(runs) /\ runs # <<>>
  BY <1>1, <1>2, Backfilled DEF DriftInv
<1>4. PICK read \in SUBSET Seen : /\ runs[Len(runs)] = FileRun(Seen, read)
                                  /\ marks' = PruneVanished(runs, Seen, marks \cup read)
  BY <1>1, <1>2, Backfilled DEF DriftInv
<1>3. KnownRuns(runs) /\ runs # <<>> /\ runs[Len(runs)].discovered = Cardinality(Seen)
  BY <1>0, <1>4, SeenOnDisk, FileRunIs DEF DriftInv
<1> DEFINE n == Len(runs) - 1
           before == SubSeq(runs, 1, n)
           last == runs[Len(runs)].discovered
           blind == {i \in DOMAIN before : before[i].discovered = 0}
<1>5. n \in Nat /\ Len(before) = n /\ DOMAIN before = 1 .. n /\ \A i \in 1 .. n : before[i] = runs[i]
  BY <1>3, EarlierRuns
<1>6. ASSUME last = 0, before # <<>>, 2 * Cardinality(blind) <= Len(before)
      PROVE  "discovery" \in Evaluate(runs) /\ marks' = marks
  <2>1. n # 0
    BY <1>3, <1>6
  <2>2. blind = {i \in 1 .. n : runs[i].discovered = 0}
    BY <1>5
  <2>3. 2 * Cardinality({i \in 1 .. n : runs[i].discovered = 0}) <= n
    BY <1>5, <1>6, <2>2
  <2>4. "discovery" \in Evaluate(runs)
    BY <1>3, <1>6, <2>1, <2>3, LossIsSeen
  <2>5. Seen = {}
    <3>1. Seen \in SUBSET Inputs
      BY DEF Seen, Files
    <3>2. IsFiniteSet(Seen)
      BY <3>1, DriftAssumption, FS_Subset
    <3> QED BY <1>3, <1>6, <3>2, FS_EmptySet
  <2> QED BY <1>4, <2>4, <2>5 DEF PruneVanished
<1>7. ASSUME \A i \in DOMAIN before : before[i].discovered = last
      PROVE  marks' \in SUBSET Seen
  <2>1. \A i \in 1 .. n : runs[i].discovered = last
    BY <1>5, <1>7
  <2>2. "discovery" \notin Evaluate(runs)
    <3>1. PICK odd : odd = {}
      OBVIOUS
    <3>2. odd \in SUBSET (1 .. Len(runs) - 1) /\ FoundAlikeBut(odd, runs) /\ Few(odd, Len(runs) - 1)
      <4>1. FoundAlikeBut(odd, runs)
        BY <2>1 DEF FoundAlikeBut
      <4> QED BY <3>1, <4>1 DEF Few
    <3> QED BY <1>3, <3>2, NoLossIsSeen
  <2> QED BY <1>4, <2>2 DEF PruneVanished
<1> QED BY <1>2, <1>6, <1>7 DEF OutlivesLoss, Seen

\* A run that lost the source keeps every watermark and says so, unless most runs on
\* record found nothing either, and the freeze ends when the loss is the norm
\* (internal/ingest/prune.go: pruneVanished; internal/drift/drift.go: discoveryCanary).
THEOREM WatermarksOutliveLoss == DriftSpec => MarksOutliveLoss
<1>1. DriftInv /\ [DriftNext]_driftVars => [OutlivesLoss]_driftVars
  BY StepOutlives
<1> QED BY <1>1, HistoryStaysKnown, PTL DEF DriftSpec, MarksOutliveLoss

\* "One odd pass cannot move the baseline" (internal/drift/drift.go:65): a run that found
\* as many files as all the runs before it but one, of three or more, is no lost discovery.
LEMMA OneOddPassMovesNothing == DriftInv => OneOddPass
<1> SUFFICES ASSUME DriftInv, Len(history) >= 4
             PROVE  LET found == history[Len(history)].discovered
                        odd == {i \in DOMAIN Earlier : Earlier[i].discovered # found}
                    IN  Cardinality(odd) <= 1 => "discovery" \notin Evaluate(history)
  BY DEF OneOddPass
<1> DEFINE n == Len(history) - 1
           odd == {i \in DOMAIN Earlier : Earlier[i].discovered # history[Len(history)].discovered}
<1>1. KnownRuns(history) /\ history # <<>>
  BY DEF DriftInv, KnownRuns
<1>2. DOMAIN Earlier = 1 .. n /\ \A i \in 1 .. n : Earlier[i] = history[i]
  BY <1>1, EarlierRuns DEF Earlier
<1>3. odd \in SUBSET (1 .. n) /\ FoundAlikeBut(odd, history)
  BY <1>2 DEF FoundAlikeBut
<1>4. n >= 3
  BY <1>1, EarlierRuns
<1>5. ASSUME Cardinality(odd) <= 1 PROVE "discovery" \notin Evaluate(history)
  BY <1>1, <1>3, <1>4, <1>5, NoLossIsSeen DEF Few
<1> QED BY <1>5

LEMMA Canaries ==
    ASSUME NEW runs, runs # <<>>
    PROVE  LET cur == runs[Len(runs)]
               prev == SubSeq(runs, 1, Len(runs) - 1)
           IN  /\ Evaluate(runs) \subseteq {"discovery", "barren", "yield", "skipped", "zero-token"}
               /\ "discovery" \in Evaluate(runs) <=> Discovery(cur, prev)
               /\ "yield" \in Evaluate(runs) <=> Yield(cur, prev)
               /\ "skipped" \in Evaluate(runs) <=> Skipped(cur)
               /\ "zero-token" \in Evaluate(runs) <=> ZeroToken(cur)
BY DEF Evaluate

\* A run that found no less than any before it lost no discovery.
LEMMA MostIsNoLoss ==
    ASSUME NEW runs, KnownRuns(runs), runs # <<>>,
           \A i \in 1 .. Len(runs) : runs[i].discovered <= runs[Len(runs)].discovered
    PROVE  "discovery" \notin Evaluate(runs)
<1>1. PICK n, prev, cur : n = Len(runs) - 1 /\ prev = SubSeq(runs, 1, Len(runs) - 1) /\ cur = runs[Len(runs)]
  OBVIOUS
<1>2. n \in Nat /\ DOMAIN prev = 1 .. n /\ \A i \in 1 .. n : prev[i] = runs[i]
  BY <1>1, EarlierRuns
<1>3. cur.discovered \in Nat /\ \A i \in 1 .. n : runs[i].discovered \in 0 .. cur.discovered
  <2>1. Len(runs) \in 1 .. Len(runs) /\ \A i \in 1 .. n : i \in 1 .. Len(runs)
    BY <1>1, <1>2
  <2>2. \A i \in 1 .. Len(runs) : runs[i].discovered \in Nat
    BY KnownRunIs, BoundIsNat
  <2>3. \A i \in 1 .. Len(runs) : runs[i].discovered <= cur.discovered
    BY <1>1
  <2> QED BY <1>1, <2>1, <2>2, <2>3
<1>4. PICK vals, D : vals = [i \in DOMAIN prev |-> prev[i].discovered] /\ D = 1 .. n
  OBVIOUS
<1>5. IsFiniteSet(D) /\ vals \in [D -> 0 .. cur.discovered]
  BY <1>2, <1>3, <1>4, Interval
<1>6. MedianTwice(vals) \in 0 .. 2 * cur.discovered
  BY <1>3, <1>5, MedianWithin
<1>7. ~ Discovery(cur, prev)
  <2>1. PICK base : base = MedianTwice(vals)
    OBVIOUS
  <2>2. Discovery(cur, prev) => base > 0 /\ (cur.discovered = 0 \/ 4 * cur.discovered < base)
    BY <1>4, <2>1 DEF Discovery
  <2> QED BY <1>3, <1>6, <2>1, <2>2
<1> QED BY <1>1, <1>7, Canaries

\* A common factor cancels.
LEMMA Cancelled ==
    ASSUME NEW p \in Nat \ {0}, NEW a \in Nat, NEW b \in Nat
    PROVE  (p * a < p * b => a < b) /\ (p * a <= p * b => a <= b)
<1>1. ASSUME a >= b PROVE p * a >= p * b
  BY <1>1
<1>2. ASSUME a > b PROVE p * a > p * b
  BY <1>2
<1> QED BY <1>1, <1>2

\* A quotient lies where its numerator does.
LEMMA DividedBetween ==
    ASSUME NEW p \in Nat \ {0}, NEW q \in Nat, NEW s \in Nat, NEW low \in Nat, NEW high \in Nat,
           p * low <= q, q <= p * high
    PROVE  (q * s) \div p \in Nat /\ low * s <= (q * s) \div p /\ (q * s) \div p <= high * s
<1>1. PICK d : d = (q * s) \div p
  OBVIOUS
<1>2. d \in Nat /\ p * d <= q * s /\ q * s < p * (d + 1)
  BY <1>1
<1>3. (p * low) * s <= q * s /\ q * s <= (p * high) * s
  OBVIOUS
<1>4. (p * low) * s = p * (low * s) /\ (p * high) * s = p * (high * s)
  OBVIOUS
<1>5. low * s \in Nat /\ high * s \in Nat
  OBVIOUS
<1>6. p * (low * s) < p * (d + 1) /\ p * d <= p * (high * s)
  BY <1>2, <1>3, <1>4
<1>7. low * s < d + 1 /\ d <= high * s
  BY <1>2, <1>5, <1>6, Cancelled
<1> QED BY <1>1, <1>2, <1>5, <1>7

\* One that its divisor's multiple is multiplied into is not cut to nothing.
LEMMA DividedAboveZero ==
    ASSUME NEW p \in Nat \ {0}, NEW q \in Nat, NEW s \in Nat \ {0}, s % p = 0
    PROVE  (q * s) \div p \in Nat /\ (q > 0 => (q * s) \div p # 0)
<1>1. s >= p
  OBVIOUS
<1>2. q > 0 => q * s >= p
  BY <1>1
<1>3. PICK m \in Nat : m = q * s
  OBVIOUS
<1>4. m \div p \in Nat /\ (m >= p => m \div p # 0)
  BY <1>3
<1> QED BY <1>2, <1>3, <1>4

\* A run's records by file, multiplied by Scale.
LEMMA PerFileBetween ==
    ASSUME NEW r \in SourceRun, r.parsed # 0, NEW low \in Nat, NEW high \in Nat,
           r.parsed * low <= r.records, r.records <= r.parsed * high
    PROVE  PerFile(r) \in Nat /\ low * Scale <= PerFile(r) /\ PerFile(r) <= high * Scale
<1>1. PICK p, q, s : p = r.parsed /\ q = r.records /\ s = Scale
  OBVIOUS
<1>2. p \in Nat \ {0} /\ q \in Nat /\ s \in Nat \ {0} /\ p * low <= q /\ q <= p * high
  BY <1>1, DriftAssumption DEF SourceRun
<1>3. (q * s) \div p \in Nat /\ low * s <= (q * s) \div p /\ (q * s) \div p <= high * s
  BY <1>2, DividedBetween
<1> QED BY <1>1, <1>3 DEF PerFile

\* Runs of healthy files alone: the least yields no less than a quarter of the most.
LEMMA HealthyYield ==
    ASSUME NEW runs, KnownRuns(runs), runs # <<>>, \A i \in 1 .. Len(runs) : HealthyRun(runs[i])
    PROVE  "yield" \notin Evaluate(runs)
<1>1. PICK n, prev, cur : n = Len(runs) - 1 /\ prev = SubSeq(runs, 1, Len(runs) - 1) /\ cur = runs[Len(runs)]
  OBVIOUS
<1>2. /\ n \in Nat /\ DOMAIN prev = 1 .. n /\ Len(runs) \in 1 .. Len(runs)
      /\ \A i \in 1 .. n : prev[i] = runs[i] /\ i \in 1 .. Len(runs)
  BY <1>1, EarlierRuns
<1>3. cur \in SourceRun /\ \A i \in 1 .. n : prev[i] \in SourceRun /\ HealthyRun(prev[i])
  BY <1>1, <1>2, KnownRunIs
<1> SUFFICES ASSUME Yield(cur, prev) PROVE FALSE
  BY <1>1, Canaries
<1>4. cur.parsed \in Nat \ {0}
  BY <1>3, DriftAssumption DEF Yield, SourceRun
<1>5. Floor \in Nat \ {0} /\ cur.parsed * Floor <= cur.records /\ cur.records <= cur.parsed * (4 * Floor)
  BY <1>1, <1>2, <1>4 DEF HealthyRun
<1>6. PICK low, high, s : low = Floor /\ high = 4 * Floor /\ s = Scale
  OBVIOUS
<1>7. low \in Nat /\ high \in Nat /\ s \in Nat /\ high = 4 * low
  BY <1>5, <1>6, DriftAssumption
<1>8. PerFile(cur) \in Nat /\ low * s <= PerFile(cur)
  BY <1>3, <1>4, <1>5, <1>6, <1>7, PerFileBetween
<1>9. PICK D, vals : D = Reading(prev) /\ vals = [i \in Reading(prev) |-> PerFile(prev[i])]
  OBVIOUS
<1>10. D \in SUBSET (1 .. n) /\ IsFiniteSet(D)
  <2>1. D \in SUBSET (1 .. n)
    BY <1>2, <1>9 DEF Reading
  <2> QED BY <1>2, <2>1, Interval, FS_Subset
<1>11. high * s \in Nat /\ low * s \in Nat /\ 2 * (high * s) = 8 * (low * s)
  BY <1>7
<1>12. vals \in [D -> 0 .. high * s]
  <2>1. ASSUME NEW i \in D PROVE PerFile(prev[i]) \in 0 .. high * s
    <3>1. prev[i] \in SourceRun /\ HealthyRun(prev[i]) /\ prev[i].parsed # 0
      BY <1>3, <1>9, <1>10, <2>1 DEF Reading
    <3>2. prev[i].parsed * low <= prev[i].records /\ prev[i].records <= prev[i].parsed * high
      BY <1>6, <3>1 DEF HealthyRun
    <3>3. PerFile(prev[i]) \in Nat /\ PerFile(prev[i]) <= high * s
      BY <1>6, <1>7, <3>1, <3>2, PerFileBetween
    <3> QED BY <1>11, <3>3
  <2> QED BY <1>9, <2>1
<1>13. MedianTwice(vals) \in 0 .. 2 * (high * s)
  BY <1>10, <1>11, <1>12, MedianWithin
<1>14. 8 * PerFile(cur) < MedianTwice(vals)
  BY <1>9 DEF Yield
<1> QED BY <1>8, <1>11, <1>13, <1>14

\* No false alarm: a source that only ever grew, in shapes this build reads and whose
\* files yield no less than a quarter of one another, raises no canary but barren,
\* whatever mix of idle, partial and full runs its history holds
\* (internal/drift/drift.go: Evaluate, internal/store/ingest_source.go: RecordSourceRun).
THEOREM HealthIsNoAlarm == DriftSpec => []HistorySound
<1>1. DriftInv => HistorySound
  <2> SUFFICES ASSUME DriftInv PROVE HistorySound
    OBVIOUS
  <2>1. ASSUME mishaps = 0 PROVE Evaluate(history) \subseteq {"barren"}
    <3>1. CASE history = <<>>
      BY <3>1 DEF Evaluate
    <3>2. CASE history # <<>>
      <4>1. /\ KnownRuns(history) /\ Len(history) \in 1 .. Len(history)
            /\ OnlyGrew(history, Files)
        BY <2>1, <3>2, EarlierRuns DEF DriftInv, Grown
      <4>2. \A i \in 1 .. Len(history) : /\ HealthyRun(history[i])
                                         /\ history[i].discovered <= history[Len(history)].discovered
        BY <4>1 DEF OnlyGrew
      <4>3. "discovery" \notin Evaluate(history) /\ "yield" \notin Evaluate(history)
        BY <3>2, <4>1, <4>2, MostIsNoLoss, HealthyYield
      <4>4. PICK cur \in SourceRun : cur = history[Len(history)] /\ HealthyRun(cur)
        BY <4>1, <4>2, KnownRunIs
      <4>5. ~ Skipped(cur)
        BY <4>4, DriftAssumption DEF Skipped, HealthyRun
      <4>6. ~ ZeroToken(cur)
        BY <4>4, DriftAssumption DEF ZeroToken, HealthyRun, SourceRun
      <4> QED BY <3>2, <4>3, <4>4, <4>5, <4>6, Canaries
    <3> QED BY <3>1, <3>2
  <2> QED BY <2>1, OneOddPassMovesNothing DEF HistorySound, NoFalseAlarm, DriftInv
<1> QED BY <1>1, HistoryStaysKnown, PTL

\* Under-reporting is heard: a run that read enough files and got no token out of them
\* raises a canary, if most runs before it that read any got records out of theirs
\* (internal/drift/drift.go: yieldCanary, zeroTokenCanary).
THEOREM UnderReportingIsHeard == DriftSpec => []SilenceIsHeard
<1>1. DriftInv => SilenceIsHeard
  <2> SUFFICES ASSUME DriftInv, history # <<>>,
                      NEW cur, cur = history[Len(history)],
                      NEW well, well = {i \in Reading(Earlier) : Earlier[i].records > 0},
                      cur.parsed >= YieldMin, cur.records = cur.zeroToken,
                      cur.records = 0 \/ cur.records >= ZeroTokenMin,
                      2 * Cardinality(well) > Cardinality(Reading(Earlier))
               PROVE  Evaluate(history) # {}
    BY DEF SilenceIsHeard
  <2>1. PICK n : n = Len(history) - 1
    OBVIOUS
  <2>2. /\ n \in Nat /\ DOMAIN Earlier = 1 .. n /\ Len(history) \in 1 .. Len(history)
        /\ \A i \in 1 .. n : Earlier[i] = history[i] /\ i \in 1 .. Len(history)
    BY <2>1, EarlierRuns DEF Earlier, DriftInv
  <2>3. /\ cur \in SourceRun
        /\ \A i \in 1 .. n : Earlier[i] \in SourceRun /\ Earlier[i].parsed \in 0 .. Bound
    BY <2>2, KnownRunIs DEF DriftInv
  <2>4. CASE cur.records # 0
    <3>1. ZeroToken(cur)
      BY <2>3, <2>4 DEF ZeroToken, SourceRun
    <3> QED BY <3>1, Canaries
  <2>5. CASE cur.records = 0
    <3>1. PICK D, vals : D = Reading(Earlier) /\ vals = [i \in Reading(Earlier) |-> PerFile(Earlier[i])]
      OBVIOUS
    <3>2. D \in SUBSET (1 .. n) /\ IsFiniteSet(D)
      <4>1. D \in SUBSET (1 .. n)
        BY <2>2, <3>1 DEF Reading
      <4> QED BY <2>2, <4>1, Interval, FS_Subset
    <3>3. ASSUME NEW i \in D
          PROVE  PerFile(Earlier[i]) \in Nat /\ (Earlier[i].records > 0 => PerFile(Earlier[i]) # 0)
      <4>1. Earlier[i] \in SourceRun /\ Earlier[i].parsed \in 1 .. Bound
        BY <2>3, <3>1, <3>2, <3>3, BoundIsNat DEF Reading
      <4>2. PICK p, q, s : p = Earlier[i].parsed /\ q = Earlier[i].records /\ s = Scale
        OBVIOUS
      <4>3. p \in Nat \ {0} /\ q \in Nat /\ s \in Nat \ {0} /\ s % p = 0
        <5>1. p \in 1 .. Bound /\ q \in Nat
          BY <4>1, <4>2 DEF SourceRun
        <5>2. s \in Nat \ {0} /\ \A m \in 1 .. Bound : s % m = 0
          BY <4>2, DriftAssumption DEF Bound
        <5> QED BY <5>1, <5>2, BoundIsNat
      <4>4. (q * s) \div p \in Nat /\ (q > 0 => (q * s) \div p # 0)
        BY <4>3, DividedAboveZero
      <4> QED BY <4>2, <4>4 DEF PerFile
    <3>4. PICK N \in Nat : vals \in [D -> 0 .. N]
      <4>1. vals \in [D -> Nat]
        BY <3>1, <3>3
      <4> QED BY <3>2, <4>1, Bounded
    <3>5. Holding(vals, 0) \in SUBSET (D \ well)
      BY <3>1, <3>3 DEF Holding
    <3>6. /\ well \in SUBSET D /\ Cardinality(D) \in Nat /\ Cardinality(well) \in 0 .. Cardinality(D)
          /\ Cardinality(D \ well) = Cardinality(D) - Cardinality(well)
          /\ Cardinality(Holding(vals, 0)) \in 0 .. Cardinality(D \ well)
      <4>1. well \in SUBSET D
        BY <3>1
      <4>2. Cardinality(D \ well) = Cardinality(D) - Cardinality(well)
        BY <3>2, <4>1, Others
      <4>3. Cardinality(Holding(vals, 0)) \in 0 .. Cardinality(D \ well)
        BY <3>2, <3>5, PartOf, D \ well \in SUBSET D
      <4> QED BY <3>2, <4>1, <4>2, <4>3, PartOf
    <3>7. 2 * Cardinality(Holding(vals, 0)) <= Cardinality(D) /\ D # {}
      <4>1. ASSUME D = {}
            PROVE  FALSE
        <5>1. Cardinality(D) = 0
          BY <4>1, FS_EmptySet
        <5>2. 2 * Cardinality(well) > Cardinality(D)
          BY <3>1
        <5> QED BY <3>6, <5>1, <5>2
      <4> QED BY <3>1, <3>6, <4>1
    <3>8. MedianTwice(vals) \in Nat \ {0}
      BY <3>2, <3>4, <3>7, MedianAboveZero
    <3>9. PerFile(cur) = 0
      <4>1. PICK p : p = cur.parsed
        OBVIOUS
      <4>2. p \in Nat \ {0}
        BY <2>3, <4>1, DriftAssumption DEF SourceRun
      <4>3. (0 * Scale) \div p = 0
        BY <4>2, DriftAssumption
      <4> QED BY <2>5, <4>1, <4>3 DEF PerFile
    <3>10. Yield(cur, Earlier)
      BY <3>1, <3>8, <3>9 DEF Yield
    <3> QED BY <3>10, Canaries DEF Earlier
  <2> QED BY <2>4, <2>5
<1> QED BY <1>1, HistoryStaysKnown, PTL
=============================================================================
