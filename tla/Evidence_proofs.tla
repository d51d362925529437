--------------------------- MODULE Evidence_proofs ---------------------------
(***************************************************************************)
(* What holds of what evidence reads and derives, for any sessions, pull   *)
(* requests, reviews, page sizes and bounds: of one read of a forge's pull *)
(* requests (PullRead), of the reviews in it (Delivery), and of the        *)
(* commits a clone and a forge show (Evidence).                            *)
(*                                                                         *)
(* PullRead: a page is a first part of what is behind the cursor, so a row *)
(* is kept, or a kept row or the one that ends the walk is ahead of it.    *)
(* That makes of every walk the same argument: what is owed is held or is  *)
(* still behind the cursor.                                                *)
(*                                                                         *)
(* Delivery: of each revision on which changes were asked for, some review *)
(* is left; only it may have lost its commit or its word, and then it says *)
(* that it did.                                                            *)
(*                                                                         *)
(* Evidence: commits are never changed, so a step has to account only for  *)
(* what it adds.  What the readers show of a commit then decides which of  *)
(* the ways it can have been written it was.                               *)
(***************************************************************************)
EXTENDS Evidence, PullRead, Delivery, SetFacts, FiniteSetTheorems, SequenceTheorems, TLAPS

Copy == [upd : Nat, list : Nat]
Cursor == [upd : Nat, id : Pulls]

\* The forge: times never lie ahead of its clock, lists never ahead of its updates.
ForgeKnown ==
    /\ now \in 1 .. LastSecond /\ now >= From /\ updates \in 0 .. MaxUpdates
    /\ forge \in [Pulls -> Copy]
    /\ \A p \in Pulls : forge[p].upd <= now /\ forge[p].list <= updates

\* The reader, and the history kept of it.
ReaderKnown ==
    /\ read \in [phase : {"walk", "reread", "done", "failed"}, query : Queries,
                 pages : 0 .. MaxPages - 1, cursor : Cursor \cup {Top}, newest : 0 .. LastSecond]
    /\ got \in [Queries -> [Pulls -> Copy \cup {NoCopy}]]
    /\ backTo \in [Queries -> Nat]
    /\ seen \in [first : [Pulls -> Nat], mid : [Pulls -> Nat], moves : [Pulls -> 0 .. 2], cut : BOOLEAN]

\* No copy is ahead of the forge.
CopiesPast ==
    \A q \in Queries, p \in Pulls : got[q][p] # NoCopy => got[q][p].upd <= forge[p].upd

\* Of the base read, nothing kept is older than it says it reached.
ReachKept == \A p \in Pulls : got["pulls"][p] # NoCopy => got["pulls"][p].upd >= backTo["pulls"]

\* After the first page: what is newer than the newest update it saw was
\* updated since.
Begun ==
    /\ read.newest > 0
    /\ \A p \in Pulls : forge[p].upd > read.newest => forge[p].upd >= From

\* Between two pages of the base walk.  What did not move is held or behind the
\* cursor; what moved once is newer than all the walk began with.
Walking ==
    /\ backTo["pulls"] = From
    /\ read.pages = 0 => /\ read.cursor = Top /\ read.newest = 0
                         /\ \A p \in Pulls : got["pulls"][p] = NoCopy
    /\ read.pages > 0 =>
         /\ Begun /\ read.cursor \in Cursor /\ read.cursor.upd <= read.newest
         /\ \A p \in Pulls :
              /\ got["pulls"][p] # NoCopy => got["pulls"][p].upd >= read.cursor.upd
              /\ seen.moves[p] = 0 =>
                   /\ forge[p].upd = seen.first[p]
                   /\ seen.first[p] >= From =>
                        \/ got["pulls"][p] # NoCopy /\ got["pulls"][p].upd = seen.first[p]
                        \/ p \in Behind(read.cursor)
              /\ seen.moves[p] = 1 => forge[p].upd > read.newest

\* Between two pages of its re-read.  What is owed and not held moved while the
\* walk went on, and is behind the cursor.
Rereading ==
    /\ Begun
    /\ backTo["pulls"] = From \/ backTo["pulls"] <= read.newest
    /\ \A p \in Pulls : Owed(p) =>
         \/ Held(p)
         \/ /\ seen.moves[p] = 1 /\ forge[p].upd = seen.mid[p] /\ forge[p].upd > read.newest
            /\ p \in Behind(read.cursor)

PullInv ==
    /\ ForgeKnown /\ ReaderKnown /\ CopiesPast /\ ReachKept
    /\ read.query = "pulls" /\ read.phase = "walk" => Walking
    /\ read.query = "pulls" /\ read.phase = "reread" => Rereading
    /\ ReadComplete

-----------------------------------------------------------------------------
\* Rows in the forge's order, and the page that begins it.

\* The order is one of rows: two are apart, and in one way.
LEMMA AheadOrders ==
    ASSUME ForgeKnown
    PROVE  /\ \A p \in Pulls : ~Ahead(p, p)
           /\ \A p, q \in Pulls : p = q \/ Ahead(p, q) \/ Ahead(q, p)
           /\ \A p, q \in Pulls : ~(Ahead(p, q) /\ Ahead(q, p))
           /\ \A p, q, r \in Pulls : Ahead(p, q) /\ Ahead(q, r) => Ahead(p, r)
           /\ \A p, q \in Pulls : Ahead(p, q) => forge[p].upd >= forge[q].upd
<1>1. \A p \in Pulls : p \in Nat /\ forge[p].upd \in Nat
  BY PullAssumption DEF ForgeKnown, Copy
<1> QED BY <1>1 DEF Ahead

\* Some row of a set has none of it ahead: the one with fewest ahead.
LEMMA Foremost ==
    ASSUME ForgeKnown, NEW S \in SUBSET Pulls, S # {}
    PROVE  \E p \in S : \A q \in S : ~Ahead(q, p)
<1> DEFINE Before(p) == {q \in S : Ahead(q, p)}
           Placings == {Cardinality(Before(p)) : p \in S}
<1>1. IsFiniteSet(S)
  BY PullAssumption, FS_Subset
<1>2. \A p \in S : IsFiniteSet(Before(p)) /\ Cardinality(Before(p)) \in Nat
  BY <1>1, FS_Subset, FS_CardinalityType
<1>3. PICK c \in Placings : \A d \in Placings : c <= d
  <2>1. Placings \in SUBSET Nat /\ Placings # {}
    BY <1>2
  <2> HIDE DEF Placings
  <2> QED BY <2>1, LeastOf
<1>4. PICK p \in S : c = Cardinality(Before(p))
  BY <1>3
<1>5. \A q \in S : ~Ahead(q, p)
  <2> SUFFICES ASSUME NEW q \in S, Ahead(q, p) PROVE FALSE
    OBVIOUS
  <2>1. Before(q) \subseteq Before(p) /\ q \in Before(p) /\ q \notin Before(q)
    BY AheadOrders
  <2>2. Cardinality(Before(p)) <= Cardinality(Before(q))
    BY <1>3, <1>4
  <2> HIDE DEF Before
  <2>3. /\ Cardinality(Before(q)) <= Cardinality(Before(p))
        /\ Cardinality(Before(p)) = Cardinality(Before(q)) => Before(p) = Before(q)
    BY <1>2, <2>1, FS_Subset
  <2>4. Cardinality(Before(p)) = Cardinality(Before(q))
    BY <1>2, <2>2, <2>3
  <2> QED BY <2>1, <2>3, <2>4
<1> QED BY <1>5

\* And some row has all the others ahead.
LEMMA Hindmost ==
    ASSUME ForgeKnown, NEW S \in SUBSET Pulls, S # {}
    PROVE  \E p \in S : \A q \in S : q = p \/ Ahead(q, p)
<1> DEFINE Updates == {forge[p].upd : p \in S}
<1>1. \A p \in S : p \in Nat /\ forge[p].upd \in Nat
  BY PullAssumption DEF ForgeKnown, Copy
<1>2. PICK u \in Updates : \A v \in Updates : u <= v
  <2>1. Updates \in SUBSET Nat /\ Updates # {}
    BY <1>1
  <2> HIDE DEF Updates
  <2> QED BY <2>1, LeastOf
<1> DEFINE Ties == {p \in S : forge[p].upd = u}
<1>3. PICK p \in Ties : \A q \in Ties : p <= q
  <2>1. Ties \in SUBSET Nat /\ Ties # {}
    BY <1>1, <1>2
  <2> HIDE DEF Ties
  <2> QED BY <2>1, LeastOf
<1>4. \A q \in S : q = p \/ Ahead(q, p)
  <2> TAKE q \in S
  <2>1. forge[p].upd <= forge[q].upd
    BY <1>2
  <2>2. CASE forge[q].upd = forge[p].upd
    <3>1. p <= q
      BY <1>3, <2>2
    <3> QED BY <1>1, <2>2, <3>1 DEF Ahead
  <2>3. CASE forge[q].upd # forge[p].upd
    BY <1>1, <2>1, <2>3 DEF Ahead
  <2> QED BY <2>2, <2>3
<1> QED BY <1>4

\* A page is a first part of what is behind the cursor, and not an empty one.
LEMMA PageIsFirst ==
    ASSUME ForgeKnown
    PROVE  /\ Page \subseteq Behind(read.cursor) /\ Behind(read.cursor) \subseteq Pulls
           /\ \A p \in Behind(read.cursor) \ Page, q \in Page : Ahead(q, p)
           /\ Behind(read.cursor) # {} => Page # {}
<1> DEFINE rows == Behind(read.cursor)
           Before(p) == {q \in rows : Ahead(q, p)}
<1>1. rows \subseteq Pulls /\ Page \subseteq rows
  BY DEF Behind, Page
<1>2. \A p : p \in Page <=> p \in rows /\ Cardinality(Before(p)) < PageSize
  BY DEF Page
<1>3. \A p \in rows : IsFiniteSet(Before(p)) /\ Cardinality(Before(p)) \in Nat
  BY <1>1, PullAssumption, FS_Subset, FS_CardinalityType
<1> HIDE DEF rows
<1>4. ASSUME NEW p \in rows \ Page, NEW q \in Page PROVE Ahead(q, p)
  <2> SUFFICES ASSUME ~Ahead(q, p) PROVE FALSE
    OBVIOUS
  <2>1. Ahead(p, q)
    BY <1>1, <1>4, AheadOrders
  <2>2. Before(p) \in SUBSET Before(q)
    BY <1>1, <2>1, AheadOrders
  <2>3. Cardinality(Before(p)) <= Cardinality(Before(q))
    <3> HIDE DEF Before
    <3> QED BY <1>1, <1>3, <2>2, FS_Subset
  <2>4. Cardinality(Before(q)) < PageSize /\ ~(Cardinality(Before(p)) < PageSize)
    BY <1>2, <1>4
  <2> QED BY <1>1, <1>3, <2>3, <2>4, PullAssumption
<1>5. ASSUME rows # {} PROVE Page # {}
  <2>1. PICK p \in rows : \A q \in rows : ~Ahead(q, p)
    BY <1>1, <1>5, Foremost
  <2>2. Before(p) = {}
    BY <2>1
  <2>3. Cardinality(Before(p)) = 0
    BY <2>2, FS_EmptySet
  <2> QED BY <1>2, <2>1, <2>3, PullAssumption
<1> QED BY <1>1, <1>4, <1>5 DEF rows

\* Its first and its last row.
LEMMA PageEnds ==
    ASSUME ForgeKnown, Page # {}
    PROVE  /\ FirstRow \in Page /\ \A q \in Page : q = FirstRow \/ Ahead(FirstRow, q)
           /\ LastRow \in Page /\ \A q \in Page : q = LastRow \/ Ahead(q, LastRow)
<1>1. Page \in SUBSET Pulls
  BY PageIsFirst
<1>2. \E p \in Page : \A q \in Page : q = p \/ Ahead(p, q)
  BY <1>1, Foremost, AheadOrders
<1>3. \E p \in Page : \A q \in Page : q = p \/ Ahead(q, p)
  BY <1>1, Hindmost
<1> QED BY <1>2, <1>3 DEF FirstRow, LastRow

\* What a page keeps is behind its cursor and not past the end.
LEMMA KeptIsWithin ==
    ASSUME ForgeKnown
    PROVE  \A p \in Kept : p \in Page /\ p \in Pulls /\ ~PastEnd(p)
BY PageIsFirst, AheadOrders DEF Kept, Stops

\* A row behind the cursor and not past the end is kept, or the walk goes on
\* behind a row that is ahead of it.
LEMMA KeptOrBeyond ==
    ASSUME ForgeKnown, ReaderKnown, NEW p \in Behind(read.cursor), ~PastEnd(p)
    PROVE  \/ p \in Kept
           \/ /\ ~Ends /\ Page # {} /\ p \notin Page /\ LastRow \in Page /\ Ahead(LastRow, p)
              /\ p \in Behind(EndCursor)
<1>0. p \in Pulls /\ Page \subseteq Pulls /\ \A q \in Pulls : q \in Nat /\ forge[q].upd \in Nat
  BY PageIsFirst, PullAssumption DEF ForgeKnown, Copy
<1>1. \A q \in Stops : q \in Pulls /\ Ahead(p, q)
  <2> SUFFICES ASSUME NEW q \in Page, PastEnd(q) PROVE Ahead(p, q)
    BY <1>0 DEF Stops
  <2>1. From \in Nat /\ read.newest \in Nat /\ q \in Pulls
    BY <1>0, PullAssumption DEF ReaderKnown
  <2>2. forge[p].upd > forge[q].upd
    BY <1>0, <2>1 DEF PastEnd
  <2> QED BY <2>2 DEF Ahead
<1>2. CASE p \in Page
  BY <1>1, <1>2 DEF Kept
<1>3. CASE p \notin Page
  <2>1. Page # {} /\ \A q \in Page : Ahead(q, p)
    BY <1>3, PageIsFirst
  <2>2. Stops = {}
    BY <1>0, <1>1, <2>1, AheadOrders DEF Stops
  <2>3. ~Ends
    BY <1>3, <2>2 DEF Ends, HasNextPage
  <2>4. LastRow \in Page /\ Ahead(LastRow, p)
    BY <2>1, PageEnds
  <2>5. p \in Behind(EndCursor)
    <3>1. EndCursor # Top /\ EndCursor.upd = forge[LastRow].upd /\ EndCursor.id = LastRow
      <4>1. EndCursor \in [upd : Nat, id : Nat]
        BY <1>0, <2>4 DEF EndCursor
      <4> QED BY <4>1, PullAssumption DEF EndCursor
    <3>2. forge[p].upd # 0
      BY DEF Behind
    <3> QED BY <1>0, <2>4, <3>1, <3>2 DEF Behind, Ahead
  <2> QED BY <1>3, <2>1, <2>3, <2>4, <2>5
<1> QED BY <1>2, <1>3

\* A page that does not end a walk has a last row for the cursor to stand at.
LEMMA CursorStands ==
    ASSUME ForgeKnown, ~Ends
    PROVE  /\ Page # {} /\ LastRow \in Page /\ LastRow \in Pulls /\ EndCursor \in Cursor
           /\ EndCursor.upd = forge[LastRow].upd
           /\ \A p \in Page : forge[p].upd >= forge[LastRow].upd
<1>1. Page # {}
  BY PageIsFirst DEF Ends, HasNextPage
<1>2. LastRow \in Page /\ \A q \in Page : q = LastRow \/ Ahead(q, LastRow)
  BY <1>1, PageEnds
<1>3. Page \subseteq Pulls
  BY PageIsFirst
<1>4. \A p \in Pulls : p \in Nat /\ forge[p].upd \in Nat
  BY PullAssumption DEF ForgeKnown, Copy
<1>5. \A p \in Page : forge[p].upd >= forge[LastRow].upd
  BY <1>2, <1>3, <1>4, AheadOrders
<1> QED BY <1>1, <1>2, <1>3, <1>4, <1>5 DEF EndCursor, Cursor

\* Copies stay known, and never ahead of the forge, when a page is kept.
LEMMA KeepKnown ==
    ASSUME ForgeKnown, ReaderKnown, CopiesPast, NEW q \in Queries
    PROVE  /\ Keep(got[q]) \in [Pulls -> Copy \cup {NoCopy}]
           /\ \A p \in Pulls : /\ p \in Kept => Keep(got[q])[p] = forge[p]
                               /\ p \notin Kept => Keep(got[q])[p] = got[q][p]
                               /\ Keep(got[q])[p] # NoCopy => Keep(got[q])[p].upd <= forge[p].upd
                               /\ forge[p] # NoCopy
<1>1. \A p \in Pulls : forge[p] \in Copy /\ forge[p].upd \in Nat /\ forge[p] # NoCopy
  BY PullAssumption DEF ForgeKnown, Copy
<1>2. got[q] \in [Pulls -> Copy \cup {NoCopy}]
  BY DEF ReaderKnown
<1> QED BY <1>1, <1>2 DEF Keep, CopiesPast

\* A page finds the forge as it is and leaves it so.
LEMMA PageKnown ==
    ASSUME ForgeKnown, ReaderKnown, CopiesPast, WalkPage \/ RereadPage
    PROVE  ForgeKnown' /\ ReaderKnown' /\ CopiesPast' /\ read'.query \in {read.query, "history"}
<1>1. read.query \in Queries /\ read.pages \in 0 .. MaxPages - 1 /\ 0 \in 0 .. MaxPages - 1
  BY PullAssumption DEF ReaderKnown
<1>2. ForgeKnown'
  BY DEF ForgeKnown, WalkPage, RereadPage
<1>3. Newest \in 0 .. LastSecond
  <2>1. ASSUME Page # {} PROVE forge[FirstRow].upd \in 0 .. LastSecond
    <3>1. FirstRow \in Pulls
      BY <2>1, PageEnds, PageIsFirst
    <3> QED BY <3>1, PullAssumption DEF ForgeKnown, Copy
  <2>2. read.newest \in 0 .. LastSecond
    BY DEF ReaderKnown
  <2> QED BY <2>1, <2>2 DEF Newest
<1>4. got' \in [Queries -> [Pulls -> Copy \cup {NoCopy}]]
  <2>1. got' = Nothing \/ got' = [got EXCEPT ![read.query] = Keep(got[read.query])]
    BY DEF WalkPage, RereadPage
  <2>2. Keep(got[read.query]) \in [Pulls -> Copy \cup {NoCopy}]
    BY <1>1, KeepKnown
  <2>3. got \in [Queries -> [Pulls -> Copy \cup {NoCopy}]]
    BY DEF ReaderKnown
  <2>4. Nothing \in [Queries -> [Pulls -> Copy \cup {NoCopy}]]
    BY DEF Nothing
  <2> QED BY <2>1, <2>2, <2>3, <2>4
<1>5. CopiesPast'
  <2> SUFFICES ASSUME NEW q \in Queries, NEW p \in Pulls, got'[q][p] # NoCopy
               PROVE  got'[q][p].upd <= forge'[p].upd
    BY DEF CopiesPast
  <2>1. got' = Nothing \/ got' = [got EXCEPT ![read.query] = Keep(got[read.query])]
    BY DEF WalkPage, RereadPage
  <2>2. got'[q][p] = got[q][p] \/ got'[q][p] = Keep(got[q])[p]
    BY <2>1 DEF Nothing, ReaderKnown
  <2>3. forge' = forge
    BY DEF WalkPage, RereadPage
  <2> QED BY <2>2, <2>3, KeepKnown DEF CopiesPast
<1>6. backTo' \in [Queries -> Nat]
  <2>1. OutOfPages => forge[LastRow].upd \in Nat
    BY CursorStands, PullAssumption DEF OutOfPages, ForgeKnown, Copy
  <2> QED BY <1>1, <2>1 DEF ReaderKnown, WalkPage, RereadPage
<1>7. seen' \in [first : [Pulls -> Nat], mid : [Pulls -> Nat], moves : [Pulls -> 0 .. 2], cut : BOOLEAN]
  <2>1. Times \in [Pulls -> Nat] /\ Zero \in [Pulls -> Nat] /\ Zero \in [Pulls -> 0 .. 2]
    BY DEF Times, Zero, ForgeKnown, Copy
  <2>2. OutOfPages \in BOOLEAN
    BY DEF OutOfPages, Ends, HasNextPage
  <2>3. CASE RereadPage
    BY <2>3 DEF ReaderKnown, RereadPage
  <2>4. CASE WalkPage /\ read.query # "pulls"
    <3>1. seen' = Forgotten
      BY <2>4 DEF WalkPage
    <3> QED BY <2>1, <3>1 DEF Forgotten
  <2>5. CASE WalkPage /\ read.query = "pulls"
    <3>1. PICK f, m \in [Pulls -> Nat], v \in [Pulls -> 0 .. 2] :
            seen' = [first |-> f, mid |-> m, moves |-> v, cut |-> OutOfPages]
      BY <2>1, <2>5 DEF WalkPage, ReaderKnown
    <3> QED BY <2>2, <3>1
  <2> QED BY <2>3, <2>4, <2>5
<1>8. /\ read' \in [phase : {"walk", "reread", "done", "failed"}, query : Queries,
                    pages : 0 .. MaxPages - 1, cursor : Cursor \cup {Top}, newest : 0 .. LastSecond]
      /\ read'.query \in {read.query, "history"}
  <2>0. 0 \in 0 .. LastSecond /\ "pulls" \in Queries /\ "history" \in Queries
    BY PullAssumption DEF Queries
  <2>1. \A kept : /\ Finished(kept) \in [phase : {"walk", "reread", "done", "failed"}, query : Queries,
                       pages : 0 .. MaxPages - 1, cursor : Cursor \cup {Top}, newest : 0 .. LastSecond]
                  /\ Finished(kept).query \in {read.query, "history"}
    BY <1>1, <2>0 DEF ReaderKnown, Finished
  <2>2. ~Ends => EndCursor \in Cursor
    BY CursorStands
  <2>3. (~Ends /\ ~OutOfPages) => read.pages + 1 \in 0 .. MaxPages - 1
    BY <1>1, PullAssumption DEF OutOfPages
  <2>4. CASE WalkPage
    <3>1. CASE ~Ends /\ ~OutOfPages
      <4>1. read' = [read EXCEPT !.pages = @ + 1, !.cursor = EndCursor, !.newest = Newest]
        BY <2>4, <3>1 DEF WalkPage
      <4> QED BY <1>3, <2>2, <2>3, <3>1, <4>1 DEF ReaderKnown
    <3>2. CASE ~(~Ends /\ ~OutOfPages) /\ Newest = 0
      <4>1. read' = Finished(Keep(got[read.query]))
        BY <2>4, <3>2 DEF WalkPage
      <4> QED BY <2>1, <4>1
    <3>3. CASE ~(~Ends /\ ~OutOfPages) /\ Newest # 0
      <4>1. read' = [read EXCEPT !.phase = "reread", !.pages = 0, !.cursor = Top, !.newest = Newest]
        BY <2>4, <3>3 DEF WalkPage
      <4> QED BY <1>1, <1>3, <4>1 DEF ReaderKnown
    <3> QED BY <3>1, <3>2, <3>3
  <2>5. CASE RereadPage
    <3>1. CASE Ends
      <4>1. read' = Finished(Keep(got[read.query]))
        BY <2>5, <3>1 DEF RereadPage
      <4> QED BY <2>1, <4>1
    <3>2. CASE ~Ends /\ OutOfPages
      <4>1. read' = GivenUp
        BY <2>5, <3>2 DEF RereadPage
      <4> QED BY <1>1, <2>0, <4>1 DEF GivenUp, ReaderKnown
    <3>3. CASE ~Ends /\ ~OutOfPages
      <4>1. read' = [read EXCEPT !.pages = @ + 1, !.cursor = EndCursor]
        BY <2>5, <3>3 DEF RereadPage
      <4> QED BY <2>2, <2>3, <3>3, <4>1 DEF ReaderKnown
    <3> QED BY <3>1, <3>2, <3>3
  <2> QED BY <2>4, <2>5
<1> QED BY <1>2, <1>4, <1>5, <1>6, <1>7, <1>8 DEF ReaderKnown

\* What the first page of a base walk, or the walk before it, says of the forge.
LEMMA WalkBegins ==
    ASSUME PullInv, read.query = "pulls", read.phase = "walk"
    PROVE  /\ Newest \in Nat
           /\ Newest = 0 => /\ read.pages = 0 /\ Page = {} /\ \A p \in Pulls : forge[p].upd = 0
           /\ read.pages > 0 => Newest = read.newest
           /\ \A p \in Pulls : forge[p].upd > Newest => forge[p].upd >= From
           /\ \A p \in Page : forge[p].upd <= Newest
<1>0. /\ ForgeKnown /\ ReaderKnown /\ Walking
  BY DEF PullInv
<1>1. \A p \in Pulls : p \in Nat /\ forge[p].upd \in Nat
  BY <1>0, PullAssumption DEF ForgeKnown, Copy
<1>2. read.newest \in Nat /\ read.pages \in Nat /\ Page \subseteq Pulls /\ From \in Nat
  BY <1>0, PageIsFirst, PullAssumption DEF ReaderKnown
<1>3. CASE read.pages > 0
  <2>1. Newest = read.newest /\ read.newest > 0
    BY <1>0, <1>3 DEF Newest, Walking, Begun
  <2>2. \A p \in Pulls : forge[p].upd > Newest => forge[p].upd >= From
    BY <1>0, <1>3, <2>1 DEF Walking, Begun
  <2>3. \A p \in Page : forge[p].upd <= Newest
    <3> TAKE p \in Page
    <3>1. p \in Behind(read.cursor) /\ p \in Pulls
      BY <1>0, <1>2, PageIsFirst
    <3>2. read.cursor \in Cursor /\ read.cursor.upd <= read.newest
      BY <1>0, <1>3 DEF Walking
    <3>3. read.cursor # Top
      BY <3>2, PullAssumption DEF Cursor
    <3>4. forge[p].upd <= read.cursor.upd
      BY <1>1, <3>1, <3>2, <3>3 DEF Behind, Cursor
    <3>5. read.cursor.upd \in Nat
      BY <3>2 DEF Cursor
    <3> QED BY <1>1, <1>2, <2>1, <3>1, <3>2, <3>4, <3>5
  <2> QED BY <1>2, <1>3, <2>1, <2>2, <2>3
<1>4. CASE read.pages = 0
  <2>1. read.newest = 0 /\ read.cursor = Top
    BY <1>0, <1>4 DEF Walking
  <2>2. \A p \in Pulls : forge[p].upd # 0 => p \in Behind(read.cursor)
    BY <2>1 DEF Behind
  <2>3. CASE Page = {}
    <3>1. \A p \in Pulls : forge[p].upd = 0
      BY <1>0, <2>2, <2>3, PageIsFirst
    <3>2. Newest = 0
      BY <2>1, <2>3 DEF Newest
    <3> QED BY <1>2, <1>4, <2>3, <3>1, <3>2
  <2>4. CASE Page # {}
    <3>1. Newest = forge[FirstRow].upd
      BY <1>4, <2>4 DEF Newest
    <3>2. /\ FirstRow \in Page /\ FirstRow \in Pulls
          /\ \A q \in Page : q = FirstRow \/ Ahead(FirstRow, q)
      BY <1>0, <1>2, <2>4, PageEnds
    <3>3. forge[FirstRow].upd # 0
      BY <1>0, <3>2, PageIsFirst DEF Behind
    <3>4. \A p \in Behind(read.cursor) : p = FirstRow \/ Ahead(FirstRow, p)
      BY <1>0, <3>2, PageIsFirst
    <3>5. \A p \in Pulls : forge[p].upd <= forge[FirstRow].upd
      <4> TAKE p \in Pulls
      <4>1. CASE p \in Behind(read.cursor)
        BY <1>0, <1>1, <3>2, <3>4, <4>1, AheadOrders
      <4>2. CASE p \notin Behind(read.cursor)
        BY <1>1, <2>2, <3>2, <4>2
      <4> QED BY <4>1, <4>2
    <3>6. \A p \in Pulls : ~(forge[p].upd > forge[FirstRow].upd)
      BY <1>1, <3>2, <3>5
    <3> QED BY <1>1, <1>2, <1>4, <3>1, <3>2, <3>3, <3>5, <3>6
  <2> QED BY <2>3, <2>4
<1> QED BY <1>2, <1>3, <1>4

\* What did not move since the first page is, after a page, held or behind a row
\* ahead of it; what moved once is newer than all the walk began with.
LEMMA WalkHolds ==
    ASSUME PullInv, read.query = "pulls", WalkPage, NEW p \in Pulls
    PROVE  /\ seen'.moves[p] = 0 => forge[p].upd = seen'.first[p]
           /\ seen'.moves[p] = 0 /\ seen'.first[p] >= From =>
                \/ got'["pulls"][p] # NoCopy /\ got'["pulls"][p].upd = seen'.first[p]
                \/ /\ ~Ends /\ LastRow \in Page /\ Ahead(LastRow, p) /\ p \in Behind(EndCursor)
           /\ seen'.moves[p] = 1 => forge[p].upd > Newest
<1>0. /\ ForgeKnown /\ ReaderKnown /\ CopiesPast /\ Walking /\ read.phase = "walk"
  BY DEF PullInv, WalkPage
<1>1. From \in Nat \ {0} /\ forge[p].upd \in Nat /\ read.pages \in Nat
  BY <1>0, PullAssumption DEF ForgeKnown, Copy, ReaderKnown
<1>2. /\ seen'.first = IF read.pages = 0 THEN Times ELSE seen.first
      /\ seen'.moves = IF read.pages = 0 THEN Zero ELSE seen.moves
      /\ got'["pulls"] = Keep(got["pulls"])
  BY <1>0 DEF WalkPage, ReaderKnown, Queries
<1>3. seen'.moves[p] = 0 =>
        /\ forge[p].upd = seen'.first[p]
        /\ seen'.first[p] >= From =>
             \/ got["pulls"][p] # NoCopy /\ got["pulls"][p].upd = seen'.first[p]
             \/ p \in Behind(read.cursor)
  <2>1. CASE read.pages = 0
    <3>1. seen'.first[p] = forge[p].upd /\ read.cursor = Top
      BY <1>0, <1>2, <2>1 DEF Times, Walking
    <3>2. forge[p].upd >= From => p \in Behind(read.cursor)
      BY <1>1, <3>1 DEF Behind
    <3> QED BY <3>1, <3>2
  <2>2. CASE read.pages > 0
    BY <1>0, <1>2, <2>2 DEF Walking
  <2> QED BY <1>1, <2>1, <2>2
<1>4. ASSUME seen'.moves[p] = 0, seen'.first[p] >= From
      PROVE  \/ got'["pulls"][p] # NoCopy /\ got'["pulls"][p].upd = seen'.first[p]
             \/ /\ ~Ends /\ LastRow \in Page /\ Ahead(LastRow, p) /\ p \in Behind(EndCursor)
  <2>1. /\ p \in Kept => got'["pulls"][p] = forge[p] /\ forge[p] # NoCopy
        /\ p \notin Kept => got'["pulls"][p] = got["pulls"][p]
    BY <1>0, <1>2, KeepKnown DEF Queries
  <2>2. forge[p].upd = seen'.first[p]
    BY <1>3, <1>4
  <2>3. CASE p \in Kept
    BY <2>1, <2>2, <2>3
  <2>4. CASE p \notin Kept /\ p \notin Behind(read.cursor)
    BY <1>3, <1>4, <2>1, <2>4
  <2>5. CASE p \notin Kept /\ p \in Behind(read.cursor)
    <3>1. ~PastEnd(p)
      BY <1>0, <1>1, <1>4, <2>2 DEF PastEnd
    <3> QED BY <1>0, <2>5, <3>1, KeptOrBeyond
  <2> QED BY <2>3, <2>4, <2>5
<1>5. ASSUME seen'.moves[p] = 1 PROVE forge[p].upd > Newest
  <2>1. read.pages # 0
    BY <1>2, <1>5 DEF Zero
  <2>2. read.pages > 0 /\ seen.moves[p] = 1
    BY <1>1, <1>2, <1>5, <2>1
  <2>3. Newest = read.newest
    BY <2>2, <1>0, WalkBegins
  <2> QED BY <1>0, <2>2, <2>3 DEF Walking
<1> QED BY <1>3, <1>4, <1>5

\* A walk keeps nothing older than its window, nor than the row it stands at.
LEMMA WalkReaches ==
    ASSUME PullInv, read.query = "pulls", WalkPage, NEW p \in Pulls, got'["pulls"][p] # NoCopy
    PROVE  /\ got'["pulls"][p].upd \in Nat /\ got'["pulls"][p].upd >= From
           /\ ~Ends => got'["pulls"][p].upd >= forge[LastRow].upd
<1>0. /\ ForgeKnown /\ ReaderKnown /\ CopiesPast /\ ReachKept /\ Walking /\ read.phase = "walk"
  BY DEF PullInv, WalkPage
<1>1. /\ From \in Nat /\ read.pages \in Nat /\ \A q \in Pulls : q \in Nat /\ forge[q].upd \in Nat
  BY <1>0, PullAssumption DEF ForgeKnown, Copy, ReaderKnown
<1>2. got'["pulls"] = Keep(got["pulls"])
  BY <1>0 DEF WalkPage, ReaderKnown, Queries
<1>3. /\ p \in Kept => got'["pulls"][p] = forge[p]
      /\ p \notin Kept => got'["pulls"][p] = got["pulls"][p]
  BY <1>0, <1>2, KeepKnown DEF Queries
<1>4. CASE p \in Kept
  <2>1. p \in Page /\ ~PastEnd(p)
    BY <1>0, <1>4, KeptIsWithin
  <2>2. forge[p].upd >= From
    BY <1>0, <1>1, <2>1 DEF PastEnd
  <2>3. ~Ends => forge[p].upd >= forge[LastRow].upd
    BY <1>0, <2>1, CursorStands
  <2> QED BY <1>1, <1>3, <1>4, <2>2, <2>3
<1>5. CASE p \notin Kept
  <2>1. got["pulls"][p] \in Copy /\ got["pulls"][p] # NoCopy
    BY <1>0, <1>3, <1>5 DEF ReaderKnown, Queries
  <2>2. got["pulls"][p].upd >= From /\ got["pulls"][p].upd \in Nat
    BY <1>0, <2>1 DEF ReachKept, Walking, Copy
  <2>3. read.pages > 0
    BY <1>0, <1>1, <2>1 DEF Walking
  <2>4. got["pulls"][p].upd >= read.cursor.upd /\ read.cursor \in Cursor
    BY <1>0, <2>1, <2>3 DEF Walking
  <2>5. ASSUME ~Ends PROVE read.cursor.upd >= forge[LastRow].upd
    <3>1. LastRow \in Pulls /\ LastRow \in Behind(read.cursor)
      BY <1>0, <2>5, CursorStands, PageIsFirst
    <3>2. read.cursor # Top /\ read.cursor.upd \in Nat
      BY <2>4, PullAssumption DEF Cursor
    <3> QED BY <1>1, <3>1, <3>2 DEF Behind
  <2>6. read.cursor.upd \in Nat /\ (~Ends => forge[LastRow].upd \in Nat)
    BY <1>0, <1>1, <2>4, CursorStands DEF Cursor
  <2> QED BY <1>3, <1>5, <2>2, <2>4, <2>5, <2>6
<1> QED BY <1>4, <1>5

-----------------------------------------------------------------------------
\* Each step preserves the invariant.

LEMMA UpdateKeeps ==
    ASSUME PullInv, NEW p \in Pulls, NEW t \in now .. now + 1, NEW pushed \in BOOLEAN,
           Update(p, t, pushed)
    PROVE  PullInv'
<1>0. /\ ForgeKnown /\ ReaderKnown /\ CopiesPast /\ ReachKept /\ ReadComplete
      /\ UNCHANGED <<read, got, backTo>>
  BY DEF PullInv, Update
<1>1. /\ now \in Nat /\ t \in Nat /\ t >= now /\ From \in Nat /\ read.newest \in Nat
      /\ \A q \in Pulls : q \in Nat /\ forge[q] \in Copy /\ forge[q].upd \in Nat
                          /\ forge[q].list \in Nat /\ forge[q].upd <= now
  BY <1>0, PullAssumption DEF ForgeKnown, Copy, ReaderKnown
<1>2. /\ forge'[p].upd = t /\ forge'[p].list \in {forge[p].list, forge[p].list + 1}
      /\ forge'[p] = [upd |-> forge'[p].upd, list |-> forge'[p].list]
      /\ \A q \in Pulls : q # p => forge'[q] = forge[q]
      /\ DOMAIN forge' = Pulls /\ forge' = [q \in Pulls |-> forge'[q]]
  BY DEF Update, ForgeKnown, PullInv
<1>3. ForgeKnown'
  <2>1. t <= LastSecond /\ updates' = updates + 1 /\ updates < MaxUpdates /\ now' = t
    BY DEF Update
  <2>2. /\ now' \in 1 .. LastSecond /\ now' >= From /\ updates' \in 0 .. MaxUpdates
    BY <1>0, <1>1, <2>1, PullAssumption DEF ForgeKnown
  <2>3. \A q \in Pulls : forge'[q] \in Copy /\ forge'[q].upd <= now' /\ forge'[q].list <= updates'
    <3> TAKE q \in Pulls
    <3>1. forge[q].list <= updates /\ updates \in Nat
      BY <1>0, PullAssumption DEF ForgeKnown
    <3>2. CASE q = p
      <4>1. forge'[p].list \in Nat /\ forge'[p].list <= updates'
        BY <1>1, <1>2, <2>1, <3>1, <3>2
      <4>2. forge'[p] \in Copy
        BY <1>1, <1>2, <4>1 DEF Copy
      <4> QED BY <1>1, <1>2, <2>1, <3>2, <4>1, <4>2
    <3>3. CASE q # p
      BY <1>1, <1>2, <2>1, <3>1, <3>3
    <3> QED BY <3>2, <3>3
  <2>4. forge' \in [Pulls -> Copy]
    BY <1>2, <2>3
  <2> QED BY <2>2, <2>3, <2>4 DEF ForgeKnown
<1>4. /\ read.query # "pulls" => seen' = seen
      /\ read.query = "pulls" =>
           /\ seen'.first = seen.first /\ seen'.mid = seen.mid /\ seen'.cut = seen.cut
           /\ \A q \in Pulls : q # p => seen'.moves[q] = seen.moves[q]
           /\ seen'.moves[p] = IF seen.moves[p] = 0 /\ t > read.newest THEN 1 ELSE 2
      /\ seen' \in [first : [Pulls -> Nat], mid : [Pulls -> Nat], moves : [Pulls -> 0 .. 2], cut : BOOLEAN]
  <2>1. /\ seen \in [first : [Pulls -> Nat], mid : [Pulls -> Nat], moves : [Pulls -> 0 .. 2], cut : BOOLEAN]
        /\ seen.moves \in [Pulls -> 0 .. 2]
    BY <1>0 DEF ReaderKnown
  <2>2. CASE read.query # "pulls"
    BY <2>1, <2>2 DEF Update
  <2>3. CASE read.query = "pulls"
    <3> DEFINE once == IF seen.moves[p] = 0 /\ t > read.newest THEN 1 ELSE 2
    <3>1. seen' = [seen EXCEPT !.moves = [seen.moves EXCEPT ![p] = once]]
      BY <2>1, <2>3 DEF Update
    <3>2. once \in 0 .. 2
      OBVIOUS
    <3> HIDE DEF once
    <3>3. [seen.moves EXCEPT ![p] = once] \in [Pulls -> 0 .. 2]
      BY <2>1, <3>2
    <3>4. /\ seen' \in [first : [Pulls -> Nat], mid : [Pulls -> Nat], moves : [Pulls -> 0 .. 2], cut : BOOLEAN]
          /\ seen'.first = seen.first /\ seen'.mid = seen.mid /\ seen'.cut = seen.cut
          /\ seen'.moves = [seen.moves EXCEPT ![p] = once]
      BY <2>1, <3>1, <3>3
    <3>5. seen'.moves[p] = once /\ \A q \in Pulls : q # p => seen'.moves[q] = seen.moves[q]
      BY <2>1, <3>4
    <3> QED BY <2>3, <3>4, <3>5 DEF once
  <2> QED BY <2>2, <2>3
<1>5. ReaderKnown'
  BY <1>0, <1>4 DEF ReaderKnown
<1>6. \A q \in Pulls : forge'[q].upd \in Nat /\ forge'[q].upd >= forge[q].upd
  BY <1>1, <1>2
<1>7. CopiesPast'
  <2> SUFFICES ASSUME NEW r \in Queries, NEW q \in Pulls, got[r][q] # NoCopy
               PROVE  got[r][q].upd <= forge'[q].upd
    BY <1>0 DEF CopiesPast
  <2>1. got[r][q].upd <= forge[q].upd /\ got[r][q].upd \in Nat
    BY <1>0 DEF CopiesPast, ReaderKnown, Copy
  <2> QED BY <1>1, <1>6, <2>1
<1>8. ReachKept'
  BY <1>0 DEF ReachKept
<1>9. ASSUME Begun PROVE Begun'
  <2>1. \A q \in Pulls : forge'[q].upd > read.newest => forge'[q].upd >= From
    <3> TAKE q \in Pulls
    <3>1. now >= From
      BY <1>0 DEF ForgeKnown
    <3> QED BY <1>1, <1>2, <1>9, <3>1 DEF Begun
  <2> QED BY <1>0, <1>9, <2>1 DEF Begun
<1>10. \A q \in Pulls : q # p /\ q \in Behind(read.cursor) => q \in Behind(read.cursor)'
  BY <1>0, <1>2 DEF Behind
<1>11. ASSUME read.query = "pulls", read.phase = "walk" PROVE Walking'
  <2>0. Walking
    BY <1>11 DEF PullInv
  <2>1. ASSUME read.pages > 0, NEW q \in Pulls
        PROVE  /\ seen'.moves[q] = 0 =>
                    /\ forge'[q].upd = seen'.first[q]
                    /\ seen'.first[q] >= From =>
                         \/ got["pulls"][q] # NoCopy /\ got["pulls"][q].upd = seen'.first[q]
                         \/ q \in Behind(read.cursor)'
               /\ seen'.moves[q] = 1 => forge'[q].upd > read.newest
    <3>1. CASE q = p
      BY <1>2, <1>4, <1>11, <3>1
    <3>2. CASE q # p
      BY <1>2, <1>4, <1>10, <1>11, <2>0, <2>1, <3>2 DEF Walking
    <3> QED BY <3>1, <3>2
  <2>2. read.pages > 0 => Begun'
    BY <1>9, <2>0 DEF Walking
  <2> QED BY <1>0, <2>0, <2>1, <2>2 DEF Walking
<1>12. ASSUME read.query = "pulls", read.phase = "reread" PROVE Rereading'
  <2>0. Rereading
    BY <1>12 DEF PullInv
  <2>1. ASSUME NEW q \in Pulls, Owed(q)'
        PROVE  \/ Held(q)'
               \/ /\ seen'.moves[q] = 1 /\ forge'[q].upd = seen'.mid[q] /\ forge'[q].upd > read.newest
                  /\ q \in Behind(read.cursor)'
    <3>1. seen'.moves[q] < 2 /\ (q = p => seen.moves[q] = 0) /\ Owed(q)
      <4>1. seen.moves[q] \in 0 .. 2 /\ seen'.moves[q] < 2
        BY <1>0, <2>1 DEF ReaderKnown, Owed
      <4>2. (q = p => seen.moves[q] = 0) /\ seen.moves[q] < 2
        BY <1>4, <1>12, <4>1
      <4> QED BY <1>0, <1>4, <1>12, <2>1, <4>1, <4>2 DEF Owed
    <3>2. Held(q) => Held(q)'
      BY <1>0, <1>4, <1>12 DEF Held
    <3>3. CASE q = p
      BY <2>0, <3>1, <3>2, <3>3 DEF Rereading
    <3>4. CASE q # p
      BY <1>2, <1>4, <1>10, <1>12, <2>0, <3>1, <3>2, <3>4 DEF Rereading
    <3> QED BY <3>3, <3>4
  <2>2. Begun'
    BY <1>9, <2>0 DEF Rereading
  <2> QED BY <1>0, <2>0, <2>1, <2>2 DEF Rereading
<1>13. ReadComplete'
  <2> SUFFICES ASSUME PullsRead' PROVE \A q \in Pulls : Owed(q)' => Held(q)'
    BY DEF ReadComplete
  <2>1. PullsRead /\ read.query # "pulls"
    BY <1>0 DEF PullsRead, Update
  <2>2. seen' = seen
    BY <1>4, <2>1
  <2> QED BY <1>0, <2>1, <2>2 DEF ReadComplete, Owed, Held
<1> QED BY <1>0, <1>3, <1>5, <1>7, <1>8, <1>11, <1>12, <1>13 DEF PullInv

\* A page of the history's walk or re-read: nothing of the base read changes, and
\* its end is past.
LEMMA HistoryPageKeeps ==
    ASSUME PullInv, read.query # "pulls", WalkPage \/ RereadPage
    PROVE  PullInv'
<1>0. ForgeKnown /\ ReaderKnown /\ CopiesPast /\ ReachKept
  BY DEF PullInv
<1>1. ForgeKnown' /\ ReaderKnown' /\ CopiesPast' /\ read.query = "history" /\ read'.query = "history"
  BY <1>0, PageKnown DEF ReaderKnown, Queries
<1>2. got'["pulls"] = got["pulls"] \/ got' = Nothing
  BY <1>0, <1>1 DEF WalkPage, RereadPage, ReaderKnown, Queries
<1>3. backTo'["pulls"] = backTo["pulls"]
  BY <1>0, <1>1 DEF WalkPage, RereadPage, ReaderKnown, Queries
<1>4. ReachKept'
  BY <1>0, <1>2, <1>3 DEF ReachKept, Nothing, Queries
<1>5. read'.phase = "walk" => read'.pages > 0
  <2>0. read.pages \in Nat
    BY <1>0, PullAssumption DEF ReaderKnown
  <2>1. CASE WalkPage
    BY <1>0, <1>1, <2>0, <2>1 DEF WalkPage, Finished, ReaderKnown
  <2>2. CASE RereadPage
    BY <1>0, <1>1, <2>0, <2>2 DEF RereadPage, Finished, GivenUp, ReaderKnown
  <2> QED BY <2>1, <2>2
<1>6. ~PullsRead'
  BY <1>1, <1>5 DEF PullsRead
<1> QED BY <1>1, <1>4, <1>6 DEF PullInv, ReadComplete

\* A page of the base walk.
LEMMA WalkPageKeeps ==
    ASSUME PullInv, read.query = "pulls", WalkPage
    PROVE  PullInv'
<1>0. /\ ForgeKnown /\ ReaderKnown /\ CopiesPast /\ Walking /\ read.phase = "walk"
      /\ forge' = forge
  BY DEF PullInv, WalkPage
<1>1. ForgeKnown' /\ ReaderKnown' /\ CopiesPast'
  BY <1>0, PageKnown
<1>2. /\ From \in Nat \ {0} /\ read.pages \in Nat /\ Newest \in Nat
      /\ \A q \in Pulls : q \in Nat /\ forge[q].upd \in Nat
      /\ seen'.first \in [Pulls -> Nat] /\ seen'.moves \in [Pulls -> 0 .. 2]
  BY <1>0, <1>1, WalkBegins, PullAssumption DEF ForgeKnown, Copy, ReaderKnown
<1>3. backTo'["pulls"] = IF OutOfPages THEN forge[LastRow].upd ELSE From
  BY <1>0 DEF WalkPage, Walking, ReaderKnown, Queries
<1>4. ReachKept'
  <2> SUFFICES ASSUME NEW q \in Pulls, got'["pulls"][q] # NoCopy
               PROVE  got'["pulls"][q].upd >= backTo'["pulls"]
    BY DEF ReachKept
  <2> QED BY <1>3, WalkReaches DEF OutOfPages
<1>5. CASE ~Ends /\ ~OutOfPages
  <2>1. /\ read' = [read EXCEPT !.pages = @ + 1, !.cursor = EndCursor, !.newest = Newest]
        /\ read'.pages = read.pages + 1 /\ read'.cursor = EndCursor /\ read'.newest = Newest
        /\ read'.query = "pulls" /\ read'.phase = "walk"
    BY <1>0, <1>5 DEF WalkPage, ReaderKnown
  <2>2. EndCursor \in Cursor /\ EndCursor.upd = forge[LastRow].upd /\ LastRow \in Page
    BY <1>0, <1>5, CursorStands
  <2>3. Newest > 0
    BY <1>0, <1>2, <2>2, WalkBegins
  <2>4. Begun'
    BY <1>0, <2>1, <2>3, WalkBegins DEF Begun
  <2>5. EndCursor.upd <= Newest
    BY <1>0, <2>2, WalkBegins
  <2>6. \A q \in Pulls : q \in Behind(EndCursor) => q \in Behind(read.cursor)'
    BY <1>0, <2>1 DEF Behind
  <2>7. ASSUME NEW q \in Pulls
        PROVE  /\ got'["pulls"][q] # NoCopy => got'["pulls"][q].upd >= EndCursor.upd
               /\ seen'.moves[q] = 0 =>
                    /\ forge'[q].upd = seen'.first[q]
                    /\ seen'.first[q] >= From =>
                         \/ got'["pulls"][q] # NoCopy /\ got'["pulls"][q].upd = seen'.first[q]
                         \/ q \in Behind(read.cursor)'
               /\ seen'.moves[q] = 1 => forge'[q].upd > Newest
    BY <1>0, <1>5, <2>2, <2>6, WalkReaches, WalkHolds
  <2>8. Walking'
    <3>1. backTo'["pulls"] = From /\ read'.pages # 0
      BY <1>2, <1>3, <1>5, <2>1
    <3> QED BY <2>1, <2>2, <2>4, <2>5, <2>7, <3>1 DEF Walking
  <2>9. ~PullsRead'
    BY <2>1 DEF PullsRead
  <2> QED BY <1>1, <1>4, <2>1, <2>8, <2>9 DEF PullInv, ReadComplete
<1>6. CASE ~(~Ends /\ ~OutOfPages) /\ Newest = 0
  <2>1. read.pages = 0 /\ \A q \in Pulls : forge[q].upd = 0
    BY <1>0, <1>6, WalkBegins
  <2>2. \A q \in Pulls : seen'.first[q] = 0
    BY <1>0, <2>1 DEF WalkPage, Times
  <2>3. \A q \in Pulls : ~Owed(q)'
    BY <1>2, <2>2 DEF Owed
  <2>4. read' = Finished(Keep(got["pulls"]))
    BY <1>6 DEF WalkPage
  <2>5. read'.query = "pulls" => read'.phase = "done"
    BY <1>0, <2>4 DEF Finished, ReaderKnown
  <2> QED BY <1>1, <1>4, <2>3, <2>5 DEF PullInv, ReadComplete
<1>7. CASE ~(~Ends /\ ~OutOfPages) /\ Newest # 0
  <2>1. /\ read'.newest = Newest /\ read'.cursor = Top /\ read'.query = "pulls"
        /\ read'.phase = "reread"
    BY <1>0, <1>7 DEF WalkPage, ReaderKnown
  <2>2. seen'.mid = Times /\ seen'.cut = OutOfPages
    BY <1>7 DEF WalkPage
  <2>3. Begun'
    BY <1>0, <1>2, <1>7, <2>1, WalkBegins DEF Begun
  <2>4. backTo'["pulls"] = From \/ backTo'["pulls"] <= read'.newest
    <3>1. OutOfPages => LastRow \in Page
      BY <1>0, CursorStands DEF OutOfPages
    <3> QED BY <1>0, <1>3, <2>1, <3>1, WalkBegins
  <2>5. ASSUME NEW q \in Pulls, Owed(q)'
        PROVE  \/ Held(q)'
               \/ /\ seen'.moves[q] = 1 /\ forge'[q].upd = seen'.mid[q] /\ forge'[q].upd > read'.newest
                  /\ q \in Behind(read.cursor)'
    <3>1. /\ seen'.first[q] >= From /\ (OutOfPages => seen'.first[q] > backTo'["pulls"])
          /\ seen'.moves[q] < 2 /\ seen'.mid[q] = forge[q].upd
      BY <2>2, <2>5 DEF Owed, Times
    <3>2. CASE seen'.moves[q] = 0
      <4>1. forge[q].upd = seen'.first[q]
        BY <3>2, WalkHolds
      <4>2. ~(~Ends /\ LastRow \in Page /\ Ahead(LastRow, q))
        <5> SUFFICES ASSUME ~Ends, LastRow \in Page, Ahead(LastRow, q) PROVE FALSE
          OBVIOUS
        <5>1. OutOfPages /\ LastRow \in Pulls
          BY <1>0, <1>7, CursorStands
        <5>2. forge[LastRow].upd >= forge[q].upd
          BY <1>0, <5>1, AheadOrders
        <5> QED BY <1>2, <1>3, <3>1, <4>1, <5>1, <5>2
      <4>3. got'["pulls"][q] # NoCopy /\ got'["pulls"][q].upd = seen'.first[q]
        BY <3>1, <3>2, <4>2, WalkHolds
      <4>4. got'["pulls"][q].upd >= seen'.mid[q]
        BY <1>2, <3>1, <4>1, <4>3
      <4> QED BY <4>3, <4>4 DEF Held
    <3>3. CASE seen'.moves[q] = 1
      <4>1. forge[q].upd > Newest
        BY <3>3, WalkHolds
      <4>2. q \in Behind(read.cursor)'
        BY <1>0, <1>2, <2>1, <4>1 DEF Behind
      <4> QED BY <1>0, <2>1, <3>1, <3>3, <4>1, <4>2
    <3>4. seen'.moves[q] = 0 \/ seen'.moves[q] = 1
      BY <1>2, <3>1
    <3> QED BY <3>2, <3>3, <3>4
  <2>6. Rereading'
    BY <2>3, <2>4, <2>5 DEF Rereading
  <2>7. ~PullsRead'
    BY <2>1 DEF PullsRead
  <2> QED BY <1>1, <1>4, <2>1, <2>6, <2>7 DEF PullInv, ReadComplete
<1> QED BY <1>5, <1>6, <1>7

\* A page of its re-read.
LEMMA RereadPageKeeps ==
    ASSUME PullInv, read.query = "pulls", RereadPage
    PROVE  PullInv'
<1>0. /\ ForgeKnown /\ ReaderKnown /\ CopiesPast /\ ReachKept /\ Rereading /\ read.phase = "reread"
      /\ UNCHANGED <<forge, backTo, seen>>
  BY DEF PullInv, RereadPage
<1>1. ForgeKnown' /\ ReaderKnown' /\ CopiesPast'
  BY <1>0, PageKnown
<1>2. /\ From \in Nat /\ read.newest \in Nat /\ read.newest > 0 /\ read.pages \in Nat
      /\ \A q \in Pulls : q \in Nat /\ forge[q].upd \in Nat
      /\ backTo["pulls"] \in Nat
      /\ seen.mid \in [Pulls -> Nat]
  BY <1>0, PullAssumption DEF ForgeKnown, Copy, ReaderKnown, Rereading, Begun, Queries
<1>3. ~OutOfPages => got'["pulls"] = Keep(got["pulls"])
  BY <1>0 DEF RereadPage, ReaderKnown, Queries
<1>4. \A q \in Pulls : /\ q \in Kept => Keep(got["pulls"])[q] = forge[q] /\ forge[q] # NoCopy
                       /\ q \notin Kept => Keep(got["pulls"])[q] = got["pulls"][q]
  BY <1>0, KeepKnown DEF Queries
<1>5. ReachKept'
  <2>1. CASE OutOfPages
    <3>1. got' = Nothing
      BY <2>1 DEF RereadPage
    <3> QED BY <3>1 DEF ReachKept, Nothing, Queries
  <2>2. CASE ~OutOfPages
    <3> SUFFICES ASSUME NEW q \in Pulls, got'["pulls"][q] # NoCopy
                 PROVE  got'["pulls"][q].upd >= backTo["pulls"]
      BY <1>0 DEF ReachKept
    <3>1. CASE q \in Kept
      <4>1. ~(forge[q].upd <= read.newest)
        BY <1>0, <3>1, KeptIsWithin DEF PastEnd
      <4>2. forge[q].upd > read.newest
        BY <1>2, <4>1
      <4>3. forge[q].upd >= From
        BY <1>0, <4>2 DEF Rereading, Begun
      <4>4. forge[q].upd >= backTo["pulls"]
        BY <1>0, <1>2, <4>2, <4>3 DEF Rereading
      <4> QED BY <1>3, <1>4, <2>2, <3>1, <4>4
    <3>2. CASE q \notin Kept
      BY <1>0, <1>3, <1>4, <2>2, <3>2 DEF ReachKept
    <3> QED BY <3>1, <3>2
  <2> QED BY <2>1, <2>2
<1>6. ASSUME ~OutOfPages, NEW q \in Pulls, Owed(q)'
      PROVE  \/ Held(q)'
             \/ /\ ~Ends /\ q \in Behind(EndCursor)
                /\ seen'.moves[q] = 1 /\ forge'[q].upd = seen'.mid[q] /\ forge'[q].upd > read.newest
  <2>1. Owed(q)
    BY <1>0, <1>6 DEF Owed
  <2>2. CASE Held(q)
    <3>1. got["pulls"][q] # NoCopy /\ got["pulls"][q].upd >= seen.mid[q]
      BY <2>2 DEF Held
    <3>2. got["pulls"][q].upd \in Nat /\ got["pulls"][q].upd <= forge[q].upd
      BY <1>0, <3>1 DEF ReaderKnown, CopiesPast, Copy, Queries
    <3>3. forge[q].upd >= seen.mid[q]
      BY <1>2, <3>1, <3>2
    <3> QED BY <1>0, <1>3, <1>4, <1>6, <3>1, <3>3 DEF Held
  <2>3. CASE ~Held(q)
    <3>1. /\ seen.moves[q] = 1 /\ forge[q].upd = seen.mid[q] /\ forge[q].upd > read.newest
          /\ q \in Behind(read.cursor)
      BY <1>0, <2>1, <2>3 DEF Rereading
    <3>2. ~PastEnd(q)
      BY <1>0, <1>2, <3>1 DEF PastEnd
    <3>3. CASE q \in Kept
      BY <1>0, <1>2, <1>3, <1>4, <1>6, <3>1, <3>3 DEF Held
    <3>4. CASE q \notin Kept
      BY <1>0, <3>1, <3>2, <3>4, KeptOrBeyond
    <3> QED BY <3>3, <3>4
  <2> QED BY <2>2, <2>3
<1>7. CASE Ends
  <2>1. ~OutOfPages /\ read' = Finished(Keep(got["pulls"]))
    BY <1>0, <1>7 DEF RereadPage, OutOfPages
  <2>2. read'.query = "pulls" => read'.phase = "done"
    BY <1>0, <2>1 DEF Finished, ReaderKnown
  <2>3. \A q \in Pulls : Owed(q)' => Held(q)'
    BY <1>6, <1>7, <2>1
  <2> QED BY <1>1, <1>5, <2>2, <2>3 DEF PullInv, ReadComplete
<1>8. CASE ~Ends /\ OutOfPages
  <2>1. read' = GivenUp
    BY <1>8 DEF RereadPage
  <2>2. read'.query = "pulls" /\ read'.phase = "failed"
    BY <1>0, <2>1 DEF GivenUp, ReaderKnown
  <2>3. ~PullsRead'
    BY <2>2 DEF PullsRead
  <2> QED BY <1>1, <1>5, <2>2, <2>3 DEF PullInv, ReadComplete
<1>9. CASE ~Ends /\ ~OutOfPages
  <2>1. read' = [read EXCEPT !.pages = @ + 1, !.cursor = EndCursor]
    BY <1>9 DEF RereadPage
  <2>2. /\ read'.query = "pulls" /\ read'.phase = "reread" /\ read'.newest = read.newest
        /\ read'.cursor = EndCursor
    BY <1>0, <2>1 DEF ReaderKnown
  <2>3. \A q \in Pulls : q \in Behind(EndCursor) => q \in Behind(read.cursor)'
    BY <1>0, <2>2 DEF Behind
  <2>4. Begun'
    BY <1>0, <2>2 DEF Rereading, Begun
  <2>5. Rereading'
    BY <1>0, <1>6, <1>9, <2>2, <2>3, <2>4 DEF Rereading
  <2>6. ~PullsRead'
    BY <2>2 DEF PullsRead
  <2> QED BY <1>1, <1>5, <2>2, <2>5, <2>6 DEF PullInv, ReadComplete
<1> QED BY <1>7, <1>8, <1>9

\* A page that fails ends the read with nothing.
LEMMA FailureKeeps ==
    ASSUME PullInv, PageFails
    PROVE  PullInv'
<1>0. /\ ForgeKnown /\ ReaderKnown /\ read' = GivenUp /\ got' = Nothing /\ seen' = Forgotten
      /\ UNCHANGED <<now, updates, forge, backTo>>
  BY DEF PullInv, PageFails
<1>1. /\ read'.phase = "failed" /\ read'.query = read.query
      /\ read' \in [phase : {"walk", "reread", "done", "failed"}, query : Queries,
                    pages : 0 .. MaxPages - 1, cursor : Cursor \cup {Top}, newest : 0 .. LastSecond]
  <2>1. 0 \in 0 .. MaxPages - 1 /\ 0 \in 0 .. LastSecond
    BY PullAssumption
  <2> QED BY <1>0, <2>1 DEF GivenUp, ReaderKnown
<1>2. ForgeKnown'
  BY <1>0 DEF ForgeKnown
<1>3. ReaderKnown'
  BY <1>0, <1>1 DEF ReaderKnown, Nothing, Forgotten, Zero
<1>4. CopiesPast' /\ ReachKept'
  BY <1>0 DEF CopiesPast, ReachKept, Nothing, Queries
<1>5. ~PullsRead'
  BY <1>1 DEF PullsRead
<1> QED BY <1>1, <1>2, <1>3, <1>4, <1>5 DEF PullInv, ReadComplete

LEMMA PullInitHolds == PullInit => PullInv
<1> SUFFICES ASSUME PullInit PROVE PullInv
  OBVIOUS
<1>1. ForgeKnown
  <2>1. \A t \in Opened : t \in Nat /\ t <= From + 2
    BY PullAssumption
  <2>2. \A p \in Pulls : \E t \in Opened : forge[p] = [upd |-> t, list |-> 0]
    BY DEF PullInit
  <2>3. DOMAIN forge = Pulls /\ forge = [p \in Pulls |-> forge[p]]
    BY DEF PullInit
  <2>4. \A p \in Pulls : forge[p] \in Copy /\ forge[p].upd <= From + 2 /\ forge[p].list = 0
    <3> TAKE p \in Pulls
    <3>1. PICK t \in Opened : forge[p] = [upd |-> t, list |-> 0]
      BY <2>2
    <3> QED BY <2>1, <3>1 DEF Copy
  <2>5. forge \in [Pulls -> Copy]
    BY <2>3, <2>4
  <2> QED BY <2>4, <2>5, PullAssumption DEF ForgeKnown, PullInit
<1>2. ReaderKnown
  BY PullAssumption DEF ReaderKnown, PullInit, Nothing, Forgotten, Zero, Queries
<1>3. CopiesPast /\ ReachKept
  BY DEF CopiesPast, ReachKept, PullInit, Nothing, Queries
<1>4. Walking
  BY DEF Walking, PullInit, Nothing, Queries
<1>5. ~PullsRead /\ read.phase = "walk"
  BY DEF PullsRead, PullInit
<1> QED BY <1>1, <1>2, <1>3, <1>4, <1>5 DEF PullInv, ReadComplete

\* Every reachable state satisfies the invariant.
THEOREM ReadStaysKnown == PullSpec => []PullInv
<1>1. PullInv /\ [PullNext]_pullVars => PullInv'
  <2> SUFFICES ASSUME PullInv, [PullNext]_pullVars PROVE PullInv'
    OBVIOUS
  <2>1. CASE \E p \in Pulls, t \in now .. now + 1, pushed \in BOOLEAN : Update(p, t, pushed)
    BY <2>1, UpdateKeeps
  <2>2. CASE WalkPage
    BY <2>2, WalkPageKeeps, HistoryPageKeeps
  <2>3. CASE RereadPage
    BY <2>3, RereadPageKeeps, HistoryPageKeeps
  <2>4. CASE PageFails
    BY <2>4, FailureKeeps
  <2>5. CASE UNCHANGED pullVars
    <3>0. UNCHANGED <<now, updates, forge, read, got, backTo, seen>>
      BY <2>5 DEF pullVars
    <3>1. ForgeKnown' /\ ReaderKnown' /\ CopiesPast' /\ ReachKept'
      BY <3>0 DEF PullInv, ForgeKnown, ReaderKnown, CopiesPast, ReachKept
    <3>2. \A p \in Pulls : /\ p \in Behind(read.cursor) => p \in Behind(read.cursor)'
                           /\ Owed(p)' <=> Owed(p)
                           /\ Held(p)' <=> Held(p)
      BY <3>0 DEF Behind, Owed, Held
    <3>3. Begun' <=> Begun
      BY <3>0 DEF Begun
    <3>4. (read.query = "pulls" /\ read.phase = "walk") => Walking'
      BY <3>0, <3>2, <3>3 DEF PullInv, Walking
    <3>5. (read.query = "pulls" /\ read.phase = "reread") => Rereading'
      BY <3>0, <3>2, <3>3 DEF PullInv, Rereading
    <3>6. ReadComplete'
      BY <3>0, <3>2 DEF PullInv, ReadComplete, PullsRead
    <3> QED BY <3>0, <3>1, <3>4, <3>5, <3>6 DEF PullInv
  <2> QED BY <2>1, <2>2, <2>3, <2>4, <2>5 DEF PullNext
<1> QED BY <1>1, PullInitHolds, PTL DEF PullSpec

-----------------------------------------------------------------------------
\* What a read promises.

\* A read that ends holds every pull request it owes an answer, no older than the
\* re-read: one that moved ahead of the walk's cursor is newer than all the walk
\* began with, and the re-read goes that far (internal/github/github.go: readQuery).
THEOREM ReadIsComplete == PullSpec => []ReadComplete
BY ReadStaysKnown, PTL DEF PullInv

\* Nothing a whole read holds is older than where it says it stopped, and the check
\* history it carries is that of the commits it listed
\* (internal/github/github.go: readQuery; history.go: attachHistory).
THEOREM ReadJoinsAlike == PullSpec => []JoinedAlike
<1>1. PullInv => JoinedAlike
  <2> SUFFICES ASSUME PullInv
               PROVE  /\ PullTypeOK
                      /\ \A p \in ReadPulls :
                           /\ got["pulls"][p].upd >= backTo["pulls"]
                           /\ SuitesFrom(p) # NoCopy => SuitesFrom(p) = got["pulls"][p].list
    BY DEF JoinedAlike
  <2>0. PullTypeOK
    <3>1. /\ now \in 1 .. LastSecond /\ updates \in 0 .. MaxUpdates /\ forge \in [Pulls -> Copy]
          /\ \A p \in Pulls : forge[p].upd <= now /\ forge[p].list <= updates
      BY DEF PullInv, ForgeKnown
    <3>2. \A p \in Pulls : forge[p] \in [upd : 0 .. LastSecond, list : 0 .. MaxUpdates]
      BY <3>1, PullAssumption DEF Copy
    <3>3. forge \in [Pulls -> [upd : 0 .. LastSecond, list : 0 .. MaxUpdates]]
      BY <3>1, <3>2
    <3>4. /\ read.phase \in {"walk", "reread", "done", "failed"} /\ read.query \in Queries
          /\ read.pages \in 0 .. MaxPages - 1 /\ read.newest \in 0 .. LastSecond
      BY DEF PullInv, ReaderKnown
    <3> QED BY <3>1, <3>3, <3>4 DEF PullTypeOK, PullInv, CopiesPast
  <2> SUFFICES ASSUME NEW p \in ReadPulls
               PROVE  /\ got["pulls"][p].upd >= backTo["pulls"]
                      /\ SuitesFrom(p) # NoCopy => SuitesFrom(p) = got["pulls"][p].list
    BY <2>0
  <2>1. p \in Pulls /\ got["pulls"][p] # NoCopy
    BY DEF ReadPulls
  <2>2. got["pulls"][p].upd >= backTo["pulls"]
    BY <2>1 DEF PullInv, ReachKept
  <2>3. SuitesFrom(p) # NoCopy => SuitesFrom(p) = got["pulls"][p].list
    BY DEF SuitesFrom, HistoryState, SameCommits
  <2> QED BY <2>2, <2>3
<1> QED BY <1>1, ReadStaysKnown, PTL

-----------------------------------------------------------------------------
\* Reviews: what a pull request's record still says of what happened to it.

Request ==
    [state : {"open", "closed", "merged"}, method : {"none", "merge", "squash", "rebase"},
     head : Heads, reviews : Seq(Review), stated : BOOLEAN]

\* A review that asks for changes names a commit they were asked for on, unless
\* the forge lost it; and of each of those commits some review is left, though it
\* may have lost its commit or no longer say what it asked.
RowsSound(reviews, revisions) ==
    /\ \A i \in 1 .. Len(reviews) :
         /\ reviews[i].state = "pending" => reviews[i].commit \in Heads
         /\ reviews[i].state = "changes_requested" /\ reviews[i].commit # NoHead
              => reviews[i].commit \in revisions
    /\ \A h \in revisions : \E i \in 1 .. Len(reviews) :
         reviews[i].commit \in {h, NoHead} /\ reviews[i].state \in {"changes_requested", "dismissed"}

RequestSound(k, revisions) ==
    /\ k \in Request /\ revisions \in SUBSET Heads
    /\ k.state = "merged" <=> k.method # "none"
    /\ RowsSound(k.reviews, revisions)

DeliveryInv ==
    /\ answer \in Answers
    /\ pr \in [NamedPulls -> Request] /\ asked \in [NamedPulls -> SUBSET Heads]
    /\ \A r \in NamedPulls : RequestSound(pr[r], asked[r])

\* A step changes one pull request's record.
LEMMA RequestKeeps ==
    ASSUME DeliveryInv, NEW r \in NamedPulls, NEW k, NEW a, RequestSound(k, a),
           pr' = [pr EXCEPT ![r] = k], asked' = [asked EXCEPT ![r] = a], UNCHANGED answer
    PROVE  DeliveryInv'
<1>1. k \in Request /\ a \in SUBSET Heads
  BY DEF RequestSound
<1>2. pr' \in [NamedPulls -> Request] /\ asked' \in [NamedPulls -> SUBSET Heads]
  BY <1>1 DEF DeliveryInv
<1>3. ASSUME NEW q \in NamedPulls PROVE RequestSound(pr'[q], asked'[q])
  BY DEF DeliveryInv
<1> QED BY <1>2, <1>3 DEF DeliveryInv

\* A review row that is put in place of another leaves the record sound when what
\* it asks for is kept and what the old one asked for is still told of.
LEMMA RowKeeps ==
    ASSUME DeliveryInv, NEW r \in NamedPulls, NEW i \in DOMAIN Reviews(r),
           NEW row \in Review, NEW a \in SUBSET Heads, asked[r] \subseteq a,
           row.state = "pending" => row.commit \in Heads,
           row.state = "changes_requested" /\ row.commit # NoHead => row.commit \in a,
           Reviews(r)[i].state \in {"changes_requested", "dismissed"} =>
             /\ row.state \in {"changes_requested", "dismissed"}
             /\ row.commit \in {Reviews(r)[i].commit, NoHead},
           a # asked[r] => row.state = "changes_requested" /\ a \subseteq asked[r] \cup {row.commit},
           pr' = [pr EXCEPT ![r].reviews[i] = row], asked' = [asked EXCEPT ![r] = a], UNCHANGED answer
    PROVE  DeliveryInv'
<1> DEFINE old == Reviews(r)
           new == [old EXCEPT ![i] = row]
           k == [pr[r] EXCEPT !.reviews = new]
<1>1. /\ pr[r] \in Request /\ asked[r] \in SUBSET Heads /\ old \in Seq(Review)
      /\ pr[r].state = "merged" <=> pr[r].method # "none"
      /\ RowsSound(old, asked[r])
  BY DEF DeliveryInv, RequestSound, Reviews, Request
<1>2. i \in 1 .. Len(old) /\ Len(old) \in Nat
  BY <1>1, LenProperties
<1>3. /\ new \in Seq(Review) /\ Len(new) = Len(old)
      /\ \A j \in 1 .. Len(old) : new[j] = IF j = i THEN row ELSE old[j]
  BY <1>1, <1>2, ExceptSeq
<1>4. k \in Request /\ k.state = pr[r].state /\ k.method = pr[r].method /\ k.reviews = new
  BY <1>1, <1>3 DEF Request
<1>5. pr' = [pr EXCEPT ![r] = k]
  BY DEF Reviews
<1> HIDE DEF old, new, k
<1>6. ASSUME NEW j \in 1 .. Len(new)
      PROVE  /\ new[j].state = "pending" => new[j].commit \in Heads
             /\ new[j].state = "changes_requested" /\ new[j].commit # NoHead => new[j].commit \in a
  BY <1>1, <1>3 DEF RowsSound
<1>7. ASSUME NEW h \in a
      PROVE  \E j \in 1 .. Len(new) :
               new[j].commit \in {h, NoHead} /\ new[j].state \in {"changes_requested", "dismissed"}
  <2>1. CASE h \in asked[r]
    <3>1. PICK j \in 1 .. Len(old) :
            old[j].commit \in {h, NoHead} /\ old[j].state \in {"changes_requested", "dismissed"}
      BY <1>1, <2>1 DEF RowsSound
    <3>2. new[j].commit \in {h, NoHead} /\ new[j].state \in {"changes_requested", "dismissed"}
      BY <1>3, <3>1 DEF old
    <3> QED BY <1>3, <3>1, <3>2
  <2>2. CASE h \notin asked[r]
    <3>1. row.state = "changes_requested" /\ row.commit = h
      BY <2>2
    <3> QED BY <1>2, <1>3, <3>1
  <2> QED BY <2>1, <2>2
<1>8. RowsSound(new, a)
  BY <1>6, <1>7 DEF RowsSound
<1>9. RequestSound(k, a)
  BY <1>1, <1>4, <1>8 DEF RequestSound
<1> QED BY <1>5, <1>9, RequestKeeps

LEMMA SubmitKeeps ==
    ASSUME DeliveryInv, NEW r \in NamedPulls, NEW state \in Verdicts \cup {"pending"},
           Submit(r, state), UNCHANGED answer
    PROVE  DeliveryInv'
<1> DEFINE old == Reviews(r)
           row == [state |-> state, commit |-> pr[r].head]
           new == Append(old, row)
           k == [pr[r] EXCEPT !.reviews = new]
           a == IF state = "changes_requested" THEN asked[r] \cup {pr[r].head} ELSE asked[r]
<1>1. /\ pr[r] \in Request /\ asked[r] \in SUBSET Heads /\ old \in Seq(Review)
      /\ pr[r].state = "merged" <=> pr[r].method # "none"
      /\ RowsSound(old, asked[r]) /\ pr[r].head \in Heads
  BY DEF DeliveryInv, RequestSound, Reviews, Request
<1>2. row \in Review /\ row.state = state /\ row.commit = pr[r].head /\ Len(old) \in Nat
  BY <1>1, DeliveryAssumption, LenProperties DEF Review, ReviewStates
<1>3. /\ new \in Seq(Review) /\ Len(new) = Len(old) + 1
      /\ \A j \in 1 .. Len(old) : new[j] = old[j]
      /\ new[Len(old) + 1] = row
  BY <1>1, <1>2, AppendProperties
<1>4. k \in Request /\ k.state = pr[r].state /\ k.method = pr[r].method /\ k.reviews = new
  BY <1>1, <1>3 DEF Request
<1>5. pr' = [pr EXCEPT ![r] = k] /\ asked' = [asked EXCEPT ![r] = a] /\ a \in SUBSET Heads
  BY <1>1 DEF Submit, Reviews, DeliveryInv
<1>6. /\ asked[r] \subseteq a
      /\ \A h \in a : h \in asked[r] \/ (h = pr[r].head /\ state = "changes_requested")
      /\ state = "changes_requested" => pr[r].head \in a
  OBVIOUS
<1> HIDE DEF old, row, new, k, a
<1>7. ASSUME NEW j \in 1 .. Len(new)
      PROVE  /\ new[j].state = "pending" => new[j].commit \in Heads
             /\ new[j].state = "changes_requested" /\ new[j].commit # NoHead => new[j].commit \in a
  <2>1. CASE j \in 1 .. Len(old)
    BY <1>1, <1>3, <1>6, <2>1 DEF RowsSound
  <2>2. CASE j = Len(old) + 1
    BY <1>1, <1>2, <1>3, <1>6, <2>2
  <2> QED BY <1>2, <1>3, <2>1, <2>2
<1>8. ASSUME NEW h \in a
      PROVE  \E j \in 1 .. Len(new) :
               new[j].commit \in {h, NoHead} /\ new[j].state \in {"changes_requested", "dismissed"}
  <2>1. CASE h \in asked[r]
    <3>1. PICK j \in 1 .. Len(old) :
            old[j].commit \in {h, NoHead} /\ old[j].state \in {"changes_requested", "dismissed"}
      BY <1>1, <2>1 DEF RowsSound
    <3> QED BY <1>2, <1>3, <3>1
  <2>2. CASE h \notin asked[r]
    <3>1. Len(old) + 1 \in 1 .. Len(new) /\ new[Len(old) + 1] = row
      BY <1>2, <1>3
    <3> QED BY <1>2, <1>6, <2>2, <3>1
  <2> QED BY <2>1, <2>2
<1>9. RowsSound(new, a)
  BY <1>7, <1>8 DEF RowsSound
<1>10. RequestSound(k, a)
  BY <1>1, <1>4, <1>5, <1>9 DEF RequestSound
<1> QED BY <1>5, <1>10, RequestKeeps

\* The steps that change one review: submitting a draft, dismissing, losing its commit.
LEMMA ReviewStepKeeps ==
    ASSUME DeliveryInv, UNCHANGED answer, NEW r \in NamedPulls, NEW i \in DOMAIN Reviews(r),
           \/ \E state \in Verdicts : SubmitDraft(r, i, state)
           \/ Dismiss(r, i)
           \/ LoseCommit(r, i)
    PROVE  DeliveryInv'
<1> DEFINE old == Reviews(r)[i]
<1>1. /\ old \in Review /\ asked[r] \in SUBSET Heads
      /\ old.state = "pending" => old.commit \in Heads
      /\ old.state = "changes_requested" /\ old.commit # NoHead => old.commit \in asked[r]
      /\ asked = [asked EXCEPT ![r] = asked[r]]
  <2>1. Reviews(r) \in Seq(Review) /\ RowsSound(Reviews(r), asked[r]) /\ asked[r] \in SUBSET Heads
    BY DEF DeliveryInv, RequestSound, Reviews, Request
  <2>2. i \in 1 .. Len(Reviews(r))
    BY <2>1, LenProperties
  <2> QED BY <2>1, <2>2, ElementOfSeq DEF RowsSound, DeliveryInv
<1>2. ASSUME NEW state \in Verdicts, SubmitDraft(r, i, state) PROVE DeliveryInv'
  <2> DEFINE row == [old EXCEPT !.state = state]
             a == IF state = "changes_requested" THEN asked[r] \cup {old.commit} ELSE asked[r]
  <2>1. row \in Review /\ row.state = state /\ row.commit = old.commit /\ state # "pending"
    BY <1>1, DeliveryAssumption DEF Review, ReviewStates
  <2>2. pr' = [pr EXCEPT ![r].reviews[i] = row] /\ asked' = [asked EXCEPT ![r] = a]
    BY <1>1, <1>2 DEF SubmitDraft, Reviews
  <2>3. old.state = "pending" /\ a \in SUBSET Heads /\ asked[r] \subseteq a
    BY <1>1, <1>2 DEF SubmitDraft
  <2>4. /\ state = "changes_requested" => row.commit \in a
        /\ a # asked[r] => state = "changes_requested" /\ a \subseteq asked[r] \cup {row.commit}
    BY <2>1
  <2> HIDE DEF row, a
  <2> QED BY <2>1, <2>2, <2>3, <2>4, RowKeeps
<1>3. CASE Dismiss(r, i)
  <2> DEFINE row == [old EXCEPT !.state = "dismissed"]
  <2>1. row \in Review /\ row.state = "dismissed" /\ row.commit = old.commit
    BY <1>1 DEF Review, ReviewStates
  <2>2. pr' = [pr EXCEPT ![r].reviews[i] = row] /\ asked' = [asked EXCEPT ![r] = asked[r]]
    BY <1>1, <1>3 DEF Dismiss, Reviews
  <2> HIDE DEF row
  <2> QED BY <1>1, <2>1, <2>2, RowKeeps
<1>4. CASE LoseCommit(r, i)
  <2> DEFINE row == [old EXCEPT !.commit = NoHead]
  <2>1. row \in Review /\ row.state = old.state /\ row.commit = NoHead /\ old.state # "pending"
    BY <1>1, <1>4 DEF Review, LoseCommit
  <2>2. pr' = [pr EXCEPT ![r].reviews[i] = row] /\ asked' = [asked EXCEPT ![r] = asked[r]]
    BY <1>1, <1>4 DEF LoseCommit, Reviews
  <2> HIDE DEF row
  <2> QED BY <1>1, <2>1, <2>2, RowKeeps
<1> QED BY <1>2, <1>3, <1>4

\* The steps that leave the reviews alone: a push and a close.
LEMMA BranchStepKeeps ==
    ASSUME DeliveryInv, UNCHANGED answer, NEW r \in NamedPulls,
           \/ \E head \in Heads : Push(r, head)
           \/ \E method \in {"none", "merge", "squash", "rebase"} : Close(r, method)
    PROVE  DeliveryInv'
<1>1. RequestSound(pr[r], asked[r]) /\ pr[r] \in Request /\ asked' = [asked EXCEPT ![r] = asked[r]]
  BY DEF DeliveryInv, Push, Close
<1>2. ASSUME NEW head \in Heads, Push(r, head) PROVE DeliveryInv'
  <2> DEFINE k == [pr[r] EXCEPT !.head = head]
  <2>1. k \in Request /\ k.state = pr[r].state /\ k.method = pr[r].method /\ k.reviews = pr[r].reviews
    BY <1>1 DEF Request
  <2>2. pr' = [pr EXCEPT ![r] = k]
    BY <1>2 DEF Push
  <2> HIDE DEF k
  <2>3. RequestSound(k, asked[r])
    BY <1>1, <2>1 DEF RequestSound
  <2> QED BY <1>1, <2>2, <2>3, RequestKeeps
<1>3. ASSUME NEW method \in {"none", "merge", "squash", "rebase"}, Close(r, method) PROVE DeliveryInv'
  <2> DEFINE k == [pr[r] EXCEPT !.method = method,
                                !.state = IF method = "none" THEN "closed" ELSE "merged"]
  <2>1. /\ k \in Request /\ k.reviews = pr[r].reviews
        /\ k.state = "merged" <=> k.method # "none"
    BY <1>1 DEF Request
  <2>2. pr' = [pr EXCEPT ![r] = k]
    BY <1>3 DEF Close
  <2> HIDE DEF k
  <2>3. RequestSound(k, asked[r])
    BY <1>1, <2>1 DEF RequestSound
  <2> QED BY <1>1, <2>2, <2>3, RequestKeeps
<1> QED BY <1>2, <1>3

LEMMA DeliveryInitHolds == DeliveryInit => DeliveryInv
<1> SUFFICES ASSUME DeliveryInit PROVE DeliveryInv
  OBVIOUS
<1>1. Min(Heads) \in Heads
  <2>1. \E h \in Heads : \A g \in Heads : h <= g
    BY DeliveryAssumption, LeastOf
  <2> QED BY <2>1 DEF Min
<1>2. \A r \in NamedPulls : \E s \in BOOLEAN :
        pr[r] = [state |-> "open", method |-> "none", head |-> Min(Heads), reviews |-> <<>>, stated |-> s]
  BY DEF DeliveryInit
<1>3. <<>> \in Seq(Review) /\ Len(<<>>) = 0
  BY EmptySeq
<1>4. \A r \in NamedPulls : RequestSound(pr[r], asked[r])
  <2> TAKE r \in NamedPulls
  <2>1. pr[r] \in Request /\ pr[r].state = "open" /\ pr[r].method = "none" /\ pr[r].reviews = <<>>
    <3>1. PICK s \in BOOLEAN :
            pr[r] = [state |-> "open", method |-> "none", head |-> Min(Heads), reviews |-> <<>>, stated |-> s]
      BY <1>2
    <3> QED BY <1>1, <1>3, <3>1 DEF Request
  <2>2. asked[r] = {}
    BY DEF DeliveryInit
  <2>3. RowsSound(<<>>, {})
    BY <1>3 DEF RowsSound
  <2> QED BY <2>1, <2>2, <2>3 DEF RequestSound
<1>5. pr \in [NamedPulls -> Request] /\ asked \in [NamedPulls -> SUBSET Heads]
  <2>1. pr = [r \in NamedPulls |-> pr[r]] /\ asked = [r \in NamedPulls |-> asked[r]]
    BY DEF DeliveryInit
  <2> QED BY <1>4, <2>1 DEF RequestSound
<1> QED BY <1>4, <1>5 DEF DeliveryInv, DeliveryInit

\* Every reachable state satisfies the invariant.
THEOREM ReviewsStayKnown == DeliverySpec => []DeliveryInv
<1>1. DeliveryInv /\ [DeliveryNext]_deliveryVars => DeliveryInv'
  <2> SUFFICES ASSUME DeliveryInv, [DeliveryNext]_deliveryVars PROVE DeliveryInv'
    OBVIOUS
  <2>1. CASE DeliveryNext
    <3>1. UNCHANGED answer
      BY <2>1 DEF DeliveryNext
    <3>2. PICK r \in NamedPulls :
            \/ \E state \in Verdicts \cup {"pending"} : Submit(r, state)
            \/ \E i \in DOMAIN Reviews(r) :
                 \/ \E state \in Verdicts : SubmitDraft(r, i, state)
                 \/ Dismiss(r, i)
                 \/ LoseCommit(r, i)
            \/ \E head \in Heads : Push(r, head)
            \/ \E method \in {"none", "merge", "squash", "rebase"} : Close(r, method)
      BY <2>1 DEF DeliveryNext
    <3> QED BY <3>1, <3>2, SubmitKeeps, ReviewStepKeeps, BranchStepKeeps
  <2>2. CASE UNCHANGED deliveryVars
    BY <2>2 DEF deliveryVars, DeliveryInv
  <2> QED BY <2>1, <2>2
<1> QED BY <1>1, DeliveryInitHolds, PTL DEF DeliverySpec

\* Where no review keeps the revisions from being counted, all of them are read and
\* each says what it asked for and on which commit.
LEMMA NoGap ==
    ASSUME DeliveryInv, NEW r \in NamedPulls, ReviewGap(r) = "none"
    PROVE  /\ Listed(r) = Reviews(r) /\ Reviews(r) \in Seq(Review)
           /\ \A i \in 1 .. Len(Reviews(r)) :
                Reviews(r)[i].state # "dismissed" /\ Reviews(r)[i].commit # NoHead
<1> DEFINE n == Len(Reviews(r))
           shown == Listed(r)
           unusable == {i \in DOMAIN shown : \/ shown[i].state \in {"dismissed", "pending"}
                                             \/ shown[i].commit = NoHead}
           first == shown[Min(unusable)]
<1>1. Reviews(r) \in Seq(Review) /\ n \in Nat /\ DOMAIN Reviews(r) = 1 .. n
  <2>1. Reviews(r) \in Seq(Review)
    BY DEF DeliveryInv, RequestSound, Request, Reviews
  <2> QED BY <2>1, LenProperties
<1>2. \/ ~pr[r].stated /\ ReviewGap(r) = "reviews-unavailable"
      \/ Len(shown) # n /\ ReviewGap(r) = "reviews-incomplete"
      \/ Len(shown) = n /\ unusable = {}
      \/ unusable # {} /\ ReviewGap(r) =
            CASE first.state = "dismissed" -> "dismissed-review-state-history-unavailable"
              [] first.state = "pending" -> "pending-review-not-submitted"
              [] OTHER -> "reviewed-commit-unavailable"
  BY DEF ReviewGap
<1> HIDE DEF unusable, first
<1>3. Len(shown) = n /\ unusable = {}
  BY <1>2
<1>4. shown = Reviews(r)
  <2> DEFINE m == n - AtMost(n, Bound) + 1
  <2>1. m \in 1 .. n + 1 /\ (n <= Bound => m = 1) /\ (n > Bound => m = n - Bound + 1)
    <3>1. n \in Nat /\ Bound \in Nat \ {0}
      BY <1>1, DeliveryAssumption
    <3> HIDE DEF n
    <3> QED BY <3>1 DEF AtMost
  <2>2. shown = SubSeq(Reviews(r), m, n)
    BY DEF Listed
  <2> HIDE DEF m, shown
  <2>3. \A i \in m .. n : Reviews(r)[i] \in Review
    <3> TAKE i \in m .. n
    <3>1. i \in 1 .. n
      BY <1>1, <2>1
    <3> HIDE DEF n
    <3>2. i \in 1 .. Len(Reviews(r))
      BY <3>1 DEF n
    <3> QED BY <1>1, <3>2, ElementOfSeq
  <2>4. Len(shown) = IF m <= n THEN n - m + 1 ELSE 0
    <3> HIDE DEF n
    <3> QED BY <1>1, <2>1, <2>2, <2>3, SubSeqProperties
  <2>5. m = 1
    <3> HIDE DEF n
    <3> QED BY <1>1, <1>3, <2>1, <2>4
  <2> QED BY <1>1, <2>2, <2>5, SubSeqFull
<1>5. ASSUME NEW i \in 1 .. n PROVE Reviews(r)[i].state # "dismissed" /\ Reviews(r)[i].commit # NoHead
  BY <1>1, <1>3, <1>4 DEF unusable
<1> QED BY <1>1, <1>4, <1>5

\* The revisions that are counted are those on which changes were asked for.
LEMMA RevisionsAreTrue ==
    ASSUME DeliveryInv, NEW r \in NamedPulls, ReviewGap(r) = "none"
    PROVE  AskedRevisions(r) = asked[r]
<1>1. /\ Listed(r) = Reviews(r) /\ DOMAIN Reviews(r) = 1 .. Len(Reviews(r))
      /\ \A i \in 1 .. Len(Reviews(r)) :
           Reviews(r)[i].state # "dismissed" /\ Reviews(r)[i].commit # NoHead
  BY NoGap, LenProperties
<1>2. RowsSound(Reviews(r), asked[r])
  BY DEF DeliveryInv, RequestSound, Reviews
<1>3. ASSUME NEW h \in AskedRevisions(r) PROVE h \in asked[r]
  BY <1>1, <1>2 DEF AskedRevisions, RowsSound
<1>4. ASSUME NEW h \in asked[r] PROVE h \in AskedRevisions(r)
  <2>1. PICK i \in 1 .. Len(Reviews(r)) :
          /\ Reviews(r)[i].commit \in {h, NoHead}
          /\ Reviews(r)[i].state \in {"changes_requested", "dismissed"}
    BY <1>2 DEF RowsSound
  <2> QED BY <1>1, <2>1 DEF AskedRevisions
<1> QED BY <1>3, <1>4

\* The rate is of every merged pull request, and counts those that were sent back.
LEMMA RateIsTrue ==
    ASSUME DeliveryInv, "numerator" \in DOMAIN ReviewRate
    PROVE  /\ ReviewRate.denominator = Cardinality({r \in NamedPulls : pr[r].method # "none"})
           /\ ReviewRate.numerator = Cardinality({r \in MergedRequests : asked[r] # {}})
<1> DEFINE gaps == {RateGap(r) : r \in MergedRequests} \ {"none"}
           sent == {r \in MergedRequests : AskedRevisions(r) # {}}
<1>1. gaps = {} /\ ReviewRate = [numerator |-> Cardinality(sent), denominator |-> Cardinality(MergedRequests)]
  <2> DEFINE reason == IF Cardinality(gaps) = 1 THEN CHOOSE g \in gaps : TRUE
                       ELSE "ineligible-review-populations"
  <2>1. \/ ReviewRate = [reason |-> "no-named-merged-pull-requests"]
        \/ ReviewRate = [reason |-> reason]
        \/ /\ gaps = {}
           /\ ReviewRate = [numerator |-> Cardinality(sent), denominator |-> Cardinality(MergedRequests)]
    BY DEF ReviewRate
  <2> HIDE DEF reason, gaps, sent
  <2>2. \A x : "numerator" \notin DOMAIN [reason |-> x]
    OBVIOUS
  <2> QED BY <2>1, <2>2
<1>2. \A r \in MergedRequests : r \in NamedPulls /\ ReviewGap(r) = "none"
  <2> TAKE r \in MergedRequests
  <2>1. RateGap(r) = "none" /\ r \in NamedPulls
    BY <1>1 DEF MergedRequests
  <2> QED BY <2>1 DEF RateGap
<1>3. MergedRequests = {r \in NamedPulls : pr[r].method # "none"}
  BY DEF MergedRequests, DeliveryInv, RequestSound
<1>4. sent = {r \in MergedRequests : asked[r] # {}}
  BY <1>2, RevisionsAreTrue
<1> HIDE DEF sent, gaps
<1>5. ReviewRate.denominator = Cardinality(MergedRequests) /\ ReviewRate.numerator = Cardinality(sent)
  BY <1>1
<1> QED BY <1>3, <1>4, <1>5

\* A population is read from the one answer of its timeline, and no answer that a
\* timeline gives is taken for a contradiction, whatever it leaves out.
LEMMA EveryAnswerIsReadHonestly ==
    ASSUME NEW a \in Answers
    PROVE  PopulationHonest(a)
<1>0. /\ Bound \in Nat /\ Counts \subseteq Int
      /\ a.total \in Counts \cup {Unknown} /\ a.filtered \in Counts \cup {Unknown}
      /\ a.paged \in Counts \cup {Unknown} /\ a.rows \in (Counts \cap Nat) \cup {Unknown}
      /\ a.before \in BOOLEAN \cup {Unknown}
      /\ DOMAIN a = {"total", "filtered", "paged", "rows", "before"}
      /\ a = [total |-> a.total, filtered |-> a.filtered, paged |-> a.paged, rows |-> a.rows,
              before |-> a.before]
  BY DeliveryAssumption DEF Answers
<1>1. ASSUME Population(a) = "read"
      PROVE  \E total \in 0 .. a.total, filtered \in 0 .. a.total :
               filtered <= total /\ a = TimelineAnswer(total, filtered)
  <2>1. ~ContradictsItself(a) /\ Unknown \notin {a.total, a.filtered, a.paged, a.rows, a.before}
    BY <1>1 DEF Population
  <2>2. /\ a.total \in Int /\ a.filtered \in Int /\ a.paged \in Int /\ a.rows \in Nat
        /\ a.before \in BOOLEAN
    BY <1>0, <2>1
  <2>3. /\ a.total >= 0 /\ a.filtered >= 0 /\ a.filtered <= a.total
        /\ a.rows = AtMost(a.filtered, Bound) /\ a.paged = AtMost(a.filtered, Bound)
    BY <2>1, <2>2 DEF ContradictsItself
  <2>4. a.before = (a.filtered > Bound)
    BY <2>1 DEF ContradictsItself
  <2>5. a = TimelineAnswer(a.total, a.filtered)
    BY <1>0, <2>3, <2>4 DEF TimelineAnswer
  <2>6. a.total \in 0 .. a.total /\ a.filtered \in 0 .. a.total
    BY <2>2, <2>3
  <2> QED BY <2>3, <2>5, <2>6
<1>2. ASSUME NEW total \in 0 .. Bound + 2, NEW filtered \in 0 .. Bound + 2, filtered <= total,
             Withholds(TimelineAnswer(total, filtered), a)
      PROVE  Population(a) # "error"
  <2> DEFINE page == AtMost(filtered, Bound)
  <2>1. /\ a.total \in {total, Unknown} /\ a.filtered \in {filtered, Unknown}
        /\ a.paged \in {page, Unknown} /\ a.rows \in {page, Unknown}
        /\ a.before \in {filtered > Bound, Unknown}
    BY <1>0, <1>2 DEF Withholds, TimelineAnswer
  <2>2. /\ total \in Nat /\ filtered \in Nat /\ page \in Nat /\ page <= filtered /\ page <= Bound
        /\ (filtered > Bound) => page = Bound
    BY <1>0 DEF AtMost
  <2> HIDE DEF page
  <2>3. ~\E n \in {a.total, a.filtered, a.paged} \ {Unknown} : n < 0
    BY <2>1, <2>2
  <2>4. /\ a.rows # Unknown => a.rows = page
        /\ a.total # Unknown => a.total = total
        /\ a.filtered # Unknown => a.filtered = filtered
        /\ a.paged # Unknown => a.paged = page
        /\ a.before # Unknown => a.before = (filtered > Bound)
    BY <2>1
  <2>5. /\ ~(a.rows # Unknown /\ a.rows > Bound)
        /\ ~(a.total # Unknown /\ a.rows # Unknown /\ a.rows > a.total)
        /\ ~(a.total # Unknown /\ a.filtered # Unknown /\ a.filtered > a.total)
        /\ ~(a.paged # Unknown /\ a.paged > Bound)
        /\ ~(a.total # Unknown /\ a.paged # Unknown /\ a.paged > a.total)
        /\ ~(a.filtered # Unknown /\ a.rows # Unknown /\ a.rows # AtMost(a.filtered, Bound))
        /\ ~(a.filtered # Unknown /\ a.paged # Unknown /\ a.paged # AtMost(a.filtered, Bound))
        /\ ~(a.paged # Unknown /\ a.rows # Unknown /\ a.paged # a.rows)
    BY <1>0, <1>2, <2>2, <2>4 DEF page
  <2>6. ASSUME a.before # Unknown
        PROVE  /\ ~(a.filtered # Unknown /\ a.before # (a.filtered > Bound))
               /\ ~(a.before /\ a.total # Unknown /\ a.total <= Bound)
               /\ ~(a.before /\ a.paged # Unknown /\ a.paged # Bound)
               /\ ~(a.before /\ a.rows # Unknown /\ a.rows # Bound)
    <3>1. a.before = (filtered > Bound)
      BY <2>4, <2>6
    <3>2. a.filtered # Unknown => a.before = (a.filtered > Bound)
      BY <2>4, <3>1
    <3>3. a.before => filtered > Bound
      BY <3>1
    <3> QED BY <1>0, <1>2, <2>2, <2>4, <3>2, <3>3
  <2>7. ~ContradictsItself(a)
    BY <2>3, <2>5, <2>6 DEF ContradictsItself
  <2> QED BY <2>7 DEF Population
<1> QED BY <1>1, <1>2 DEF PopulationHonest

\* What is derived of reviews and merges is what happened: the revisions on which
\* changes were asked for, the way of the merge, the share of merged pull requests
\* that were sent back, and what a timeline's answer says of its population
\* (internal/attribution/changes_measurements.go; internal/github/dismissals.go).
THEOREM DerivedStaysTrue == DeliverySpec => []DeliveryTrue
<1>1. DeliveryInv => DeliveryTrue
  <2> SUFFICES ASSUME DeliveryInv PROVE DeliveryTrue
    OBVIOUS
  <2>1. \A r \in NamedPulls : /\ pr[r] \in Request
                              /\ pr[r].state = "merged" <=> pr[r].method # "none"
    BY DEF DeliveryInv, RequestSound
  <2>2. DeliveryTypeOK
    BY <2>1 DEF DeliveryTypeOK, DeliveryInv, Request
  <2>3. ASSUME NEW r \in NamedPulls PROVE MergeMethod(r) = "merge" <=> pr[r].method = "merge"
    BY <2>1 DEF MergeMethod, Parents, Request
  <2>4. DerivedIsTrue
    BY <2>3, RevisionsAreTrue, RateIsTrue DEF DerivedIsTrue
  <2> QED BY <2>2, <2>4, EveryAnswerIsReadHonestly DEF DeliveryTrue, DeliveryInv
<1> QED BY <1>1, ReviewsStayKnown, PTL

-----------------------------------------------------------------------------
\* The world evidence reads.  What is known of one commit, pull request or place
\* of the main line takes the parts it speaks of, so that a step is from one
\* instance to another.

Window == [start : Nat, end : Nat]
PullRecord ==
    [state : {"open", "merged"}, list : Seq(Ids), merge : Ids \cup {None}, updated : Nat \cup {None}]

\* A commit's work was done between its sessions' first and last events, unless a
\* forge made the commit anew; what a forge replayed or joined a merge wrote, whose
\* pull request was updated then; and a joining commit's work is that of what it joins.
CommitKnown(k, coms, win, pul, clk) ==
    /\ k.authored <= k.committed /\ k.committed <= clk
    /\ ~k.forge => k.by = None
    /\ k.forge /\ k.parents = 1 /\ k.authored < k.committed => k.by # None
    /\ k.by # None => /\ pul[k.by].state = "merged" /\ pul[k.by].updated \in Nat
                      /\ k.committed <= pul[k.by].updated
    /\ \A j \in k.joins : j \in 1 .. Len(coms) /\ ~coms[j].forge
    /\ k.parents = 2 => \A s \in k.of : \E j \in k.joins : s \in coms[j].of
    /\ \A s \in k.of : /\ win[s] # None /\ win[s].start <= k.authored
                       /\ k.authored <= win[s].end \/ (k.forge /\ k.authored = k.committed)

\* A pull request lists what no forge wrote, and its merge commit is its own.
RequestKnown(p, k, coms, clk) ==
    /\ k.updated # None => k.updated <= clk
    /\ k.merge # None => k.merge \in 1 .. Len(coms) /\ coms[k.merge].by = p
    /\ \A i \in 1 .. Len(k.list) : k.list[i] \in 1 .. Len(coms) /\ ~coms[k.list[i]].forge

\* What a merge wrote on the main line ends in its merge commit.
PlaceKnown(i, line, coms, pul) ==
    /\ line[i] \in 1 .. Len(coms)
    /\ coms[line[i]].by # None =>
         \/ line[i] = pul[coms[line[i]].by].merge
         \/ i < Len(line) /\ coms[line[i + 1]].by = coms[line[i]].by

EvidenceTypes ==
    /\ EvidenceTypeOK
    /\ window \in [Sessions -> Window \cup {None}] /\ pull \in [PRs -> PullRecord]
    /\ \A s \in Sessions : window[s] # None => window[s].start <= window[s].end /\ window[s].end <= clock

EvidenceInv ==
    /\ EvidenceTypes
    /\ \A c \in 1 .. Len(commits) : CommitKnown(commits[c], commits, window, pull, clock)
    /\ \A p \in PRs : RequestKnown(p, pull[p], commits, clock)
    /\ \A i \in 1 .. Len(main) : PlaceKnown(i, main, commits, pull)
    /\ \A c \in made : c \in 1 .. Len(commits) /\ commits[c].here

\* A commit that stays known, and requests and places that do, when commits are only
\* added, windows and the clock only grow, and a merged pull request keeps its merge.
Extends(longer, shorter) ==
    /\ Len(longer) \in Nat /\ Len(shorter) \in Nat /\ Len(shorter) <= Len(longer)
    /\ \A i \in 1 .. Len(shorter) : longer[i] = shorter[i]

WindowsGrow ==
    \A s \in Sessions : window[s] # None =>
      /\ window'[s] # None /\ window'[s].start = window[s].start
      /\ window[s].end \in Nat /\ window'[s].end \in Nat /\ window[s].end <= window'[s].end

MergesStand ==
    \A p \in PRs : pull[p].state = "merged" =>
      /\ pull'[p].state = "merged" /\ pull'[p].merge = pull[p].merge
      /\ pull[p].updated \in Nat => pull'[p].updated \in Nat /\ pull[p].updated <= pull'[p].updated

LEMMA CommitStaysKnown ==
    ASSUME NEW k \in Commit, CommitKnown(k, commits, window, pull, clock),
           Extends(commits', commits), WindowsGrow, MergesStand,
           clock \in Nat, clock' \in Nat, clock <= clock'
    PROVE  CommitKnown(k, commits', window', pull', clock')
<1>1. /\ k.authored \in Nat /\ k.committed \in Nat /\ k.of \subseteq Sessions
      /\ k.by # None => k.by \in PRs
  BY DEF Commit
<1>2. k.authored <= k.committed /\ k.committed <= clock'
  BY <1>1 DEF CommitKnown
<1>3. k.by # None => /\ pull'[k.by].state = "merged" /\ pull'[k.by].updated \in Nat
                     /\ k.committed <= pull'[k.by].updated
  BY <1>1 DEF CommitKnown, MergesStand
<1>4. \A j \in 1 .. Len(commits) : j \in 1 .. Len(commits') /\ commits'[j] = commits[j]
  BY DEF Extends
<1>5. \A j \in k.joins : j \in 1 .. Len(commits') /\ ~commits'[j].forge
  BY <1>4 DEF CommitKnown
<1>6. k.parents = 2 => \A s \in k.of : \E j \in k.joins : s \in commits'[j].of
  BY <1>4 DEF CommitKnown
<1>7. ASSUME NEW s \in k.of
      PROVE  /\ window'[s] # None /\ window'[s].start <= k.authored
             /\ k.authored <= window'[s].end \/ (k.forge /\ k.authored = k.committed)
  <2>1. /\ window[s] # None /\ window[s].start <= k.authored
        /\ k.authored <= window[s].end \/ (k.forge /\ k.authored = k.committed)
    BY DEF CommitKnown
  <2>2. /\ window'[s] # None /\ window'[s].start = window[s].start
        /\ window[s].end \in Nat /\ window'[s].end \in Nat /\ window[s].end <= window'[s].end
    BY <1>1, <2>1 DEF WindowsGrow
  <2>3. k.authored <= window[s].end => k.authored <= window'[s].end
    BY <1>1, <2>2
  <2> QED BY <2>1, <2>2, <2>3
<1> QED BY <1>2, <1>3, <1>5, <1>6, <1>7 DEF CommitKnown

\* What a step has to show: only of what it adds.
LEMMA EvidenceGrows ==
    ASSUME EvidenceInv, EvidenceTypes',
           Extends(commits', commits), Extends(main', main), WindowsGrow, MergesStand, clock <= clock',
           \A c \in 1 .. Len(commits') : c \notin 1 .. Len(commits) =>
             CommitKnown(commits'[c], commits', window', pull', clock'),
           \A p \in PRs : pull'[p] # pull[p] => RequestKnown(p, pull'[p], commits', clock'),
           \A i \in 1 .. Len(main') : i \notin 1 .. Len(main) => PlaceKnown(i, main', commits', pull'),
           \A c \in made' : c \notin made => c \in 1 .. Len(commits') /\ commits'[c].here
    PROVE  EvidenceInv'
<1>1. /\ clock \in Nat /\ clock' \in Nat /\ commits \in Seq(Commit) /\ commits' \in Seq(Commit)
      /\ pull \in [PRs -> PullRecord] /\ pull' \in [PRs -> PullRecord]
  BY DEF EvidenceInv, EvidenceTypes, EvidenceTypeOK
<1>2. \A j \in 1 .. Len(commits) : j \in 1 .. Len(commits') /\ commits'[j] = commits[j]
  BY DEF Extends
<1>3. ASSUME NEW c \in 1 .. Len(commits')
      PROVE  CommitKnown(commits'[c], commits', window', pull', clock')
  <2>1. CASE c \in 1 .. Len(commits)
    <3>1. commits[c] \in Commit /\ CommitKnown(commits[c], commits, window, pull, clock)
      BY <1>1, <2>1, ElementOfSeq DEF EvidenceInv
    <3>2. CommitKnown(commits[c], commits', window', pull', clock')
      BY <1>1, <3>1, CommitStaysKnown
    <3> QED BY <1>2, <2>1, <3>2
  <2> QED BY <2>1
<1>4. ASSUME NEW p \in PRs PROVE RequestKnown(p, pull'[p], commits', clock')
  <2>1. CASE pull'[p] = pull[p]
    <3>1. RequestKnown(p, pull[p], commits, clock) /\ (pull[p].updated # None => pull[p].updated \in Nat)
      BY <1>1 DEF EvidenceInv, PullRecord
    <3>2. pull[p].updated # None => pull[p].updated <= clock'
      <4>1. pull[p].updated # None => pull[p].updated <= clock
        BY <3>1 DEF RequestKnown
      <4> QED BY <1>1, <3>1, <4>1
    <3>3. pull[p].merge # None => pull[p].merge \in 1 .. Len(commits') /\ commits'[pull[p].merge].by = p
      BY <1>2, <3>1 DEF RequestKnown
    <3>4. \A i \in 1 .. Len(pull[p].list) :
            pull[p].list[i] \in 1 .. Len(commits') /\ ~commits'[pull[p].list[i]].forge
      BY <1>2, <3>1 DEF RequestKnown
    <3> QED BY <2>1, <3>2, <3>3, <3>4 DEF RequestKnown
  <2> QED BY <2>1
<1>5. ASSUME NEW i \in 1 .. Len(main') PROVE PlaceKnown(i, main', commits', pull')
  <2>1. CASE i \in 1 .. Len(main)
    <3>1. PlaceKnown(i, main, commits, pull) /\ main'[i] = main[i] /\ Len(main) \in Nat
          /\ Len(main') \in Nat /\ Len(main) <= Len(main')
      BY <2>1 DEF EvidenceInv, Extends
    <3>2. main[i] \in 1 .. Len(commits) /\ main'[i] \in 1 .. Len(commits') /\ commits'[main'[i]] = commits[main[i]]
      BY <1>2, <3>1 DEF PlaceKnown
    <3>3. ASSUME commits[main[i]].by # None
          PROVE  \/ main'[i] = pull'[commits[main[i]].by].merge
                 \/ i < Len(main') /\ commits'[main'[i + 1]].by = commits[main[i]].by
      <4>1. /\ commits[main[i]].by \in PRs
            /\ pull[commits[main[i]].by].state = "merged"
        <5>1. commits[main[i]] \in Commit /\ CommitKnown(commits[main[i]], commits, window, pull, clock)
          BY <1>1, <3>2, ElementOfSeq DEF EvidenceInv
        <5> QED BY <3>3, <5>1 DEF CommitKnown, Commit
      <4>2. CASE main[i] = pull[commits[main[i]].by].merge
        BY <3>1, <4>1, <4>2 DEF MergesStand
      <4>3. CASE i < Len(main) /\ commits[main[i + 1]].by = commits[main[i]].by
        <5>1. i + 1 \in 1 .. Len(main)
          BY <2>1, <3>1, <4>3
        <5>2. main'[i + 1] = main[i + 1] /\ main[i + 1] \in 1 .. Len(commits)
          BY <5>1 DEF EvidenceInv, PlaceKnown, Extends
        <5>3. i < Len(main')
          BY <2>1, <3>1, <4>3
        <5> QED BY <1>2, <4>3, <5>2, <5>3
      <4> QED BY <3>1, <3>3, <4>2, <4>3 DEF PlaceKnown
    <3> QED BY <3>2, <3>3 DEF PlaceKnown
  <2> QED BY <2>1
<1>6. ASSUME NEW c \in made' PROVE c \in 1 .. Len(commits') /\ commits'[c].here
  <2>1. CASE c \in made
    BY <1>2, <2>1 DEF EvidenceInv
  <2> QED BY <1>6, <2>1
<1> QED BY <1>3, <1>4, <1>5, <1>6 DEF EvidenceInv

\* Nothing added is nothing to show.
LEMMA ExtendsItself ==
    ASSUME NEW S, NEW row \in Seq(S) PROVE Extends(row, row)
BY LenProperties DEF Extends

LEMMA ExtendsByOne ==
    ASSUME NEW S, NEW row \in Seq(S), NEW x \in S
    PROVE  /\ Append(row, x) \in Seq(S) /\ Extends(Append(row, x), row)
           /\ Len(Append(row, x)) = Len(row) + 1 /\ Append(row, x)[Len(row) + 1] = x
           /\ \A i \in 1 .. Len(Append(row, x)) : i \notin 1 .. Len(row) => i = Len(row) + 1
BY AppendProperties, LenProperties DEF Extends

\* The types of what the invariant speaks of.
LEMMA OfCommits ==
    ASSUME EvidenceInv
    PROVE  /\ commits \in Seq(Commit) /\ Len(commits) \in Nat /\ main \in Seq(Ids)
           /\ Len(main) \in Nat /\ pulled \in 0 .. Len(main)
           /\ pull \in [PRs -> PullRecord]
           /\ \A c \in 1 .. Len(commits) :
                commits[c] \in Commit /\ CommitKnown(commits[c], commits, window, pull, clock)
           /\ \A i \in 1 .. pulled : i \in 1 .. Len(main) /\ main[i] \in 1 .. Len(commits)
<1>1. /\ commits \in Seq(Commit) /\ main \in Seq(Ids) /\ pulled \in 0 .. Len(main)
      /\ pull \in [PRs -> PullRecord]
  BY DEF EvidenceInv, EvidenceTypes, EvidenceTypeOK
<1>2. Len(commits) \in Nat /\ Len(main) \in Nat
  BY <1>1, LenProperties
<1>3. \A c \in 1 .. Len(commits) :
        commits[c] \in Commit /\ CommitKnown(commits[c], commits, window, pull, clock)
  BY <1>1, ElementOfSeq DEF EvidenceInv
<1>4. \A i \in 1 .. pulled : i \in 1 .. Len(main) /\ main[i] \in 1 .. Len(commits)
  BY <1>1, <1>2 DEF EvidenceInv, PlaceKnown
<1> QED BY <1>1, <1>2, <1>3, <1>4

\* The steps that only read, or only touch this clone.
LEMMA ClockAndCloneKeep ==
    ASSUME EvidenceInv,
           \/ Tick \/ Pull \/ (\E c \in Ids : Expire(c)) \/ (\E c \in Ids : Collected(c))
    PROVE  EvidenceInv'
<1>1. /\ UNCHANGED <<window, commits, main, pull>> /\ made' \subseteq made /\ clock <= clock'
      /\ clock \in 0 .. MaxClock /\ clock' \in 0 .. MaxClock
  BY EvidenceAssumption DEF EvidenceInv, EvidenceTypes, EvidenceTypeOK, Tick, Pull, Expire, Collected
<1>2. commits \in Seq(Commit) /\ main \in Seq(Ids) /\ Len(main) \in Nat
  BY OfCommits
<1>3. pulled' \in 0 .. Len(main) /\ present' \subseteq Ids
  <2>1. pulled \in 0 .. Len(main) /\ present \subseteq Ids
    BY DEF EvidenceInv, EvidenceTypes, EvidenceTypeOK
  <2>2. CASE Pull
    <3>1. \A i \in 1 .. Len(main) : main[i] \in Ids /\ commits[main[i]].joins \subseteq Ids
      BY <1>2, OfCommits, ElementOfSeq DEF EvidenceInv, PlaceKnown, Commit
    <3>2. Reach(Len(main)) \subseteq Ids
      BY <3>1 DEF Reach
    <3> QED BY <1>2, <2>1, <2>2, <3>2 DEF Pull
  <2>3. CASE ~Pull
    BY <2>1, <2>3 DEF Tick, Expire, Collected
  <2> QED BY <2>2, <2>3
<1>4. EvidenceTypes'
  <2>1. \A s \in Sessions : window[s] # None => window[s].end \in Nat
    BY DEF EvidenceInv, EvidenceTypes, Window
  <2>2. \A s \in Sessions : window'[s] # None =>
          window'[s].start <= window'[s].end /\ window'[s].end <= clock'
    BY <1>1, <2>1 DEF EvidenceInv, EvidenceTypes
  <2>3. made' \subseteq Ids
    BY <1>1 DEF EvidenceInv, EvidenceTypes, EvidenceTypeOK
  <2>4. EvidenceTypeOK'
    BY <1>1, <1>3, <2>2, <2>3 DEF EvidenceInv, EvidenceTypes, EvidenceTypeOK
  <2> QED BY <1>1, <2>2, <2>4 DEF EvidenceInv, EvidenceTypes
<1>5. Extends(commits', commits) /\ Extends(main', main)
  BY <1>1, <1>2, ExtendsItself
<1>6. WindowsGrow /\ MergesStand
  <2>1. \A s \in Sessions : window[s] # None => window[s].end \in Nat
    BY DEF EvidenceInv, EvidenceTypes, Window
  <2> QED BY <1>1, <2>1 DEF WindowsGrow, MergesStand
<1> QED BY <1>1, <1>4, <1>5, <1>6, EvidenceGrows

\* A session's event lengthens its window to now.
LEMMA EventGrows ==
    ASSUME EvidenceInv, NEW s \in Sessions, Event(s), clock' = clock
    PROVE  /\ WindowsGrow /\ window' \in [Sessions -> Window \cup {None}]
           /\ \A t \in Sessions : window'[t] # None =>
                window'[t].start <= window'[t].end /\ window'[t].end <= clock'
           /\ window'[s] # None /\ window'[s].start <= clock /\ window'[s].end = clock
<1> DEFINE event == [start |-> IF window[s] = None THEN clock ELSE window[s].start, end |-> clock]
<1>1. /\ clock \in Nat /\ window \in [Sessions -> Window \cup {None}]
      /\ \A t \in Sessions : window[t] # None =>
           /\ window[t].start \in Nat /\ window[t].end \in Nat
           /\ window[t].start <= window[t].end /\ window[t].end <= clock
  BY DEF EvidenceInv, EvidenceTypes, EvidenceTypeOK, Window
<1>2. event \in Window /\ event.start <= clock /\ event.end = clock
  BY <1>1 DEF Window
<1>3. event # None
  BY <1>2, EvidenceAssumption DEF Window
<1>4. event.end \in Nat /\ (window[s] # None => event.start = window[s].start)
  BY <1>1
<1>5. window' = [window EXCEPT ![s] = event]
  BY DEF Event
<1> HIDE DEF event
<1>6. /\ window' \in [Sessions -> Window \cup {None}] /\ window'[s] = event
      /\ \A t \in Sessions : t # s => window'[t] = window[t]
  BY <1>1, <1>2, <1>5
<1>7. WindowsGrow
  BY <1>1, <1>2, <1>3, <1>4, <1>6 DEF WindowsGrow
<1>8. \A t \in Sessions : window'[t] # None =>
        window'[t].start <= window'[t].end /\ window'[t].end <= clock'
  BY <1>1, <1>2, <1>6
<1> QED BY <1>2, <1>3, <1>6, <1>7, <1>8

LEMMA WindowsStand ==
    ASSUME EvidenceInv, UNCHANGED <<window, clock>>
    PROVE  /\ WindowsGrow /\ window' \in [Sessions -> Window \cup {None}]
           /\ \A t \in Sessions : window'[t] # None =>
                window'[t].start <= window'[t].end /\ window'[t].end <= clock'
BY DEF EvidenceInv, EvidenceTypes, Window, WindowsGrow

LEMMA WorkKeeps ==
    ASSUME EvidenceInv, NEW s \in Sessions, Work(s)
    PROVE  EvidenceInv'
<1>1. /\ Event(s) /\ UNCHANGED <<clock, commits, main, pulled, pull, made, present>> /\ clock \in Nat
      /\ commits \in Seq(Commit) /\ main \in Seq(Ids)
  BY OfCommits DEF Work, EvidenceInv, EvidenceTypes, EvidenceTypeOK
<1>2. /\ WindowsGrow /\ window' \in [Sessions -> Window \cup {None}]
      /\ \A t \in Sessions : window'[t] # None =>
           window'[t].start <= window'[t].end /\ window'[t].end <= clock'
  BY <1>1, EventGrows
<1>3. EvidenceTypes'
  <2>1. EvidenceTypeOK'
    BY <1>1, <1>2 DEF EvidenceInv, EvidenceTypes, EvidenceTypeOK
  <2> QED BY <1>1, <1>2, <2>1 DEF EvidenceInv, EvidenceTypes
<1>4. MergesStand
  BY <1>1 DEF MergesStand
<1>5. Extends(commits', commits) /\ Extends(main', main)
  BY <1>1, ExtendsItself
<1> QED BY <1>1, <1>2, <1>3, <1>4, <1>5, EvidenceGrows

\* A pull request's record changes: the rest of them stand.
LEMMA PullGrows ==
    ASSUME EvidenceInv, NEW p \in PRs, NEW k \in PullRecord, pull' = [pull EXCEPT ![p] = k],
           pull[p].state = "merged" =>
             /\ k.state = "merged" /\ k.merge = pull[p].merge
             /\ k.updated = pull[p].updated \/ k.updated = clock
    PROVE  /\ pull' \in [PRs -> PullRecord] /\ MergesStand /\ pull'[p] = k
           /\ \A q \in PRs : pull'[q] # pull[q] => q = p
<1>1. clock \in Nat /\ pull \in [PRs -> PullRecord] /\ RequestKnown(p, pull[p], commits, clock)
  BY OfCommits DEF EvidenceInv, EvidenceTypes, EvidenceTypeOK
<1>2. pull[p].updated \in Nat => pull[p].updated <= clock
  BY <1>1, EvidenceAssumption DEF RequestKnown
<1>3. pull' \in [PRs -> PullRecord] /\ pull'[p] = k /\ \A q \in PRs : q # p => pull'[q] = pull[q]
  BY <1>1
<1>4. MergesStand
  BY <1>1, <1>2, <1>3 DEF MergesStand, PullRecord
<1> QED BY <1>3, <1>4

LEMMA StackKeeps ==
    ASSUME EvidenceInv, NEW p \in PRs, NEW q \in PRs, Stack(p, q)
    PROVE  EvidenceInv'
<1> DEFINE k == [pull[p] EXCEPT !.list = pull[q].list, !.updated = clock]
<1>1. /\ UNCHANGED <<clock, window, commits, main, pulled, made, present>> /\ clock \in Nat
      /\ commits \in Seq(Commit) /\ main \in Seq(Ids) /\ pull \in [PRs -> PullRecord]
      /\ pull' = [pull EXCEPT ![p] = k]
  <2>1. pull \in [PRs -> PullRecord] /\ clock \in Nat
    BY OfCommits DEF EvidenceInv, EvidenceTypes, EvidenceTypeOK
  <2>2. pull' = [pull EXCEPT ![p] = k]
    BY <2>1 DEF Stack
  <2> QED BY <2>1, <2>2, OfCommits DEF Stack
<1>2. /\ k \in PullRecord /\ k.state = pull[p].state /\ k.merge = pull[p].merge
      /\ k.list = pull[q].list /\ k.updated = clock
  BY <1>1 DEF PullRecord
<1> HIDE DEF k
<1>3. /\ pull' \in [PRs -> PullRecord] /\ MergesStand /\ pull'[p] = k
      /\ \A r \in PRs : pull'[r] # pull[r] => r = p
  BY <1>1, <1>2, PullGrows
<1>4. RequestKnown(p, k, commits', clock')
  <2>1. RequestKnown(p, pull[p], commits, clock) /\ RequestKnown(q, pull[q], commits, clock)
    BY DEF EvidenceInv
  <2> QED BY <1>1, <1>2, <2>1 DEF RequestKnown
<1>5. EvidenceTypes'
  <2>1. EvidenceTypeOK'
    BY <1>1 DEF EvidenceInv, EvidenceTypes, EvidenceTypeOK
  <2> QED BY <1>1, <1>3, <2>1 DEF EvidenceInv, EvidenceTypes
<1>6. WindowsGrow /\ Extends(commits', commits) /\ Extends(main', main)
  BY <1>1, ExtendsItself, WindowsStand
<1> QED BY <1>1, <1>3, <1>4, <1>5, <1>6, EvidenceGrows

\* A commit is written: it is the next number's.
LEMMA CommitAdded ==
    ASSUME EvidenceInv, CanCommit, NEW k \in Commit, commits' = Append(commits, k)
    PROVE  /\ commits' \in Seq(Commit) /\ Len(commits') <= MaxCommits /\ Extends(commits', commits)
           /\ Fresh = Len(commits) + 1 /\ Fresh \in Ids /\ Fresh \in 1 .. Len(commits') /\ commits'[Fresh] = k
           /\ \A c \in 1 .. Len(commits') : c \notin 1 .. Len(commits) => c = Fresh
<1>1. commits \in Seq(Commit) /\ Len(commits) \in Nat
  BY OfCommits
<1>2. /\ commits' \in Seq(Commit) /\ Extends(commits', commits) /\ Len(commits') = Len(commits) + 1
      /\ commits'[Len(commits) + 1] = k
      /\ \A c \in 1 .. Len(commits') : c \notin 1 .. Len(commits) => c = Len(commits) + 1
  BY <1>1, ExtendsByOne
<1>3. MaxCommits \in Nat /\ Fresh = Len(commits) + 1 /\ Fresh <= MaxCommits
  BY EvidenceAssumption DEF CanCommit, Fresh
<1> QED BY <1>1, <1>2, <1>3 DEF Ids

\* It goes on the main line or on an open pull request's branch.
LEMMA PutGrows ==
    ASSUME EvidenceInv, CanCommit, NEW k \in Commit, commits' = Append(commits, k), clock' = clock,
           ~k.forge, k.by = None, NEW where \in PRs \cup {None}, Put(Fresh, where)
    PROVE  /\ main' \in Seq(Ids) /\ pulled' \in 0 .. Len(main') /\ Extends(main', main)
           /\ pull' \in [PRs -> PullRecord] /\ MergesStand
           /\ \A p \in PRs : pull'[p] # pull[p] => RequestKnown(p, pull'[p], commits', clock')
           /\ \A i \in 1 .. Len(main') : i \notin 1 .. Len(main) => PlaceKnown(i, main', commits', pull')
<1>1. /\ Extends(commits', commits) /\ Fresh \in Ids /\ Fresh \in 1 .. Len(commits') /\ commits'[Fresh] = k
  BY CommitAdded
<1>2. /\ main \in Seq(Ids) /\ Len(main) \in Nat /\ pulled \in 0 .. Len(main) /\ pull \in [PRs -> PullRecord]
      /\ clock \in Nat
  BY OfCommits DEF EvidenceInv, EvidenceTypes, EvidenceTypeOK
<1>3. CASE where = None
  <2>1. main' = Append(main, Fresh) /\ pulled = Len(main) /\ pulled' = pulled + 1 /\ pull' = pull
    BY <1>3 DEF Put, PutOnMain
  <2>2. /\ main' \in Seq(Ids) /\ Extends(main', main) /\ Len(main') = Len(main) + 1 /\ main'[Len(main) + 1] = Fresh
        /\ \A i \in 1 .. Len(main') : i \notin 1 .. Len(main) => i = Len(main) + 1
    BY <1>1, <1>2, <2>1, ExtendsByOne
  <2>3. pulled' \in 0 .. Len(main')
    BY <1>2, <2>1, <2>2
  <2>4. MergesStand
    BY <2>1 DEF MergesStand
  <2>5. PlaceKnown(Len(main) + 1, main', commits', pull')
    BY <1>1, <2>2 DEF PlaceKnown
  <2> QED BY <1>2, <2>1, <2>2, <2>3, <2>4, <2>5
<1>4. CASE where \in PRs
  <2> DEFINE request == [pull[where] EXCEPT !.list = Append(pull[where].list, Fresh), !.updated = clock]
  <2>1. where # None
    BY <1>4, EvidenceAssumption
  <2>2. pull[where].state = "open" /\ main' = main /\ pulled' = pulled
    BY <2>1 DEF Put, PutOnBranch
  <2>3. pull' = [pull EXCEPT ![where] = request]
    BY <1>2, <2>1 DEF Put, PutOnBranch
  <2>4. /\ pull[where] \in PullRecord /\ pull[where].list \in Seq(Ids)
        /\ RequestKnown(where, pull[where], commits, clock)
    BY <1>2, <1>4 DEF PullRecord, EvidenceInv
  <2>5. /\ Append(pull[where].list, Fresh) \in Seq(Ids)
        /\ Extends(Append(pull[where].list, Fresh), pull[where].list)
        /\ Append(pull[where].list, Fresh)[Len(pull[where].list) + 1] = Fresh
        /\ \A i \in 1 .. Len(Append(pull[where].list, Fresh)) :
             i \notin 1 .. Len(pull[where].list) => i = Len(pull[where].list) + 1
    BY <1>1, <2>4, ExtendsByOne
  <2>6. /\ request \in PullRecord /\ request.list = Append(pull[where].list, Fresh)
        /\ request.updated = clock /\ request.merge = pull[where].merge /\ request.state = "open"
    BY <1>2, <2>2, <2>4, <2>5 DEF PullRecord
  <2> HIDE DEF request
  <2>7. /\ pull' \in [PRs -> PullRecord] /\ MergesStand /\ pull'[where] = request
        /\ \A q \in PRs : pull'[q] # pull[q] => q = where
    BY <1>4, <2>2, <2>3, <2>6, PullGrows
  <2>8. \A j \in 1 .. Len(commits) : j \in 1 .. Len(commits') /\ commits'[j] = commits[j]
    BY <1>1 DEF Extends
  <2>9. RequestKnown(where, request, commits', clock')
    <3>1. ASSUME NEW i \in 1 .. Len(request.list)
          PROVE  request.list[i] \in 1 .. Len(commits') /\ ~commits'[request.list[i]].forge
      <4>1. CASE i \in 1 .. Len(pull[where].list)
        <5>1. request.list[i] = pull[where].list[i]
          BY <2>5, <2>6, <4>1 DEF Extends
        <5> QED BY <2>4, <2>8, <4>1, <5>1 DEF RequestKnown
      <4>2. CASE i \notin 1 .. Len(pull[where].list)
        BY <1>1, <2>5, <2>6, <4>2
      <4> QED BY <4>1, <4>2
    <3>2. request.merge # None => request.merge \in 1 .. Len(commits') /\ commits'[request.merge].by = where
      BY <2>4, <2>6, <2>8 DEF RequestKnown
    <3>3. request.updated # None => request.updated <= clock'
      BY <1>2, <2>6
    <3> QED BY <3>1, <3>2, <3>3 DEF RequestKnown
  <2>10. Extends(main', main)
    BY <1>2, <2>2, ExtendsItself
  <2> QED BY <1>2, <2>2, <2>7, <2>9, <2>10
<1> QED BY <1>3, <1>4

\* A commit a person made, in this clone or another.
LEMMA OwnCommitKeeps ==
    ASSUME EvidenceInv, CanCommit, NEW k \in Commit, commits' = Append(commits, k), clock' = clock,
           ~k.forge, k.by = None, k.joins = {}, k.parents = 1, k.authored = clock, k.committed = clock,
           NEW where \in PRs \cup {None}, Put(Fresh, where),
           WindowsGrow, window' \in [Sessions -> Window \cup {None}],
           \A t \in Sessions : window'[t] # None =>
             window'[t].start <= window'[t].end /\ window'[t].end <= clock',
           \A s \in k.of : window'[s] # None /\ window'[s].start <= clock /\ window'[s].end = clock,
           made' = made \/ (made' = made \cup {Fresh} /\ k.here),
           present' \in {present, present \cup {Fresh}}
    PROVE  EvidenceInv'
<1>1. /\ commits' \in Seq(Commit) /\ Len(commits') <= MaxCommits /\ Extends(commits', commits)
      /\ Fresh \in Ids /\ Fresh \in 1 .. Len(commits') /\ commits'[Fresh] = k
      /\ \A c \in 1 .. Len(commits') : c \notin 1 .. Len(commits) => c = Fresh
  BY CommitAdded
<1>2. /\ main' \in Seq(Ids) /\ pulled' \in 0 .. Len(main') /\ Extends(main', main)
      /\ pull' \in [PRs -> PullRecord] /\ MergesStand
      /\ \A p \in PRs : pull'[p] # pull[p] => RequestKnown(p, pull'[p], commits', clock')
      /\ \A i \in 1 .. Len(main') : i \notin 1 .. Len(main) => PlaceKnown(i, main', commits', pull')
  BY PutGrows
<1>3. EvidenceTypes'
  <2>1. clock \in 0 .. MaxClock /\ clock \in Nat /\ made \subseteq Ids /\ present \subseteq Ids
    BY DEF EvidenceInv, EvidenceTypes, EvidenceTypeOK
  <2>2. made' \subseteq Ids /\ present' \subseteq Ids
    BY <1>1, <2>1
  <2>3. EvidenceTypeOK'
    BY <1>1, <1>2, <2>1, <2>2 DEF EvidenceTypeOK
  <2> QED BY <1>2, <2>3 DEF EvidenceTypes
<1>4. CommitKnown(k, commits', window', pull', clock')
  <2>1. clock \in Nat
    BY DEF EvidenceInv, EvidenceTypes, EvidenceTypeOK
  <2> QED BY <2>1 DEF CommitKnown
<1>5. \A c \in made' : c \notin made => c \in 1 .. Len(commits') /\ commits'[c].here
  BY <1>1
<1>6. \A c \in 1 .. Len(commits') : c \notin 1 .. Len(commits) =>
        CommitKnown(commits'[c], commits', window', pull', clock')
  BY <1>1, <1>4
<1>7. clock <= clock'
  BY DEF EvidenceInv, EvidenceTypes, EvidenceTypeOK
<1> QED BY <1>1, <1>2, <1>3, <1>5, <1>6, <1>7, EvidenceGrows

LEMMA OwnStepKeeps ==
    ASSUME EvidenceInv,
           \/ \E s \in Sessions, where \in PRs \cup {None} : SessionCommit(s, where)
           \/ \E where \in PRs \cup {None} : HandCommit(where)
           \/ \E p \in PRs, fetched \in BOOLEAN : TeammateCommit(p, fetched)
    PROVE  EvidenceInv'
<1>1. clock \in Nat
  BY DEF EvidenceInv, EvidenceTypes, EvidenceTypeOK
<1>2. ASSUME NEW s \in Sessions, NEW where \in PRs \cup {None}, SessionCommit(s, where) PROVE EvidenceInv'
  <2> DEFINE k == [Plain EXCEPT !.of = {s}]
  <2>1. /\ k \in Commit /\ ~k.forge /\ k.by = None /\ k.joins = {} /\ k.parents = 1 /\ k.authored = clock
        /\ k.committed = clock /\ k.of = {s} /\ k.here
    BY <1>1 DEF Plain, Commit
  <2>2. /\ CanCommit /\ Put(Fresh, where) /\ Event(s) /\ commits' = Append(commits, k) /\ clock' = clock
        /\ made' = made \cup {Fresh} /\ present' = present \cup {Fresh}
    BY <1>2 DEF SessionCommit, Write
  <2> HIDE DEF k
  <2>3. /\ WindowsGrow /\ window' \in [Sessions -> Window \cup {None}]
        /\ \A t \in Sessions : window'[t] # None =>
             window'[t].start <= window'[t].end /\ window'[t].end <= clock'
        /\ window'[s] # None /\ window'[s].start <= clock /\ window'[s].end = clock
    BY <2>2, EventGrows
  <2> QED BY <2>1, <2>2, <2>3, OwnCommitKeeps
<1>3. ASSUME NEW where \in PRs \cup {None}, HandCommit(where) PROVE EvidenceInv'
  <2>1. /\ Plain \in Commit /\ ~Plain.forge /\ Plain.by = None /\ Plain.joins = {} /\ Plain.parents = 1
        /\ Plain.authored = clock /\ Plain.committed = clock /\ Plain.of = {} /\ Plain.here
    BY <1>1 DEF Plain, Commit
  <2>2. /\ CanCommit /\ Put(Fresh, where) /\ commits' = Append(commits, Plain) /\ UNCHANGED <<window, clock>>
        /\ made' = made \cup {Fresh} /\ present' = present \cup {Fresh}
    BY <1>3 DEF HandCommit
  <2> QED BY <2>1, <2>2, OwnCommitKeeps, WindowsStand
<1>4. ASSUME NEW p \in PRs, NEW fetched \in BOOLEAN, TeammateCommit(p, fetched) PROVE EvidenceInv'
  <2> DEFINE k == [Plain EXCEPT !.here = FALSE]
  <2>1. /\ k \in Commit /\ ~k.forge /\ k.by = None /\ k.joins = {} /\ k.parents = 1 /\ k.authored = clock
        /\ k.committed = clock /\ k.of = {}
    BY <1>1 DEF Plain, Commit
  <2>2. /\ CanCommit /\ PutOnBranch(Fresh, p) /\ commits' = Append(commits, k)
        /\ UNCHANGED <<window, clock, made>> /\ present' \in {present, present \cup {Fresh}}
    BY <1>4 DEF TeammateCommit
  <2> HIDE DEF k
  <2>3. Put(Fresh, p)
    BY <2>2, EvidenceAssumption DEF Put
  <2> QED BY <2>1, <2>2, <2>3, OwnCommitKeeps, WindowsStand
<1> QED BY <1>2, <1>3, <1>4

\* An amended or rebased commit takes the place of the one it came from.
LEMMA RewriteKeeps ==
    ASSUME EvidenceInv, NEW p \in PRs, NEW i \in DOMAIN pull[p].list, Rewrite(p, i)
    PROVE  EvidenceInv'
<1> DEFINE old == commits[pull[p].list[i]]
           k == [old EXCEPT !.committed = clock, !.here = TRUE]
           request == [pull[p] EXCEPT !.list = [pull[p].list EXCEPT ![i] = Fresh], !.updated = clock]
<1>1. /\ CanCommit /\ pull[p].state = "open" /\ commits' = Append(commits, k)
      /\ made' = made \cup {Fresh} /\ present' = present \cup {Fresh}
      /\ UNCHANGED <<clock, window, main, pulled>>
  BY DEF Rewrite, Write
<1>2. /\ clock \in Nat /\ clock \in 0 .. MaxClock /\ main \in Seq(Ids) /\ pull \in [PRs -> PullRecord]
      /\ made \subseteq Ids /\ present \subseteq Ids /\ pulled \in 0 .. Len(main)
  BY OfCommits DEF EvidenceInv, EvidenceTypes, EvidenceTypeOK
<1>3. /\ pull[p] \in PullRecord /\ pull[p].list \in Seq(Ids) /\ i \in 1 .. Len(pull[p].list)
      /\ RequestKnown(p, pull[p], commits, clock)
  <2>1. pull[p] \in PullRecord /\ pull[p].list \in Seq(Ids) /\ RequestKnown(p, pull[p], commits, clock)
    BY <1>2 DEF PullRecord, EvidenceInv
  <2> QED BY <2>1, LenProperties
<1>4. /\ old \in Commit /\ ~old.forge /\ CommitKnown(old, commits, window, pull, clock)
  BY <1>3, OfCommits DEF RequestKnown
<1>5. pull' = [pull EXCEPT ![p] = request]
  BY <1>2 DEF Rewrite
<1>6. /\ k \in Commit /\ k.committed = clock /\ k.authored = old.authored /\ ~k.forge /\ k.by = None
      /\ k.joins = old.joins /\ k.parents = old.parents /\ k.of = old.of /\ k.here
  BY <1>2, <1>4 DEF Commit, CommitKnown
<1> HIDE DEF k
<1>7. /\ commits' \in Seq(Commit) /\ Len(commits') <= MaxCommits /\ Extends(commits', commits)
      /\ Fresh \in Ids /\ Fresh \in 1 .. Len(commits') /\ commits'[Fresh] = k
      /\ \A c \in 1 .. Len(commits') : c \notin 1 .. Len(commits) => c = Fresh
  BY <1>1, <1>6, CommitAdded
<1>8. /\ [pull[p].list EXCEPT ![i] = Fresh] \in Seq(Ids)
      /\ Len([pull[p].list EXCEPT ![i] = Fresh]) = Len(pull[p].list)
      /\ \A j \in 1 .. Len(pull[p].list) :
           [pull[p].list EXCEPT ![i] = Fresh][j] = IF j = i THEN Fresh ELSE pull[p].list[j]
  BY <1>3, <1>7, ExceptSeq
<1>9. /\ request \in PullRecord /\ request.list = [pull[p].list EXCEPT ![i] = Fresh]
      /\ request.updated = clock /\ request.merge = pull[p].merge /\ request.state = "open"
  BY <1>1, <1>2, <1>3, <1>8 DEF PullRecord
<1> HIDE DEF request, old
<1>10. /\ pull' \in [PRs -> PullRecord] /\ MergesStand /\ pull'[p] = request
       /\ \A q \in PRs : pull'[q] # pull[q] => q = p
  BY <1>1, <1>5, <1>9, PullGrows
<1>11. \A j \in 1 .. Len(commits) : j \in 1 .. Len(commits') /\ commits'[j] = commits[j]
  BY <1>7 DEF Extends
<1>12. RequestKnown(p, request, commits', clock')
  <2>1. ASSUME NEW j \in 1 .. Len(request.list)
        PROVE  request.list[j] \in 1 .. Len(commits') /\ ~commits'[request.list[j]].forge
    <3>1. CASE j = i
      <4>1. request.list[j] = Fresh
        BY <1>8, <1>9, <3>1
      <4> QED BY <1>6, <1>7, <4>1
    <3>2. CASE j # i
      <4>1. j \in 1 .. Len(pull[p].list) /\ request.list[j] = pull[p].list[j]
        BY <1>8, <1>9, <3>2
      <4>2. pull[p].list[j] \in 1 .. Len(commits) /\ ~commits[pull[p].list[j]].forge
        BY <1>3, <4>1 DEF RequestKnown
      <4> QED BY <1>11, <4>1, <4>2
    <3> QED BY <3>1, <3>2
  <2>2. request.merge # None => request.merge \in 1 .. Len(commits') /\ commits'[request.merge].by = p
    <3>1. pull[p].merge # None => pull[p].merge \in 1 .. Len(commits) /\ commits[pull[p].merge].by = p
      BY <1>3 DEF RequestKnown
    <3> QED BY <1>9, <1>11, <3>1
  <2>3. request.updated <= clock'
    <3>1. request.updated = clock /\ clock' = clock /\ clock \in Nat
      BY <1>1, <1>2, <1>9
    <3> QED BY <3>1
  <2> QED BY <2>1, <2>2, <2>3 DEF RequestKnown
<1>13. /\ WindowsGrow /\ window' \in [Sessions -> Window \cup {None}]
       /\ \A t \in Sessions : window'[t] # None =>
            window'[t].start <= window'[t].end /\ window'[t].end <= clock'
  BY <1>1, WindowsStand
<1>14. CommitKnown(k, commits', window', pull', clock')
  <2>1. CommitKnown(old, commits', window', pull', clock')
    BY <1>1, <1>2, <1>4, <1>7, <1>10, <1>13, CommitStaysKnown
  <2>2. old.authored \in Nat /\ old.committed \in Nat
    BY <1>4 DEF Commit
  <2>3. old.authored <= clock
    BY <1>2, <1>4, <2>2 DEF CommitKnown
  <2> QED BY <1>1, <1>2, <1>4, <1>6, <2>1, <2>3 DEF CommitKnown
<1>15. EvidenceTypes'
  <2>1. EvidenceTypeOK'
    BY <1>1, <1>2, <1>7, <1>13 DEF EvidenceTypeOK
  <2> QED BY <1>10, <1>13, <2>1 DEF EvidenceTypes
<1>16. Extends(main', main)
  BY <1>1, <1>2, ExtendsItself
<1>17. \A c \in made' : c \notin made => c \in 1 .. Len(commits') /\ commits'[c].here
  BY <1>1, <1>6, <1>7
<1>18. \A c \in 1 .. Len(commits') : c \notin 1 .. Len(commits) =>
         CommitKnown(commits'[c], commits', window', pull', clock')
  BY <1>7, <1>14
<1>19. \A q \in PRs : pull'[q] # pull[q] => RequestKnown(q, pull'[q], commits', clock')
  BY <1>10, <1>12
<1>20. \A j \in 1 .. Len(main') : j \notin 1 .. Len(main) => PlaceKnown(j, main', commits', pull')
  BY <1>1
<1>21. clock <= clock'
  BY <1>1, <1>2
<1> QED BY <1>7, <1>10, <1>13, <1>15, <1>16, <1>17, <1>18, <1>19, <1>20, <1>21, EvidenceGrows

\* A merge closes an open pull request, and its commit is its own.
LEMMA MergeGrows ==
    ASSUME EvidenceInv, NEW p \in PRs, NEW id \in Ids, pull[p].state = "open", Merged(p, id), clock' = clock,
           Extends(commits', commits), id \in 1 .. Len(commits'), commits'[id].by = p
    PROVE  /\ pull' \in [PRs -> PullRecord] /\ MergesStand
           /\ pull'[p].state = "merged" /\ pull'[p].merge = id /\ pull'[p].updated = clock
           /\ \A q \in PRs : pull'[q] # pull[q] => RequestKnown(q, pull'[q], commits', clock')
<1> DEFINE request == [pull[p] EXCEPT !.state = "merged", !.merge = id, !.updated = clock]
<1>1. /\ pull \in [PRs -> PullRecord] /\ pull[p] \in PullRecord /\ clock \in Nat
      /\ RequestKnown(p, pull[p], commits, clock)
  BY OfCommits DEF EvidenceInv, EvidenceTypes, EvidenceTypeOK
<1>2. pull' = [pull EXCEPT ![p] = request]
  BY <1>1 DEF Merged
<1>3. /\ request \in PullRecord /\ request.state = "merged" /\ request.merge = id
      /\ request.updated = clock /\ request.list = pull[p].list
  BY <1>1 DEF PullRecord
<1> HIDE DEF request
<1>4. /\ pull' \in [PRs -> PullRecord] /\ MergesStand /\ pull'[p] = request
      /\ \A q \in PRs : pull'[q] # pull[q] => q = p
  BY <1>2, <1>3, PullGrows
<1>5. \A j \in 1 .. Len(commits) : j \in 1 .. Len(commits') /\ commits'[j] = commits[j]
  BY DEF Extends
<1>6. RequestKnown(p, request, commits', clock')
  <2>1. \A i \in 1 .. Len(request.list) :
          request.list[i] \in 1 .. Len(commits') /\ ~commits'[request.list[i]].forge
    BY <1>1, <1>3, <1>5 DEF RequestKnown
  <2>2. request.updated # None => request.updated <= clock'
    BY <1>1, <1>3
  <2> QED BY <1>3, <2>1, <2>2 DEF RequestKnown
<1> QED BY <1>3, <1>4, <1>6

\* A commit the forge makes out of nothing, or of a pull request's whole work.
LEMMA LandedCommitKeeps ==
    ASSUME EvidenceInv, CanCommit, NEW k \in Commit, commits' = Append(commits, k),
           main' = Append(main, Fresh), UNCHANGED <<clock, window, pulled, made, present>>,
           k.forge, k.authored = clock, k.committed = clock,
           \A j \in k.joins : j \in 1 .. Len(commits) /\ ~commits[j].forge,
           k.parents = 2 => \A s \in k.of : \E j \in k.joins : s \in commits[j].of,
           \A s \in k.of : window[s] # None /\ window[s].start <= clock,
           \/ k.by = None /\ pull' = pull
           \/ \E p \in PRs : k.by = p /\ pull[p].state = "open" /\ Merged(p, Fresh)
    PROVE  EvidenceInv'
<1>1. /\ commits' \in Seq(Commit) /\ Len(commits') <= MaxCommits /\ Extends(commits', commits)
      /\ Fresh \in Ids /\ Fresh \in 1 .. Len(commits') /\ commits'[Fresh] = k
      /\ \A c \in 1 .. Len(commits') : c \notin 1 .. Len(commits) => c = Fresh
  BY CommitAdded
<1>2. /\ clock \in Nat /\ clock \in 0 .. MaxClock /\ main \in Seq(Ids) /\ pull \in [PRs -> PullRecord]
      /\ made \subseteq Ids /\ present \subseteq Ids /\ pulled \in 0 .. Len(main) /\ Len(main) \in Nat
  BY OfCommits DEF EvidenceInv, EvidenceTypes, EvidenceTypeOK
<1>3. /\ main' \in Seq(Ids) /\ Extends(main', main) /\ Len(main') = Len(main) + 1
      /\ main'[Len(main) + 1] = Fresh
      /\ \A i \in 1 .. Len(main') : i \notin 1 .. Len(main) => i = Len(main) + 1
  BY <1>1, <1>2, ExtendsByOne
<1>4. /\ pull' \in [PRs -> PullRecord] /\ MergesStand
      /\ \A q \in PRs : pull'[q] # pull[q] => RequestKnown(q, pull'[q], commits', clock')
      /\ k.by # None => /\ pull'[k.by].state = "merged" /\ pull'[k.by].merge = Fresh
                        /\ pull'[k.by].updated = clock
  <2>1. CASE k.by = None /\ pull' = pull
    BY <1>2, <2>1 DEF MergesStand
  <2>2. CASE \E p \in PRs : k.by = p /\ pull[p].state = "open" /\ Merged(p, Fresh)
    BY <1>1, <2>2, MergeGrows
  <2> QED BY <2>1, <2>2
<1>5. /\ WindowsGrow /\ window' \in [Sessions -> Window \cup {None}]
      /\ \A t \in Sessions : window'[t] # None =>
           window'[t].start <= window'[t].end /\ window'[t].end <= clock'
  BY WindowsStand
<1>6. CommitKnown(k, commits', window', pull', clock')
  <2>1. \A j \in 1 .. Len(commits) : j \in 1 .. Len(commits') /\ commits'[j] = commits[j]
    BY <1>1 DEF Extends
  <2>2. \A j \in k.joins : j \in 1 .. Len(commits') /\ ~commits'[j].forge
    BY <2>1
  <2>3. k.parents = 2 => \A s \in k.of : \E j \in k.joins : s \in commits'[j].of
    BY <2>1
  <2>4. k.by # None => /\ pull'[k.by].state = "merged" /\ pull'[k.by].updated \in Nat
                       /\ k.committed <= pull'[k.by].updated
    BY <1>2, <1>4
  <2> QED BY <1>2, <2>2, <2>3, <2>4 DEF CommitKnown
<1>7. PlaceKnown(Len(main) + 1, main', commits', pull')
  BY <1>1, <1>3, <1>4 DEF PlaceKnown
<1>8. EvidenceTypes'
  <2>1. pulled' \in 0 .. Len(main')
    BY <1>2, <1>3
  <2>2. EvidenceTypeOK'
    BY <1>1, <1>2, <1>3, <1>5, <2>1 DEF EvidenceTypeOK
  <2> QED BY <1>4, <1>5, <2>2 DEF EvidenceTypes
<1>9. \A c \in 1 .. Len(commits') : c \notin 1 .. Len(commits) =>
        CommitKnown(commits'[c], commits', window', pull', clock')
  BY <1>1, <1>6
<1>10. \A i \in 1 .. Len(main') : i \notin 1 .. Len(main) => PlaceKnown(i, main', commits', pull')
  BY <1>3, <1>7
<1>11. clock <= clock' /\ \A c \in made' : c \in made
  BY <1>2
<1> QED BY <1>1, <1>3, <1>4, <1>5, <1>8, <1>9, <1>10, <1>11, EvidenceGrows

\* The work of what a pull request lists: each session of it has begun, and what it
\* lists no forge wrote.
LEMMA ListedWork ==
    ASSUME EvidenceInv, NEW p \in PRs
    PROVE  /\ \A j \in Range(pull[p].list) : j \in 1 .. Len(commits) /\ j \in Ids /\ ~commits[j].forge
           /\ WorkOf(p) \subseteq Sessions
           /\ \A s \in WorkOf(p) : /\ window[s] # None /\ window[s].start <= clock
                                   /\ \E j \in Range(pull[p].list) : s \in commits[j].of
<1>1. pull[p].list \in Seq(Ids) /\ RequestKnown(p, pull[p], commits, clock)
  BY OfCommits DEF PullRecord, EvidenceInv
<1>2. Range(pull[p].list) = {pull[p].list[i] : i \in 1 .. Len(pull[p].list)}
  BY <1>1, RangeEquality
<1>3. \A j \in Range(pull[p].list) : j \in 1 .. Len(commits) /\ ~commits[j].forge
  BY <1>1, <1>2 DEF RequestKnown
<1>4. \A j \in Range(pull[p].list) : j \in Ids
  BY <1>1, <1>2, ElementOfSeq
<1>5. ASSUME NEW s \in WorkOf(p)
      PROVE  /\ s \in Sessions /\ window[s] # None /\ window[s].start <= clock
             /\ \E j \in Range(pull[p].list) : s \in commits[j].of
  <2>1. PICK j \in Range(pull[p].list) : s \in commits[j].of
    BY DEF WorkOf
  <2>2. /\ s \in Sessions /\ window[s] # None
    BY <1>3, <2>1, OfCommits DEF CommitKnown, Commit
  <2>3. /\ window[s].start \in Nat /\ window[s].end \in Nat /\ clock \in Nat
        /\ window[s].start <= window[s].end /\ window[s].end <= clock
    BY <2>2 DEF EvidenceInv, EvidenceTypes, EvidenceTypeOK, Window
  <2> QED BY <2>1, <2>2, <2>3
<1> QED BY <1>3, <1>4, <1>5

LEMMA LandingKeeps ==
    ASSUME EvidenceInv,
           WebEdit \/ \E p \in PRs : Squash(p) \/ MergeCommit(p)
    PROVE  EvidenceInv'
<1>1. clock \in Nat
  BY DEF EvidenceInv, EvidenceTypes, EvidenceTypeOK
<1>2. CASE WebEdit
  <2>1. /\ Forged \in Commit /\ Forged.forge /\ Forged.authored = clock /\ Forged.committed = clock
        /\ Forged.joins = {} /\ Forged.of = {} /\ Forged.by = None
    BY <1>1 DEF Forged, Plain, Commit
  <2> QED BY <1>2, <2>1, LandedCommitKeeps DEF WebEdit
<1>3. ASSUME NEW p \in PRs, Squash(p) PROVE EvidenceInv'
  <2> DEFINE k == [Forged EXCEPT !.of = WorkOf(p), !.by = p]
  <2>1. /\ k \in Commit /\ k.forge /\ k.authored = clock /\ k.committed = clock
        /\ k.joins = {} /\ k.of = WorkOf(p) /\ k.by = p /\ k.parents = 1
    BY <1>1, ListedWork DEF Forged, Plain, Commit
  <2>2. /\ CanCommit /\ pull[p].state = "open" /\ commits' = Append(commits, k) /\ Merged(p, Fresh)
        /\ main' = Append(main, Fresh) /\ UNCHANGED <<clock, window, pulled, made, present>>
    BY <1>3 DEF Squash
  <2> HIDE DEF k
  <2>3. \A s \in k.of : window[s] # None /\ window[s].start <= clock
    BY <2>1, ListedWork
  <2> QED BY <2>1, <2>2, <2>3, LandedCommitKeeps
<1>4. ASSUME NEW p \in PRs, MergeCommit(p) PROVE EvidenceInv'
  <2> DEFINE k == [Forged EXCEPT !.parents = 2, !.joins = Range(pull[p].list), !.of = WorkOf(p), !.by = p]
  <2>1. /\ k \in Commit /\ k.forge /\ k.authored = clock /\ k.committed = clock
        /\ k.joins = Range(pull[p].list) /\ k.of = WorkOf(p) /\ k.by = p
    BY <1>1, ListedWork DEF Forged, Plain, Commit
  <2>2. /\ CanCommit /\ pull[p].state = "open" /\ commits' = Append(commits, k) /\ Merged(p, Fresh)
        /\ main' = Append(main, Fresh) /\ UNCHANGED <<clock, window, pulled, made, present>>
    BY <1>4 DEF MergeCommit
  <2> HIDE DEF k
  <2>3. /\ \A s \in k.of : window[s] # None /\ window[s].start <= clock
        /\ \A s \in k.of : \E j \in k.joins : s \in commits[j].of
        /\ \A j \in k.joins : j \in 1 .. Len(commits) /\ ~commits[j].forge
    BY <2>1, ListedWork
  <2> QED BY <2>1, <2>2, <2>3, LandedCommitKeeps
<1> QED BY <1>2, <1>3, <1>4

\* A replay keeps each commit's author's time, and ends in the merge commit.
LEMMA RebaseMergeKeeps ==
    ASSUME EvidenceInv, NEW p \in PRs, RebaseMerge(p)
    PROVE  EvidenceInv'
<1> DEFINE list == pull[p].list
           from == Upstream(p) + 1
           m == Len(list) - from + 1
           Replay(i) == [commits[list[from + i - 1]] EXCEPT !.committed = clock, !.forge = TRUE,
                                                            !.here = FALSE, !.by = p]
           replayed == [i \in 1 .. m |-> Replay(i)]
           ids == [i \in DOMAIN replayed |-> Len(commits) + i]
           N == Len(commits)
           M == Len(main)
<1>1. /\ pull[p].state = "open" /\ from <= Len(list) /\ N + Len(replayed) <= MaxCommits
      /\ commits' = commits \o replayed /\ main' = main \o ids /\ Merged(p, Last(ids))
      /\ UNCHANGED <<clock, window, pulled, made, present>>
  BY DEF RebaseMerge
<1>2. /\ clock \in Nat /\ clock \in 0 .. MaxClock /\ main \in Seq(Ids) /\ pull \in [PRs -> PullRecord]
      /\ made \subseteq Ids /\ present \subseteq Ids /\ pulled \in 0 .. M /\ M \in Nat /\ N \in Nat
      /\ commits \in Seq(Commit)
  BY OfCommits DEF EvidenceInv, EvidenceTypes, EvidenceTypeOK
<1>3. list \in Seq(Ids) /\ Len(list) \in Nat /\ RequestKnown(p, pull[p], commits, clock)
  <2>1. pull[p] \in PullRecord /\ list \in Seq(Ids) /\ RequestKnown(p, pull[p], commits, clock)
    BY <1>2 DEF PullRecord, EvidenceInv
  <2> QED BY <2>1, LenProperties
<1>4. from \in Nat \ {0} /\ m \in Nat \ {0} /\ m <= Len(list)
  <2>1. Upstream(p) \in Nat
    <3>0. DOMAIN list = 1 .. Len(list) /\ Len(list) \in Int
      BY <1>3, LenProperties
    <3>1. DOMAIN list = 1 .. Len(list) /\ IsFiniteSet(1 .. Len(list))
      BY <3>0, FS_Interval
    <3>2. IsFiniteSet({i \in DOMAIN pull[p].list :
             \A j \in 1..i : \E q \in PRs \ {p} : /\ pull[q].state = "merged"
                                                  /\ pull[p].list[j] \in Range(pull[q].list)})
      BY <3>1, FS_Subset
    <3> QED BY <3>2, FS_CardinalityType DEF Upstream
  <2>2. from <= Len(list) /\ Len(list) \in Nat
    BY <1>1, <1>3
  <2> HIDE DEF list
  <2> QED BY <2>1, <2>2
<1> HIDE DEF from, m
\* Each replayed commit, and the one it replays.
<1>5. ASSUME NEW i \in 1 .. m
      PROVE  LET old == commits[list[from + i - 1]] IN
             /\ list[from + i - 1] \in 1 .. N /\ old \in Commit /\ ~old.forge
             /\ CommitKnown(old, commits, window, pull, clock)
             /\ Replay(i) \in Commit /\ Replay(i).forge /\ Replay(i).committed = clock /\ Replay(i).by = p
             /\ Replay(i).authored = old.authored /\ Replay(i).parents = old.parents
             /\ Replay(i).joins = old.joins /\ Replay(i).of = old.of
  <2>1. from + i - 1 \in 1 .. Len(list)
    <3> HIDE DEF list
    <3> QED BY <1>3, <1>4 DEF m
  <2>2. list[from + i - 1] \in 1 .. N /\ ~commits[list[from + i - 1]].forge
    BY <1>3, <2>1 DEF RequestKnown
  <2>3. /\ commits[list[from + i - 1]] \in Commit
        /\ CommitKnown(commits[list[from + i - 1]], commits, window, pull, clock)
    BY <2>2, OfCommits
  <2> QED BY <1>2, <2>2, <2>3 DEF Commit
<1> HIDE DEF Replay
<1>6. /\ replayed \in Seq(Commit) /\ Len(replayed) = m /\ DOMAIN replayed = 1 .. m
      /\ \A i \in 1 .. m : replayed[i] = Replay(i)
  <2>1. replayed \in [1 .. m -> Commit]
    BY <1>5
  <2> QED BY <1>4, <2>1
<1> HIDE DEF replayed
<1>7. N + m <= MaxCommits /\ MaxCommits \in Nat
  BY <1>1, <1>6, EvidenceAssumption
<1>8. /\ ids \in Seq(Ids) /\ Len(ids) = m /\ \A i \in 1 .. m : ids[i] = N + i
  <2>1. \A i \in 1 .. m : N + i \in Ids
    BY <1>2, <1>4, <1>7 DEF Ids
  <2>2. ids = [i \in 1 .. m |-> N + i]
    BY <1>6
  <2>3. ids \in [1 .. m -> Ids]
    BY <2>1, <2>2
  <2> QED BY <1>4, <2>2, <2>3
<1>9. Last(ids) = N + m
  BY <1>4, <1>8 DEF Last
<1> HIDE DEF ids
<1>10. /\ commits' \in Seq(Commit) /\ Len(commits') = N + m
       /\ \A i \in 1 .. N : commits'[i] = commits[i]
       /\ \A i \in 1 .. m : commits'[N + i] = Replay(i)
  <2>1. /\ commits' \in Seq(Commit) /\ Len(commits') = N + m
        /\ \A i \in 1 .. N + m : commits'[i] = IF i <= N THEN commits[i] ELSE replayed[i - N]
    BY <1>1, <1>2, <1>6, ConcatProperties
  <2> HIDE DEF N
  <2> QED BY <1>2, <1>4, <1>6, <2>1
<1>11. /\ main' \in Seq(Ids) /\ Len(main') = M + m
       /\ \A i \in 1 .. M : main'[i] = main[i]
       /\ \A i \in 1 .. m : main'[M + i] = N + i
  <2>1. /\ main' \in Seq(Ids) /\ Len(main') = M + m
        /\ \A i \in 1 .. M + m : main'[i] = IF i <= M THEN main[i] ELSE ids[i - M]
    <3>1. main' = main \o ids /\ main \in Seq(Ids) /\ ids \in Seq(Ids) /\ Len(ids) = m
      BY <1>1, <1>2, <1>8
    <3> QED BY <3>1, ConcatProperties
  <2> HIDE DEF M, N
  <2> QED BY <1>2, <1>4, <1>8, <2>1
<1>12. Extends(commits', commits) /\ Extends(main', main)
  <2>1. /\ Len(commits') \in Nat /\ N <= Len(commits')
        /\ Len(main') \in Nat /\ M <= Len(main')
    <3> HIDE DEF N, M
    <3> QED BY <1>2, <1>4, <1>10, <1>11
  <2> QED BY <1>2, <1>10, <1>11, <2>1 DEF Extends
<1>13. /\ pull' \in [PRs -> PullRecord] /\ MergesStand
       /\ pull'[p].state = "merged" /\ pull'[p].merge = N + m /\ pull'[p].updated = clock
       /\ \A q \in PRs : pull'[q] # pull[q] => RequestKnown(q, pull'[q], commits', clock')
  <2>1. N + m \in Ids /\ N + m \in 1 .. Len(commits')
    <3> HIDE DEF N
    <3> QED BY <1>2, <1>4, <1>7, <1>10 DEF Ids
  <2>2. commits'[N + m].by = p
    BY <1>4, <1>5, <1>10
  <2>3. Merged(p, N + m) /\ clock' = clock /\ pull[p].state = "open"
    BY <1>1, <1>9
  <2> HIDE DEF N, list
  <2> QED BY <1>12, <2>1, <2>2, <2>3, MergeGrows
<1>14. /\ WindowsGrow /\ window' \in [Sessions -> Window \cup {None}]
       /\ \A t \in Sessions : window'[t] # None =>
            window'[t].start <= window'[t].end /\ window'[t].end <= clock'
  BY <1>1, WindowsStand
<1>15. ASSUME NEW i \in 1 .. m PROVE CommitKnown(Replay(i), commits', window', pull', clock')
  <2> DEFINE old == commits[list[from + i - 1]]
  <2>1. /\ old \in Commit /\ ~old.forge /\ CommitKnown(old, commits, window, pull, clock)
        /\ Replay(i) \in Commit /\ Replay(i).forge /\ Replay(i).committed = clock /\ Replay(i).by = p
        /\ Replay(i).authored = old.authored /\ Replay(i).parents = old.parents
        /\ Replay(i).joins = old.joins /\ Replay(i).of = old.of
    BY <1>5
  <2> HIDE DEF old
  <2>2. CommitKnown(old, commits', window', pull', clock')
    BY <1>1, <1>2, <1>12, <1>13, <1>14, <2>1, CommitStaysKnown
  <2>3. old.authored \in Nat /\ old.committed \in Nat /\ old.authored <= clock
    BY <1>2, <2>1 DEF Commit, CommitKnown
  <2>4. Replay(i).authored <= Replay(i).committed /\ Replay(i).committed <= clock'
    BY <1>1, <1>2, <2>1, <2>3
  <2>5. /\ pull'[Replay(i).by].state = "merged" /\ pull'[Replay(i).by].updated \in Nat
        /\ Replay(i).committed <= pull'[Replay(i).by].updated
    BY <1>2, <1>13, <2>1
  <2>6. Replay(i).by # None
    BY <2>1, EvidenceAssumption
  <2>7. \A j \in Replay(i).joins : j \in 1 .. Len(commits') /\ ~commits'[j].forge
    BY <2>1, <2>2 DEF CommitKnown
  <2>8. Replay(i).parents = 2 => \A s \in Replay(i).of : \E j \in Replay(i).joins : s \in commits'[j].of
    BY <2>1, <2>2 DEF CommitKnown
  <2>9. \A s \in Replay(i).of : /\ window'[s] # None /\ window'[s].start <= Replay(i).authored
                                /\ Replay(i).authored <= window'[s].end
    BY <2>1, <2>2 DEF CommitKnown
  <2> QED BY <2>1, <2>4, <2>5, <2>6, <2>7, <2>8, <2>9 DEF CommitKnown
<1>16. ASSUME NEW c \in 1 .. Len(commits'), c \notin 1 .. N
       PROVE  CommitKnown(commits'[c], commits', window', pull', clock')
  <2>1. c - N \in 1 .. m /\ c = N + (c - N)
    <3> HIDE DEF N
    <3> QED BY <1>2, <1>4, <1>10, <1>16
  <2>2. commits'[c] = Replay(c - N)
    BY <1>10, <2>1
  <2> QED BY <1>15, <2>1, <2>2
<1>17. ASSUME NEW i \in 1 .. Len(main'), i \notin 1 .. M
       PROVE  PlaceKnown(i, main', commits', pull')
  <2>1. /\ i - M \in 1 .. m /\ i = M + (i - M)
        /\ i - M # m => i + 1 = M + (i - M + 1) /\ i - M + 1 \in 1 .. m /\ i < Len(main')
    <3> HIDE DEF M, N
    <3> QED BY <1>2, <1>4, <1>11, <1>17
  <2>2. \A j \in 1 .. m : /\ main'[M + j] = N + j /\ N + j \in 1 .. Len(commits')
                          /\ commits'[N + j].by = p
    <3>1. \A j \in 1 .. m : commits'[N + j].by = p /\ main'[M + j] = N + j
      BY <1>5, <1>10, <1>11
    <3> HIDE DEF N, M
    <3> QED BY <1>2, <1>4, <1>10, <3>1
  <2>3. main'[i] \in 1 .. Len(commits') /\ commits'[main'[i]].by = p
    BY <2>1, <2>2
  <2>4. CASE i - M = m
    BY <1>13, <2>1, <2>2, <2>3, <2>4 DEF PlaceKnown
  <2>5. CASE i - M # m
    BY <2>1, <2>2, <2>3, <2>5 DEF PlaceKnown
  <2> QED BY <2>4, <2>5
<1>18. EvidenceTypes'
  <2>1. pulled' \in 0 .. Len(main') /\ Len(commits') <= MaxCommits
    <3> HIDE DEF M, N
    <3> QED BY <1>1, <1>2, <1>4, <1>7, <1>10, <1>11
  <2>2. EvidenceTypeOK'
    BY <1>1, <1>2, <1>10, <1>11, <1>14, <2>1 DEF EvidenceTypeOK
  <2> QED BY <1>13, <1>14, <2>2 DEF EvidenceTypes
<1>19. clock <= clock' /\ \A c \in made' : c \in made
  BY <1>1, <1>2
<1> QED BY <1>12, <1>13, <1>14, <1>16, <1>17, <1>18, <1>19, EvidenceGrows

LEMMA EvidenceInitHolds == EvidenceInit => EvidenceInv
<1> SUFFICES ASSUME EvidenceInit PROVE EvidenceInv
  OBVIOUS
<1>1. commits = <<>> /\ main = <<>> /\ <<>> \in Seq(Commit) /\ <<>> \in Seq(Ids) /\ Len(<<>>) = 0
  BY EmptySeq DEF EvidenceInit
<1>2. pull \in [PRs -> PullRecord]
  BY <1>1 DEF EvidenceInit, PullRecord
<1>3. EvidenceTypeOK
  BY <1>1, EvidenceAssumption DEF EvidenceInit, EvidenceTypeOK
<1>4. EvidenceTypes
  BY <1>2, <1>3 DEF EvidenceInit, EvidenceTypes
<1>5. \A p \in PRs : RequestKnown(p, pull[p], commits, clock)
  BY <1>1 DEF EvidenceInit, RequestKnown
<1> QED BY <1>1, <1>4, <1>5 DEF EvidenceInit, EvidenceInv

\* Every reachable state satisfies the invariant.
THEOREM WorldStaysKnown == EvidenceSpec => []EvidenceInv
<1>1. EvidenceInv /\ [EvidenceNext]_evidenceVars => EvidenceInv'
  <2> SUFFICES ASSUME EvidenceInv, [EvidenceNext]_evidenceVars PROVE EvidenceInv'
    OBVIOUS
  <2>1. CASE Tick \/ Pull \/ (\E c \in Ids : Expire(c)) \/ (\E c \in Ids : Collected(c))
    BY <2>1, ClockAndCloneKeep
  <2>2. CASE \E s \in Sessions : Work(s)
    BY <2>2, WorkKeeps
  <2>3. CASE \/ \E s \in Sessions, where \in PRs \cup {None} : SessionCommit(s, where)
             \/ \E where \in PRs \cup {None} : HandCommit(where)
             \/ \E p \in PRs, fetched \in BOOLEAN : TeammateCommit(p, fetched)
    BY <2>3, OwnStepKeeps
  <2>4. CASE \E p \in PRs : \E i \in DOMAIN pull[p].list : Rewrite(p, i)
    BY <2>4, RewriteKeeps
  <2>5. CASE WebEdit \/ \E p \in PRs : Squash(p) \/ MergeCommit(p)
    BY <2>5, LandingKeeps
  <2>6. CASE \E p \in PRs : RebaseMerge(p)
    BY <2>6, RebaseMergeKeeps
  <2>7. CASE \E p \in PRs, q \in PRs : Stack(p, q)
    BY <2>7, StackKeeps
  <2>8. CASE UNCHANGED evidenceVars
    <3>1. UNCHANGED <<clock, window, commits, main, pulled, pull, made, present>>
      BY <2>8 DEF evidenceVars
    <3>2. EvidenceTypes'
      BY <3>1 DEF EvidenceInv, EvidenceTypes, EvidenceTypeOK
    <3> QED BY <3>1, <3>2 DEF EvidenceInv
  <2> QED BY <2>1, <2>2, <2>3, <2>4, <2>5, <2>6, <2>7, <2>8 DEF EvidenceNext
<1> QED BY <1>1, EvidenceInitHolds, PTL DEF EvidenceSpec

-----------------------------------------------------------------------------
\* What follows of what is read.

\* What HEAD reaches and git shows is a commit, and what it joins is reached too;
\* what only a pull request lists was made here, and by no forge.
LEMMA OfObserved ==
    ASSUME EvidenceInv
    PROVE  /\ \A c \in OnHead : c \in 1 .. Len(commits) /\ commits[c].committed >= Since
           /\ \A c \in OnHead : commits[c].forge => \E i \in 1 .. pulled : main[i] = c
           /\ \A i \in 1 .. pulled : commits[main[i]].committed >= Since => main[i] \in OnHead
           /\ \A i \in 1 .. pulled : \A j \in commits[main[i]].joins :
                commits[j].committed >= Since => j \in OnHead
           /\ \A c \in ReadListed : /\ c \in 1 .. Len(commits) /\ commits[c].committed >= Since
                                    /\ ~commits[c].forge /\ commits[c].here
<1>1. \A c \in Reach(pulled) : \/ \E i \in 1 .. pulled : main[i] = c
                              \/ \E i \in 1 .. pulled : c \in commits[main[i]].joins
  BY DEF Reach
<1>2. \A i \in 1 .. pulled : \A j \in commits[main[i]].joins : j \in 1 .. Len(commits) /\ ~commits[j].forge
  BY OfCommits DEF CommitKnown
<1>3. \A i \in 1 .. pulled : main[i] \in Reach(pulled) /\ \A j \in commits[main[i]].joins : j \in Reach(pulled)
  BY DEF Reach
<1>4. \A c \in OnHead : c \in Reach(pulled) /\ commits[c].committed >= Since
  BY DEF OnHead
<1>5. \A c \in Reach(pulled) : commits[c].committed >= Since => c \in OnHead
  BY DEF OnHead
<1>6. \A c \in OnHead : c \in 1 .. Len(commits)
  BY <1>1, <1>2, <1>4, OfCommits
<1>7. ASSUME NEW c \in ReadListed
      PROVE  /\ c \in 1 .. Len(commits) /\ commits[c].committed >= Since
             /\ ~commits[c].forge /\ commits[c].here
  <2>1. c \in ToRead /\ c \in made /\ commits[c].committed >= Since
    BY DEF ReadListed, MadeHere
  <2>2. PICK p \in PRs : c \in Lists(p)
    BY <2>1 DEF ToRead, Requests
  <2>3. pull[p].list \in Seq(Ids)
    BY OfCommits DEF PullRecord
  <2>4. PICK i \in 1 .. Len(pull[p].list) : c = pull[p].list[i]
    BY <2>2, <2>3, RangeEquality DEF Lists
  <2>5. c \in 1 .. Len(commits) /\ ~commits[c].forge
    BY <2>4 DEF EvidenceInv, RequestKnown
  <2> QED BY <2>1, <2>5 DEF EvidenceInv
<1> QED BY <1>1, <1>2, <1>3, <1>4, <1>5, <1>6, <1>7

\* The kinds of evidence a known commit gives, and the times of each.
LEMMA KindsOf ==
    ASSUME EvidenceInv, NEW c \in 1 .. Len(commits)
    PROVE  LET k == commits[c] e == EvidenceOf(c) IN
           /\ e.kind \in {"excluded", "landed", "rebased", "written"}
           /\ e.kind = "excluded" <=> k.forge /\ k.parents = 2
           /\ e.kind = "landed" <=> k.forge /\ k.parents = 1 /\ k.authored = k.committed
           /\ e.kind = "rebased" <=> k.forge /\ k.parents = 1 /\ k.authored < k.committed
           /\ e.kind = "written" <=> ~k.forge
           /\ e.kind = "excluded" => e.times = {}
           /\ e.kind = "landed" => e.times = {k.committed}
           /\ e.kind = "rebased" => e.times = {k.authored}
           /\ e.kind = "written" => e.times = {k.authored, k.committed}
<1> DEFINE k == commits[c]
<1>1. /\ k.authored \in Nat /\ k.committed \in Nat /\ k.forge \in BOOLEAN /\ k.parents \in {1, 2}
      /\ k.authored <= k.committed
  BY OfCommits DEF Commit, CommitKnown
<1>2. CASE k.forge /\ k.parents > 1
  <2>1. EvidenceOf(c) = [kind |-> "excluded", times |-> {}]
    BY <1>1, <1>2 DEF EvidenceOf
  <2> QED BY <1>1, <1>2, <2>1
<1>3. CASE k.forge /\ k.parents = 1 /\ k.authored >= k.committed
  <2>1. EvidenceOf(c) = [kind |-> "landed", times |-> {k.committed}]
    BY <1>1, <1>3 DEF EvidenceOf
  <2> QED BY <1>1, <1>3, <2>1
<1>4. CASE k.forge /\ k.parents = 1 /\ k.authored < k.committed
  <2>1. EvidenceOf(c) = [kind |-> "rebased", times |-> {k.authored}]
    BY <1>1, <1>4 DEF EvidenceOf
  <2> QED BY <1>1, <1>4, <2>1
<1>5. CASE ~k.forge
  <2>1. EvidenceOf(c) = [kind |-> "written", times |-> {k.authored, k.committed}]
    BY <1>1, <1>5 DEF EvidenceOf
  <2> QED BY <1>1, <1>5, <2>1
<1> QED BY <1>1, <1>2, <1>3, <1>4, <1>5

\* What a relation says of a commit's times.
LEMMA RelationsOf ==
    ASSUME EvidenceInv, NEW c \in 1 .. Len(commits), NEW s \in Judged
    PROVE  LET e == EvidenceOf(c)
               inside == {t \in e.times : window[s].start <= t /\ t <= window[s].end}
               near == {t \in e.times : window[s].start <= t /\ t <= window[s].end + Gap}
           IN
           /\ Relation(c, s) \in {"overlap", "landed", "following", "none"}
           /\ Relation(c, s) = "overlap" <=> e.kind # "landed" /\ inside # {}
           /\ Relation(c, s) = "landed" <=> e.kind = "landed" /\ near # {}
           /\ Relation(c, s) = "following" <=> e.kind # "landed" /\ inside = {} /\ near # {}
           /\ inside \subseteq near
<1> DEFINE e == EvidenceOf(c)
           inside == {t \in e.times : window[s].start <= t /\ t <= window[s].end}
           near == {t \in e.times : window[s].start <= t /\ t <= window[s].end + Gap}
<1>1. window[s] \in Window /\ Gap \in Nat
  BY EvidenceAssumption DEF Judged, EvidenceInv, EvidenceTypes
<1>2. \A t \in e.times : t \in Nat
  <2>1. commits[c].authored \in Nat /\ commits[c].committed \in Nat
    BY OfCommits DEF Commit
  <2>2. e.times \subseteq {commits[c].authored, commits[c].committed}
    BY KindsOf
  <2> QED BY <2>1, <2>2
<1>3. inside \subseteq near
  BY <1>1, <1>2 DEF Window
<1>4. Relation(c, s) = CASE e.kind # "landed" /\ inside # {} -> "overlap"
                         [] e.kind = "landed" /\ near # {} -> "landed"
                         [] e.kind # "landed" /\ inside = {} /\ near # {} -> "following"
                         [] OTHER -> "none"
  BY DEF Relation
<1> HIDE DEF e, inside, near
<1>5. /\ Relation(c, s) \in {"overlap", "landed", "following", "none"}
      /\ Relation(c, s) = "overlap" <=> e.kind # "landed" /\ inside # {}
      /\ Relation(c, s) = "landed" <=> e.kind = "landed" /\ near # {}
      /\ Relation(c, s) = "following" <=> e.kind # "landed" /\ inside = {} /\ near # {}
  BY <1>4
<1> QED BY <1>3, <1>5 DEF e, inside, near

\* A session's result: an overlapping commit is a candidate of it, what is one is
\* near it, and without one nothing near it was observed.
LEMMA ResultsOf ==
    ASSUME EvidenceInv, NEW s
    PROVE  /\ \A c \in Result(s).candidates : c \in Observed /\ Relation(c, s) # "none"
           /\ Result(s).method = "overlap" => \A c \in Result(s).candidates : Relation(c, s) = "overlap"
           /\ \A c \in Observed : Relation(c, s) = "overlap" =>
                /\ Result(s).method = "overlap" /\ c \in Result(s).candidates
                /\ Result(s).status # "unmatched"
           /\ Result(s).status = "unmatched" =>
                /\ \A c \in Observed : Relation(c, s) \notin {"overlap", "landed", "following"}
                /\ \/ Result(s).reason \in {"no-candidate-window-still-open", "later-forge-landing"}
                   \/ ~LandedLater(s)
<1> DEFINE of == Related(s)
           overlaps == Overlaps(of)
           following == Following(of)
           over == clock >= window[s].end + Gap
           chosen == CHOOSE c \in following : TRUE
           why == CASE ~over -> "no-candidate-window-still-open"
                    [] over /\ LandedLater(s) -> "later-forge-landing"
                    [] OTHER -> IF UnreadableSince(s) THEN "listed-commit-not-readable-here"
                                ELSE "no-commit-candidate"
<1>1. /\ \A c : c \in overlaps <=> c \in Observed /\ Relation(c, s) = "overlap"
      /\ \A c : c \in following <=> c \in Observed /\ Relation(c, s) \in {"following", "landed"}
      /\ \A c \in Observed : of[c] = Relation(c, s)
  BY DEF Related, Overlaps, Following
<1>2. IsFiniteSet(following) /\ Cardinality(following) \in Nat /\ (Cardinality(following) = 0 <=> following = {})
  <2>1. following \subseteq 1 .. Len(commits) /\ Len(commits) \in Nat
    BY <1>1, OfCommits, OfObserved DEF Observed
  <2> HIDE DEF following
  <2>2. IsFiniteSet(following)
    <3>1. IsFiniteSet(1 .. Len(commits))
      BY <2>1, FS_Interval
    <3> QED BY <2>1, <3>1, FS_Subset
  <2> QED BY <2>2, FS_CardinalityType, FS_EmptySet
<1>3. \/ ~over /\ why = "no-candidate-window-still-open"
      \/ LandedLater(s) /\ why = "later-forge-landing"
      \/ ~LandedLater(s)
  OBVIOUS
<1>4. \/ /\ overlaps # {}
         /\ Result(s) = [status |-> "matched", method |-> "overlap", candidates |-> overlaps, reason |-> "none"]
      \/ /\ overlaps = {} /\ Cardinality(following) = 1
         /\ Result(s) = [status |-> "matched", candidates |-> following, reason |-> "none", method |-> of[chosen]]
      \/ /\ overlaps = {} /\ Cardinality(following) > 1
         /\ Result(s) = [status |-> "ambiguous", method |-> "following", candidates |-> following,
                         reason |-> "competing-following-commit-candidates"]
      \/ /\ overlaps = {} /\ ~(Cardinality(following) = 1) /\ ~(Cardinality(following) > 1)
         /\ Result(s) = [status |-> "unmatched", method |-> "none", candidates |-> {}, reason |-> why]
  BY DEF Result, ResultOf
<1> HIDE DEF of, overlaps, following, over, why
<1>5. Cardinality(following) = 1 => chosen \in following
  BY <1>2
<1> HIDE DEF chosen
<1>6. CASE overlaps # {} /\ Result(s) = [status |-> "matched", method |-> "overlap",
                                         candidates |-> overlaps, reason |-> "none"]
  BY <1>1, <1>6
<1>7. CASE /\ overlaps = {} /\ Cardinality(following) = 1
           /\ Result(s) = [status |-> "matched", candidates |-> following, reason |-> "none",
                           method |-> of[chosen]]
  <2>1. of[chosen] # "overlap"
    BY <1>1, <1>5, <1>7
  <2> QED BY <1>1, <1>7, <2>1
<1>8. CASE /\ overlaps = {} /\ Cardinality(following) > 1
           /\ Result(s) = [status |-> "ambiguous", method |-> "following", candidates |-> following,
                           reason |-> "competing-following-commit-candidates"]
  BY <1>1, <1>8
<1>9. CASE /\ overlaps = {} /\ ~(Cardinality(following) = 1) /\ ~(Cardinality(following) > 1)
           /\ Result(s) = [status |-> "unmatched", method |-> "none", candidates |-> {}, reason |-> why]
  <2>1. following = {}
    BY <1>2, <1>9
  <2>2. \A c \in Observed : Relation(c, s) \notin {"overlap", "landed", "following"}
    BY <1>1, <1>9, <2>1
  <2> QED BY <1>3, <1>9, <2>2
<1> QED BY <1>4, <1>6, <1>7, <1>8, <1>9

\* Work is found, or what hid it is named.
LEMMA WorkIsAccounted ==
    ASSUME EvidenceInv, NEW s \in Judged
    PROVE  AccountedBy(s, Result(s))
<1>1. window[s] \in Window /\ window[s].start >= Since /\ Gap \in Nat /\ Since \in Nat
  BY EvidenceAssumption DEF Judged, EvidenceInv, EvidenceTypes
<1>2. \A c \in Observed : c \in 1 .. Len(commits) /\ commits[c].committed >= Since
  BY OfObserved DEF Observed
\* What is observed with its author's time in the session is a candidate of it.
<1>3. ASSUME NEW c \in Observed, s \in commits[c].of, EvidenceOf(c).kind \in {"written", "rebased"}
      PROVE  Relation(c, s) = "overlap"
  <2>1. /\ commits[c].authored \in EvidenceOf(c).times /\ EvidenceOf(c).kind # "landed"
        /\ ~(commits[c].forge /\ commits[c].authored = commits[c].committed)
        /\ commits[c].authored \in Nat
    BY <1>2, <1>3, KindsOf, OfCommits DEF Commit
  <2>2. window[s].start <= commits[c].authored /\ commits[c].authored <= window[s].end
    BY <1>2, <1>3, <2>1, OfCommits DEF CommitKnown
  <2> QED BY <1>2, <2>1, <2>2, RelationsOf
\* Else a forge wrote it, and it was landed later, or joins what was found.
<1>4. ASSUME NEW c \in Observed, s \in commits[c].of, Result(s).status = "unmatched"
      PROVE  LandedLater(s)
  <2>1. EvidenceOf(c).kind \notin {"written", "rebased"}
    BY <1>3, <1>4, ResultsOf
  <2>2. /\ commits[c].authored \in Nat /\ commits[c].committed \in Nat
        /\ window[s].start <= commits[c].authored /\ commits[c].authored <= commits[c].committed
    BY <1>2, <1>4, OfCommits DEF CommitKnown, Commit
  <2>3. CASE EvidenceOf(c).kind = "landed"
    <3>1. EvidenceOf(c).times = {commits[c].committed}
      BY <1>2, <2>3, KindsOf
    <3>2. Relation(c, s) # "landed"
      BY <1>4, ResultsOf
    <3>3. ~(window[s].start <= commits[c].committed /\ commits[c].committed <= window[s].end + Gap)
      BY <1>2, <2>3, <3>1, <3>2, RelationsOf
    <3>4. commits[c].committed > window[s].end + Gap
      BY <1>1, <2>2, <3>3 DEF Window
    <3> QED BY <2>3, <3>4 DEF LandedLater
  <2>4. CASE EvidenceOf(c).kind = "excluded"
    <3>1. commits[c].forge /\ commits[c].parents = 2
      BY <1>2, <2>4, KindsOf
    <3>2. PICK j \in commits[c].joins : s \in commits[j].of
      BY <1>2, <1>4, <3>1, OfCommits DEF CommitKnown
    <3>3. j \in 1 .. Len(commits) /\ ~commits[j].forge
      BY <1>2, OfCommits DEF CommitKnown
    <3>4. c \in OnHead
      BY <3>1, OfObserved DEF Observed
    <3>5. commits[j].committed >= Since
      <4>1. /\ commits[j].authored \in Nat /\ commits[j].committed \in Nat
            /\ window[s].start <= commits[j].authored /\ commits[j].authored <= commits[j].committed
        BY <3>2, <3>3, OfCommits DEF CommitKnown, Commit
      <4> QED BY <1>1, <4>1 DEF Window
    <3>6. j \in Observed
      BY <3>1, <3>4, <3>5, OfObserved DEF Observed
    <3>7. EvidenceOf(j).kind = "written"
      BY <3>3, KindsOf
    <3> QED BY <1>3, <1>4, <3>2, <3>6, <3>7, ResultsOf
  <2> QED BY <1>2, <2>1, <2>3, <2>4, KindsOf
<1>5. ASSUME NEW c \in Observed, s \in commits[c].of
      PROVE  /\ EvidenceOf(c).kind \in {"written", "rebased"} =>
                  Result(s).method = "overlap" /\ c \in Result(s).candidates
             /\ Result(s).status = "unmatched" =>
                  Result(s).reason \in {"no-candidate-window-still-open", "later-forge-landing"}
  BY <1>3, <1>4, <1>5, ResultsOf
<1> QED BY <1>5 DEF AccountedBy

\* And nothing else is found.
LEMMA CandidatesAreHonest ==
    ASSUME EvidenceInv, NEW s \in Judged
    PROVE  HonestOf(s, Result(s))
<1>1. window[s] \in Window /\ Gap \in Nat
  BY EvidenceAssumption DEF Judged, EvidenceInv, EvidenceTypes
<1> SUFFICES ASSUME NEW c \in Result(s).candidates
             PROVE  /\ \E t \in {commits[c].authored, commits[c].committed} :
                         window[s].start <= t /\ t <= window[s].end + Gap
                    /\ Result(s).method = "overlap" /\ commits[c].forge =>
                         /\ commits[c].authored >= window[s].start /\ commits[c].authored <= window[s].end
                         /\ commits[c].authored < commits[c].committed
                    /\ c \notin OnHead => commits[c].here
  BY DEF HonestOf
<1>2. c \in Observed /\ c \in 1 .. Len(commits) /\ Relation(c, s) # "none"
  BY ResultsOf, OfObserved DEF Observed
<1>3. EvidenceOf(c).times \subseteq {commits[c].authored, commits[c].committed}
  BY <1>2, KindsOf
<1>4. \E t \in EvidenceOf(c).times : window[s].start <= t /\ t <= window[s].end + Gap
  BY <1>2, RelationsOf
<1>5. ASSUME Result(s).method = "overlap", commits[c].forge
      PROVE  /\ commits[c].authored >= window[s].start /\ commits[c].authored <= window[s].end
             /\ commits[c].authored < commits[c].committed
  <2>1. Relation(c, s) = "overlap"
    BY <1>5, ResultsOf
  <2>2. EvidenceOf(c).kind # "landed" /\ \E t \in EvidenceOf(c).times : window[s].start <= t /\ t <= window[s].end
    BY <1>2, <2>1, RelationsOf
  <2>3. EvidenceOf(c).kind = "rebased"
    BY <1>2, <1>5, <2>2, KindsOf
  <2>4. EvidenceOf(c).times = {commits[c].authored} /\ commits[c].authored < commits[c].committed
    BY <1>2, <2>3, KindsOf
  <2>5. commits[c].authored \in Nat
    BY <1>2, OfCommits DEF Commit
  <2> QED BY <1>1, <2>2, <2>4, <2>5 DEF Window
<1>6. c \notin OnHead => commits[c].here
  BY <1>2, OfObserved DEF Observed
<1> QED BY <1>3, <1>4, <1>5, <1>6

\* The walk back from a merge commit: the first place at which it leaves what its
\* merge wrote is another's merge commit, and stops it.
LEMMA MergeWroteItsOwn ==
    ASSUME EvidenceInv, NEW p \in Requests, NEW c \in MergeWrote(p)
    PROVE  commits[c].by = p
<1> DEFINE line == Line(p)
           at == CHOOSE i \in 1 .. pulled : main[i] = pull[p].merge
           length == Len(pull[p].list)
<1>1. /\ p \in PRs /\ pull[p] \in PullRecord /\ pull[p].merge # None /\ p # None
      /\ pull[p].merge \in 1 .. Len(commits) /\ commits[pull[p].merge].by = p
  <2>1. p \in PRs /\ pull[p] \in PullRecord /\ p # None
    BY OfCommits, EvidenceAssumption DEF Requests
  <2>2. pull[p].merge # None
    BY DEF MergeWrote
  <2> QED BY <2>1, <2>2 DEF EvidenceInv, RequestKnown
<1>2. CASE c = pull[p].merge
  BY <1>1, <1>2
<1>3. CASE c # pull[p].merge
  <2>1. PICK k \in DOMAIN line : c = line[k] /\ \A i \in 1 .. k : ~ReplayStops(line[i], i)
    BY <1>1, <1>3 DEF MergeWrote
  <2>2. /\ pull[p].merge \in OnHead
        /\ line = [j \in 1 .. (IF at < length THEN at ELSE length) |-> main[at - j + 1]]
    <3>1. DOMAIN << >> = {}
      OBVIOUS
    <3> QED BY <2>1, <3>1 DEF Line
  <2>3. at \in 1 .. pulled /\ main[at] = pull[p].merge
    <3>1. commits[pull[p].merge].forge
      BY <1>1, OfCommits DEF CommitKnown
    <3>2. \E i \in 1 .. pulled : main[i] = pull[p].merge
      BY <2>2, <3>1, OfObserved
    <3> QED BY <3>2
  <2>4. length \in Nat /\ pulled \in Nat /\ Len(main) \in Nat /\ pulled <= Len(main)
    BY <1>1, OfCommits, LenProperties DEF PullRecord
  <2> HIDE DEF at, length, line
  <2>5. /\ k \in Nat /\ k >= 1 /\ k <= at
        /\ \A j \in 1 .. k : line[j] = main[at - j + 1] /\ at - j + 1 \in 1 .. pulled
    <3> DEFINE most == IF at < length THEN at ELSE length
    <3>1. most \in Int /\ most <= at /\ at \in Nat /\ at <= pulled
      BY <2>3, <2>4
    <3>2. line = [j \in 1 .. most |-> main[at - j + 1]]
      BY <2>2
    <3> HIDE DEF most
    <3>3. k \in 1 .. most
      BY <2>1, <3>2
    <3>4. k \in Nat /\ k >= 1 /\ k <= at
      BY <3>1, <3>3
    <3>5. ASSUME NEW j \in 1 .. k PROVE line[j] = main[at - j + 1] /\ at - j + 1 \in 1 .. pulled
      <4>1. j \in 1 .. most
        BY <3>1, <3>3
      <4>2. at - j + 1 \in 1 .. pulled
        BY <2>4, <3>1, <3>4
      <4> QED BY <3>2, <4>1, <4>2
    <3> QED BY <3>4, <3>5
  <2> DEFINE Strays == {j \in 1 .. k : commits[main[at - j + 1]].by # p}
  <2>6. SUFFICES ASSUME Strays # {} PROVE FALSE
    BY <2>1, <2>5
  <2>7. PICK j \in Strays : \A n \in Strays : j <= n
    <3>1. Strays \in SUBSET Nat
      BY <2>5
    <3> HIDE DEF Strays
    <3> QED BY <2>6, <3>1, LeastOf
  <2>8. j \in 1 .. k /\ j \in Nat /\ commits[main[at - j + 1]].by # p
    BY <2>5, <2>7
  <2>9. j > 1
    <3>1. at - 1 + 1 = at
      BY <2>3, <2>4
    <3>2. commits[main[at - 1 + 1]].by = p
      BY <1>1, <2>3, <3>1
    <3> QED BY <2>8, <3>2
  <2>10. commits[main[at - j + 2]].by = p
    <3>1. j - 1 \in 1 .. k /\ j - 1 \notin Strays /\ at - (j - 1) + 1 = at - j + 2
      BY <2>3, <2>4, <2>5, <2>7, <2>8, <2>9
    <3> QED BY <3>1
  <2> DEFINE i == at - j + 1
             q == commits[main[i]].by
  <2>11. i \in 1 .. pulled /\ i \in Nat /\ i + 1 = at - j + 2 /\ line[j] = main[i] /\ main[i] \in 1 .. Len(commits)
    BY <2>3, <2>4, <2>5, <2>8, OfCommits
  <2>12. main[i] \in Observed /\ EvidenceOf(main[i]).kind = "rebased" /\ main[i] \notin Merges
    <3>1. ~ReplayStops(line[j], j)
      BY <2>1, <2>8
    <3> QED BY <2>9, <2>11, <3>1 DEF ReplayStops
  <2> HIDE DEF i
  <2>13. q # None /\ q \in PRs /\ q # p
    <3>1. commits[main[i]].forge /\ commits[main[i]].parents = 1 /\ commits[main[i]].authored < commits[main[i]].committed
      BY <2>11, <2>12, KindsOf
    <3>2. q # None /\ q \in PRs
      BY <2>11, <3>1, OfCommits DEF CommitKnown, Commit
    <3>3. q # p
      BY <2>8 DEF i
    <3> QED BY <3>2, <3>3
  <2>14. main[i] = pull[q].merge
    <3>1. PlaceKnown(i, main, commits, pull)
      BY <2>4, <2>11 DEF EvidenceInv
    <3>2. commits[main[i + 1]].by = p
      BY <2>10, <2>11
    <3> QED BY <2>13, <3>1, <3>2 DEF PlaceKnown
  <2>15. pull[q].updated \in Nat /\ pull[q].updated >= Since
    <3>1. /\ pull[q].updated \in Nat /\ commits[main[i]].committed <= pull[q].updated
          /\ commits[main[i]].committed \in Nat
      BY <2>11, <2>13, OfCommits DEF CommitKnown, Commit
    <3>2. commits[main[i]].committed >= Since
      BY <2>12, OfObserved DEF Observed
    <3> QED BY <3>1, <3>2, EvidenceAssumption
  <2>16. q \in Requests /\ main[i] # None
    <3>1. None \notin Nat /\ Len(commits) \in Nat
      BY EvidenceAssumption, OfCommits
    <3>2. main[i] # None /\ pull[q].updated # None
      BY <2>11, <2>15, <3>1
    <3> QED BY <2>13, <2>15, <3>2 DEF Requests
  <2>17. main[i] \in Merges
    BY <2>14, <2>16 DEF Merges
  <2> QED BY <2>12, <2>17
<1> QED BY <1>2, <1>3

\* A link shows that the forge's repository is this clone's, and one pull request is
\* said to be a session's only when every candidate is of it.
LEMMA LinksAreTrue ==
    ASSUME EvidenceInv
    PROVE  LinksTrue
<1>1. ASSUME NEW s \in Judged, NEW p \in Requests, NEW c \in LinksOf(p) \cap Result(s).candidates
      PROVE  TouchesClone
  <2>1. c \in OnHead \/ c \in ReadListed
    BY ResultsOf DEF Observed
  <2>2. CASE c \in ReadListed
    BY <2>2 DEF TouchesClone
  <2>3. CASE c \in OnHead /\ c \in Lists(p)
    BY <2>3 DEF TouchesClone
  <2>4. CASE c \in OnHead /\ c \in MergeWrote(p)
    <3>1. CASE c = pull[p].merge
      BY <2>4, <3>1 DEF TouchesClone
    <3>2. CASE c # pull[p].merge
      <4>1. PICK k \in DOMAIN Line(p) : c = Line(p)[k]
        BY <2>4, <3>2 DEF MergeWrote
      <4>2. pull[p].merge \in OnHead
        <5>1. DOMAIN << >> = {}
          OBVIOUS
        <5> QED BY <4>1, <5>1 DEF Line
      <4> QED BY <4>2 DEF TouchesClone
    <3> QED BY <3>1, <3>2
  <2> QED BY <2>1, <2>2, <2>3, <2>4 DEF LinksOf
<1>2. ASSUME NEW candidates, NEW change \in {OneChange(candidates)} \ {None}, NEW c \in candidates
      PROVE  c \in Lists(change) \/ commits[c].by = change
  <2> DEFINE shared == {p \in Requests : candidates \subseteq LinksOf(p)}
  <2>1. Cardinality(shared) = 1 /\ change = CHOOSE p \in shared : TRUE
    BY DEF OneChange
  <2>2. shared # {}
    BY <2>1, FS_EmptySet
  <2>3. change \in Requests /\ c \in LinksOf(change)
    BY <2>1, <2>2
  <2> QED BY <2>3, MergeWroteItsOwn DEF LinksOf
<1>3. \A s \in Judged : LinksOfCandidates(Result(s).candidates)
  BY <1>1, <1>2 DEF LinksOfCandidates
<1> QED BY <1>3, MergeWroteItsOwn DEF LinksTrue

\* Work committed in a session stays a candidate of it, or what hid it is named, and
\* no candidate is one the session cannot have led to
\* (internal/attribution/match.go: matchSession, relate; landing.go: evidenceOf).
THEOREM WorkStaysTrue == EvidenceSpec => []WorkTrue
<1>1. EvidenceInv => WorkTrue
  BY WorkIsAccounted, CandidatesAreHonest DEF WorkTrue, EvidenceInv, EvidenceTypes
<1> QED BY <1>1, WorldStaysKnown, PTL

\* A commit is said to come from a pull request's merge only when that merge wrote
\* it, a session to be of one pull request only when each candidate is, and no read
\* that links a candidate is refused (internal/attribution/changes.go: mergeWrote,
\* linksOf, oneChange; internal/cli/evidence_github.go: touchesClone).
THEOREM LinksStayTrue == EvidenceSpec => []LinksTrue
BY LinksAreTrue, WorldStaysKnown, PTL
=============================================================================
