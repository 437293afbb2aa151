--------------------------- MODULE PaginationProofs -------------------------
(***************************************************************************)
(* What the runs of Pagination find on five rows and pages of two, proved  *)
(* for every table, every page limit and every order of inserts.           *)
(*                                                                         *)
(* The lemmas say what the pages rest on: the order of the list is a       *)
(* strict total order, so a page has a last row, and a page without a next *)
(* one holds all the rows that matched.                                    *)
(***************************************************************************)
EXTENDS Pagination, FiniteSetTheorems, TLAPS

-----------------------------------------------------------------------------
(* The order of the list.                                                   *)

(* Two different rows are ordered: rows of one millisecond differ in their  *)
(* id.                                                                      *)
LEMMA PrecedesTotal ==
  ASSUME NEW x \in Item, NEW y \in Item, x # y
  PROVE  Precedes(x, y) \/ Precedes(y, x)
<1>1. x.createdAt # y.createdAt \/ x.id # y.id
  BY DEF Item
<1>2. x.createdAt \in Nat /\ y.createdAt \in Nat /\ x.id \in Nat /\ y.id \in Nat
  BY PaginationAssumption DEF Item
<1> QED
  BY <1>1, <1>2 DEF Precedes

LEMMA PrecedesTransitive ==
  ASSUME NEW x \in Item, NEW y \in Item, NEW z \in Item,
         Precedes(x, y), Precedes(y, z)
  PROVE  Precedes(x, z)
<1>1. /\ x.createdAt \in Nat /\ y.createdAt \in Nat /\ z.createdAt \in Nat
      /\ x.id \in Nat /\ y.id \in Nat /\ z.id \in Nat
  BY PaginationAssumption DEF Item
<1> QED
  BY <1>1 DEF Precedes

(* The filter of a cursor is the order of the list.                         *)
LEMMA FilterIsOrder ==
  ASSUME NEW x, NEW cursor, cursor # NoCursor
  PROVE  buildCursorFilter(x, cursor) <=> Precedes(x, cursor)
BY DEF buildCursorFilter, Precedes

(* A set of naturals that is not empty has a least element.                 *)
LEMMA LeastNatural ==
  ASSUME NEW S \in SUBSET Nat, S # {}
  PROVE  \E n \in S : \A m \in S : n <= m
<1> DEFINE less == {ss \in Nat \X Nat : ss[1] < ss[2]}
<1>1. less = OpToRel(<, Nat)
  BY DEF OpToRel
<1>2. IsWellFoundedOn(less, Nat)
  BY <1>1, NatLessThanWellFounded
<1>3. \E n \in S : \A m \in S : <<m, n>> \notin less
  <2> HIDE DEF less
  <2> QED
    BY <1>2, WFMin
<1>4. \A n, m \in Nat : <<m, n>> \notin less => n <= m
  OBVIOUS
<1> HIDE DEF less
<1> QED
  BY <1>3, <1>4

(* A page with a row has a last one.                                        *)
LEMMA LastOfPage ==
  ASSUME NEW data \in SUBSET Item, data # {}
  PROVE  /\ LastOf(data) \in data
         /\ \A y \in data : ~ Precedes(y, LastOf(data))
<1> DEFINE dates == {x.createdAt : x \in data}
<1>1. PICK d \in dates : \A e \in dates : d <= e
  <2>1. dates \in SUBSET Nat /\ dates # {}
    BY DEF Item
  <2> QED
    BY <2>1, LeastNatural
<1> DEFINE oldest == {x \in data : x.createdAt = d}
           ids == {x.id : x \in oldest}
<1>2. PICK i \in ids : \A j \in ids : i <= j
  <2>1. ids \in SUBSET Nat /\ ids # {}
    <3>1. oldest \subseteq Item /\ oldest # {}
      OBVIOUS
    <3>2. \A x \in Item : x.id \in Nat
      BY PaginationAssumption DEF Item
    <3> HIDE DEF oldest
    <3> QED
      BY <3>1, <3>2
  <2> HIDE DEF ids
  <2> QED
    BY <2>1, LeastNatural
<1>3. PICK x \in data : x.createdAt = d /\ x.id = i
  BY <1>2
<1>4. \A y \in data : ~ Precedes(y, x)
  <2> SUFFICES ASSUME NEW y \in data PROVE ~ Precedes(y, x)
    OBVIOUS
  <2>1. /\ y.createdAt \in Nat /\ x.createdAt \in Nat
        /\ y.id \in Nat /\ x.id \in Nat
    BY PaginationAssumption DEF Item
  <2>2. x.createdAt <= y.createdAt
    BY <1>1, <1>3
  <2>3. y.createdAt = x.createdAt => x.id <= y.id
    BY <1>2, <1>3
  <2> QED
    BY <2>1, <2>2, <2>3 DEF Precedes
<1> QED
  BY <1>4 DEF LastOf

-----------------------------------------------------------------------------
(* Pages.                                                                   *)

LEMMA LimitInRange ==
  ASSUME NEW limit \in Limits
  PROVE  normalizeLimit(limit) \in 1 .. MAX_PAGE_LIMIT
BY PaginationAssumption DEF normalizeLimit

(* A page that is not full holds every row that matched.                    *)
LEMMA LastPageIsAll ==
  ASSUME NEW rows, IsFiniteSet(rows), NEW data, NEW n \in Nat,
         IsPage(data, rows, n), ~ (Cardinality(rows) > n)
  PROVE  data = rows
<1>1. data \subseteq rows /\ Cardinality(data) = Cardinality(rows)
  BY DEF IsPage
<1> QED
  BY <1>1, FS_Subset

(* A page with another after it has a row.                                  *)
LEMMA FullPageHasRows ==
  ASSUME NEW rows, NEW data, NEW n \in Nat \ {0},
         IsPage(data, rows, n), Cardinality(rows) > n
  PROVE  data # {}
<1>1. Cardinality(data) = n
  BY DEF IsPage
<1> QED
  BY <1>1, FS_EmptySet

(* The rows a page is taken from are finitely many rows of the table.       *)
LEMMA MatchingRows ==
  ASSUME NEW cursor, TypeOK, IsFiniteSet(table)
  PROVE  /\ Matching(cursor) \subseteq table
         /\ Matching(cursor) \subseteq Item
         /\ IsFiniteSet(Matching(cursor))
<1>1. Matching(cursor) \subseteq table
  BY DEF Matching
<1> QED
  BY <1>1, FS_Subset DEF TypeOK

(* The next cursor is the last row of a page that has another after it, and *)
(* null exactly when the page holds all that matched.                       *)
LEMMA NextCursor ==
  ASSUME NEW rows \in SUBSET Item, IsFiniteSet(rows), NEW data,
         NEW n \in Nat \ {0}, IsPage(data, rows, n)
  PROVE  LET cursor == nextCursor(data, Cardinality(rows) > n)
         IN  \/ cursor = NoCursor /\ data = rows
             \/ /\ cursor # NoCursor
                /\ cursor \in data
                /\ \A y \in data : ~ Precedes(y, cursor)
<1>1. data \subseteq rows
  BY DEF IsPage
<1>2. CASE Cardinality(rows) > n
  <2>1. data # {}
    BY <1>2, FullPageHasRows
  <2>2. LastOf(data) \in data /\ \A y \in data : ~ Precedes(y, LastOf(data))
    BY <2>1, <1>1, LastOfPage
  <2>3. LastOf(data) # NoCursor
    BY <2>2, <1>1, NoCursorAssumption
  <2> QED
    BY <1>2, <2>1, <2>2, <2>3 DEF nextCursor
<1>3. CASE ~ (Cardinality(rows) > n)
  BY <1>3, LastPageIsAll DEF nextCursor
<1> QED
  BY <1>2, <1>3

-----------------------------------------------------------------------------
(* What one Fetch does, in the terms of the invariant.                      *)

LEMMA FetchStep ==
  ASSUME TypeOK, PaginationInv, NEW limit \in Limits, Fetch(limit)
  PROVE  \E data \in SUBSET Item, cursor \in Item \cup {NoCursor} :
           LET rows == Matching(walk.cursor)
           IN  /\ data \subseteq rows
               /\ \A x \in data, y \in rows \ data : ~ Precedes(x, y)
               /\ \/ cursor = NoCursor /\ data = rows
                  \/ /\ cursor # NoCursor
                     /\ cursor \in data
                     /\ \A y \in data : ~ Precedes(y, cursor)
               /\ walk' =
                    [ state |-> IF cursor = NoCursor THEN "finished"
                                                    ELSE "walking",
                      cursor |-> cursor,
                      page |-> data,
                      shown |-> walk.shown \cup data,
                      start |-> IF walk.state = "new" THEN table
                                                      ELSE walk.start ]
<1> DEFINE n == normalizeLimit(limit)
           rows == Matching(walk.cursor)
<1>1. n \in Nat \ {0}
  BY LimitInRange, PaginationAssumption
<1>2. rows \subseteq Item /\ IsFiniteSet(rows)
  BY MatchingRows DEF PaginationInv
<1>3. PICK data \in SUBSET rows :
        LET cursor == nextCursor(data, Cardinality(rows) > n)
        IN  /\ IsPage(data, rows, n)
            /\ walk' =
                 [ state |-> IF cursor = NoCursor THEN "finished"
                                                 ELSE "walking",
                   cursor |-> cursor,
                   page |-> data,
                   shown |-> walk.shown \cup data,
                   start |-> IF walk.state = "new" THEN table
                                                   ELSE walk.start ]
  BY DEF Fetch
<1> DEFINE cursor == nextCursor(data, Cardinality(rows) > n)
<1> HIDE DEF n, rows
<1>4. \/ cursor = NoCursor /\ data = rows
      \/ /\ cursor # NoCursor
         /\ cursor \in data
         /\ \A y \in data : ~ Precedes(y, cursor)
  BY <1>1, <1>2, <1>3, NextCursor
<1> HIDE DEF cursor
<1>5. cursor \in Item \cup {NoCursor}
  BY <1>2, <1>4
<1>6. data \subseteq rows /\ \A x \in data, y \in rows \ data : ~ Precedes(x, y)
  BY <1>3 DEF IsPage
<1>7. walk' =
        [ state |-> IF cursor = NoCursor THEN "finished" ELSE "walking",
          cursor |-> cursor,
          page |-> data,
          shown |-> walk.shown \cup data,
          start |-> IF walk.state = "new" THEN table ELSE walk.start ]
  BY <1>3 DEF cursor
<1> QED
  BY <1>2, <1>4, <1>5, <1>6, <1>7 DEF rows

-----------------------------------------------------------------------------
(* The invariants.                                                          *)

(* Every cursor a client is given is the position of a row, and the table   *)
(* and the walk hold rows only, whatever the limits asked for.              *)
LEMMA TypeInit == Init => TypeOK
BY PaginationAssumption DEF Init, TypeOK, NewWalk, Walk

LEMMA InvInit == Init => PaginationInv
BY FS_EmptySet DEF Init, PaginationInv, NothingSkipped, NewWalk

LEMMA TypeStep ==
  ASSUME TypeOK, PaginationInv, [Next]_vars
  PROVE  TypeOK'
<1>1. ASSUME NEW id \in Ids, StartInsert(id)
      PROVE  TypeOK'
  <2>1. [id |-> id, createdAt |-> clock] \in Item
    BY PaginationAssumption DEF TypeOK, Item
  <2> QED
    BY <1>1, <2>1 DEF StartInsert, TypeOK
<1>2. ASSUME NEW x \in inserting, CommitInsert(x)
      PROVE  TypeOK'
  BY <1>2 DEF CommitInsert, TypeOK
<1>3. CASE Tick
  BY <1>3, PaginationAssumption DEF Tick, TypeOK
<1>4. ASSUME NEW limit \in Limits, Fetch(limit)
      PROVE  TypeOK'
  <2>1. PICK data \in SUBSET Item, cursor \in Item \cup {NoCursor} :
          walk' =
            [ state |-> IF cursor = NoCursor THEN "finished" ELSE "walking",
              cursor |-> cursor,
              page |-> data,
              shown |-> walk.shown \cup data,
              start |-> IF walk.state = "new" THEN table ELSE walk.start ]
    BY <1>4, FetchStep
  <2>2. walk.shown \subseteq Item /\ walk.start \subseteq Item
        /\ table \subseteq Item
    BY DEF TypeOK, Walk
  <2>3. walk' \in Walk
    BY <2>1, <2>2 DEF Walk
  <2> QED
    BY <1>4, <2>3 DEF Fetch, TypeOK
<1>5. CASE UNCHANGED vars
  BY <1>5 DEF vars, TypeOK
<1> QED
  BY <1>1, <1>2, <1>3, <1>4, <1>5 DEF Next

LEMMA InvStep ==
  ASSUME TypeOK, PaginationInv, [Next]_vars
  PROVE  PaginationInv'
<1>1. ASSUME NEW id \in Ids, StartInsert(id)
      PROVE  PaginationInv'
  BY <1>1 DEF StartInsert, PaginationInv, NothingSkipped
<1>2. ASSUME NEW x \in inserting, CommitInsert(x)
      PROVE  PaginationInv'
  <2>1. IsFiniteSet(table')
    BY <1>2, FS_AddElement DEF CommitInsert, PaginationInv
  <2>2. table \subseteq table' /\ UNCHANGED walk
    BY <1>2 DEF CommitInsert
  <2> QED
    BY <2>1, <2>2 DEF PaginationInv, NothingSkipped
<1>3. CASE Tick
  BY <1>3 DEF Tick, PaginationInv, NothingSkipped
<1>4. ASSUME NEW limit \in Limits, Fetch(limit)
      PROVE  PaginationInv'
  <2> DEFINE rows == Matching(walk.cursor)
  <2>1. PICK data \in SUBSET Item, cursor \in Item \cup {NoCursor} :
          /\ data \subseteq rows
          /\ \A x \in data, y \in rows \ data : ~ Precedes(x, y)
          /\ \/ cursor = NoCursor /\ data = rows
             \/ /\ cursor # NoCursor
                /\ cursor \in data
                /\ \A y \in data : ~ Precedes(y, cursor)
          /\ walk' =
               [ state |-> IF cursor = NoCursor THEN "finished"
                                               ELSE "walking",
                 cursor |-> cursor,
                 page |-> data,
                 shown |-> walk.shown \cup data,
                 start |-> IF walk.state = "new" THEN table
                                                 ELSE walk.start ]
    BY <1>4, FetchStep
  <2>2. UNCHANGED table /\ rows \subseteq table /\ table \subseteq Item
    BY <1>4 DEF Fetch, Matching, TypeOK
  <2>3. walk.state \in {"new", "walking"}
    BY <1>4 DEF Fetch, TypeOK, Walk
  <2>4. walk.state = "new" => rows = table /\ walk.shown = {}
    BY DEF PaginationInv, Matching, buildCursorFilter
  <2>5. ASSUME walk.state = "walking"
        PROVE  /\ walk.cursor \in Item
               /\ rows = {x \in table : Precedes(x, walk.cursor)}
               /\ \A x \in walk.shown :
                    x = walk.cursor \/ Precedes(walk.cursor, x)
               /\ \A x \in walk.start :
                    x \in table /\ (x \in walk.shown \/ x \in rows)
    <3>1. walk.cursor \in Item /\ walk.cursor # NoCursor
      BY <2>5, NoCursorAssumption DEF PaginationInv
    <3>2. rows = {x \in table : Precedes(x, walk.cursor)}
      BY <3>1, FilterIsOrder DEF Matching
    <3> HIDE DEF rows
    <3> QED
      BY <2>5, <3>1, <3>2 DEF PaginationInv
  <2> HIDE DEF rows
  (* What was visible at the start has been shown, or was there to fetch.   *)
  <2>6. \A x \in walk'.start :
          x \in table /\ (x \in walk.shown \/ x \in rows)
    BY <2>1, <2>3, <2>4, <2>5
  <2>7. walk.shown \subseteq table
    BY DEF PaginationInv
  <2>8. CASE cursor = NoCursor
    <3>1. walk'.state = "finished" /\ data = rows
      BY <2>1, <2>8
    <3>2. walk'.start \subseteq walk'.shown
      BY <2>1, <2>6, <3>1
    <3>3. walk'.shown \subseteq table'
      BY <2>1, <2>2, <2>7
    <3> QED
      BY <2>2, <3>1, <3>2, <3>3 DEF PaginationInv, NothingSkipped
  <2>9. CASE cursor # NoCursor
    <3>1. /\ walk'.state = "walking" /\ walk'.cursor = cursor
          /\ walk'.shown = walk.shown \cup data
          /\ cursor \in data /\ cursor \in Item /\ cursor \in rows
      BY <2>1, <2>9
    <3>2. ASSUME NEW x \in data
          PROVE  x = cursor \/ Precedes(cursor, x)
      BY <2>1, <2>9, <3>1, PrecedesTotal
    <3>3. ASSUME NEW x \in walk.shown
          PROVE  Precedes(cursor, x)
      <4>1. walk.state = "walking"
        BY <2>3, <2>4
      <4>2. walk.cursor \in Item /\ Precedes(cursor, walk.cursor)
        BY <4>1, <2>5, <3>1
      <4>3. x \in Item
        BY <2>7, <2>2
      <4>4. x = walk.cursor \/ Precedes(walk.cursor, x)
        BY <4>1, <2>5
      <4> QED
        BY <3>1, <4>2, <4>3, <4>4, PrecedesTransitive
    <3>4. ASSUME NEW x \in walk'.start
          PROVE  x \in table' /\ (x \in walk'.shown \/ Precedes(x, cursor))
      <4>1. x \in table /\ x \in Item /\ (x \in walk.shown \/ x \in rows)
        BY <2>2, <2>6
      <4>2. CASE x \in rows /\ x \notin data
        <5>1. ~ Precedes(cursor, x) /\ x # cursor
          BY <2>1, <3>1, <4>2
        <5> QED
          BY <2>2, <3>1, <4>1, <5>1, PrecedesTotal
      <4> QED
        BY <2>2, <3>1, <4>1, <4>2
    <3>5. walk'.shown \subseteq table'
      BY <2>1, <2>2, <2>7
    <3> QED
      BY <2>2, <3>1, <3>2, <3>3, <3>4, <3>5 DEF PaginationInv, NothingSkipped
  <2> QED
    BY <2>8, <2>9
<1>5. CASE UNCHANGED vars
  BY <1>5 DEF vars, PaginationInv, NothingSkipped
<1> QED
  BY <1>1, <1>2, <1>3, <1>4, <1>5 DEF Next

LEMMA Invariant == Spec => [](TypeOK /\ PaginationInv)
<1>1. Init => TypeOK /\ PaginationInv
  BY TypeInit, InvInit
<1>2. (TypeOK /\ PaginationInv) /\ [Next]_vars => (TypeOK /\ PaginationInv)'
  BY TypeStep, InvStep
<1> QED
  BY <1>1, <1>2, PTL DEF Spec

-----------------------------------------------------------------------------

(* Whatever is inserted and whatever limits a client asks for, its cursor   *)
(* is always null or the position of a row.                                 *)
THEOREM PaginationTypeCorrect == Spec => []TypeOK
BY Invariant, PTL

(* The cursor splits the list into what has been shown and what is still to *)
(* come (buildCursorFilter).                                                *)
THEOREM CursorSplitsTheList == Spec => []PaginationInv
BY Invariant, PTL

(* A client that has reached the end has been shown every row that was      *)
(* visible when it began (getPaginationArgs, buildCursorPaginatedResult).   *)
THEOREM NothingIsSkipped == Spec => []NothingSkipped
<1>1. PaginationInv => NothingSkipped
  BY DEF PaginationInv
<1> QED
  BY <1>1, Invariant, PTL

LEMMA FetchContinues ==
  ASSUME TypeOK, PaginationInv, NEW limit \in Limits, Fetch(limit),
         NEW x \in walk'.page, NEW y \in walk.shown
  PROVE  Precedes(x, y)
<1>1. x \in Matching(walk.cursor)
  BY FetchStep
<1>2. walk.state = "walking"
  BY DEF Fetch, TypeOK, Walk, PaginationInv
<1>3. walk.cursor \in Item /\ walk.cursor # NoCursor
  BY <1>2, NoCursorAssumption DEF PaginationInv
<1>4. x \in Item /\ y \in Item
  BY <1>1 DEF Matching, TypeOK, Walk
<1>5. Precedes(x, walk.cursor)
  BY <1>1, <1>3, FilterIsOrder DEF Matching
<1>6. y = walk.cursor \/ Precedes(walk.cursor, y)
  BY <1>2 DEF PaginationInv
<1> QED
  BY <1>3, <1>4, <1>5, <1>6, PrecedesTransitive

(* Each page continues the one before it: no row is shown twice.            *)
THEOREM NothingIsRepeated == Spec => NoRepeats
<1>1. TypeOK /\ PaginationInv =>
        \A limit \in Limits :
          Fetch(limit) =>
            \A x \in walk'.page, y \in walk.shown : Precedes(x, y)
  BY FetchContinues
<1> QED
  BY <1>1, Invariant, PTL DEF NoRepeats

=============================================================================
