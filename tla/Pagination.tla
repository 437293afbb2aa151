------------------------------ MODULE Pagination ----------------------------
(***************************************************************************)
(* src/src/common/utils/pagination.util.ts and the list endpoints that use *)
(* it: a client walks a list page by page, newest first, while other       *)
(* requests insert rows.  No code of the repository deletes a row of a     *)
(* paginated table or changes its id or createdAt.                         *)
(*                                                                         *)
(* A row gets its createdAt when its INSERT starts and becomes visible     *)
(* when it commits, so rows can become visible out of order.  createdAt is *)
(* a TIMESTAMP(3), which a Date and its ISO string carry without loss: the *)
(* cursor a client sends back is the pair (createdAt, id) of a row.        *)
(*                                                                         *)
(* A definition marked `Fault' is no part of the model: it is the wrong    *)
(* version of the definition after it that a property has to catch.        *)
(***************************************************************************)
EXTENDS Integers, FiniteSets

CONSTANTS
  Ids,                 (* of the rows; numbers, as only their order counts *)
  MAX_PAGE_LIMIT, DEFAULT_PAGE_LIMIT,
  Limits,              (* what a client may send as `limit'                *)
  NoLimit,             (* a query without `limit'                          *)
  NoCursor,            (* a query without `cursor', and a null nextCursor  *)
  MaxClock             (* bound on the time                                *)

ASSUME PaginationAssumption ==
  /\ Ids \subseteq Nat
  /\ MAX_PAGE_LIMIT \in Nat \ {0}
  /\ DEFAULT_PAGE_LIMIT \in 1 .. MAX_PAGE_LIMIT
  /\ Limits \subseteq Int \cup {NoLimit}
  /\ NoLimit \notin Int
  /\ MaxClock \in Nat

Item == [id : Ids, createdAt : Nat]

ASSUME NoCursorAssumption == NoCursor \notin Item

VARIABLES
  inserting,   (* rows stamped with createdAt and not yet committed        *)
  table,       (* the visible rows                                         *)
  clock,
  walk         (* the client: what it has been shown, and its next cursor  *)

vars == <<inserting, table, clock, walk>>

Walk ==
  [ state  : {"new", "walking", "finished"},
    cursor : Item \cup {NoCursor},
    page   : SUBSET Item,      (* the data of the last page                *)
    shown  : SUBSET Item,      (* the data of all pages                    *)
    start  : SUBSET Item ]     (* what was visible when the walk began     *)

TypeOK ==
  /\ inserting \subseteq Item
  /\ table \subseteq Item
  /\ clock \in 0 .. MaxClock
  /\ walk \in Walk

NewWalk ==
  [ state |-> "new", cursor |-> NoCursor,
    page |-> {}, shown |-> {}, start |-> {} ]

Init ==
  /\ inserting = {}
  /\ table = {}
  /\ clock = 0
  /\ walk = NewWalk

-----------------------------------------------------------------------------

(* Fault: the list is ordered by createdAt alone.                            *)
Precedes_DateOnly(x, y) == x.createdAt < y.createdAt

(* orderBy: the list is sorted by descending createdAt, then descending id,  *)
(* and x comes after y in it.                                               *)
Precedes(x, y) ==
  \/ x.createdAt < y.createdAt
  \/ x.createdAt = y.createdAt /\ x.id < y.id

(* Fault: the rows of the cursor's own millisecond are left out.            *)
buildCursorFilter_DateOnly(x, cursor) ==
  cursor # NoCursor => x.createdAt < cursor.createdAt

(* Fault: the filter lets the row of the cursor through again.              *)
buildCursorFilter_OrEqual(x, cursor) ==
  cursor # NoCursor =>
    \/ x.createdAt < cursor.createdAt
    \/ x.createdAt = cursor.createdAt /\ x.id <= cursor.id

(* Whether the cursor's filter lets the row x through.                      *)
buildCursorFilter(x, cursor) ==
  cursor # NoCursor =>
    \/ x.createdAt < cursor.createdAt
    \/ x.createdAt = cursor.createdAt /\ x.id < cursor.id

(* The validation of the query: any other limit is answered with 400.       *)
AcceptsLimit(limit) == limit # NoLimit => limit \in 1 .. MAX_PAGE_LIMIT

normalizeLimit(limit) ==
  LET value == IF limit = NoLimit THEN DEFAULT_PAGE_LIMIT ELSE limit
      atLeastOne == IF value < 1 THEN 1 ELSE value
  IN  IF atLeastOne > MAX_PAGE_LIMIT THEN MAX_PAGE_LIMIT ELSE atLeastOne

Matching(cursor) == {x \in table : buildCursorFilter(x, cursor)}

(* The data of a page: the first `limit' rows in the order of the list.     *)
IsPage(data, rows, limit) ==
  /\ data \subseteq rows
  /\ Cardinality(data) =
       IF Cardinality(rows) > limit THEN limit ELSE Cardinality(rows)
  /\ \A x \in data, y \in rows \ data : ~ Precedes(x, y)

(* Fault: the cursor carries no id.                                         *)
LastOf_NoId(data) ==
  [createdAt |->
     (CHOOSE x \in data : \A y \in data : ~ Precedes(y, x)).createdAt]

(* The last row of the page, which the cursor encodes.                      *)
LastOf(data) == CHOOSE x \in data : \A y \in data : ~ Precedes(y, x)

nextCursor(data, hasMore) ==
  IF hasMore /\ data # {} THEN LastOf(data) ELSE NoCursor

-----------------------------------------------------------------------------

StartInsert(id) ==
  /\ \A x \in inserting \cup table : x.id # id
  /\ inserting' = inserting \cup {[id |-> id, createdAt |-> clock]}
  /\ UNCHANGED <<table, clock, walk>>

CommitInsert(x) ==
  /\ x \in inserting
  /\ inserting' = inserting \ {x}
  /\ table' = table \cup {x}
  /\ UNCHANGED <<clock, walk>>

Tick ==
  /\ clock < MaxClock
  /\ clock' = clock + 1
  /\ UNCHANGED <<inserting, table, walk>>

(* One page: findMany takes one row more than the limit to learn whether    *)
(* there is a next page.  The client goes on as long as it gets a cursor.   *)
Fetch(limit) ==
  /\ walk.state # "finished"
  /\ AcceptsLimit(limit)
  /\ LET n == normalizeLimit(limit)
         rows == Matching(walk.cursor)
     IN  \E data \in SUBSET rows :
           LET cursor == nextCursor(data, Cardinality(rows) > n)
           IN  /\ IsPage(data, rows, n)
               /\ walk' =
                    [ state |-> IF cursor = NoCursor THEN "finished"
                                                    ELSE "walking",
                      cursor |-> cursor,
                      page |-> data,
                      shown |-> walk.shown \cup data,
                      start |-> IF walk.state = "new" THEN table
                                                      ELSE walk.start ]
  /\ UNCHANGED <<inserting, table, clock>>

Next ==
  \/ \E id \in Ids : StartInsert(id)
  \/ \E x \in inserting : CommitInsert(x)
  \/ Tick
  \/ \E limit \in Limits : Fetch(limit)

Spec == Init /\ [][Next]_vars

(* A client that scrolls on asks for one more page of the default size.     *)
FairSpec == Spec /\ WF_vars(Fetch(NoLimit))

-----------------------------------------------------------------------------

(* No row is shown twice, and the pages continue one another: all that a    *)
(* page shows comes, in the order of the list, after all that was shown     *)
(* before, whatever was inserted in the meantime (buildCursorFilter).       *)
NoRepeats ==
  [][ \A limit \in Limits :
        Fetch(limit) =>
          \A x \in walk'.page, y \in walk.shown : Precedes(x, y) ]_vars

(* Nothing is skipped: when the client has no next cursor, every row that   *)
(* was visible when it began has been shown, whatever limits it asked for.  *)
NothingSkipped ==
  walk.state = "finished" => walk.start \subseteq walk.shown

(* The walk ends even while rows are being inserted.                        *)
WalkEnds == walk.state = "walking" ~> walk.state = "finished"

-----------------------------------------------------------------------------
(* The inductive invariant: the cursor splits the list into what has been   *)
(* shown and what is still to come.                                         *)
PaginationInv ==
  /\ IsFiniteSet(table)
  /\ walk.shown \subseteq table
  /\ walk.state = "new" => walk.shown = {} /\ walk.cursor = NoCursor
  /\ walk.state = "walking" =>
       /\ walk.cursor \in Item
       /\ \A x \in walk.shown : x = walk.cursor \/ Precedes(walk.cursor, x)
       /\ \A x \in walk.start :
            x \in table /\ (x \in walk.shown \/ Precedes(x, walk.cursor))
  /\ NothingSkipped

=============================================================================
