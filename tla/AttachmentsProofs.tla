-------------------------- MODULE AttachmentsProofs -------------------------
(* Theorems about Attachments, for every number of shipments, actors, file   *)
(* names, requests and uploads.                                              *)
EXTENDS Attachments, TLAPS

(* The requests that hold a row: one they are to save, or one they read.     *)
Holds(r) ==
  requests[r].pc \in {"put", "save", "sign", "removeObject", "deleteRow"}

(* The requests whose row is not in the table yet.                           *)
Pending(r) == requests[r].pc \in {"put", "save"}

Kept(row) ==
  row \in rows \/ \E r \in Requests : Holds(r) /\ requests[r].row = row

(* A row carries the number and the path of the upload that made it.         *)
Known(row) ==
  /\ row.id \in DOMAIN begun
  /\ row.path = begun[row.id]
  /\ row.file = row.id

(* The copies of a row, in the table and in the requests, are of one upload, *)
(* and the row of an upload in progress has no other copy.                   *)
KeptInv ==
  /\ \A row \in Row : Kept(row) => Known(row)
  /\ \A a, b \in Row : Kept(a) /\ Kept(b) /\ a.id = b.id => a = b
  /\ \A r \in Requests :
       Pending(r) =>
         /\ requests[r].row \notin rows
         /\ \A q \in Requests \ {r} :
              Holds(q) => requests[q].row # requests[r].row

(* What is stored under the path of a request, if no other upload shares it. *)
BucketInv ==
  /\ \A p \in Path : Stored(p) => \E i \in DOMAIN begun : begun[i] = p
  /\ \A r \in Requests :
       Holds(r) /\ Unshared(requests[r].row.path) =>
         LET row == requests[r].row
         IN  /\ requests[r].pc \in {"put", "deleteRow"} => ~ Stored(row.path)
             /\ requests[r].pc = "save" => bucket[row.path] = row.file

AttachmentsInv ==
  TypeOK /\ KeptInv /\ BucketInv /\ RowsShowTheirFiles /\ NoOrphans

-----------------------------------------------------------------------------

LEMMA RequestTypes ==
  ASSUME TypeOK, NEW r \in Requests
  PROVE  /\ requests[r] = Idle => requests[r].pc = "idle"
         /\ Holds(r) =>
              /\ requests[r] \in Uploading \cup Removing
              /\ requests[r].row \in Row
              /\ requests[r].row.path \in Path
              /\ requests[r].row.file \in 1 .. MaxUploads
         /\ requests[r].pc \in {"put", "save", "sign"}
              => requests[r] \in Uploading
         /\ requests[r].pc \in {"removeObject", "deleteRow"}
              => requests[r] \in Removing
BY DEF TypeOK, Holds, Idle, Uploading, Removing, Listing, Row

(* Two copies of rows whose path nobody shares are copies of one row.        *)
LEMMA SameUpload ==
  ASSUME KeptInv, NEW a \in Row, NEW b \in Row, Kept(a), Kept(b),
         a.path = b.path, Unshared(a.path)
  PROVE  a = b
<1>1. Known(a) /\ Known(b)
  BY DEF KeptInv
<1>2. a.id = b.id
  BY <1>1 DEF Known, Unshared
<1> QED BY <1>2 DEF KeptInv

(* The state of the requests after a step of one of them.                    *)
LEMMA RequestsAfter ==
  ASSUME TypeOK, NEW r \in Requests, NEW x, Become(r, x)
  PROVE  \A q \in Requests : requests'[q] = IF q = r THEN x ELSE requests[q]
BY DEF TypeOK, Become

LEMMA TypeInit == Init => TypeOK
<1> SUFFICES ASSUME Init PROVE TypeOK
  OBVIOUS
<1>1. begun \in Seq(Path) /\ Len(begun) <= MaxUploads
  BY AttachmentsAssumption DEF Init
<1>2. requests \in
        [Requests -> {Idle} \cup Uploading \cup Removing \cup Listing]
  BY DEF Init
<1>3. bucket \in [Path -> 1 .. MaxUploads \cup {NoFile}]
  BY DEF Init
<1>4. rows \subseteq Row /\ callFailed \in BOOLEAN
  BY DEF Init
<1>5. clock \in 0 .. MaxClock
  BY AttachmentsAssumption DEF Init
<1> QED BY <1>1, <1>2, <1>3, <1>4, <1>5 DEF TypeOK

LEMMA TypeNext ==
  ASSUME TypeOK, [Next]_vars
  PROVE  TypeOK'
<1>1. ASSUME NEW r \in Requests,
             NEW x \in {Idle} \cup Uploading \cup Removing \cup Listing,
             Become(r, x)
      PROVE  requests' \in
               [Requests -> {Idle} \cup Uploading \cup Removing \cup Listing]
  BY <1>1 DEF TypeOK, Become
<1>2. ASSUME NEW r \in Requests, NEW s \in Shipments, NEW a \in Actors,
             NEW name \in FileNames, BeginUpload(r, s, a, name)
      PROVE  TypeOK'
  <2> DEFINE path == <<s, clock, Sanitized[name]>>
             n == Len(begun) + 1
             row == [id |-> n, shipment |-> s, path |-> path,
                     user |-> a, file |-> n]
             x == [pc |-> "put", row |-> row]
  <2>1. path \in Path
    BY DEF TypeOK, Path, SanitizedNames
  <2>2. n \in 1 .. MaxUploads
    BY <1>2, AttachmentsAssumption DEF BeginUpload, TypeOK
  <2>3. row \in Row
    BY <2>1, <2>2 DEF Row
  <2>4. x \in Uploading
    BY <2>3 DEF Uploading
  <2>5. Become(r, x) /\ begun' = Append(begun, path)
    BY <1>2 DEF BeginUpload
  <2>6. requests' \in
          [Requests -> {Idle} \cup Uploading \cup Removing \cup Listing]
    BY <1>1, <2>4, <2>5
  <2>7. begun' \in Seq(Path) /\ Len(begun') = n
    BY <2>1, <2>5 DEF TypeOK
  <2> HIDE DEF path, n, row, x
  <2> QED BY <1>2, <2>2, <2>6, <2>7, AttachmentsAssumption
          DEF BeginUpload, TypeOK
<1>3. ASSUME NEW r \in Requests, Become(r, Idle),
             UNCHANGED <<bucket, clock, begun>>,
             rows' \subseteq rows, callFailed' \in BOOLEAN
      PROVE  TypeOK'
  <2>1. requests' \in
          [Requests -> {Idle} \cup Uploading \cup Removing \cup Listing]
    BY <1>1, <1>3
  <2> QED BY <1>3, <2>1 DEF TypeOK
<1>4. ASSUME NEW r \in Requests, PutObject(r) PROVE TypeOK'
  <2>1. requests[r] \in Uploading /\ requests[r].row \in Row
        /\ requests[r].row.path \in Path
        /\ requests[r].row.file \in 1 .. MaxUploads
    BY <1>4, RequestTypes DEF PutObject, Holds
  <2>2. [requests[r] EXCEPT !.pc = "save"] \in Uploading
    BY <2>1 DEF Uploading
  <2>3. CASE Stored(requests[r].row.path)
    BY <1>3, <1>4, <2>3 DEF PutObject, TypeOK
  <2>4. CASE ~ Stored(requests[r].row.path)
    <3>1. Become(r, [requests[r] EXCEPT !.pc = "save"])
      BY <1>4, <2>4 DEF PutObject
    <3>2. requests' \in
            [Requests -> {Idle} \cup Uploading \cup Removing \cup Listing]
      BY <1>1, <2>2, <3>1
    <3>3. bucket' \in [Path -> 1 .. MaxUploads \cup {NoFile}]
      BY <1>4, <2>1, <2>4 DEF PutObject, TypeOK
    <3> QED BY <1>4, <3>2, <3>3 DEF PutObject, TypeOK
  <2> QED BY <2>3, <2>4
<1>5. ASSUME NEW r \in Requests, SaveRow(r) PROVE TypeOK'
  <2>1. requests[r] \in Uploading /\ requests[r].row \in Row
    BY <1>5, RequestTypes DEF SaveRow, Holds
  <2>2. [requests[r] EXCEPT !.pc = "sign"] \in Uploading
    BY <2>1 DEF Uploading
  <2>3. requests' \in
          [Requests -> {Idle} \cup Uploading \cup Removing \cup Listing]
    BY <1>1, <1>5, <2>2 DEF SaveRow
  <2> QED BY <1>5, <2>1, <2>3 DEF SaveRow, TypeOK
<1>6. ASSUME NEW r \in Requests, SignUpload(r) \/ SignList(r) PROVE TypeOK'
  BY <1>3, <1>6 DEF SignUpload, SignList, TypeOK
<1>7. ASSUME NEW r \in Requests, NEW a \in Actors, NEW row \in rows,
             BeginRemove(r, a, row)
      PROVE  TypeOK'
  <2>1. [pc |-> "removeObject", row |-> row] \in Removing
    BY DEF Removing, TypeOK
  <2>2. requests' \in
          [Requests -> {Idle} \cup Uploading \cup Removing \cup Listing]
    BY <1>1, <1>7, <2>1 DEF BeginRemove
  <2> QED BY <1>7, <2>2 DEF BeginRemove, TypeOK
<1>8. ASSUME NEW r \in Requests, RemoveObject(r) PROVE TypeOK'
  <2>1. requests[r] \in Removing /\ requests[r].row.path \in Path
    BY <1>8, RequestTypes DEF RemoveObject, Holds
  <2>2. [requests[r] EXCEPT !.pc = "deleteRow"] \in Removing
    BY <2>1 DEF Removing
  <2>3. requests' \in
          [Requests -> {Idle} \cup Uploading \cup Removing \cup Listing]
    BY <1>1, <1>8, <2>2 DEF RemoveObject
  <2>4. bucket' \in [Path -> 1 .. MaxUploads \cup {NoFile}]
    BY <1>8, <2>1 DEF RemoveObject, TypeOK
  <2> QED BY <1>8, <2>3, <2>4 DEF RemoveObject, TypeOK
<1>9. ASSUME NEW r \in Requests, DeleteRow(r) PROVE TypeOK'
  <2>1. rows' \subseteq rows
    BY <1>9 DEF DeleteRow
  <2> QED BY <1>3, <1>9, <2>1 DEF DeleteRow, TypeOK
<1>10. ASSUME NEW r \in Requests, NEW s \in Shipments, NEW a \in Actors,
              BeginList(r, s, a)
       PROVE  TypeOK'
  <2>1. [pc |-> "signAll", rows |-> {row \in rows : row.shipment = s}]
          \in Listing
    BY DEF Listing, TypeOK
  <2>2. requests' \in
          [Requests -> {Idle} \cup Uploading \cup Removing \cup Listing]
    BY <1>1, <1>10, <2>1 DEF BeginList
  <2> QED BY <1>10, <2>2 DEF BeginList, TypeOK
<1>11. ASSUME NEW r \in Requests, Abort(r) PROVE TypeOK'
  BY <1>3, <1>11 DEF Abort
<1>12. CASE Tick
  BY <1>12, AttachmentsAssumption DEF Tick, TypeOK
<1>13. CASE UNCHANGED vars
  BY <1>13 DEF vars, TypeOK
<1> QED BY <1>2, <1>4, <1>5, <1>6, <1>7, <1>8, <1>9, <1>10, <1>11, <1>12, <1>13
        DEF Next, Step

-----------------------------------------------------------------------------
(* The copies of the rows.                                                   *)

LEMMA KeptInit == Init => KeptInv
BY DEF Init, KeptInv, Kept, Holds, Pending, Idle

(* A step of a request that takes a row at most from the table or from       *)
(* itself, and leaves pending only what was.                                 *)
LEMMA KeptWhenStepping ==
  ASSUME TypeOK, KeptInv, NEW r \in Requests, NEW x, Become(r, x),
         begun' = begun,
         x.pc \in {"put", "save", "sign", "removeObject", "deleteRow"}
           => x.row \in rows \/ (Holds(r) /\ x.row = requests[r].row),
         x.pc \in {"put", "save"} => Pending(r) /\ x.row = requests[r].row,
         \A row \in rows' \ rows :
           /\ Pending(r) /\ row = requests[r].row
           /\ x.pc \notin {"put", "save"}
  PROVE  KeptInv'
<1>1. \A q \in Requests : requests'[q] = IF q = r THEN x ELSE requests[q]
  BY RequestsAfter
<1>2. /\ Holds(r)' => x.row \in rows \/ (Holds(r) /\ x.row = requests[r].row)
      /\ Pending(r)' => Pending(r) /\ x.row = requests[r].row
      /\ \A q \in Requests \ {r} :
           /\ requests'[q] = requests[q]
           /\ Holds(q)' <=> Holds(q)
           /\ Pending(q)' <=> Pending(q)
      /\ requests'[r] = x
  BY <1>1 DEF Holds, Pending
<1>3. \A q \in Requests : Pending(q) => Holds(q)
  BY DEF Pending, Holds
<1>4. \A row : Kept(row)' => Kept(row)
  BY <1>2, <1>3 DEF Kept
<1>5. ASSUME NEW row \in Row, Kept(row)' PROVE Known(row)'
  BY <1>4, <1>5 DEF KeptInv, Known
<1>6. ASSUME NEW q \in Requests, Pending(q)'
      PROVE  /\ requests'[q].row \notin rows'
             /\ \A p \in Requests \ {q} :
                  Holds(p)' => requests'[p].row # requests'[q].row
  <2>1. /\ Pending(q) /\ requests'[q].row = requests[q].row
        /\ requests[q].row \notin rows
        /\ \A p \in Requests \ {q} :
             Holds(p) => requests[p].row # requests[q].row
    BY <1>2, <1>6 DEF KeptInv
  <2>2. requests[q].row \notin rows'
    <3>1. CASE q = r
      BY <1>1, <1>6, <2>1, <3>1 DEF Pending
    <3>2. CASE q # r
      BY <1>3, <2>1, <3>2
    <3> QED BY <3>1, <3>2
  <2>3. ASSUME NEW p \in Requests \ {q}, Holds(p)'
        PROVE  requests'[p].row # requests[q].row
    BY <1>2, <2>1, <2>3
  <2> QED BY <2>1, <2>2, <2>3
<1> QED BY <1>4, <1>5, <1>6 DEF KeptInv

(* The number of a new upload is one that no copy has.                       *)
LEMMA KeptBeginUpload ==
  ASSUME TypeOK, KeptInv, NEW r \in Requests, NEW s \in Shipments,
         NEW a \in Actors, NEW name \in FileNames, BeginUpload(r, s, a, name)
  PROVE  KeptInv'
<1> DEFINE path == <<s, clock, Sanitized[name]>>
           n == Len(begun) + 1
           new == [id |-> n, shipment |-> s, path |-> path,
                   user |-> a, file |-> n]
<1>1. /\ begun' = Append(begun, path) /\ rows' = rows
      /\ Become(r, [pc |-> "put", row |-> new])
  BY DEF BeginUpload
<1>2. path \in Path
  BY DEF TypeOK, Path, SanitizedNames
<1>3. /\ \A i \in DOMAIN begun : i \in DOMAIN begun' /\ begun'[i] = begun[i]
      /\ n \in DOMAIN begun' /\ begun'[n] = path /\ n \notin DOMAIN begun
  <2> HIDE DEF path
  <2> QED BY <1>1, <1>2 DEF TypeOK
<1>4. new.id = n /\ new.path = path /\ new.file = n
  OBVIOUS
<1> HIDE DEF path, n, new
<1>5. /\ requests'[r].pc = "put" /\ requests'[r].row = new
      /\ \A q \in Requests \ {r} : requests'[q] = requests[q]
  BY <1>1, RequestsAfter
<1>6. \A row : Kept(row)' => Kept(row) \/ row = new
  BY <1>1, <1>5 DEF Kept, Holds
<1>7. \A row \in Row : Kept(row) => row.id \in DOMAIN begun
  BY DEF KeptInv, Known
<1>8. ASSUME NEW row \in Row, Kept(row)' PROVE Known(row)'
  BY <1>3, <1>4, <1>6, <1>8 DEF KeptInv, Known
<1>9. ASSUME NEW b \in Row, NEW c \in Row, Kept(b)', Kept(c)', b.id = c.id
      PROVE  b = c
  BY <1>3, <1>4, <1>6, <1>7, <1>9 DEF KeptInv
<1>10. ASSUME NEW row \in Row, Kept(row) PROVE row # new
  BY <1>3, <1>4, <1>7, <1>10
<1>11. /\ \A row \in rows : row # new
       /\ \A q \in Requests : Holds(q) => requests[q].row # new
  BY <1>10, RequestTypes DEF Kept, TypeOK
<1>12. ASSUME NEW q \in Requests, Pending(q)'
       PROVE  /\ requests'[q].row \notin rows'
              /\ \A p \in Requests \ {q} :
                   Holds(p)' => requests'[p].row # requests'[q].row
  <2>1. CASE q = r
    BY <1>1, <1>5, <1>11, <2>1 DEF Holds
  <2>2. CASE q # r
    BY <1>1, <1>5, <1>11, <1>12, <2>2 DEF Holds, Pending, KeptInv
  <2> QED BY <2>1, <2>2
<1> QED BY <1>8, <1>9, <1>12 DEF KeptInv

LEMMA KeptNext ==
  ASSUME TypeOK, KeptInv, [Next]_vars
  PROVE  KeptInv'
<1>1. ASSUME NEW r \in Requests, NEW x, Become(r, x), begun' = begun,
             x.pc \in {"idle", "signAll"}, rows' \subseteq rows
      PROVE  KeptInv'
  BY <1>1, KeptWhenStepping
<1>2. Idle.pc = "idle"
  BY DEF Idle
<1>3. ASSUME NEW r \in Requests, PutObject(r) PROVE KeptInv'
  <2>1. CASE Become(r, Idle)
    BY <1>1, <1>2, <1>3, <2>1 DEF PutObject
  <2>2. CASE Become(r, [requests[r] EXCEPT !.pc = "save"])
    <3>1. Pending(r) /\ Holds(r)
      BY <1>3 DEF PutObject, Pending, Holds
    <3>2. [requests[r] EXCEPT !.pc = "save"].row = requests[r].row
      BY <1>3, RequestTypes DEF PutObject, Uploading
    <3>3. begun' = begun /\ rows' = rows
      BY <1>3 DEF PutObject
    <3> QED BY <2>2, <3>1, <3>2, <3>3, KeptWhenStepping
  <2> QED BY <1>3, <2>1, <2>2 DEF PutObject
<1>4. ASSUME NEW r \in Requests, SaveRow(r) PROVE KeptInv'
  <2>1. CASE Become(r, Idle) /\ UNCHANGED rows
    BY <1>1, <1>2, <1>4, <2>1 DEF SaveRow
  <2>2. CASE /\ rows' = rows \cup {requests[r].row}
             /\ Become(r, [requests[r] EXCEPT !.pc = "sign"])
    <3>1. Pending(r) /\ Holds(r)
      BY <1>4 DEF SaveRow, Pending, Holds
    <3>2. /\ [requests[r] EXCEPT !.pc = "sign"].row = requests[r].row
          /\ [requests[r] EXCEPT !.pc = "sign"].pc = "sign"
      BY <1>4, RequestTypes DEF SaveRow, Uploading
    <3>3. begun' = begun
      BY <1>4 DEF SaveRow
    <3> QED BY <2>2, <3>1, <3>2, <3>3, KeptWhenStepping
  <2> QED BY <1>4, <2>1, <2>2 DEF SaveRow
<1>5. ASSUME NEW r \in Requests, NEW a \in Actors, NEW row \in rows,
             BeginRemove(r, a, row)
      PROVE  KeptInv'
  <2> DEFINE x == [pc |-> "removeObject", row |-> row]
  <2>1. x.pc = "removeObject" /\ x.row \in rows
    OBVIOUS
  <2>2. Become(r, x) /\ begun' = begun /\ rows' = rows
    BY <1>5 DEF BeginRemove
  <2> HIDE DEF x
  <2> QED BY <2>1, <2>2, KeptWhenStepping
<1>6. ASSUME NEW r \in Requests, RemoveObject(r) PROVE KeptInv'
  <2> DEFINE x == [requests[r] EXCEPT !.pc = "deleteRow"]
  <2>1. x.pc = "deleteRow" /\ x.row = requests[r].row
    BY <1>6, RequestTypes DEF RemoveObject, Removing
  <2>2. /\ Become(r, x) /\ begun' = begun /\ rows' = rows
        /\ Holds(r)
    BY <1>6 DEF RemoveObject, Holds
  <2> HIDE DEF x
  <2> QED BY <2>1, <2>2, KeptWhenStepping
<1>7. ASSUME NEW r \in Requests,
             SignUpload(r) \/ SignList(r) \/ DeleteRow(r) \/ Abort(r)
      PROVE  KeptInv'
  BY <1>1, <1>2, <1>7 DEF SignUpload, SignList, DeleteRow, Abort
<1>8. ASSUME NEW r \in Requests, NEW s \in Shipments, NEW a \in Actors,
             BeginList(r, s, a)
      PROVE  KeptInv'
  BY <1>1, <1>8 DEF BeginList
<1>9. CASE UNCHANGED <<rows, requests, begun>>
  BY <1>9 DEF KeptInv, Kept, Known, Holds, Pending
<1> QED BY <1>3, <1>4, <1>5, <1>6, <1>7, <1>8, <1>9, KeptBeginUpload
        DEF Next, Step, Tick, vars

-----------------------------------------------------------------------------
(* What is stored under the paths.                                           *)

LEMMA BucketInit == Init => BucketInv
BY DEF Init, BucketInv, Stored, Holds, Idle

(* A step that leaves the bucket alone, and after which its request neither  *)
(* is to save or put an object nor to delete a row.                          *)
LEMMA BucketWhenStepping ==
  ASSUME TypeOK, BucketInv, NEW r \in Requests, NEW x, Become(r, x),
         begun' = begun, bucket' = bucket,
         x.pc \notin {"put", "save", "deleteRow"}
  PROVE  BucketInv'
<1>1. /\ requests'[r] = x
      /\ \A q \in Requests \ {r} : requests'[q] = requests[q]
  BY RequestsAfter
<1>2. \A q \in Requests \ {r} : Holds(q)' <=> Holds(q)
  BY <1>1 DEF Holds
<1> QED BY <1>1, <1>2 DEF BucketInv, Unshared, Stored

(* The object put or removed is the one of its request: whoever else holds a *)
(* row of an unshared path holds the same row, which none does of an upload. *)
LEMMA OthersKeepTheirObjects ==
  ASSUME TypeOK, KeptInv, BucketInv, NEW r \in Requests, Holds(r),
         \/ requests[r].pc = "put"
         \/ requests[r].pc = "removeObject",
         \A p \in Path : p # requests[r].row.path => bucket'[p] = bucket[p],
         requests[r].pc = "removeObject" => bucket'[requests[r].row.path] = NoFile,
         NEW q \in Requests \ {r}, Holds(q), Unshared(requests[q].row.path)
  PROVE  LET row == requests[q].row
         IN  /\ requests[q].pc \in {"put", "deleteRow"}
                  => bucket'[row.path] = NoFile
             /\ requests[q].pc = "save" => bucket'[row.path] = row.file
<1> DEFINE mine == requests[r].row
           row == requests[q].row
<1>1. /\ mine \in Row /\ row \in Row /\ Kept(mine) /\ Kept(row)
      /\ row.path \in Path
  BY RequestTypes DEF Kept
<1>2. /\ requests[q].pc \in {"put", "deleteRow"} => ~ Stored(row.path)
      /\ requests[q].pc = "save" => bucket[row.path] = row.file
  BY DEF BucketInv
<1>3. CASE row.path # mine.path
  BY <1>1, <1>2, <1>3 DEF Stored
<1>4. CASE row.path = mine.path
  <2>1. row = mine
    BY <1>1, <1>4, SameUpload
  <2>2. requests[r].pc = "removeObject" /\ ~ Pending(q)
    BY <2>1 DEF KeptInv, Pending
  <2> QED BY <1>4, <2>2 DEF Pending
<1> QED BY <1>3, <1>4

LEMMA BucketPutObject ==
  ASSUME TypeOK, KeptInv, BucketInv, NEW r \in Requests, PutObject(r),
         ~ Stored(requests[r].row.path)
  PROVE  BucketInv'
<1> DEFINE mine == requests[r].row
           x == [requests[r] EXCEPT !.pc = "save"]
<1>1. /\ Holds(r) /\ mine \in Row /\ mine.path \in Path
      /\ x.pc = "save" /\ x.row = mine /\ requests[r].pc = "put"
  BY RequestTypes DEF PutObject, Holds, Uploading
<1>2. /\ Become(r, x) /\ begun' = begun
      /\ bucket' = [bucket EXCEPT ![mine.path] = mine.file]
  BY DEF PutObject
<1>3. /\ bucket'[mine.path] = mine.file
      /\ \A p \in Path : p # mine.path => bucket'[p] = bucket[p]
  BY <1>1, <1>2 DEF TypeOK
<1>4. mine.path = begun[mine.id] /\ mine.id \in DOMAIN begun
  BY <1>1 DEF KeptInv, Kept, Known
<1> HIDE DEF x
<1>5. /\ requests'[r] = x
      /\ \A q \in Requests \ {r} : requests'[q] = requests[q]
  BY <1>2, RequestsAfter
<1>6. ASSUME NEW p \in Path, Stored(p)'
      PROVE  \E i \in DOMAIN begun' : begun'[i] = p
  BY <1>2, <1>3, <1>4, <1>6 DEF BucketInv, Stored
<1>7. ASSUME NEW q \in Requests, Holds(q)', NEW p, p = requests'[q].row.path,
             Unshared(p)'
      PROVE  LET row == requests'[q].row
             IN  /\ requests'[q].pc \in {"put", "deleteRow"}
                      => bucket'[row.path] = NoFile
                 /\ requests'[q].pc = "save" => bucket'[row.path] = row.file
  <2>1. CASE q = r
    BY <1>1, <1>3, <1>5, <2>1
  <2>2. CASE q # r
    <3>1. Holds(q) /\ Unshared(requests[q].row.path)
      BY <1>2, <1>5, <1>7, <2>2 DEF Holds, Unshared
    <3>2. requests'[q] = requests[q]
      BY <1>5, <2>2
    <3>3. /\ requests[q].pc \in {"put", "deleteRow"}
               => bucket'[requests[q].row.path] = NoFile
          /\ requests[q].pc = "save"
               => bucket'[requests[q].row.path] = requests[q].row.file
      BY <1>1, <1>3, <2>2, <3>1, OthersKeepTheirObjects
    <3> QED BY <3>2, <3>3
  <2> QED BY <2>1, <2>2
<1> QED BY <1>6, <1>7 DEF BucketInv, Unshared, Stored

LEMMA BucketRemoveObject ==
  ASSUME TypeOK, KeptInv, BucketInv, NEW r \in Requests, RemoveObject(r)
  PROVE  BucketInv'
<1> DEFINE mine == requests[r].row
           x == [requests[r] EXCEPT !.pc = "deleteRow"]
<1>1. /\ Holds(r) /\ mine \in Row /\ mine.path \in Path
      /\ x.pc = "deleteRow" /\ x.row = mine /\ requests[r].pc = "removeObject"
  BY RequestTypes DEF RemoveObject, Holds, Removing
<1>2. /\ Become(r, x) /\ begun' = begun
      /\ bucket' = [bucket EXCEPT ![mine.path] = NoFile]
  BY DEF RemoveObject
<1>3. /\ bucket'[mine.path] = NoFile
      /\ \A p \in Path : p # mine.path => bucket'[p] = bucket[p]
  BY <1>1, <1>2 DEF TypeOK
<1> HIDE DEF x
<1>4. /\ requests'[r] = x
      /\ \A q \in Requests \ {r} : requests'[q] = requests[q]
  BY <1>2, RequestsAfter
<1>5. ASSUME NEW p \in Path, Stored(p)'
      PROVE  \E i \in DOMAIN begun' : begun'[i] = p
  BY <1>2, <1>3, <1>5 DEF BucketInv, Stored
<1>7. ASSUME NEW q \in Requests, Holds(q)', NEW p, p = requests'[q].row.path,
             Unshared(p)'
      PROVE  LET row == requests'[q].row
             IN  /\ requests'[q].pc \in {"put", "deleteRow"}
                      => bucket'[row.path] = NoFile
                 /\ requests'[q].pc = "save" => bucket'[row.path] = row.file
  <2>1. CASE q = r
    BY <1>1, <1>3, <1>4, <2>1
  <2>2. CASE q # r
    <3>1. Holds(q) /\ Unshared(requests[q].row.path)
      BY <1>2, <1>4, <1>7, <2>2 DEF Holds, Unshared
    <3>2. requests'[q] = requests[q]
      BY <1>4, <2>2
    <3>3. /\ requests[q].pc \in {"put", "deleteRow"}
               => bucket'[requests[q].row.path] = NoFile
          /\ requests[q].pc = "save"
               => bucket'[requests[q].row.path] = requests[q].row.file
      BY <1>1, <1>3, <2>2, <3>1, OthersKeepTheirObjects
    <3> QED BY <3>2, <3>3
  <2> QED BY <2>1, <2>2
<1> QED BY <1>5, <1>7 DEF BucketInv, Unshared, Stored

(* A path that no upload had before has nothing stored under it.             *)
LEMMA BucketBeginUpload ==
  ASSUME TypeOK, KeptInv, BucketInv, NEW r \in Requests, NEW s \in Shipments,
         NEW a \in Actors, NEW name \in FileNames, BeginUpload(r, s, a, name)
  PROVE  BucketInv'
<1>1. PICK path \in Path : path = <<s, clock, Sanitized[name]>>
  BY DEF TypeOK, Path, SanitizedNames
<1>2. PICK n : n = Len(begun) + 1
  OBVIOUS
<1>3. PICK new : /\ new = [id |-> n, shipment |-> s, path |-> path,
                           user |-> a, file |-> n]
                 /\ new.path = path
  <2> WITNESS [id |-> n, shipment |-> s, path |-> path, user |-> a, file |-> n]
  <2> QED OBVIOUS
<1>4. /\ begun' = Append(begun, path) /\ bucket' = bucket
      /\ Become(r, [pc |-> "put", row |-> new])
  BY <1>1, <1>2, <1>3 DEF BeginUpload
<1>5. /\ \A i \in DOMAIN begun : /\ i \in DOMAIN begun' /\ begun'[i] = begun[i]
                                 /\ i # n
      /\ n \in DOMAIN begun' /\ begun'[n] = path
  BY <1>2, <1>4 DEF TypeOK
<1>6. /\ requests'[r].pc = "put" /\ requests'[r].row = new
      /\ \A q \in Requests \ {r} : requests'[q] = requests[q]
  BY <1>4, RequestsAfter
<1>7. \A p : Unshared(p)' => Unshared(p)
  BY <1>5 DEF Unshared
<1>8. Unshared(path)' => ~ Stored(path)
  BY <1>5 DEF Unshared, BucketInv
<1>9. ASSUME NEW p \in Path, Stored(p)'
      PROVE  \E i \in DOMAIN begun' : begun'[i] = p
  BY <1>4, <1>5, <1>9 DEF BucketInv, Stored
<1>10. ASSUME NEW q \in Requests, Holds(q)', NEW p, p = requests'[q].row.path,
             Unshared(p)'
      PROVE  LET row == requests'[q].row
             IN  /\ requests'[q].pc \in {"put", "deleteRow"}
                      => bucket'[row.path] = NoFile
                 /\ requests'[q].pc = "save" => bucket'[row.path] = row.file
  <2>1. CASE q = r
    <3>1. Unshared(path)'
      BY <1>3, <1>6, <1>10, <2>1 DEF Unshared
    <3>2. ~ Stored(path)
      BY <1>8, <3>1
    <3> QED BY <1>3, <1>4, <1>6, <2>1, <3>2 DEF Stored
  <2>2. CASE q # r
    <3>1. requests'[q] = requests[q]
      BY <1>6, <2>2
    <3>2. Unshared(requests[q].row.path) /\ Holds(q)
      BY <1>5, <1>10, <3>1 DEF Unshared, Holds
    <3> QED BY <1>4, <3>1, <3>2 DEF BucketInv, Stored
  <2> QED BY <2>1, <2>2
<1> QED BY <1>9, <1>10 DEF BucketInv, Unshared, Stored

LEMMA BucketNext ==
  ASSUME TypeOK, KeptInv, BucketInv, [Next]_vars
  PROVE  BucketInv'
<1>1. Idle.pc = "idle"
  BY DEF Idle
<1>2. ASSUME NEW r \in Requests, PutObject(r), Stored(requests[r].row.path)
      PROVE  BucketInv'
  BY <1>1, <1>2, BucketWhenStepping DEF PutObject
<1>3. ASSUME NEW r \in Requests, SaveRow(r) PROVE BucketInv'
  <2>1. [requests[r] EXCEPT !.pc = "sign"].pc = "sign"
    BY <1>3, RequestTypes DEF SaveRow, Uploading
  <2> QED BY <1>1, <1>3, <2>1, BucketWhenStepping DEF SaveRow
<1>4. ASSUME NEW r \in Requests, NEW a \in Actors, NEW row \in rows,
             BeginRemove(r, a, row)
      PROVE  BucketInv'
  BY <1>4, BucketWhenStepping DEF BeginRemove
<1>5. ASSUME NEW r \in Requests,
             SignUpload(r) \/ SignList(r) \/ DeleteRow(r) \/ Abort(r)
      PROVE  BucketInv'
  BY <1>1, <1>5, BucketWhenStepping DEF SignUpload, SignList, DeleteRow, Abort
<1>6. ASSUME NEW r \in Requests, NEW s \in Shipments, NEW a \in Actors,
             BeginList(r, s, a)
      PROVE  BucketInv'
  BY <1>6, BucketWhenStepping DEF BeginList
<1>7. CASE UNCHANGED <<bucket, requests, begun>>
  BY <1>7 DEF BucketInv, Holds, Unshared, Stored
<1> QED BY <1>2, <1>3, <1>4, <1>5, <1>6, <1>7, BucketBeginUpload,
           BucketPutObject, BucketRemoveObject
        DEF Next, Step, Tick, vars

-----------------------------------------------------------------------------
(* Rows and objects, until a call fails.                                     *)

(* Paths are never un-begun, so what is unshared has always been.            *)
LEMMA UnsharedBefore ==
  ASSUME TypeOK, [Next]_vars, NEW p, Unshared(p)'
  PROVE  Unshared(p)
<1>1. ASSUME NEW r \in Requests, NEW s \in Shipments, NEW a \in Actors,
             NEW name \in FileNames, BeginUpload(r, s, a, name)
      PROVE  Unshared(p)
  <2>1. PICK path \in Path : begun' = Append(begun, path)
    BY <1>1 DEF BeginUpload, TypeOK, Path, SanitizedNames
  <2>2. \A i \in DOMAIN begun : i \in DOMAIN begun' /\ begun'[i] = begun[i]
    BY <2>1 DEF TypeOK
  <2> QED BY <2>2 DEF Unshared
<1>2. CASE begun' = begun
  BY <1>2 DEF Unshared
<1> QED BY <1>1, <1>2
        DEF Next, Step, vars, BeginRemove, BeginList, PutObject, SaveRow,
            SignUpload, RemoveObject, DeleteRow, SignList, Tick, Abort

LEMMA ShownInit == Init => RowsShowTheirFiles /\ NoOrphans
BY DEF Init, RowsShowTheirFiles, NoOrphans, Stored

(* The other requests are where they were.                                   *)
LEMMA OthersStay ==
  ASSUME TypeOK, NEW r \in Requests, NEW x, Become(r, x)
  PROVE  /\ \A row : BeingRemoved(row) =>
              \/ BeingRemoved(row)'
              \/ requests[r].pc = "deleteRow" /\ requests[r].row = row
         /\ \A p : InFlight(p) =>
              \/ InFlight(p)'
              \/ /\ requests[r].pc \in {"put", "save", "removeObject", "deleteRow"}
                 /\ requests[r].row.path = p
         /\ x.pc = "deleteRow" => BeingRemoved(x.row)'
         /\ x.pc \in {"put", "save", "removeObject", "deleteRow"}
              => InFlight(x.row.path)'
BY RequestsAfter DEF BeingRemoved, InFlight

(* The object of a row is touched by its own removal only.                   *)
LEMMA ShownNext ==
  ASSUME TypeOK, KeptInv, BucketInv, RowsShowTheirFiles, [Next]_vars
  PROVE  RowsShowTheirFiles'
<1> SUFFICES ASSUME ~ callFailed', NEW row \in rows', Unshared(row.path)'
             PROVE  bucket'[row.path] = row.file \/ BeingRemoved(row)'
  BY DEF RowsShowTheirFiles
<1>1. Unshared(row.path)
  BY UnsharedBefore
<1>2. row \in rows =>
        /\ row \in Row /\ Kept(row)
        /\ ~ callFailed => bucket[row.path] = row.file \/ BeingRemoved(row)
  BY <1>1 DEF RowsShowTheirFiles, TypeOK, Kept
<1>3. ASSUME UNCHANGED <<requests, rows, bucket, callFailed>>
      PROVE  bucket'[row.path] = row.file \/ BeingRemoved(row)'
  BY <1>2, <1>3 DEF BeingRemoved
<1>4. ASSUME NEW r \in Requests, NEW x, Become(r, x), rows' \subseteq rows,
             UNCHANGED <<bucket, callFailed>>,
             ~ (requests[r].pc = "deleteRow" /\ requests[r].row = row)
      PROVE  bucket'[row.path] = row.file \/ BeingRemoved(row)'
  BY <1>2, <1>4, OthersStay
<1>5. ASSUME NEW r \in Requests, PutObject(r)
      PROVE  bucket'[row.path] = row.file \/ BeingRemoved(row)'
  <2> DEFINE mine == requests[r].row
  <2>1. CASE Stored(mine.path)
    BY <1>4, <1>5, <2>1 DEF PutObject
  <2>2. CASE ~ Stored(mine.path)
    <3>1. mine \in Row /\ mine.path \in Path /\ Kept(mine) /\ mine \notin rows
      BY <1>5, RequestTypes DEF PutObject, Holds, Pending, Kept, KeptInv
    <3>2. row \in rows /\ callFailed' = callFailed
      BY <1>5 DEF PutObject
    <3>3. row.path # mine.path
      BY <1>1, <1>2, <3>1, <3>2, SameUpload
    <3>4. bucket'[row.path] = bucket[row.path]
      <4>1. bucket' = [bucket EXCEPT ![mine.path] = mine.file]
        BY <1>5, <2>2 DEF PutObject
      <4>2. row.path \in Path
        BY <1>2, <3>2 DEF Row
      <4> QED BY <3>3, <4>1, <4>2 DEF TypeOK
    <3>5. BeingRemoved(row) => BeingRemoved(row)'
      BY <1>5, <2>2, OthersStay DEF PutObject
    <3> QED BY <1>2, <3>2, <3>4, <3>5
  <2> QED BY <2>1, <2>2
<1>6. ASSUME NEW r \in Requests, SaveRow(r)
      PROVE  bucket'[row.path] = row.file \/ BeingRemoved(row)'
  <2>1. UNCHANGED <<bucket, callFailed>>
    BY <1>6 DEF SaveRow
  <2>2. CASE row \in rows
    <3>1. BeingRemoved(row) => BeingRemoved(row)'
      BY <1>6, OthersStay DEF SaveRow
    <3> QED BY <1>2, <2>1, <2>2, <3>1
  <2>3. CASE row = requests[r].row
    BY <1>1, <1>6, <2>1, <2>3 DEF SaveRow, Holds, BucketInv
  <2> QED BY <1>6, <2>2, <2>3 DEF SaveRow
<1>7. ASSUME NEW r \in Requests, RemoveObject(r)
      PROVE  bucket'[row.path] = row.file \/ BeingRemoved(row)'
  <2> DEFINE mine == requests[r].row
             x == [requests[r] EXCEPT !.pc = "deleteRow"]
  <2>1. /\ mine \in Row /\ mine.path \in Path /\ Kept(mine)
        /\ x.pc = "deleteRow" /\ x.row = mine
    BY <1>7, RequestTypes DEF RemoveObject, Holds, Kept, Removing
  <2>2. row \in rows /\ callFailed' = callFailed /\ Become(r, x)
    BY <1>7 DEF RemoveObject
  <2> HIDE DEF x
  <2>3. CASE row.path = mine.path
    <3>1. row = mine
      BY <1>1, <1>2, <2>1, <2>2, <2>3, SameUpload
    <3>2. requests'[r] = x
      BY <2>2, RequestsAfter
    <3> QED BY <2>1, <3>1, <3>2 DEF BeingRemoved
  <2>4. CASE row.path # mine.path
    <3>1. bucket'[row.path] = bucket[row.path]
      BY <1>7, <2>1, <2>4 DEF RemoveObject, TypeOK
    <3>2. BeingRemoved(row) => BeingRemoved(row)'
      BY <1>7, <2>2, OthersStay DEF RemoveObject
    <3> QED BY <1>2, <2>2, <3>1, <3>2
  <2> QED BY <2>3, <2>4
<1>8. ASSUME NEW r \in Requests, DeleteRow(r)
      PROVE  bucket'[row.path] = row.file \/ BeingRemoved(row)'
  BY <1>4, <1>8 DEF DeleteRow
<1>9. ASSUME NEW r \in Requests, NEW x, Become(r, x), requests[r] = Idle,
             UNCHANGED <<rows, bucket, callFailed>>
      PROVE  bucket'[row.path] = row.file \/ BeingRemoved(row)'
  <2>1. requests[r].pc # "deleteRow"
    BY <1>9 DEF Idle
  <2> QED BY <1>4, <1>9, <2>1
<1>10. ASSUME NEW r \in Requests, SignUpload(r) \/ SignList(r)
       PROVE  bucket'[row.path] = row.file \/ BeingRemoved(row)'
  BY <1>4, <1>10 DEF SignUpload, SignList
<1>11. ASSUME NEW r \in Requests, Abort(r) PROVE FALSE
  BY <1>11 DEF Abort
<1>12. ASSUME NEW r \in Requests,
              \/ \E s \in Shipments, a \in Actors, name \in FileNames :
                   BeginUpload(r, s, a, name)
              \/ \E a \in Actors, mine \in rows : BeginRemove(r, a, mine)
              \/ \E s \in Shipments, a \in Actors : BeginList(r, s, a)
       PROVE  bucket'[row.path] = row.file \/ BeingRemoved(row)'
  BY <1>9, <1>12 DEF BeginUpload, BeginRemove, BeginList
<1> QED BY <1>3, <1>5, <1>6, <1>7, <1>8, <1>10, <1>11, <1>12
        DEF Next, Step, Tick, vars

(* An object loses its last row only together with itself.                   *)
LEMMA OrphansNext ==
  ASSUME TypeOK, KeptInv, BucketInv, NoOrphans, [Next]_vars
  PROVE  NoOrphans'
<1> DEFINE Named(p) == InFlight(p) \/ \E row \in rows : row.path = p
<1> SUFFICES ASSUME ~ callFailed', NEW p \in Path, Stored(p)', Unshared(p)'
             PROVE  Named(p)'
  BY DEF NoOrphans
<1>1. Unshared(p)
  BY UnsharedBefore
<1>2. ASSUME ~ callFailed, Stored(p) PROVE Named(p)
  BY <1>1, <1>2 DEF NoOrphans
<1>3. ASSUME UNCHANGED <<requests, rows, bucket, callFailed>> PROVE Named(p)'
  BY <1>2, <1>3 DEF InFlight, Stored
<1>4. ASSUME NEW r \in Requests, NEW x, Become(r, x), rows \subseteq rows',
             UNCHANGED <<bucket, callFailed>>,
             \/ requests[r].pc \notin {"put", "save", "removeObject", "deleteRow"}
             \/ requests[r].row.path # p
             \/ \E row \in rows' : row.path = requests[r].row.path
      PROVE  Named(p)'
  <2>1. Named(p)
    BY <1>2, <1>4 DEF Stored
  <2> QED BY <1>4, <2>1, OthersStay
<1>5. ASSUME NEW r \in Requests, PutObject(r) PROVE Named(p)'
  <2> DEFINE mine == requests[r].row
             x == [requests[r] EXCEPT !.pc = "save"]
  <2>1. mine.path \in Path /\ x.pc = "save" /\ x.row = mine
    BY <1>5, RequestTypes DEF PutObject, Holds, Uploading
  <2>2. CASE Stored(mine.path)
    <3>1. mine.path # p
      BY <1>1, <1>5, <2>2 DEF BucketInv, PutObject, Holds
    <3> QED BY <1>4, <1>5, <2>2, <3>1 DEF PutObject
  <2>3. CASE ~ Stored(mine.path)
    <3>1. /\ Become(r, x) /\ rows' = rows /\ callFailed' = callFailed
          /\ bucket' = [bucket EXCEPT ![mine.path] = mine.file]
      BY <1>5, <2>3 DEF PutObject
    <3> HIDE DEF x
    <3>2. CASE mine.path = p
      BY <2>1, <3>1, <3>2, OthersStay
    <3>3. CASE mine.path # p
      <4>1. Stored(p)
        BY <3>1, <3>3 DEF Stored, TypeOK
      <4>2. Named(p)
        BY <1>2, <3>1, <4>1
      <4> QED BY <3>1, <3>3, <4>2, OthersStay
    <3> QED BY <3>2, <3>3
  <2> QED BY <2>2, <2>3
<1>6. ASSUME NEW r \in Requests, SaveRow(r) PROVE Named(p)'
  <2>1. \E row \in rows' : row.path = requests[r].row.path
    BY <1>6 DEF SaveRow
  <2>2. rows \subseteq rows' /\ UNCHANGED <<bucket, callFailed>>
    BY <1>6 DEF SaveRow
  <2>3. \E x : Become(r, x)
    BY <1>6 DEF SaveRow
  <2> QED BY <1>4, <2>1, <2>2, <2>3
<1>7. ASSUME NEW r \in Requests, RemoveObject(r) PROVE Named(p)'
  <2>1. PICK x : Become(r, x)
    BY <1>7 DEF RemoveObject
  <2>2. requests[r].row.path \in Path
    BY <1>7, RequestTypes DEF RemoveObject, Holds
  <2>3. requests[r].row.path # p /\ Stored(p)
    BY <1>7, <2>2 DEF RemoveObject, Stored, TypeOK
  <2>4. Named(p) /\ rows' = rows
    BY <1>2, <1>7, <2>3 DEF RemoveObject
  <2> QED BY <2>1, <2>3, <2>4, OthersStay
<1>8. ASSUME NEW r \in Requests, DeleteRow(r) PROVE Named(p)'
  <2> DEFINE mine == requests[r].row
  <2>1. mine.path # p
    BY <1>1, <1>8 DEF BucketInv, DeleteRow, Holds, Stored
  <2>2. Named(p) /\ Become(r, Idle) /\ rows' = rows \ {mine}
    BY <1>2, <1>8 DEF DeleteRow, Stored
  <2> QED BY <2>1, <2>2, OthersStay
<1>9. ASSUME NEW r \in Requests, NEW x, Become(r, x), requests[r] = Idle,
             UNCHANGED <<rows, bucket, callFailed>>
      PROVE  Named(p)'
  <2>1. requests[r].pc \notin {"put", "save", "removeObject", "deleteRow"}
    BY <1>9 DEF Idle
  <2> QED BY <1>4, <1>9, <2>1
<1>10. ASSUME NEW r \in Requests, SignUpload(r) \/ SignList(r)
       PROVE  Named(p)'
  BY <1>4, <1>10 DEF SignUpload, SignList
<1>11. ASSUME NEW r \in Requests, Abort(r) PROVE FALSE
  BY <1>11 DEF Abort
<1>12. ASSUME NEW r \in Requests,
              \/ \E s \in Shipments, a \in Actors, name \in FileNames :
                   BeginUpload(r, s, a, name)
              \/ \E a \in Actors, row \in rows : BeginRemove(r, a, row)
              \/ \E s \in Shipments, a \in Actors : BeginList(r, s, a)
       PROVE  Named(p)'
  BY <1>9, <1>12 DEF BeginUpload, BeginRemove, BeginList
<1> HIDE DEF Named
<1> QED BY <1>3, <1>5, <1>6, <1>7, <1>8, <1>10, <1>11, <1>12
        DEF Next, Step, Tick, vars

-----------------------------------------------------------------------------
(* The theorems.                                                             *)

(* The inductive invariant: rows and requests hold copies of the uploads     *)
(* they name, and an unshared path stores what they suppose it to store.     *)
THEOREM AttachmentsInvariant == Spec => []AttachmentsInv
<1>1. Init => AttachmentsInv
  BY TypeInit, KeptInit, BucketInit, ShownInit DEF AttachmentsInv
<1>2. AttachmentsInv /\ [Next]_vars => AttachmentsInv'
  BY TypeNext, KeptNext, BucketNext, ShownNext, OrphansNext DEF AttachmentsInv
<1> QED BY <1>1, <1>2, PTL DEF Spec

(* Types: no row is without its user, shipment or path, whatever interleaves.*)
THEOREM AttachmentsTypeCorrect == Spec => []TypeOK
<1>1. AttachmentsInv => TypeOK
  BY DEF AttachmentsInv
<1> QED BY <1>1, AttachmentsInvariant, PTL

(* Until a call fails, every row shows its own file.                         *)
THEOREM RowsAlwaysShowTheirFiles == Spec => []RowsShowTheirFiles
<1>1. AttachmentsInv => RowsShowTheirFiles
  BY DEF AttachmentsInv
<1> QED BY <1>1, AttachmentsInvariant, PTL

(* Until a call fails, no object is left without a row or a request.         *)
THEOREM NothingIsOrphaned == Spec => []NoOrphans
<1>1. AttachmentsInv => NoOrphans
  BY DEF AttachmentsInv
<1> QED BY <1>1, AttachmentsInvariant, PTL

(* No upload replaces an object, failing calls or not: upsert is false.      *)
THEOREM ObjectsAreNeverOverwritten == Spec => NoOverwrite
<1>1. AttachmentsInv /\ [Next]_vars =>
        [ \A p \in Path :
            Stored(p) => bucket'[p] \in {bucket[p], NoFile} ]_vars
  <2> SUFFICES ASSUME TypeOK, Next, NEW p \in Path, Stored(p)
               PROVE  bucket'[p] \in {bucket[p], NoFile}
    BY DEF AttachmentsInv
  <2>1. ASSUME NEW r \in Requests, PutObject(r)
        PROVE  bucket'[p] \in {bucket[p], NoFile}
    <3>1. requests[r].row.path \in Path
      BY <2>1, RequestTypes DEF PutObject, Holds
    <3> QED BY <2>1, <3>1 DEF PutObject, TypeOK
  <2>2. ASSUME NEW r \in Requests, RemoveObject(r)
        PROVE  bucket'[p] \in {bucket[p], NoFile}
    <3>1. requests[r].row.path \in Path
      BY <2>2, RequestTypes DEF RemoveObject, Holds
    <3> QED BY <2>2, <3>1 DEF RemoveObject, TypeOK
  <2>3. CASE bucket' = bucket
    BY <2>3
  <2> QED BY <2>1, <2>2, <2>3
          DEF Next, Step, BeginUpload, BeginRemove, BeginList, SaveRow,
              SignUpload, DeleteRow, SignList, Tick, Abort
<1> QED BY <1>1, AttachmentsInvariant, PTL DEF Spec, NoOverwrite

(* A row appears only while its own object is stored, failing calls or not.  *)
THEOREM RowsAppearWithTheirObjects == Spec => RowOnlyWithObject
<1>1. AttachmentsInv /\ [Next]_vars =>
        [ \A row \in rows' \ rows :
            Unshared(row.path) => bucket[row.path] = row.file ]_vars
  <2> SUFFICES ASSUME BucketInv, Next, NEW row \in rows' \ rows,
                      Unshared(row.path)
               PROVE  bucket[row.path] = row.file
    BY DEF AttachmentsInv
  <2>1. PICK r \in Requests : SaveRow(r)
    BY DEF Next, Step, BeginUpload, BeginRemove, BeginList, PutObject,
           SignUpload, RemoveObject, DeleteRow, SignList, Tick, Abort
  <2>2. row = requests[r].row /\ requests[r].pc = "save"
    BY <2>1 DEF SaveRow
  <2> QED BY <2>2 DEF BucketInv, Holds
<1> QED BY <1>1, AttachmentsInvariant, PTL DEF Spec, RowOnlyWithObject

=============================================================================
