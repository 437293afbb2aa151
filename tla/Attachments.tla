----------------------------- MODULE Attachments ----------------------------
(***************************************************************************)
(* ShipmentAttachmentsService and StorageService: the rows of the          *)
(* ShipmentAttachment table and the objects of the storage bucket, written *)
(* one after the other with no transaction around them.                    *)
(*                                                                         *)
(* The steps of a request, each up to its next await that writes or reads  *)
(* the state kept here:                                                    *)
(*                                                                         *)
(*   upload   BeginUpload (checks; the path, from the clock)               *)
(*            PutObject -> SaveRow -> SignUpload                           *)
(*   remove   BeginRemove (checks; findFirst) -> RemoveObject -> DeleteRow *)
(*   list     BeginList (checks; findMany) -> SignList                     *)
(*                                                                         *)
(* A path is the shipment, the millisecond and the sanitized file name.    *)
(* A file's content is told apart by a number of its upload.               *)
(*                                                                         *)
(* A definition marked `Fault' is no part of the model: it is the wrong    *)
(* version of the definition after it that a property has to catch.        *)
(***************************************************************************)
EXTENDS RolesGuard, Naturals, Sequences, FiniteSets

CONSTANTS
  Shipments, Actors,
  RoleOf, CompanyOf, NoCompany,        (* UploadActor                      *)
  ShipmentCompany, ShipmentCustomer,   (* the columns the checks read      *)
  ShipmentDriver,                      (* the user of the driver assigned  *)
  Requests,
  FileNames, Sanitized,     (* a name -> its form in buildShipmentStoragePath *)
  NoFile,
  MaxUploads, MaxClock      (* bounds                                      *)

ASSUME AttachmentsAssumption ==
  /\ NoFile \notin Nat
  /\ MaxUploads \in Nat /\ MaxClock \in Nat

VARIABLES
  rows,       (* ShipmentAttachment                                        *)
  bucket,     (* path -> the content stored there, or NoFile               *)
  requests,
  clock,      (* Date.now()                                                *)
  begun,      (* the paths of the uploads begun, in order: numbers them    *)
  callFailed  (* whether a call has failed, for the properties             *)

vars == <<rows, bucket, requests, clock, begun, callFailed>>

SanitizedNames == {Sanitized[n] : n \in FileNames}

Path == Shipments \X (0 .. MaxClock) \X SanitizedNames

(* The id of a row is the number of the upload that created it.             *)
Row == [id : 1 .. MaxUploads, shipment : Shipments, path : Path,
        user : Actors, file : 1 .. MaxUploads]

Idle == [pc |-> "idle"]

Uploading == [pc : {"put", "save", "sign"}, row : Row]
Removing == [pc : {"removeObject", "deleteRow"}, row : Row]
Listing == [pc : {"signAll"}, rows : SUBSET Row]

TypeOK ==
  /\ rows \subseteq Row
  /\ bucket \in [Path -> 1 .. MaxUploads \cup {NoFile}]
  /\ requests \in [Requests -> {Idle} \cup Uploading \cup Removing \cup Listing]
  /\ clock \in 0 .. MaxClock
  /\ begun \in Seq(Path) /\ Len(begun) <= MaxUploads
  /\ callFailed \in BOOLEAN

Init ==
  /\ rows = {}
  /\ bucket = [p \in Path |-> NoFile]
  /\ requests = [r \in Requests |-> Idle]
  /\ clock = 0
  /\ begun = <<>>
  /\ callFailed = FALSE

Stored(p) == bucket[p] # NoFile

Become(r, state) == requests' = [requests EXCEPT ![r] = state]

-----------------------------------------------------------------------------

MayUpload(a) == canActivate(RoleOf[a], {"ADMIN", "DRIVER"})
MayRemove(a) == canActivate(RoleOf[a], {"ADMIN", "DRIVER"})
MayList(a) == canActivate(RoleOf[a], Role)

assertCanUpload(s, a) ==
  \/ /\ RoleOf[a] = "ADMIN"
     /\ CompanyOf[a] \in {NoCompany, ShipmentCompany[s]}
  \/ RoleOf[a] = "DRIVER" /\ ShipmentDriver[s] = a

assertCanView(s, a) ==
  \/ assertCanUpload(s, a)
  \/ RoleOf[a] = "CUSTOMER" /\ ShipmentCustomer[s] = a

(* POST: the checks, then buildShipmentStoragePath.                         *)
BeginUpload(r, s, a, name) ==
  /\ requests[r] = Idle
  /\ Len(begun) < MaxUploads
  /\ MayUpload(a) /\ assertCanUpload(s, a)
  /\ LET path == <<s, clock, Sanitized[name]>>
         n    == Len(begun) + 1
     IN  /\ begun' = Append(begun, path)
         /\ Become(r, [pc |-> "put",
                       row |-> [id |-> n, shipment |-> s, path |-> path,
                                user |-> a, file |-> n]])
  /\ UNCHANGED <<rows, bucket, clock, callFailed>>

(* Fault: upsert is true, and an object in the way is replaced.             *)
PutObject_Upsert(r) ==
  /\ requests[r].pc = "put"
  /\ bucket' = [bucket EXCEPT ![requests[r].row.path] = requests[r].row.file]
  /\ Become(r, [requests[r] EXCEPT !.pc = "save"])
  /\ UNCHANGED <<rows, clock, begun, callFailed>>

(* Fault: the upload to the bucket is not awaited, and fails unseen.        *)
PutObject_NotAwaited(r) ==
  /\ requests[r].pc = "put"
  /\ Become(r, [requests[r] EXCEPT !.pc = "save"])
  /\ UNCHANGED <<rows, bucket, clock, begun, callFailed>>

(* storageService.upload with upsert: false: a second object under the same *)
(* path is refused and the request ends with a 503.                         *)
PutObject(r) ==
  /\ requests[r].pc = "put"
  /\ LET p == requests[r].row.path
     IN  IF Stored(p)
           THEN Become(r, Idle) /\ UNCHANGED bucket
           ELSE /\ bucket' = [bucket EXCEPT ![p] = requests[r].row.file]
                /\ Become(r, [requests[r] EXCEPT !.pc = "save"])
  /\ UNCHANGED <<rows, clock, begun, callFailed>>

(* Fault: uploadedBy is the company of the actor.                           *)
SaveRow_UploadedByCompany(r) ==
  /\ requests[r].pc = "save"
  /\ IF \E row \in rows : row.path = requests[r].row.path
       THEN Become(r, Idle) /\ UNCHANGED rows
       ELSE /\ rows' = rows \cup
                        {[requests[r].row EXCEPT !.user = CompanyOf[@]]}
            /\ Become(r, [requests[r] EXCEPT !.pc = "sign"])
  /\ UNCHANGED <<bucket, clock, begun, callFailed>>

(* shipmentAttachment.create; `path' is unique in the schema, and a second  *)
(* row with it is an error that leaves the object where it is.              *)
SaveRow(r) ==
  /\ requests[r].pc = "save"
  /\ IF \E row \in rows : row.path = requests[r].row.path
       THEN Become(r, Idle) /\ UNCHANGED rows
       ELSE /\ rows' = rows \cup {requests[r].row}
            /\ Become(r, [requests[r] EXCEPT !.pc = "sign"])
  /\ UNCHANGED <<bucket, clock, begun, callFailed>>

(* createSignedUrl and the answer: 201, or 503 if the object is gone.       *)
SignUpload(r) ==
  /\ requests[r].pc = "sign"
  /\ Become(r, Idle)
  /\ UNCHANGED <<rows, bucket, clock, begun, callFailed>>

-----------------------------------------------------------------------------

(* DELETE: the checks and findFirst.                                        *)
BeginRemove(r, a, row) ==
  /\ requests[r] = Idle
  /\ row \in rows
  /\ MayRemove(a) /\ assertCanUpload(row.shipment, a)
  /\ Become(r, [pc |-> "removeObject", row |-> row])
  /\ UNCHANGED <<rows, bucket, clock, begun, callFailed>>

(* Fault: the row goes first.                                               *)
RemoveObject_RowFirst(r) ==
  /\ requests[r].pc = "removeObject"
  /\ rows' = rows \ {requests[r].row}
  /\ Become(r, [requests[r] EXCEPT !.pc = "deleteRow"])
  /\ UNCHANGED <<bucket, clock, begun, callFailed>>

(* Fault: the object is kept.                                               *)
RemoveObject_Keep(r) ==
  /\ requests[r].pc = "removeObject"
  /\ Become(r, [requests[r] EXCEPT !.pc = "deleteRow"])
  /\ UNCHANGED <<rows, bucket, clock, begun, callFailed>>

(* storageService.remove: an object that is no longer there is no error.    *)
RemoveObject(r) ==
  /\ requests[r].pc = "removeObject"
  /\ bucket' = [bucket EXCEPT ![requests[r].row.path] = NoFile]
  /\ Become(r, [requests[r] EXCEPT !.pc = "deleteRow"])
  /\ UNCHANGED <<rows, clock, begun, callFailed>>

(* shipmentAttachment.delete, by id: if another request has deleted the row *)
(* it rejects, which changes nothing.                                       *)
DeleteRow(r) ==
  /\ requests[r].pc = "deleteRow"
  /\ rows' = rows \ {requests[r].row}
  /\ Become(r, Idle)
  /\ UNCHANGED <<bucket, clock, begun, callFailed>>

-----------------------------------------------------------------------------

(* GET: the checks and findMany.                                            *)
BeginList(r, s, a) ==
  /\ requests[r] = Idle
  /\ MayList(a) /\ assertCanView(s, a)
  /\ Become(r, [pc |-> "signAll", rows |-> {row \in rows : row.shipment = s}])
  /\ UNCHANGED <<rows, bucket, clock, begun, callFailed>>

(* One signed URL per row, at once; 503 if any of the objects is missing.   *)
SignList(r) ==
  /\ requests[r].pc = "signAll"
  /\ Become(r, Idle)
  /\ UNCHANGED <<rows, bucket, clock, begun, callFailed>>

-----------------------------------------------------------------------------

Tick ==
  /\ clock < MaxClock
  /\ clock' = clock + 1
  /\ UNCHANGED <<rows, bucket, requests, begun, callFailed>>

(* An awaited call rejects, or the process dies: nothing is undone.         *)
Abort(r) ==
  /\ requests[r] # Idle
  /\ Become(r, Idle)
  /\ callFailed' = TRUE
  /\ UNCHANGED <<rows, bucket, clock, begun>>

Step(r) ==
  \/ PutObject(r)
  \/ SaveRow(r)
  \/ SignUpload(r)
  \/ RemoveObject(r)
  \/ DeleteRow(r)
  \/ SignList(r)

Next ==
  \/ \E r \in Requests :
       \/ \E s \in Shipments, a \in Actors, name \in FileNames :
            BeginUpload(r, s, a, name)
       \/ \E a \in Actors, row \in rows : BeginRemove(r, a, row)
       \/ \E s \in Shipments, a \in Actors : BeginList(r, s, a)
       \/ Step(r)
       \/ Abort(r)
  \/ Tick

Spec == Init /\ [][Next]_vars

(* A request in flight is resumed once the call it awaits settles.          *)
FairSpec == Spec /\ \A r \in Requests : WF_vars(Step(r))

-----------------------------------------------------------------------------
(* No two uploads of the path were begun in one millisecond under one name. *)
(* The properties that need it say so: Date.now() is what makes a path      *)
(* unique (storage.constants.ts:18).                                        *)
Unshared(p) ==
  \A i, j \in DOMAIN begun : begun[i] = p /\ begun[j] = p => i = j

BeingRemoved(row) ==
  \E r \in Requests : requests[r].pc = "deleteRow" /\ requests[r].row = row

InFlight(p) ==
  \E r \in Requests :
    requests[r].pc \in {"put", "save", "removeObject", "deleteRow"}
      /\ requests[r].row.path = p

(* An upload never replaces or changes an object that is stored, whoever    *)
(* else uploads the same name at the same time (upsert: false,              *)
(* storage.service.ts:42).                                                  *)
NoOverwrite ==
  [][ \A p \in Path :
        Stored(p) => bucket'[p] \in {bucket[p], NoFile} ]_vars

(* A row at a path that no two uploads share appears only while its own     *)
(* object is stored: a failed, refused or interrupted upload never leaves a *)
(* row that shows nothing (shipment-attachments.service.ts:48-60).          *)
RowOnlyWithObject ==
  [][ \A row \in rows' \ rows :
        Unshared(row.path) => bucket[row.path] = row.file ]_vars

(* When no call fails: every row shows the file that was uploaded with it,  *)
(* until its own removal takes the object away just before the row, however *)
(* many requests upload and remove at once.                                 *)
RowsShowTheirFiles ==
  ~ callFailed =>
    \A row \in rows :
      Unshared(row.path) => bucket[row.path] = row.file \/ BeingRemoved(row)

(* When no call fails: an object is in the bucket only as long as a row     *)
(* names it or a request that is not over is about to; nothing is orphaned. *)
NoOrphans ==
  ~ callFailed =>
    \A p \in Path :
      Stored(p) /\ Unshared(p)
        => InFlight(p) \/ \E row \in rows : row.path = p

(* A removal, alone or racing another of the same row, ends with both the   *)
(* row and the object gone, unless a call fails.                            *)
Gone(n) ==
  /\ \A row \in rows : row.id # n
  /\ \A i \in DOMAIN begun :
       i = n /\ Unshared(begun[i]) => ~ Stored(begun[i])

RemovalCompletes ==
  \A r \in Requests, n \in 1 .. MaxUploads :
    requests[r].pc = "removeObject" /\ requests[r].row.id = n
      ~> callFailed \/ Gone(n)

=============================================================================
