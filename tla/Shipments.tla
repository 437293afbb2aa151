------------------------------ MODULE Shipments -----------------------------
(***************************************************************************)
(* ShipmentsService behind ShipmentsController: creating a shipment and    *)
(* changing its status, with any number of requests in flight.             *)
(*                                                                         *)
(* A request of PATCH /shipments/:id/status is a chain of awaited calls.   *)
(* Node runs one request at a time between two awaits, and several server  *)
(* instances share the database, so a step here is the code from one await *)
(* to the next:                                                            *)
(*                                                                         *)
(*   BeginUpdate   findById and every check, all made on the row it read   *)
(*   WriteStatus   prisma.shipment.update with the nested history row      *)
(*   Notify        notificationsService.create: the Notification row       *)
(*   Enqueue       notificationsService.create: the job of the queue       *)
(*   Abort         an awaited call rejects, or the process dies            *)
(*                                                                         *)
(* The driver lookups between findById and the update read columns that no *)
(* code of the repository writes (Driver.userId, Driver.companyId), so     *)
(* they belong to BeginUpdate.  A refused request changes nothing and is a *)
(* stuttering step.                                                        *)
(*                                                                         *)
(* assignedAt and deliveredAt are modelled by the position, in the         *)
(* shipment's history, of the history row written together with them; 0 is *)
(* null.  changedAt, by which GET /shipments/:id sorts the history, is a   *)
(* default that is fixed when the update has been sent and before it       *)
(* commits.  It is modelled by how many rows of the shipment had been      *)
(* committed by then, of which two that overlap may make anything: rows    *)
(* of one changedAt may be shown in either order.                          *)
(*                                                                         *)
(* A definition marked `Fault' is no part of the model: it is the wrong    *)
(* version of the definition after it that a property has to catch.        *)
(***************************************************************************)
EXTENDS ShipmentStateMachine, NotificationsService, RolesGuard, Naturals

CONSTANTS
  ShipmentIds, Requests, Users, Customers, Drivers, Companies,
  RoleOf,          (* User.role                                            *)
  CompanyOf,       (* User.companyId                                       *)
  DriverUser,      (* Driver.userId                                        *)
  DriverCompany,   (* Driver.companyId                                     *)
  NoCompany, NoShipment, NoStatus,
  MaxHistory,      (* bound: no update begins on a longer history          *)
  CallsMayFail     (* whether Abort is part of the behaviour               *)

ASSUME UsersAssumption ==
  /\ Customers \subseteq Users
  /\ RoleOf \in [Users -> {"ADMIN", "DRIVER", "CUSTOMER"}]
  /\ CompanyOf \in [Users -> Companies \cup {NoCompany}]

ASSUME DriversAssumption ==
  /\ DriverUser \in [Drivers -> Users]
  /\ DriverCompany \in [Drivers -> Companies]

ASSUME NullsAssumption ==
  /\ NoDriver \notin Drivers
  /\ EmptyId \notin Drivers
  /\ EmptyId # NoDriver
  /\ NoStatus \notin ShipmentStatus

ASSUME BoundsAssumption ==
  /\ MaxHistory \in Nat
  /\ CallsMayFail \in BOOLEAN

VARIABLES
  shipments,   (* the Shipment table: ShipmentIds -> row or NoShipment     *)
  history,     (* ShipmentStatusHistory, per shipment, in commit order     *)
  requests     (* the requests in flight, by slot                          *)

vars == <<shipments, history, requests, notifications, queue>>

-----------------------------------------------------------------------------

Row ==
  [ company     : Companies,
    customer    : Customers,
    driver      : Drivers \cup {NoDriver},
    status      : ShipmentStatus,
    assignedAt  : Nat,
    deliveredAt : Nat ]

ASSUME NoShipmentAssumption == NoShipment \notin Row

HistoryRow ==
  [ from : ShipmentStatus \cup {NoStatus}, to : ShipmentStatus,
    changedAt : Nat ]

Notification ==
  [ user     : Users,
    type     : {"SHIPMENT_ASSIGNED", "STATUS_CHANGED", "DELIVERED"},
    shipment : ShipmentIds,
    at       : Nat ]       (* the history row whose change it reports      *)

(* What a request keeps between its awaits: its slot is idle, or it is     *)
(* about to write, or it works through the notifications it has to create. *)
IdleRequest == [pc |-> "idle"]

UpdateRequest ==
  [ pc       : {"update"},
    id       : ShipmentIds,
    actor    : Users,
    existing : Row,
    to       : ShipmentStatus,
    driver   : Drivers \cup {NoDriver},
    since    : Nat ]     (* the rows of history when the update was sent   *)

DispatchRequest ==
  [pc : {"save", "enqueue"}, todo : Seq(Notification) \ {<<>>}]

TypeOK ==
  /\ shipments \in [ShipmentIds -> Row \cup {NoShipment}]
  /\ history \in [ShipmentIds -> Seq(HistoryRow)]
  /\ requests \in [Requests -> {IdleRequest} \cup UpdateRequest
                                 \cup DispatchRequest]
  /\ notifications \subseteq Notification
  /\ queue \in Seq(Notification)

Exists(s) == shipments[s] # NoShipment

Init ==
  /\ shipments = [s \in ShipmentIds |-> NoShipment]
  /\ history = [s \in ShipmentIds |-> <<>>]
  /\ requests = [r \in Requests |-> IdleRequest]
  /\ notifications = {}
  /\ queue = <<>>

-----------------------------------------------------------------------------

MayCreate(u) == canActivate(RoleOf[u], {"ADMIN"})
MayUpdateStatus(u) == canActivate(RoleOf[u], {"ADMIN", "DRIVER"})

(* POST /shipments by an administrator that has a company.                 *)
Create(s, u, customer) ==
  /\ MayCreate(u)
  /\ CompanyOf[u] # NoCompany
  /\ ~ Exists(s)
  /\ shipments' = [shipments EXCEPT ![s] =
       [ company |-> CompanyOf[u], customer |-> customer,
         driver |-> NoDriver, status |-> "PENDING",
         assignedAt |-> 0, deliveredAt |-> 0 ]]
  /\ history' = [history EXCEPT ![s] =
       Append(@, [from |-> NoStatus, to |-> "PENDING", changedAt |-> 0])]
  /\ UNCHANGED <<requests, notifications, queue>>

(* Fault: the profile is looked up but not compared with the shipment.      *)
assertDriverCanUpdate_AnyDriver(existing, u, to) ==
  /\ assertDriverTransition(existing.status, to)
  /\ \E d \in Drivers : DriverUser[d] = u

(* A driver may move only a shipment that the row read gives to them.      *)
assertDriverCanUpdate(existing, u, to) ==
  /\ assertDriverTransition(existing.status, to)
  /\ \E d \in Drivers : DriverUser[d] = u /\ existing.driver = d

assertDriverBelongsToCompany(driverId, company) ==
  /\ driverId \in Drivers
  /\ DriverCompany[driverId] = company

(* Fault: a body without a driver clears the one the shipment has.          *)
resolveDriverId_NoFallback(to, driverId, existingDriverId) ==
  IF to = "CANCELLED" THEN existingDriverId ELSE driverId

resolveDriverId(to, driverId, existingDriverId) ==
  IF to = "CANCELLED"
    THEN existingDriverId
    ELSE Coalesce(driverId, existingDriverId)

(* Everything updateStatus checks before it writes, on the row it has read.*)
Accepts(existing, u, to, driverId) ==
  /\ CompanyOf[u] # NoCompany => existing.company = CompanyOf[u]
  /\ assertValidTransition(existing.status, to)
  /\ assertTransitionContext(to, driverId, existing.driver)
  /\ RoleOf[u] = "DRIVER" => assertDriverCanUpdate(existing, u, to)
  /\ Truthy(driverId)
       => assertDriverBelongsToCompany(driverId, existing.company)

BeginUpdate(r, s, u, to, driverId) ==
  /\ requests[r].pc = "idle"
  /\ Len(history[s]) < MaxHistory
  /\ MayUpdateStatus(u)
  /\ Exists(s)
  /\ Accepts(shipments[s], u, to, driverId)
  /\ requests' = [requests EXCEPT ![r] =
       [ pc |-> "update", id |-> s, actor |-> u,
         existing |-> shipments[s], to |-> to,
         driver |-> resolveDriverId(to, driverId, shipments[s].driver),
         since |-> Len(history[s]) ]]
  /\ UNCHANGED <<shipments, history, notifications, queue>>

(* Fault: the dates an update does not set are left out of it, so that the  *)
(* row keeps what other requests have put there.                            *)
UpdatedRow_KeepDates(row, q, now) ==
  [ row EXCEPT
      !.status = q.to,
      !.driver = q.driver,
      !.assignedAt = IF q.to = "ASSIGNED" THEN now ELSE @,
      !.deliveredAt = IF q.to = "DELIVERED" THEN now ELSE @ ]

(* Fault: assignedAt is null in every update but an assignment.             *)
UpdatedRow_ForgetAssignment(row, q, now) ==
  [ row EXCEPT
      !.status = q.to,
      !.driver = q.driver,
      !.assignedAt = IF q.to = "ASSIGNED" THEN now ELSE 0,
      !.deliveredAt =
        IF q.to = "DELIVERED" THEN now ELSE q.existing.deliveredAt ]

(* The columns the update writes: each from the request, or from the row   *)
(* the request read, never from the row as it now is.                      *)
UpdatedRow(row, q, now) ==
  [ row EXCEPT
      !.status = q.to,
      !.driver = q.driver,
      !.assignedAt =
        IF q.to = "ASSIGNED" THEN now ELSE q.existing.assignedAt,
      !.deliveredAt =
        IF q.to = "DELIVERED" THEN now ELSE q.existing.deliveredAt ]

(* Fault: the driver hears SHIPMENT_ASSIGNED at every change.               *)
StatusNotifications_AlwaysDriver(row, q, now) ==
  LET about(user, type) ==
        [user |-> user, type |-> type, shipment |-> q.id, at |-> now]
  IN  << about(row.customer,
               IF q.to = "DELIVERED" THEN "DELIVERED" ELSE "STATUS_CHANGED") >>
      \o ( IF q.driver = NoDriver THEN <<>>
           ELSE << about(DriverUser[q.driver], "SHIPMENT_ASSIGNED") >> )

(* dispatchStatusNotifications, as the list of its create calls.           *)
StatusNotifications(row, q, now) ==
  LET about(user, type) ==
        [user |-> user, type |-> type, shipment |-> q.id, at |-> now]
      customerType ==
        IF q.to = "DELIVERED" THEN "DELIVERED" ELSE "STATUS_CHANGED"
  IN  IF q.to = "ASSIGNED" /\ q.driver # NoDriver
        THEN << about(row.customer, customerType),
                about(DriverUser[q.driver], "SHIPMENT_ASSIGNED") >>
        ELSE << about(row.customer, customerType) >>

WriteStatus(r) ==
  /\ requests[r].pc = "update"
  /\ LET q   == requests[r]
         now == Len(history[q.id]) + 1
         row == shipments[q.id]
     IN  /\ shipments' = [shipments EXCEPT ![q.id] = UpdatedRow(row, q, now)]
         /\ \E changedAt \in q.since .. Len(history[q.id]) :
              history' = [history EXCEPT ![q.id] =
                Append(@, [ from |-> q.existing.status, to |-> q.to,
                            changedAt |-> changedAt ])]
         /\ requests' = [requests EXCEPT ![r] =
              [pc |-> "save", todo |-> StatusNotifications(row, q, now)]]
  /\ UNCHANGED <<notifications, queue>>

(* Fault: the row is not awaited, and lost.                                 *)
Notify_RowLost(r) ==
  /\ requests[r].pc = "save"
  /\ requests' = [requests EXCEPT ![r] = [@ EXCEPT !.pc = "enqueue"]]
  /\ UNCHANGED <<shipments, history, notifications, queue>>

Notify(r) ==
  /\ requests[r].pc = "save"
  /\ SaveNotification(Head(requests[r].todo))
  /\ requests' = [requests EXCEPT ![r] = [@ EXCEPT !.pc = "enqueue"]]
  /\ UNCHANGED <<shipments, history>>

(* Fault: the request answers after its first notification.                 *)
Enqueue_OnlyFirst(r) ==
  /\ requests[r].pc = "enqueue"
  /\ AddJob(Head(requests[r].todo))
  /\ requests' = [requests EXCEPT ![r] = IdleRequest]
  /\ UNCHANGED <<shipments, history>>

(* The job is added; the request goes on with the next notification, or    *)
(* answers 200 and frees its slot.                                         *)
Enqueue(r) ==
  /\ requests[r].pc = "enqueue"
  /\ AddJob(Head(requests[r].todo))
  /\ requests' = [requests EXCEPT ![r] =
       IF Len(@.todo) = 1
         THEN IdleRequest
         ELSE [pc |-> "save", todo |-> Tail(@.todo)]]
  /\ UNCHANGED <<shipments, history>>

(* Nothing in updateStatus catches a rejected call or undoes what it has   *)
(* done: the client gets a 500, or no answer at all, and the request ends. *)
Abort(r) ==
  /\ CallsMayFail
  /\ requests[r].pc # "idle"
  /\ requests' = [requests EXCEPT ![r] = IdleRequest]
  /\ UNCHANGED <<shipments, history, notifications, queue>>

Next ==
  \/ \E s \in ShipmentIds, u \in Users, c \in Customers : Create(s, u, c)
  \/ \E r \in Requests :
       \/ \E s \in ShipmentIds, u \in Users, to \in ShipmentStatus,
             d \in Drivers \cup {NoDriver, EmptyId} :
               BeginUpdate(r, s, u, to, d)
       \/ WriteStatus(r)
       \/ Notify(r)
       \/ Enqueue(r)
       \/ Abort(r)

Spec == Init /\ [][Next]_vars

-----------------------------------------------------------------------------
(* Properties.  Those of this section hold with any number of requests in   *)
(* flight, although every check is made on a row that may be stale by the   *)
(* time of the write.                                                       *)

(* A shipment that is assigned, on its way or delivered has a driver, and   *)
(* the driver of any shipment works for the shipment's company: no order of *)
(* stale writes (shipments.service.ts:163) takes the driver away or brings  *)
(* in one of another company.                                               *)
ActiveShipmentHasDriver ==
  \A s \in ShipmentIds :
    LET row == shipments[s]
    IN  Exists(s) =>
          /\ row.status \in NeedsDriver => row.driver # NoDriver
          /\ row.driver # NoDriver => DriverCompany[row.driver] = row.company

(* What the analytics compute their averages from: deliveredAt is set on    *)
(* the delivered shipments alone, and is the time of the last change;       *)
(* assignedAt is set once a driver is, is the time of an assignment, and    *)
(* comes before deliveredAt.  The update copies both dates from the row the *)
(* request read, which other requests may have changed since.               *)
TimestampsMatchStatus ==
  \A s \in ShipmentIds :
    LET row == shipments[s]
    IN  Exists(s) =>
          /\ row.deliveredAt # 0 <=> row.status = "DELIVERED"
          /\ row.deliveredAt \in {0, Len(history[s])}
          /\ row.status \in NeedsDriver => row.assignedAt # 0
          /\ row.assignedAt # 0 =>
                /\ row.assignedAt \in 1 .. Len(history[s])
                /\ history[s][row.assignedAt].to = "ASSIGNED"
                /\ row.deliveredAt # 0 => row.assignedAt < row.deliveredAt

(* The current status is that of the history row committed last, and each   *)
(* row is an allowed move out of a status the shipment really had, and that *)
(* GET /shipments/:id, which sorts by changedAt (shipments.service.ts:91),  *)
(* shows before the move: concurrent writers may both leave from the same   *)
(* status, but never from one that was not there.  The order shown is the   *)
(* order of the commits for updates that did not overlap and no others, so  *)
(* the row shown last need not be that of the current status.               *)
HistoryIsTheRecord ==
  \A s \in ShipmentIds :
    LET h == history[s]
        shownBefore(j, i) == h[j].changedAt < h[i].changedAt
    IN  /\ Exists(s) <=> h # <<>>
        /\ Exists(s) => shipments[s].status = h[Len(h)].to
        /\ \A i \in 2 .. Len(h) :
              /\ <<h[i].from, h[i].to>> \in ALLOWED_TRANSITIONS
              /\ \E j \in 1 .. i - 1 : h[j].to = h[i].from /\ shownBefore(j, i)

(* A notification never runs ahead of the database or lies about it: each   *)
(* reports a committed change, with the type that change has, to the        *)
(* shipment's customer or to a driver of its company, and each job of the   *)
(* queue carries a saved notification and is added once.                    *)
NotificationsFollowCommits ==
  /\ \A n \in notifications :
       /\ n.at \in 2 .. Len(history[n.shipment])
       /\ LET to == history[n.shipment][n.at].to
          IN  CASE n.type = "DELIVERED" -> to = "DELIVERED"
                [] n.type = "STATUS_CHANGED" -> to # "DELIVERED"
                [] n.type = "SHIPMENT_ASSIGNED" -> to = "ASSIGNED"
       /\ IF n.type = "SHIPMENT_ASSIGNED"
            THEN \E d \in Drivers :
                   /\ DriverUser[d] = n.user
                   /\ DriverCompany[d] = shipments[n.shipment].company
            ELSE n.user = shipments[n.shipment].customer
  /\ \A i \in 1 .. Len(queue) :
       /\ queue[i] \in notifications
       /\ \A j \in 1 .. i - 1 : queue[j] # queue[i]

UnassignsByCancelling(old, new) ==
  LET driverLost == old.driver # NoDriver /\ new.driver = NoDriver
      dateLost == old.assignedAt # 0 /\ new.assignedAt = 0
  IN  /\ new.status = "PENDING" => old.status = "PENDING"
      /\ driverLost <=> dateLost
      /\ driverLost => new.status = "CANCELLED"

(* No update, however stale, takes a shipment back to PENDING, and only a   *)
(* cancellation, of a request that read the row before the assignment, ever *)
(* clears the driver and the date of the assignment.                        *)
OnlyCancellingUnassigns ==
  [][ \A s \in ShipmentIds : Exists(s) =>
        UnassignsByCancelling(shipments[s], shipments'[s]) ]_vars

(* A notification of one of the types, about the change at, is queued.      *)
Queued(s, at, types) ==
  \E i \in 1 .. Len(queue) :
    /\ queue[i].shipment = s
    /\ queue[i].at = at
    /\ queue[i].type \in types

-----------------------------------------------------------------------------
(* Properties that hold only when one request runs at a time.               *)

(* The statuses move along the arrows of the README's lifecycle diagram     *)
(* (README.md:107): with a single request at a time the whole service       *)
(* implements ShipmentLifecycle.                                            *)
StatusOf ==
  [s \in ShipmentIds |-> IF Exists(s) THEN shipments[s].status ELSE NoStatus]

Lifecycle == INSTANCE ShipmentLifecycle WITH status <- StatusOf

LifecycleSpec == Lifecycle!Spec

(* An arrow of the diagram leaves no final status: a shipment that was      *)
(* delivered or cancelled keeps that status ("Cannot change status from     *)
(* terminal state", shipment-state-machine.ts:54).                          *)
TerminalStatusesAreFinal ==
  [][ \A s \in ShipmentIds :
        Exists(s) /\ shipments[s].status \in TERMINAL_STATUSES
          => shipments'[s].status = shipments[s].status ]_vars

(* "Drivers can only update shipments assigned to them"                     *)
(* (shipments.service.ts:276): the row a driver's update replaces is one    *)
(* that names this driver.                                                  *)
DriversUpdateOnlyTheirs ==
  [][ \A r \in Requests :
        WriteStatus(r) /\ RoleOf[requests[r].actor] = "DRIVER"
          => LET d == shipments[requests[r].id].driver
             IN  d # NoDriver /\ DriverUser[d] = requests[r].actor ]_vars

(* "Customers and drivers receive updates by email and real-time push when  *)
(* shipment status changes" (README.md:175), for customers: once its        *)
(* request is over, a committed change has its notification.                *)
CustomersAreTold ==
  (\A r \in Requests : requests[r].pc = "idle")
    => \A s \in ShipmentIds, at \in 2 .. MaxHistory :
         at <= Len(history[s])
           => Queued(s, at, {"STATUS_CHANGED", "DELIVERED"})

(* The same sentence, for drivers: once no request is running, the driver   *)
(* of a shipment has had a notification about it.                           *)
DriversAreTold ==
  (\A r \in Requests : requests[r].pc = "idle")
    => \A s \in ShipmentIds :
         Exists(s) /\ shipments[s].status \in NeedsDriver
           => \E n \in notifications :
                /\ n.shipment = s
                /\ n.user = DriverUser[shipments[s].driver]

-----------------------------------------------------------------------------
(* The inductive invariant behind the properties above.                     *)

(* What is true of the row of a shipment when it is read, and stays true of *)
(* the copy a request keeps while others write: it speaks of the row itself *)
(* and of history rows that are already there.                              *)
RowFacts(s, row) ==
  LET h == history[s]
  IN  /\ row.status \in NeedsDriver => row.driver # NoDriver
      /\ row.driver # NoDriver <=> row.assignedAt # 0
      /\ row.driver # NoDriver => DriverCompany[row.driver] = row.company
      /\ row.assignedAt # 0 =>
            /\ row.assignedAt \in 1 .. Len(h)
            /\ h[row.assignedAt].to = "ASSIGNED"
      /\ row.deliveredAt # 0 <=> row.status = "DELIVERED"
      /\ row.deliveredAt # 0 => row.assignedAt < row.deliveredAt
      /\ \E j \in 1 .. Len(h) : h[j].to = row.status

(* What a request about to write has established on the row it read.        *)
UpdateFacts(q) ==
  /\ Exists(q.id)
  /\ RowFacts(q.id, q.existing)
  /\ q.existing.company = shipments[q.id].company
  /\ q.since \in 1 .. Len(history[q.id])
  /\ \E j \in 1 .. q.since : history[q.id][j].to = q.existing.status
  /\ assertValidTransition(q.existing.status, q.to)
  /\ q.to \in NeedsDriver => q.driver # NoDriver
  /\ q.to = "CANCELLED" => q.driver = q.existing.driver
  /\ q.driver # NoDriver => DriverCompany[q.driver] = q.existing.company

(* The invariant: the facts of every row and of every pending update hold,  *)
(* and the last history row is the one written with the current row.  None  *)
(* of the properties is inductive without the second conjunct: a write      *)
(* stores what its request once read.                                       *)
ShipmentsInv ==
  /\ \A s \in ShipmentIds :
       Exists(s) =>
         /\ RowFacts(s, shipments[s])
         /\ shipments[s].deliveredAt \in {0, Len(history[s])}
  /\ \A r \in Requests :
       requests[r].pc = "update" => UpdateFacts(requests[r])
  /\ HistoryIsTheRecord
  /\ \A s \in ShipmentIds : \A i \in 1 .. Len(history[s]) :
       history[s][i].changedAt < i

=============================================================================
