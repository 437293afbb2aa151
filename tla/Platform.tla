------------------------------ MODULE Platform ------------------------------
(***************************************************************************)
(* The whole path of a change of status: from the PATCH request that       *)
(* commits it (Shipments), through the Notification table and the queue,   *)
(* to the push a worker emits to the user's room (NotificationDelivery).   *)
(* The two components share `notifications' and `queue' and nothing else:  *)
(* the jobs of the second are the notifications of the first.              *)
(***************************************************************************)
EXTENDS Shipments, FiniteSets

CONSTANTS Workers, NoJob, MailConfigured, MaxStalledCount, LookupsMayFail,
          UsersMayVanish, EmitsMayFail, MaxLosses

VARIABLES
  workers, lapsed, orphans, stalls, completed,   (* NotificationDelivery's *)
  failed, verified, mails, pushes, skipped, added, losses,
  answered,  (* the changes whose request has been answered                *)
  earlier,   (* per request: the changes answered when it arrived          *)
  order      (* the pairs of changes, the first answered before the        *)
             (* request of the second arrived                              *)

deliveryVars == <<workers, lapsed, orphans, stalls, completed, failed,
                  verified, mails, pushes, skipped, added, losses>>
orderVars == <<answered, earlier, order>>
platformVars == <<vars, deliveryVars, orderVars>>

(* No request begins on MaxHistory rows, but all may begin on one less.      *)
Changes == 2 .. MaxHistory + Cardinality(Requests) - 1

Jobs ==
  [ user : Users, type : {"SHIPMENT_ASSIGNED", "STATUS_CHANGED", "DELIVERED"},
    shipment : ShipmentIds, at : Changes ]

(* Only finitely many requests are in flight at once.                        *)
ASSUME PlatformAssumption ==
  /\ IsFiniteSet(Requests) /\ IsFiniteSet(Workers)
  /\ NoJob \notin Jobs
  /\ MailConfigured \in BOOLEAN /\ LookupsMayFail \in BOOLEAN
  /\ UsersMayVanish \in BOOLEAN /\ EmitsMayFail \in BOOLEAN
  /\ MaxStalledCount \in Nat /\ MaxLosses \in Nat

Delivery == INSTANCE NotificationDelivery
              WITH UserOf <- [n \in Jobs |-> n.user]

PlatformInit ==
  /\ Init
  /\ Delivery!Init
  /\ verified = Users
  /\ answered = {}
  /\ earlier = [r \in Requests |-> {}]
  /\ order = {}

-----------------------------------------------------------------------------
(* The requests, with the record of who was answered before whom.           *)

Arrive(r, s, u, to, driverId) ==
  /\ BeginUpdate(r, s, u, to, driverId)
  /\ earlier' = [earlier EXCEPT ![r] = {c \in answered : c.shipment = s}]
  /\ UNCHANGED <<deliveryVars, answered, order>>

Commit(r) ==
  /\ WriteStatus(r)
  /\ LET change == [ shipment |-> requests[r].id,
                     at |-> Len(history[requests[r].id]) + 1 ]
     IN  order' = order \cup (earlier[r] \X {change})
  /\ earlier' = [earlier EXCEPT ![r] = {}]
  /\ UNCHANGED <<deliveryVars, answered>>

SaveNotice(r) == Notify(r) /\ UNCHANGED <<deliveryVars, orderVars>>

QueueNotice(r) ==
  /\ Enqueue(r)
  /\ LET n == Head(requests[r].todo)
     IN  /\ added' = Append(added, n)
         /\ answered' = IF requests'[r] = IdleRequest
                          THEN answered \cup {[shipment |-> n.shipment, at |-> n.at]}
                          ELSE answered
  /\ UNCHANGED <<workers, lapsed, orphans, stalls, completed, failed, verified,
                 mails, pushes, skipped, losses, earlier, order>>

(* The part of the workers, which never touches what the requests own.      *)
Deliver ==
  /\ \/ \E w \in Workers :
          Delivery!WorkerStep(w) \/ Delivery!Crash(w) \/ Delivery!Lapse(w)
     \/ \E n \in orphans : Delivery!Recover(n)
  /\ UNCHANGED <<shipments, history, requests, orderVars>>

PlatformNext ==
  \/ /\ \E s \in ShipmentIds, u \in Users, c \in Customers : Create(s, u, c)
     /\ UNCHANGED <<deliveryVars, orderVars>>
  \/ \E r \in Requests :
       \/ \E s \in ShipmentIds, u \in Users, to \in ShipmentStatus,
             d \in Drivers \cup {NoDriver, EmptyId} : Arrive(r, s, u, to, d)
       \/ Commit(r)
       \/ SaveNotice(r)
       \/ QueueNotice(r)
  \/ Deliver

(* A call in flight is resumed by Node's event loop once it settles; that   *)
(* clients send requests is not promised.  While jobs wait, some worker or  *)
(* the stalled-job check goes on; nothing forces the loss of a lock.        *)
PlatformSpec ==
  /\ PlatformInit /\ [][PlatformNext]_platformVars
  /\ \A r \in Requests :
       WF_platformVars(Commit(r) \/ SaveNotice(r) \/ QueueNotice(r))
  /\ WF_platformVars(Deliver /\ losses' = losses)

-----------------------------------------------------------------------------

(* buildNotificationContent: the status the title and the body tell.  The   *)
(* payload of STATUS_CHANGED carries the status; the other types imply one. *)
contentOf(n) ==
  CASE n.type = "SHIPMENT_ASSIGNED" -> "ASSIGNED"
    [] n.type = "DELIVERED"         -> "DELIVERED"
    [] OTHER -> history[n.shipment][n.at].to

Told(user, s, at) ==
  \E i \in DOMAIN pushes :
    /\ pushes[i].user = user /\ pushes[i].shipment = s /\ pushes[i].at = at
    /\ contentOf(pushes[i]) = history[s][at].to

(* Whoever is concerned by a committed change is told of it, by a push that *)
(* names the new status: the customer of every change and a driver of every *)
(* assignment, however the requests overlap, and although the worker may    *)
(* die with a job or lose the lock on it (README.md:175).  As MaxHistory    *)
(* brings the requests to an end, it is enough that from some time on all   *)
(* changes have been told.  A call that rejects and an emit that throws are *)
(* other matters: nothing tries again.                                      *)
EveryChangeIsPushed ==
  \A s \in ShipmentIds :
    <>[](\A at \in Changes : at <= Len(history[s])
           => /\ Told(shipments[s].customer, s, at)
              /\ history[s][at].to = "ASSIGNED"
                   => \E d \in Drivers : Told(DriverUser[d], s, at))

(* A user is told of two changes of a shipment in their order if the first  *)
(* was answered before the second was asked for: the answer of PATCH comes  *)
(* after the job is queued (shipments.service.ts:185).  Changes whose       *)
(* requests overlap may be told in either order, and so may those of a      *)
(* worker that lost the lock on a job, or of two workers side by side.      *)
ToldInOrder ==
  losses = 0 /\ (\A v, w \in Workers : v = w) =>
    \A i, j \in DOMAIN pushes :
      pushes[i].user = pushes[j].user /\ i < j =>
        <<[shipment |-> pushes[j].shipment, at |-> pushes[j].at],
          [shipment |-> pushes[i].shipment, at |-> pushes[i].at]>> \notin order

(* The requests use the queue as NotificationDelivery expects of its        *)
(* producers: each notification is saved once, before its job is added, and *)
(* its job is added once.  What is checked of the delivery holds for the    *)
(* whole system.                                                            *)
DeliveryIsUsedAsSpecified == Delivery!Spec

=============================================================================
