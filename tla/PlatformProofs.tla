--------------------------- MODULE PlatformProofs ---------------------------
(***************************************************************************)
(* Theorems about the path of a change from the PATCH request to the push, *)
(* for any number of shipments, users, requests in flight and workers: the *)
(* requests use the queue as NotificationDelivery expects of its producers,*)
(* and a push tells a committed change, in order.                          *)
(***************************************************************************)
EXTENDS Platform, ShipmentsProofs, FiniteSetTheorems

Change == [shipment : ShipmentIds, at : Nat]

ChangeOf(n) == [shipment |-> n.shipment, at |-> n.at]

Committed(c) == c.at <= Len(history[c.shipment])

(* What the types of Shipments leave out.                                    *)
PlatformTypes ==
  /\ workers \in [Workers -> {Delivery!Idle} \cup
                    [pc : {"deliver", "mail", "return"}, job : Notification]]
  /\ pushes \in Seq(Notification)
  /\ added \in Seq(Notification)
  /\ losses \in Nat
  /\ answered \subseteq Change
  /\ earlier \in [Requests -> SUBSET Change]
  /\ order \subseteq Change \X Change

(* The requests about to write shipment s: each will add a history row.      *)
Pending(s) == {r \in Requests : requests[r].pc = "update" /\ requests[r].id = s}

(* Every change a notification can report is one of Changes.                 *)
HistoryBound ==
  \A s \in ShipmentIds :
    \/ Len(history[s]) <= 1 /\ Pending(s) = {}
    \/ Len(history[s]) + Cardinality(Pending(s))
         <= MaxHistory + Cardinality(Requests) - 1

WasAdded(n) == \E i \in 1 .. Len(added) : added[i] = n

(* The jobs are saved notifications of finished dispatches, and whatever the *)
(* workers and BullMQ have in hand was added.                                *)
AddedInv ==
  /\ \A i \in 1 .. Len(added) : added[i] \in notifications
  /\ \A r \in Requests, n \in Notification : InTodo(r, n) => ~ WasAdded(n)
  /\ \A i \in 1 .. Len(queue) : WasAdded(queue[i])
  /\ \A w \in Workers : workers[w].pc # "idle" => WasAdded(workers[w].job)
  /\ \A n \in orphans : WasAdded(n)
  /\ \A i \in 1 .. Len(pushes) : WasAdded(pushes[i])

(* A request dispatches the notifications of one change, which is its own    *)
(* and is not answered yet; the first change of a pair of order is answered. *)
OrderInv ==
  /\ \A c \in answered : Committed(c)
  /\ \A r \in Requests : earlier[r] \subseteq answered
  /\ \A c, d \in Change :
       <<c, d>> \in order => c \in answered /\ Committed(d) /\ c # d
  /\ \A r, q \in Requests, n, m \in Notification :
       InTodo(r, n) /\ InTodo(q, m) => (ChangeOf(n) = ChangeOf(m) <=> r = q)
  /\ \A r \in Requests, n \in Notification :
       InTodo(r, n) => ChangeOf(n) \notin answered

(* It is not wrong to tell of m before n.                                    *)
MayPrecede(m, n) == <<ChangeOf(n), ChangeOf(m)>> \notin order

(* What was pushed, what the only worker is about to push and what waits     *)
(* are one line, in an order that is right.                                  *)
LineInv ==
  /\ orphans = {}
  /\ \A i, j \in 1 .. Len(pushes) : i < j => MayPrecede(pushes[i], pushes[j])
  /\ \A i, j \in 1 .. Len(queue) : i < j => MayPrecede(queue[i], queue[j])
  /\ \A i \in 1 .. Len(pushes), j \in 1 .. Len(queue) :
       MayPrecede(pushes[i], queue[j])
  /\ \A w \in Workers : workers[w].pc = "deliver" =>
       /\ \A i \in 1 .. Len(pushes) : MayPrecede(pushes[i], workers[w].job)
       /\ \A j \in 1 .. Len(queue) : MayPrecede(workers[w].job, queue[j])

OneWorker == \A v, w \in Workers : v = w

PlatformInv ==
  /\ TypeOK /\ ShipmentsInv /\ NoticeInv
  /\ PlatformTypes /\ HistoryBound /\ AddedInv /\ OrderInv
  /\ OneWorker /\ losses = 0 => LineInv

-----------------------------------------------------------------------------
(* The steps of the workers, by what they do to what the invariants speak of.*)

Takes(w) ==
  /\ workers[w].pc = "idle" /\ queue # <<>>
  /\ workers' = [workers EXCEPT ![w] = [pc |-> "deliver", job |-> Head(queue)]]
  /\ queue' = Tail(queue)
  /\ UNCHANGED <<orphans, pushes, losses>>

Pushes(w) ==
  /\ workers[w].pc = "deliver"
  /\ \E pc \in {"mail", "return"} :
       workers' = [workers EXCEPT ![w] = [pc |-> pc, job |-> workers[w].job]]
  /\ pushes' = Append(pushes, workers[w].job)
  /\ UNCHANGED <<queue, orphans, losses>>

GoesOn(w) ==
  /\ workers[w].pc # "idle"
  /\ \E worker \in {Delivery!Idle, [pc |-> "mail", job |-> workers[w].job],
                    [pc |-> "return", job |-> workers[w].job]} :
       workers' = [workers EXCEPT ![w] = worker]
  /\ UNCHANGED <<queue, orphans, pushes, losses>>

Loses(w) ==
  /\ workers[w].pc # "idle"
  /\ \/ workers' = workers
     \/ workers' = [workers EXCEPT ![w] = Delivery!Idle]
  /\ orphans' \in {orphans, orphans \cup {workers[w].job}}
  /\ losses' = losses + 1
  /\ UNCHANGED <<queue, pushes>>

IsRecovered(n) ==
  /\ n \in orphans
  /\ orphans' = orphans \ {n}
  /\ queue' \in {queue, <<n>> \o queue}
  /\ UNCHANGED <<workers, pushes, losses>>

requestVars == <<shipments, history, requests, notifications, added,
                 answered, earlier, order>>

LEMMA DeliverCases ==
  ASSUME PlatformTypes, Deliver
  PROVE  /\ UNCHANGED requestVars
         /\ \/ \E w \in Workers : Takes(w) \/ Pushes(w) \/ GoesOn(w) \/ Loses(w)
            \/ \E n \in orphans : IsRecovered(n)
<1>1. \A w \in Workers :
        workers[w] \in {Delivery!Idle} \cup
          [pc : {"deliver", "mail", "return"}, job : Notification]
  BY DEF PlatformTypes
<1>2. \A w \in Workers :
        /\ workers[w].pc = "idle" <=> workers[w] = Delivery!Idle
        /\ workers[w].pc # "idle" => \A p \in {"mail", "return"} :
             [workers[w] EXCEPT !.pc = p] = [pc |-> p, job |-> workers[w].job]
  BY <1>1 DEF Delivery!Idle
<1>3. UNCHANGED <<shipments, history, requests, answered, earlier, order>>
  BY DEF Deliver, orderVars
<1>4. ASSUME NEW w \in Workers, Delivery!Take(w)
      PROVE  Takes(w) /\ UNCHANGED <<notifications, added>>
  BY <1>2, <1>4 DEF Delivery!Take, Takes, Delivery!jobVars, Delivery!outVars,
                    Delivery!sourceVars, Delivery!Idle
<1>5. ASSUME NEW w \in Workers, Delivery!Deliver(w)
      PROVE  (Pushes(w) \/ GoesOn(w)) /\ UNCHANGED <<notifications, added>>
  <2>1. workers[w].pc = "deliver"
    BY <1>5 DEF Delivery!Deliver
  <2>2. PICK p \in {"mail", "return"} : workers' = [workers EXCEPT ![w].pc = p]
    BY <1>5 DEF Delivery!Deliver, Delivery!Goto
  <2>3. workers' = [workers EXCEPT ![w] = [pc |-> p, job |-> workers[w].job]]
    BY <1>2, <2>1, <2>2
  <2>4. /\ UNCHANGED <<queue, orphans, losses, notifications, added>>
        /\ pushes' = Append(pushes, workers[w].job) \/ pushes' = pushes
    BY <1>5 DEF Delivery!Deliver, Delivery!deliverPush, Delivery!jobVars,
                Delivery!sourceVars
  <2> QED BY <2>1, <2>3, <2>4 DEF Pushes, GoesOn
<1>6. ASSUME NEW w \in Workers,
             \/ Delivery!LookupFails(w) \/ Delivery!Return(w)
             \/ Delivery!UserNotFound(w)
             \/ Delivery!MailSent(w) \/ Delivery!MailRejected(w)
      PROVE  GoesOn(w) /\ UNCHANGED <<notifications, added>>
  <2>1. workers[w].pc \in {"deliver", "mail", "return"}
    BY <1>6 DEF Delivery!LookupFails, Delivery!Return, Delivery!MailSent,
                Delivery!MailRejected, Delivery!UserNotFound
  <2>2. \/ workers' = [workers EXCEPT ![w] = Delivery!Idle]
        \/ workers' = [workers EXCEPT ![w].pc = "return"]
    BY <1>6 DEF Delivery!LookupFails, Delivery!Return, Delivery!MailSent,
                Delivery!MailRejected, Delivery!UserNotFound, Delivery!Goto,
                Delivery!Rest
  <2>3. \/ workers' = [workers EXCEPT ![w] = Delivery!Idle]
        \/ workers' =
             [workers EXCEPT ![w] = [pc |-> "return", job |-> workers[w].job]]
    BY <1>2, <2>1, <2>2
  <2>4. UNCHANGED <<queue, orphans, pushes, losses, notifications, added>>
    BY <1>6 DEF Delivery!LookupFails, Delivery!Return, Delivery!MailSent,
                Delivery!MailRejected, Delivery!UserNotFound, Delivery!jobVars,
                Delivery!outVars, Delivery!sourceVars
  <2> QED BY <2>1, <2>3, <2>4 DEF GoesOn
<1>7. ASSUME NEW w \in Workers, Delivery!Crash(w) \/ Delivery!Lapse(w)
      PROVE  Loses(w) /\ UNCHANGED <<notifications, added>>
  BY <1>2, <1>7 DEF Delivery!Crash, Delivery!Lapse, Delivery!Rest, Loses,
                    Delivery!outVars, Delivery!sourceVars
<1>8. ASSUME NEW n \in orphans, Delivery!Recover(n)
      PROVE  IsRecovered(n) /\ UNCHANGED <<notifications, added>>
  BY <1>8 DEF Delivery!Recover, IsRecovered, Delivery!outVars,
              Delivery!sourceVars
<1> QED BY <1>3, <1>4, <1>5, <1>6, <1>7, <1>8
        DEF Deliver, Delivery!WorkerStep, requestVars

(* Every other step is one of Shipments.                                     *)
LEMMA StepsOfPlatform ==
  ASSUME [PlatformNext]_platformVars
  PROVE  [Next]_vars \/ Deliver
BY DEF PlatformNext, platformVars, Arrive, Commit, SaveNotice, QueueNotice,
       Next

(* What Shipments proves of the requests holds beside the workers.           *)
LEMMA ShipmentsSide ==
  ASSUME TypeOK, ShipmentsInv, NoticeInv, PlatformTypes, AddedInv,
         [PlatformNext]_platformVars
  PROVE  (TypeOK /\ ShipmentsInv /\ NoticeInv)'
<1>1. CASE [Next]_vars
  BY <1>1, TypeOKNext, InvNext, NoticeNext
<1>2. CASE Deliver
  <2>1. UNCHANGED <<shipments, history, requests, notifications>>
    BY <1>2, DeliverCases DEF requestVars
  <2>2. queue' \in Seq(Notification)
    <3>1. queue \in Seq(Notification)
      BY DEF TypeOK
    <3>2. \A n \in orphans : n \in Notification
      BY DEF AddedInv, WasAdded, PlatformTypes
    <3>3. \A n \in orphans : <<n>> \o queue \in Seq(Notification)
      BY <3>1, <3>2
    <3>4. queue # <<>> => Tail(queue) \in Seq(Notification)
      BY <3>1
    <3> QED BY <1>2, <3>1, <3>3, <3>4, DeliverCases
            DEF Takes, Pushes, GoesOn, Loses, IsRecovered
  <2>3. TypeOK'
    BY <2>1, <2>2 DEF TypeOK
  <2>4. ShipmentsInv'
    BY <2>1 DEF ShipmentsInv, UpdateFacts, RowFacts, HistoryIsTheRecord, Exists
  <2>5. NoticeInv'
    <3>1. \A n : GoodNotice(n)' <=> GoodNotice(n)
      BY <2>1 DEF GoodNotice
    <3>2. \A r : /\ Dispatching(r)' <=> Dispatching(r)
                 /\ \A n : InTodo(r, n)' <=> InTodo(r, n)
      BY <2>1 DEF InTodo, Dispatching
    <3> QED BY <2>1, <3>1, <3>2 DEF NoticeInv
  <2> QED BY <2>3, <2>4, <2>5
<1> QED BY <1>1, <1>2, StepsOfPlatform

-----------------------------------------------------------------------------
(* The parts of the invariant.                                               *)

LEMMA PlatformTypesNext ==
  ASSUME TypeOK, TypeOK', ShipmentsInv, PlatformTypes, AddedInv,
         [PlatformNext]_platformVars
  PROVE  PlatformTypes'
<1>1. CASE Deliver
  <2>1. UNCHANGED <<added, answered, earlier, order>>
    BY <1>1, DeliverCases DEF requestVars
  <2>2. \A w \in Workers :
          workers[w].pc # "idle" => workers[w].job \in Notification
    BY DEF PlatformTypes, Delivery!Idle
  <2>3. \A n \in Notification : Append(pushes, n) \in Seq(Notification)
    BY DEF PlatformTypes
  <2>4. \A w \in Workers : Pushes(w) => pushes' \in Seq(Notification)
    BY <2>2, <2>3 DEF Pushes
  <2>5. pushes' \in Seq(Notification) /\ losses' \in Nat
    <3>1. pushes \in Seq(Notification) /\ losses \in Nat
      BY DEF PlatformTypes
    <3>2. \A w \in Workers :
            /\ Takes(w) \/ GoesOn(w) \/ Loses(w) => pushes' = pushes
            /\ Takes(w) \/ Pushes(w) \/ GoesOn(w) \/ Loses(w) =>
                 losses' \in {losses, losses + 1}
      BY DEF Takes, Pushes, GoesOn, Loses
    <3>3. \A n \in orphans : IsRecovered(n) => pushes' = pushes /\ losses' = losses
      BY DEF IsRecovered
    <3> QED BY <1>1, <2>4, <3>1, <3>2, <3>3, DeliverCases
  <2> DEFINE W == {Delivery!Idle} \cup
                    [pc : {"deliver", "mail", "return"}, job : Notification]
  <2>6. workers \in [Workers -> W]
    BY DEF PlatformTypes
  <2>7. ASSUME NEW w \in Workers, NEW x \in W
        PROVE  [workers EXCEPT ![w] = x] \in [Workers -> W]
    BY <2>6
  <2>8. /\ Delivery!Idle \in W
        /\ \A p \in {"deliver", "mail", "return"}, n \in Notification :
             [pc |-> p, job |-> n] \in W
    OBVIOUS
  <2>9. ASSUME NEW w \in Workers, Takes(w) \/ Pushes(w) \/ GoesOn(w) \/ Loses(w)
        PROVE  workers' \in [Workers -> W]
    <3>1. queue # <<>> => Head(queue) \in Notification
      BY DEF TypeOK
    <3>2. workers[w].pc # "idle" => workers[w].job \in Notification
      BY <2>2
    <3> HIDE DEF W
    <3>3. CASE workers' = workers
      BY <2>6, <3>3
    <3>4. CASE \E x \in W : workers' = [workers EXCEPT ![w] = x]
      BY <2>7, <3>4
    <3>5. workers' = workers \/ \E x \in W : workers' = [workers EXCEPT ![w] = x]
      <4>1. CASE Takes(w)
        BY <2>8, <3>1, <4>1 DEF Takes
      <4>2. CASE Pushes(w)
        BY <2>8, <3>2, <4>2 DEF Pushes
      <4>3. CASE GoesOn(w)
        BY <2>8, <3>2, <4>3 DEF GoesOn
      <4>4. CASE Loses(w)
        BY <2>8, <4>4 DEF Loses
      <4> QED BY <2>9, <4>1, <4>2, <4>3, <4>4
    <3> QED BY <3>3, <3>4, <3>5
  <2>10. ASSUME NEW n \in orphans, IsRecovered(n)
         PROVE  workers' \in [Workers -> W]
    BY <2>6, <2>10 DEF IsRecovered
  <2>11. workers' \in [Workers -> W]
    BY <1>1, <2>9, <2>10, DeliverCases
  <2> QED BY <2>1, <2>5, <2>11 DEF PlatformTypes
<1>2. CASE ~ Deliver
  <2>1. UNCHANGED <<workers, pushes, losses>>
    BY <1>2 DEF PlatformNext, platformVars, deliveryVars, Arrive, Commit,
                SaveNotice, QueueNotice
  <2>2. ASSUME NEW r \in Requests, Commit(r)
        PROVE  PlatformTypes'
    <3>1. requests[r] \in UpdateRequest
      BY <2>2, RequestTypes DEF Commit, WriteStatus
    <3>2. [ shipment |-> requests[r].id,
            at |-> Len(history[requests[r].id]) + 1 ] \in Change
      BY <3>1 DEF UpdateRequest, Change, TypeOK
    <3>3. order' \subseteq Change \X Change
      BY <2>2, <3>2 DEF Commit, PlatformTypes
    <3>4. earlier' \in [Requests -> SUBSET Change]
      BY <2>2 DEF Commit, PlatformTypes
    <3>5. UNCHANGED <<answered, added>>
      BY <2>2 DEF Commit, deliveryVars
    <3> QED BY <2>1, <3>3, <3>4, <3>5 DEF PlatformTypes
  <2>3. ASSUME NEW r \in Requests, QueueNotice(r)
        PROVE  PlatformTypes'
    <3>1. Head(requests[r].todo) \in Notification
      BY <2>3, DispatchTypes DEF QueueNotice, Enqueue, Dispatching
    <3>2. added' \in Seq(Notification)
      BY <2>3, <3>1 DEF QueueNotice, PlatformTypes
    <3>3. answered' \subseteq Change
      BY <2>3, <3>1 DEF QueueNotice, PlatformTypes, Change, Notification
    <3> QED BY <2>1, <2>3, <3>2, <3>3 DEF PlatformTypes, QueueNotice
  <2>4. ASSUME NEW r \in Requests, NEW s \in ShipmentIds, NEW u \in Users,
               NEW to \in ShipmentStatus,
               NEW d \in Drivers \cup {NoDriver, EmptyId}, Arrive(r, s, u, to, d)
        PROVE  PlatformTypes'
    <3>1. earlier' \in [Requests -> SUBSET Change]
      BY <2>4 DEF Arrive, PlatformTypes
    <3> QED BY <2>1, <2>4, <3>1 DEF PlatformTypes, Arrive, deliveryVars
  <2>5. CASE UNCHANGED <<deliveryVars, orderVars>>
    BY <2>5 DEF PlatformTypes, deliveryVars, orderVars
  <2> QED BY <1>2, <2>2, <2>3, <2>4, <2>5
          DEF PlatformNext, platformVars, SaveNotice
<1> QED BY <1>1, <1>2

LEMMA PendingIsFinite ==
  ASSUME NEW s, NEW P \in SUBSET Requests
  PROVE  IsFiniteSet(P) /\ Cardinality(P) \in Nat
           /\ Cardinality(P) <= Cardinality(Requests)
BY PlatformAssumption, FS_Subset, FS_CardinalityType

(* A request begins on a history shorter than MaxHistory; each of those that *)
(* began adds one row.                                                       *)
LEMMA HistoryBoundNext ==
  ASSUME TypeOK, TypeOK', ShipmentsInv, HistoryBound,
         [PlatformNext]_platformVars
  PROVE  HistoryBound'
<1> USE DEF HistoryBound
<1>1. Cardinality(Requests) \in Nat /\ MaxHistory \in Nat
  BY PlatformAssumption, BoundsAssumption, FS_CardinalityType
<1>2. \A s \in ShipmentIds : Len(history[s]) \in Nat /\ Len(history'[s]) \in Nat
  BY DEF TypeOK
<1> SUFFICES ASSUME NEW s \in ShipmentIds
             PROVE  \/ Len(history'[s]) <= 1 /\ Pending(s)' = {}
                    \/ Len(history'[s]) + Cardinality(Pending(s)')
                         <= MaxHistory + Cardinality(Requests) - 1
  OBVIOUS
<1>3. ASSUME history'[s] = history[s], Pending(s)' \subseteq Pending(s)
      PROVE  \/ Len(history'[s]) <= 1 /\ Pending(s)' = {}
             \/ Len(history'[s]) + Cardinality(Pending(s)')
                  <= MaxHistory + Cardinality(Requests) - 1
  <2>1. /\ Cardinality(Pending(s)') \in Nat /\ Cardinality(Pending(s)) \in Nat
        /\ Cardinality(Pending(s)') <= Cardinality(Pending(s))
    <3>1. IsFiniteSet(Pending(s))
      BY PendingIsFinite DEF Pending
    <3> QED BY <1>3, <3>1, FS_Subset, FS_CardinalityType
  <2> QED BY <1>1, <1>2, <1>3, <2>1
<1>4. ASSUME NEW t \in ShipmentIds, NEW u \in Users, NEW c \in Customers,
             Create(t, u, c)
      PROVE  \/ Len(history'[s]) <= 1 /\ Pending(s)' = {}
             \/ Len(history'[s]) + Cardinality(Pending(s)')
                  <= MaxHistory + Cardinality(Requests) - 1
  <2>1. Pending(s)' = Pending(s)
    BY <1>4 DEF Create, Pending
  <2>2. CASE s = t
    <3>1. history[s] = <<>>
      BY <1>4, <2>2 DEF Create, ShipmentsInv, HistoryIsTheRecord
    <3>2. Pending(s) = {}
      BY <1>4, <2>2 DEF Create, Pending, ShipmentsInv, UpdateFacts
    <3>3. history'[s] = Append(<<>>, [ from |-> NoStatus, to |-> "PENDING",
                                       changedAt |-> 0 ])
      BY <1>4, <2>2, <3>1 DEF Create, TypeOK
    <3>4. Len(history'[s]) = 1
      BY <3>3
    <3> QED BY <2>1, <3>2, <3>4
  <2>3. CASE s # t
    BY <1>3, <1>4, <2>1, <2>3 DEF Create, TypeOK
  <2> QED BY <2>2, <2>3
<1>5. ASSUME NEW r \in Requests, NEW t \in ShipmentIds, NEW u \in Users,
             NEW to \in ShipmentStatus,
             NEW d \in Drivers \cup {NoDriver, EmptyId},
             BeginUpdate(r, t, u, to, d)
      PROVE  \/ Len(history'[s]) <= 1 /\ Pending(s)' = {}
             \/ Len(history'[s]) + Cardinality(Pending(s)')
                  <= MaxHistory + Cardinality(Requests) - 1
  <2>1. history' = history
    BY <1>5 DEF BeginUpdate
  <2>2. CASE s = t
    <3>1. Len(history[s]) < MaxHistory
      BY <1>5, <2>2 DEF BeginUpdate
    <3>2. /\ Cardinality(Pending(s)') \in Nat
          /\ Cardinality(Pending(s)') <= Cardinality(Requests)
      BY PendingIsFinite DEF Pending
    <3> QED BY <1>1, <1>2, <2>1, <3>1, <3>2
  <2>3. CASE s # t
    <3>1. Pending(s)' \subseteq Pending(s)
      BY <1>5, <2>3 DEF BeginUpdate, TypeOK, Pending
    <3> QED BY <1>3, <2>1, <3>1
  <2> QED BY <2>2, <2>3
<1>6. ASSUME NEW r \in Requests, WriteStatus(r)
      PROVE  \/ Len(history'[s]) <= 1 /\ Pending(s)' = {}
             \/ Len(history'[s]) + Cardinality(Pending(s)')
                  <= MaxHistory + Cardinality(Requests) - 1
  <2>1. requests[r] \in UpdateRequest
    BY <1>6, RequestTypes DEF WriteStatus
  <2>2. Pending(s)' \subseteq Pending(s)
    BY <1>6 DEF WriteStatus, TypeOK, Pending
  <2>3. CASE s = requests[r].id
    <3>1. Len(history'[s]) = Len(history[s]) + 1
      BY <1>6, <2>3 DEF WriteStatus, TypeOK
    <3>2. r \in Pending(s) /\ Pending(s)' \subseteq Pending(s) \ {r}
      BY <1>6, <2>2, <2>3 DEF WriteStatus, TypeOK, Pending
    <3>3. /\ IsFiniteSet(Pending(s)) /\ Cardinality(Pending(s)) \in Nat
          /\ IsFiniteSet(Pending(s) \ {r})
          /\ Cardinality(Pending(s) \ {r}) = Cardinality(Pending(s)) - 1
      <4>1. IsFiniteSet(Pending(s)) /\ Cardinality(Pending(s)) \in Nat
        BY PendingIsFinite DEF Pending
      <4> QED BY <3>2, <4>1, FS_RemoveElement
    <3>4. /\ Cardinality(Pending(s)') \in Nat
          /\ Cardinality(Pending(s)') <= Cardinality(Pending(s)) - 1
      BY <3>2, <3>3, FS_Subset, FS_CardinalityType
    <3> QED BY <1>1, <1>2, <3>1, <3>2, <3>3, <3>4, SMTT(40)
  <2>4. CASE s # requests[r].id
    BY <1>3, <1>6, <2>2, <2>4 DEF WriteStatus, TypeOK
  <2> QED BY <2>3, <2>4
<1>7. ASSUME NEW r \in Requests, Notify(r) \/ Enqueue(r)
      PROVE  history'[s] = history[s] /\ Pending(s)' \subseteq Pending(s)
  <2>1. requests[r] \in DispatchRequest
    BY <1>7, RequestTypes DEF Notify, Enqueue
  <2>2. requests'[r].pc # "update"
    BY <1>7, <2>1 DEF Notify, Enqueue, TypeOK, IdleRequest, DispatchRequest
  <2>3. \A q \in Requests \ {r} : requests'[q] = requests[q]
    BY <1>7 DEF Notify, Enqueue, TypeOK
  <2> QED BY <1>7, <2>2, <2>3 DEF Notify, Enqueue, Pending
<1>8. CASE Deliver \/ UNCHANGED platformVars
  <2>1. history'[s] = history[s] /\ Pending(s)' = Pending(s)
    BY <1>8 DEF Deliver, platformVars, vars, Pending
  <2> QED BY <1>3, <2>1
<1> QED BY <1>3, <1>4, <1>5, <1>6, <1>7, <1>8
        DEF PlatformNext, Arrive, Commit, SaveNotice, QueueNotice

(* A notification that is good is a job NotificationDelivery knows.          *)
LEMMA GoodNoticesAreJobs ==
  ASSUME TypeOK, HistoryBound, NEW n \in Notification, GoodNotice(n)
  PROVE  n \in Jobs
<1>1. n.shipment \in ShipmentIds /\ Len(history[n.shipment]) \in Nat
  BY DEF Notification, TypeOK
<1>2. n.at \in 2 .. Len(history[n.shipment])
  BY DEF GoodNotice
<1>3. /\ Cardinality(Pending(n.shipment)) \in Nat
      /\ Cardinality(Requests) \in Nat /\ MaxHistory \in Nat
  BY PendingIsFinite, PlatformAssumption, BoundsAssumption, FS_CardinalityType
     DEF Pending
<1>4. Len(history[n.shipment]) <= MaxHistory + Cardinality(Requests) - 1
  BY <1>1, <1>2, <1>3 DEF HistoryBound
<1>5. n.at \in Changes
  BY <1>1, <1>2, <1>3, <1>4 DEF Changes
<1> QED BY <1>5 DEF Jobs, Notification

-----------------------------------------------------------------------------

LEMMA AddedAreGood ==
  ASSUME NoticeInv, PlatformTypes, AddedInv, NEW n, WasAdded(n)
  PROVE  /\ n \in Notification /\ n \in notifications /\ GoodNotice(n)
         /\ ChangeOf(n) \in Change /\ Committed(ChangeOf(n))
<1>1. n \in Notification
  BY DEF PlatformTypes, WasAdded
<1>2. n \in notifications /\ GoodNotice(n)
  BY DEF AddedInv, WasAdded, NoticeInv
<1>3. ChangeOf(n) \in Change
  BY <1>1 DEF ChangeOf, Change, Notification
<1>4. n.at <= Len(history[n.shipment])
  BY <1>2 DEF GoodNotice
<1> QED BY <1>1, <1>2, <1>3, <1>4 DEF Committed, ChangeOf

(* The job a request adds.                                                   *)
LEMMA AddedByRequest ==
  ASSUME TypeOK, TypeOK', NoticeInv, PlatformTypes, NEW r \in Requests, QueueNotice(r)
  PROVE  LET first == Head(requests[r].todo)
         IN  /\ InTodo(r, first) /\ first \in Notification
             /\ first \in notifications
             /\ \A n : WasAdded(n)' <=> WasAdded(n) \/ n = first
             /\ Len(queue') = Len(queue) + 1
             /\ queue'[Len(queue) + 1] = first
             /\ \A i \in 1 .. Len(queue) : queue'[i] = queue[i]
             /\ UNCHANGED <<notifications, shipments, history>>
             /\ UNCHANGED <<workers, orphans, pushes, losses, earlier, order>>
<1>1. PICK first \in Notification :
        /\ first = Head(requests[r].todo)
        /\ InTodo(r, first) /\ first \in notifications
  <2>1. Enqueue(r) /\ InTodo(r, Head(requests[r].todo))
          /\ Head(requests[r].todo) \in notifications
    BY RestOfTodo DEF QueueNotice
  <2> QED BY <2>1 DEF TypeOK
<1>3. added' = Append(added, first) /\ queue' = Append(queue, first)
      /\ UNCHANGED <<notifications, shipments, history>>
      /\ UNCHANGED <<workers, orphans, pushes, losses, earlier, order>>
  BY <1>1 DEF QueueNotice, Enqueue, AddJob
<1>4. queue \in Seq(Notification) /\ added \in Seq(Notification)
  BY DEF TypeOK, PlatformTypes
<1>5. /\ Len(added') = Len(added) + 1 /\ Len(added) \in Nat
      /\ added'[Len(added) + 1] = first
      /\ \A i \in 1 .. Len(added) : added'[i] = added[i]
  BY <1>3, <1>4
<1>6. \A n : WasAdded(n)' <=> WasAdded(n) \/ n = first
  <2>1. \A n : WasAdded(n)' => WasAdded(n) \/ n = first
    BY <1>5 DEF WasAdded
  <2>2. \A n : WasAdded(n) => WasAdded(n)'
    BY <1>5 DEF WasAdded
  <2>3. WasAdded(first)'
    <3>1. Len(added) + 1 \in 1 .. Len(added')
      BY <1>5
    <3> QED BY <1>5, <3>1 DEF WasAdded
  <2> QED BY <2>1, <2>2, <2>3
<1>7. /\ Len(queue') = Len(queue) + 1 /\ queue'[Len(queue) + 1] = first
      /\ \A i \in 1 .. Len(queue) : queue'[i] = queue[i]
  BY <1>3, <1>4
<1> QED BY <1>1, <1>3, <1>6, <1>7

LEMMA QueueOfDeliver ==
  ASSUME TypeOK, PlatformTypes, AddedInv, Deliver
  PROVE  \A i \in 1 .. Len(queue') : WasAdded(queue'[i])
<1>1. queue \in Seq(Notification)
  BY DEF TypeOK
<1>2. CASE queue' = queue
  BY <1>2 DEF AddedInv
<1>3. CASE queue # <<>> /\ queue' = Tail(queue)
  <2>1. \A i \in 1 .. Len(Tail(queue)) :
          Tail(queue)[i] = queue[i + 1] /\ i + 1 \in 1 .. Len(queue)
    BY <1>1, <1>3
  <2> QED BY <1>3, <2>1 DEF AddedInv
<1>4. ASSUME NEW n \in orphans, queue' = <<n>> \o queue
      PROVE  \A i \in 1 .. Len(queue') : WasAdded(queue'[i])
  <2>1. WasAdded(n) /\ n \in Notification
    <3>1. WasAdded(n)
      BY DEF AddedInv
    <3>2. PICK i \in 1 .. Len(added) : added[i] = n
      BY <3>1 DEF WasAdded
    <3>3. added \in Seq(Notification)
      BY DEF PlatformTypes
    <3>4. n \in Notification
      BY <3>2, <3>3
    <3> QED BY <3>1, <3>4
  <2>2. /\ Len(<<n>> \o queue) = 1 + Len(queue) /\ Len(queue) \in Nat
        /\ (<<n>> \o queue)[1] = n
        /\ \A i \in 2 .. 1 + Len(queue) : (<<n>> \o queue)[i] = queue[i - 1]
    BY <1>1, <2>1
  <2>3. ASSUME NEW i \in 1 .. Len(queue') PROVE WasAdded(queue'[i])
    <3>1. CASE i = 1
      BY <1>4, <2>1, <2>2, <3>1
    <3>2. CASE i # 1
      <4>1. i \in 2 .. 1 + Len(queue) /\ i - 1 \in 1 .. Len(queue)
        BY <1>4, <2>2, <2>3, <3>2
      <4> QED BY <1>4, <2>2, <4>1 DEF AddedInv
    <3> QED BY <3>1, <3>2
  <2> QED BY <2>3
<1>5. \A w \in Workers : /\ Takes(w) => queue # <<>> /\ queue' = Tail(queue)
                         /\ Pushes(w) \/ GoesOn(w) \/ Loses(w) => queue' = queue
  BY DEF Takes, Pushes, GoesOn, Loses
<1>6. \A n \in orphans : IsRecovered(n) => queue' = queue \/ queue' = <<n>> \o queue
  BY DEF IsRecovered
<1> QED BY <1>2, <1>3, <1>4, <1>5, <1>6, DeliverCases

LEMMA AddedNext ==
  ASSUME TypeOK, TypeOK', ShipmentsInv, NoticeInv, PlatformTypes, PlatformTypes',
         AddedInv, [PlatformNext]_platformVars
  PROVE  AddedInv'
<1>1. CASE Deliver
  <2>1. UNCHANGED <<requests, notifications, added>>
    BY <1>1, DeliverCases DEF requestVars
  <2>2. \A n : WasAdded(n)' <=> WasAdded(n)
    BY <2>1 DEF WasAdded
  <2>3. \A r \in Requests : \A n : InTodo(r, n)' <=> InTodo(r, n)
    BY <2>1 DEF InTodo, Dispatching
  <2>4. \A i \in 1 .. Len(queue') : WasAdded(queue'[i])
    BY <1>1, QueueOfDeliver
  <2>5. ASSUME NEW w \in Workers, Takes(w) \/ Pushes(w) \/ GoesOn(w) \/ Loses(w)
        PROVE  /\ \A v \in Workers : workers'[v].pc # "idle" =>
                                       WasAdded(workers'[v].job)
               /\ \A n \in orphans' : WasAdded(n)
               /\ \A i \in 1 .. Len(pushes') : WasAdded(pushes'[i])
    <3>1. \A v \in Workers \ {w} : workers'[v] = workers[v]
      BY <2>5 DEF PlatformTypes, Takes, Pushes, GoesOn, Loses
    <3>2. queue # <<>> => WasAdded(Head(queue))
      <4>1. queue \in Seq(Notification)
        BY DEF TypeOK
      <4>2. queue # <<>> => Head(queue) = queue[1] /\ 1 \in 1 .. Len(queue)
        BY <4>1
      <4> QED BY <4>2 DEF AddedInv
    <3>3. \/ workers'[w] = Delivery!Idle
          \/ queue # <<>> /\ workers'[w].job = Head(queue)
          \/ workers[w].pc # "idle" /\ workers'[w].job = workers[w].job
      BY <2>5 DEF PlatformTypes, Takes, Pushes, GoesOn, Loses
    <3>4. workers'[w].pc # "idle" => WasAdded(workers'[w].job)
      BY <3>2, <3>3 DEF AddedInv, Delivery!Idle
    <3>5. \A v \in Workers : workers'[v].pc # "idle" => WasAdded(workers'[v].job)
      BY <3>1, <3>4 DEF AddedInv
    <3>6. \A n \in orphans' : WasAdded(n)
      BY <2>5 DEF AddedInv, Takes, Pushes, GoesOn, Loses
    <3>7. CASE pushes' = pushes
      BY <3>5, <3>6, <3>7 DEF AddedInv
    <3>8. CASE workers[w].pc # "idle" /\ pushes' = Append(pushes, workers[w].job)
      <4>1. /\ Len(pushes') = Len(pushes) + 1 /\ Len(pushes) \in Nat
            /\ pushes'[Len(pushes) + 1] = workers[w].job
            /\ \A i \in 1 .. Len(pushes) : pushes'[i] = pushes[i]
        BY <3>8 DEF PlatformTypes
      <4>2. \A i \in 1 .. Len(pushes') : WasAdded(pushes'[i])
        BY <3>8, <4>1 DEF AddedInv
      <4> QED BY <3>5, <3>6, <4>2
    <3> QED BY <2>5, <3>7, <3>8 DEF Takes, Pushes, GoesOn, Loses
  <2>6. ASSUME NEW m \in orphans, IsRecovered(m)
        PROVE  /\ \A v \in Workers : workers'[v].pc # "idle" =>
                                       WasAdded(workers'[v].job)
               /\ \A n \in orphans' : WasAdded(n)
               /\ \A i \in 1 .. Len(pushes') : WasAdded(pushes'[i])
    BY <2>6 DEF IsRecovered, AddedInv
  <2>7. /\ \A i \in 1 .. Len(added') : added'[i] \in notifications'
        /\ \A r \in Requests, n \in Notification : InTodo(r, n)' => ~ WasAdded(n)'
    BY <2>1, <2>2, <2>3 DEF AddedInv
  <2>8. /\ \A v \in Workers : workers'[v].pc # "idle" => WasAdded(workers'[v].job)
        /\ \A n \in orphans' : WasAdded(n)
        /\ \A i \in 1 .. Len(pushes') : WasAdded(pushes'[i])
    BY <1>1, <2>5, <2>6, DeliverCases
  <2> QED BY <2>1, <2>4, <2>7, <2>8 DEF AddedInv, WasAdded
<1>2. ASSUME NEW r \in Requests, QueueNotice(r) PROVE AddedInv'
  <2>1. PICK first \in Notification :
          /\ first = Head(requests[r].todo)
          /\ InTodo(r, first) /\ first \in notifications
          /\ \A n : WasAdded(n)' <=> WasAdded(n) \/ n = first
          /\ Len(queue') = Len(queue) + 1
          /\ queue'[Len(queue) + 1] = first
          /\ \A i \in 1 .. Len(queue) : queue'[i] = queue[i]
          /\ UNCHANGED notifications /\ UNCHANGED <<workers, orphans, pushes>>
    BY <1>2, AddedByRequest
  <2>2. Len(queue) \in Nat
    BY DEF TypeOK
  <2>3. Enqueue(r) /\ [Next]_vars
    BY <1>2 DEF QueueNotice, Next
  <2>4. ASSUME NEW q \in Requests, NEW n \in Notification, InTodo(q, n)'
        PROVE  ~ WasAdded(n)'
    <3>1. ~ WriteStatus(q)
      <4>1. WriteStatus(q) => requests[q].pc = "update" /\ requests'[q].pc = "save"
        BY DEF WriteStatus, TypeOK
      <4>2. requests[r].pc = "enqueue" /\ \A p \in Requests \ {r} :
                                           requests'[p] = requests[p]
        BY <2>3, RestOfTodo
      <4> QED BY <4>1, <4>2
    <3>2. InTodo(q, n) /\ (q = r => n # first)
      BY <2>1, <2>3, <2>4, <3>1, TodoOrigin
    <3>3. n # first
      BY <2>1, <3>2 DEF NoticeInv
    <3> QED BY <2>1, <3>2, <3>3 DEF AddedInv
  <2>5. \A i \in 1 .. Len(added') : added'[i] \in notifications'
    <3>1. \A n : WasAdded(n) => n \in notifications
      BY DEF AddedInv, WasAdded
    <3>2. \A n : WasAdded(n)' => n \in notifications'
      BY <2>1, <3>1
    <3> QED BY <3>2 DEF WasAdded
  <2>6. \A i \in 1 .. Len(queue') : queue'[i] = first \/ WasAdded(queue'[i])
    BY <2>1, <2>2 DEF AddedInv
  <2>7. /\ \A i \in 1 .. Len(queue') : \E n : n = queue'[i] /\ WasAdded(n)'
        /\ \A v \in Workers : workers'[v].pc # "idle" =>
             \E n : n = workers'[v].job /\ WasAdded(n)'
        /\ \A n \in orphans' : WasAdded(n)'
        /\ \A i \in 1 .. Len(pushes') : \E n : n = pushes'[i] /\ WasAdded(n)'
    BY <2>1, <2>6 DEF AddedInv
  <2>8. /\ \A i \in 1 .. Len(queue') : WasAdded(queue[i])'
        /\ \A i \in 1 .. Len(pushes') : WasAdded(pushes[i])'
        /\ \A v \in Workers : workers'[v].pc # "idle" => WasAdded(workers[v].job)'
    BY <2>7 DEF WasAdded
  <2>9. \A n \in orphans' : WasAdded(n)'
    BY <2>7
  <2> QED BY <2>4, <2>5, <2>8, <2>9 DEF AddedInv, WasAdded
<1>3. CASE ~ Deliver /\ \A r \in Requests : ~ QueueNotice(r)
  <2>1. /\ UNCHANGED <<workers, orphans, pushes, added, queue>>
        /\ notifications \subseteq notifications' /\ [Next]_vars
    <3>1. [Next]_vars
      BY <1>3, StepsOfPlatform
    <3>2. UNCHANGED <<workers, orphans, pushes, added>>
      BY <1>3 DEF PlatformNext, platformVars, deliveryVars, Arrive, Commit,
                  SaveNotice
    <3>3. \A r \in Requests :
            Commit(r) \/ SaveNotice(r) =>
              queue' = queue /\ notifications \subseteq notifications'
      BY DEF Commit, SaveNotice, WriteStatus, Notify, SaveNotification
    <3>4. ASSUME \/ UNCHANGED platformVars
                 \/ \E s \in ShipmentIds, u \in Users, c \in Customers :
                      Create(s, u, c)
                 \/ \E r \in Requests, s \in ShipmentIds, u \in Users,
                      to \in ShipmentStatus,
                      d \in Drivers \cup {NoDriver, EmptyId} :
                        Arrive(r, s, u, to, d)
          PROVE  queue' = queue /\ notifications \subseteq notifications'
      BY <3>4 DEF platformVars, vars, Arrive, Create, BeginUpdate
    <3>5. queue' = queue /\ notifications \subseteq notifications'
      BY <1>3, <3>3, <3>4 DEF PlatformNext
    <3> QED BY <3>1, <3>2, <3>5
  <2>2. \A n : WasAdded(n)' <=> WasAdded(n)
    BY <2>1 DEF WasAdded
  <2>3. \A r \in Requests, n \in Notification :
          InTodo(r, n)' => InTodo(r, n) \/ ~ GoodNotice(n)
    BY <2>1, TodoOrigin
  <2>4. \A n : WasAdded(n) => GoodNotice(n)
    BY AddedAreGood
  <2>5. \A r \in Requests, n \in Notification : InTodo(r, n)' => ~ WasAdded(n)'
    BY <2>2, <2>3, <2>4 DEF AddedInv
  <2>6. \A i \in 1 .. Len(added') : added'[i] \in notifications'
    BY <2>1 DEF AddedInv
  <2> QED BY <2>1, <2>5, <2>6 DEF AddedInv, WasAdded
<1> QED BY <1>1, <1>2, <1>3

-----------------------------------------------------------------------------

LEMMA CommittedStays ==
  ASSUME TypeOK, TypeOK', [Next]_vars, NEW c \in Change, Committed(c)
  PROVE  Committed(c)'
<1>1. c.shipment \in ShipmentIds /\ c.at \in Nat
  BY DEF Change
<1>2. history[c.shipment] \in Seq(HistoryRow)
        /\ history'[c.shipment] \in Seq(HistoryRow)
  BY <1>1 DEF TypeOK
<1>3. ASSUME NEW e, history'[c.shipment] = Append(history[c.shipment], e)
      PROVE  Len(history'[c.shipment]) = Len(history[c.shipment]) + 1
  BY <1>2, <1>3
<1>4. \/ Len(history'[c.shipment]) = Len(history[c.shipment])
      \/ Len(history'[c.shipment]) = Len(history[c.shipment]) + 1
  BY <1>1, <1>3, HistoryAppends
<1>5. Len(history[c.shipment]) \in Nat
  BY <1>2
<1> QED BY <1>1, <1>4, <1>5 DEF Committed

(* The change a write makes, and the one all its notifications report.       *)
LEMMA NewChange ==
  ASSUME TypeOK, TypeOK', ShipmentsInv, NEW r \in Requests, Commit(r)
  PROVE  \E c \in Change :
           /\ ~ Committed(c) /\ Committed(c)'
           /\ order' = order \cup (earlier[r] \X {c})
           /\ \A n \in Notification : InTodo(r, n)' => ChangeOf(n) = c
           /\ \A q \in Requests \ {r} : \A n : InTodo(q, n)' <=> InTodo(q, n)
<1> DEFINE q == requests[r]
           c == [shipment |-> q.id, at |-> Len(history[q.id]) + 1]
<1>1. q \in UpdateRequest
  BY RequestTypes DEF Commit, WriteStatus
<1>2. q.id \in ShipmentIds /\ history[q.id] \in Seq(HistoryRow)
        /\ Len(history[q.id]) \in Nat
  BY <1>1 DEF UpdateRequest, TypeOK
<1>3. c \in Change /\ c.shipment = q.id /\ c.at = Len(history[q.id]) + 1
  BY <1>2 DEF Change
<1>4. ~ Committed(c)
  BY <1>2, <1>3 DEF Committed
<1>5. PICK d : d = c
  OBVIOUS
<1>6. Committed(d)'
  <2>1. PICK changedAt \in q.since .. Len(history[q.id]) :
          history' = [history EXCEPT ![q.id] =
            Append(@, [ from |-> q.existing.status, to |-> q.to,
                        changedAt |-> changedAt ])]
    BY DEF Commit, WriteStatus
  <2>2. Len(history'[q.id]) = Len(history[q.id]) + 1
    BY <1>2, <2>1 DEF TypeOK
  <2> QED BY <1>2, <1>3, <1>5, <2>2 DEF Committed
<1>7. order' = order \cup (earlier[r] \X {d})
  BY <1>5 DEF Commit
<1>8. ASSUME NEW n \in Notification, InTodo(r, n)' PROVE ChangeOf(n) = d
  <2>1. requests'[r].todo = StatusNotifications(shipments[q.id], q, c.at)
    BY <1>3 DEF Commit, WriteStatus, TypeOK
  <2>2. PICK i \in 1 .. Len(requests'[r].todo) : n = requests'[r].todo[i]
    BY <1>8 DEF InTodo
  <2>3. n.shipment = q.id /\ n.at = c.at
    BY <2>1, <2>2 DEF StatusNotifications
  <2> QED BY <1>3, <1>5, <2>3 DEF ChangeOf
<1>9. \A p \in Requests \ {r} : \A n : InTodo(p, n)' <=> InTodo(p, n)
  <2>1. \A p \in Requests \ {r} : requests'[p] = requests[p]
    BY DEF Commit, WriteStatus, TypeOK
  <2> QED BY <2>1 DEF InTodo, Dispatching
<1> QED BY <1>3, <1>4, <1>5, <1>6, <1>7, <1>8, <1>9

(* The notifications of a dispatch report committed changes.                 *)
LEMMA TodoIsCommitted ==
  ASSUME NoticeInv, NEW r \in Requests, NEW n \in Notification, InTodo(r, n)
  PROVE  ChangeOf(n) \in Change /\ Committed(ChangeOf(n))
<1>1. n.at \in 2 .. Len(history[n.shipment])
  BY DEF NoticeInv, GoodNotice
<1> QED BY <1>1 DEF ChangeOf, Change, Committed, Notification

LEMMA OrderNext ==
  ASSUME TypeOK, TypeOK', ShipmentsInv, NoticeInv, PlatformTypes, PlatformTypes',
         OrderInv, [PlatformNext]_platformVars
  PROVE  OrderInv'
<1>1. CASE Deliver
  <2>1. UNCHANGED <<requests, history, answered, earlier, order>>
    BY <1>1, DeliverCases DEF requestVars
  <2>2. \A r \in Requests : \A n : InTodo(r, n)' <=> InTodo(r, n)
    BY <2>1 DEF InTodo, Dispatching
  <2>3. \A c : Committed(c)' <=> Committed(c)
    BY <2>1 DEF Committed
  <2> QED BY <2>1, <2>2, <2>3 DEF OrderInv
<1>2. ASSUME NEW r \in Requests, Commit(r) PROVE OrderInv'
  <2>1. PICK c \in Change :
          /\ ~ Committed(c) /\ Committed(c)'
          /\ order' = order \cup (earlier[r] \X {c})
          /\ \A n \in Notification : InTodo(r, n)' => ChangeOf(n) = c
          /\ \A q \in Requests \ {r} : \A n : InTodo(q, n)' <=> InTodo(q, n)
    BY <1>2, NewChange
  <2>2. answered' = answered /\ [Next]_vars
    BY <1>2 DEF Commit, Next
  <2>3. \A d \in Change : Committed(d) => Committed(d)'
    BY <2>2, CommittedStays
  <2>4. answered \subseteq Change /\ \A d \in answered : Committed(d)
    BY DEF OrderInv, PlatformTypes
  <2>5. \A q \in Requests : earlier'[q] \subseteq answered
    BY <1>2 DEF Commit, OrderInv, PlatformTypes
  <2>6. ASSUME NEW d \in Change, NEW e \in Change, <<d, e>> \in order'
        PROVE  d \in answered /\ Committed(e)' /\ d # e
    <3>1. CASE <<d, e>> \in order
      BY <2>3, <3>1 DEF OrderInv
    <3>2. CASE d \in earlier[r] /\ e = c
      BY <2>1, <2>4, <3>2 DEF OrderInv
    <3> QED BY <2>1, <2>6, <3>1, <3>2
  <2>7. ASSUME NEW q \in Requests, NEW n \in Notification, InTodo(q, n)'
        PROVE  /\ q = r => ChangeOf(n) = c
               /\ q # r => InTodo(q, n) /\ ChangeOf(n) # c
               /\ ChangeOf(n) \notin answered
    <3>1. CASE q = r
      BY <2>1, <2>4, <2>7, <3>1
    <3>2. CASE q # r
      <4>1. InTodo(q, n)
        BY <2>1, <2>7, <3>2
      <4>2. Committed(ChangeOf(n))
        BY <4>1, TodoIsCommitted
      <4> QED BY <2>1, <3>2, <4>1, <4>2 DEF OrderInv
    <3> QED BY <3>1, <3>2
  <2>8. ASSUME NEW p \in Requests, NEW q \in Requests,
               NEW n \in Notification, NEW m \in Notification,
               InTodo(p, n)', InTodo(q, m)'
        PROVE  ChangeOf(n) = ChangeOf(m) <=> p = q
    BY <2>7, <2>8 DEF OrderInv
  <2>9. \A d \in answered' : Committed(d)'
    BY <2>2, <2>3, <2>4
  <2> QED BY <2>2, <2>5, <2>6, <2>7, <2>8, <2>9 DEF OrderInv
<1>3. ASSUME NEW r \in Requests, QueueNotice(r) PROVE OrderInv'
  <2>1. PICK first \in Notification :
          /\ first = Head(requests[r].todo) /\ InTodo(r, first)
    <3>1. InTodo(r, Head(requests[r].todo))
            /\ Head(requests[r].todo) \in Notification
      BY <1>3, DispatchTypes DEF QueueNotice, Enqueue, Dispatching
    <3> QED BY <3>1
  <2>2. UNCHANGED <<history, earlier, order>>
    BY <1>3 DEF QueueNotice, Enqueue
  <2>3. \A c : Committed(c)' <=> Committed(c)
    BY <2>2 DEF Committed
  <2>4. \/ answered' = answered
        \/ /\ answered' = answered \cup {ChangeOf(first)}
           /\ requests'[r] = IdleRequest
    BY <1>3, <2>1 DEF QueueNotice, ChangeOf
  <2>5. \A q \in Requests : \A n : InTodo(q, n)' => InTodo(q, n)
    <3>1. Enqueue(r) /\ \A q \in Requests \ {r} : requests'[q] = requests[q]
      BY <1>3, RestOfTodo DEF QueueNotice
    <3>2. \A q \in Requests \ {r} : \A n : InTodo(q, n)' => InTodo(q, n)
      BY <3>1 DEF InTodo, Dispatching
    <3>3. \A n : InTodo(r, n)' => InTodo(r, n)
      BY <3>1, RestOfTodo
    <3> QED BY <3>2, <3>3
  <2>6. \A c \in answered' : Committed(c)'
    BY <2>1, <2>3, <2>4, TodoIsCommitted DEF OrderInv
  <2>7. answered \subseteq answered'
    BY <2>4
  <2>8. ASSUME NEW q \in Requests, NEW n \in Notification, InTodo(q, n)'
        PROVE  ChangeOf(n) \notin answered'
    <3>1. InTodo(q, n) /\ ChangeOf(n) \notin answered
      BY <2>5, <2>8 DEF OrderInv
    <3>2. CASE q = r
      BY <2>4, <2>8, <3>1, <3>2 DEF InTodo, Dispatching, IdleRequest
    <3>3. CASE q # r
      BY <2>1, <2>4, <3>1, <3>3 DEF OrderInv
    <3> QED BY <3>2, <3>3
  <2>9. \A q \in Requests : earlier'[q] \subseteq answered'
    BY <2>2, <2>7 DEF OrderInv
  <2>10. \A c, d \in Change :
           <<c, d>> \in order' => c \in answered' /\ Committed(d)' /\ c # d
    BY <2>2, <2>3, <2>7 DEF OrderInv
  <2>11. \A p, q \in Requests, n, m \in Notification :
           InTodo(p, n)' /\ InTodo(q, m)' => (ChangeOf(n) = ChangeOf(m) <=> p = q)
    BY <2>5 DEF OrderInv
  <2> QED BY <2>6, <2>8, <2>9, <2>10, <2>11 DEF OrderInv
<1>4. ASSUME UNCHANGED <<answered, order>>, [Next]_vars,
             \A r \in Requests : earlier'[r] \subseteq answered,
             \A r \in Requests : \A n : InTodo(r, n)' => InTodo(r, n)
      PROVE  OrderInv'
  <2>1. \A c \in Change : Committed(c) => Committed(c)'
    BY <1>4, CommittedStays
  <2>2. \A c \in answered' : Committed(c)'
    BY <1>4, <2>1 DEF OrderInv, PlatformTypes
  <2>3. \A c, d \in Change :
          <<c, d>> \in order' => c \in answered' /\ Committed(d)' /\ c # d
    BY <1>4, <2>1 DEF OrderInv
  <2> QED BY <1>4, <2>2, <2>3 DEF OrderInv
<1>5. ASSUME NEW r \in Requests, NEW s \in ShipmentIds, NEW u \in Users,
             NEW to \in ShipmentStatus,
             NEW d \in Drivers \cup {NoDriver, EmptyId}, Arrive(r, s, u, to, d)
      PROVE  OrderInv'
  <2>1. UNCHANGED <<answered, order>> /\ [Next]_vars
    BY <1>5 DEF Arrive, Next
  <2>2. \A q \in Requests : earlier'[q] \subseteq answered
    BY <1>5 DEF Arrive, OrderInv, PlatformTypes
  <2>3. \A q \in Requests : ~ WriteStatus(q)
    BY <1>5 DEF Arrive, BeginUpdate, WriteStatus, TypeOK
  <2>4. \A q \in Requests : \A n : InTodo(q, n)' => InTodo(q, n)
    BY <2>1, <2>3, TodoOrigin
  <2> QED BY <1>4, <2>1, <2>2, <2>4
<1>6. ASSUME UNCHANGED orderVars, [Next]_vars, \A q \in Requests : ~ WriteStatus(q)
      PROVE  OrderInv'
  <2>1. \A q \in Requests : \A n : InTodo(q, n)' => InTodo(q, n)
    BY <1>6, TodoOrigin
  <2>2. UNCHANGED <<answered, earlier, order>>
    BY <1>6 DEF orderVars
  <2> QED BY <1>4, <1>6, <2>1, <2>2 DEF OrderInv
<1>7. ASSUME NEW r \in Requests, SaveNotice(r) PROVE OrderInv'
  <2>1. \A q \in Requests : ~ WriteStatus(q)
    <3>1. /\ requests[r].pc = "save"
          /\ \A q \in Requests \ {r} : requests'[q] = requests[q]
      BY <1>7 DEF SaveNotice, Notify, TypeOK
    <3>2. \A q \in Requests : WriteStatus(q) =>
            requests[q].pc = "update" /\ requests'[q].pc = "save"
      BY DEF WriteStatus, TypeOK
    <3> QED BY <3>1, <3>2
  <2> QED BY <1>6, <1>7, <2>1 DEF SaveNotice, Next
<1>8. ASSUME NEW s \in ShipmentIds, NEW u \in Users, NEW c \in Customers,
             Create(s, u, c), UNCHANGED orderVars
      PROVE  OrderInv'
  <2>1. requests' = requests /\ [Next]_vars
    BY <1>8 DEF Create, Next
  <2>2. \A q \in Requests : ~ WriteStatus(q)
    BY <2>1 DEF WriteStatus, TypeOK
  <2> QED BY <1>6, <1>8, <2>1, <2>2
<1>9. CASE UNCHANGED platformVars
  BY <1>6, <1>9 DEF platformVars, vars, WriteStatus, TypeOK
<1> QED BY <1>1, <1>2, <1>3, <1>5, <1>7, <1>8, <1>9 DEF PlatformNext

-----------------------------------------------------------------------------
(* The line of what was pushed, what is being delivered and what waits.      *)

LEMMA LineOfDeliver ==
  ASSUME TypeOK, PlatformTypes, OneWorker, LineInv, Deliver, losses' = 0
  PROVE  LineInv'
<1>1. order' = order
  BY DeliverCases DEF requestVars
<1>2. \A m, n : MayPrecede(m, n)' <=> MayPrecede(m, n)
  BY <1>1 DEF MayPrecede, ChangeOf
<1>3. PICK w \in Workers : Takes(w) \/ Pushes(w) \/ GoesOn(w)
  <2>1. \A w \in Workers : ~ Loses(w)
    BY DEF Loses, PlatformTypes
  <2>2. orphans = {}
    BY DEF LineInv
  <2> QED BY <2>1, <2>2, DeliverCases
<1>4. \A v \in Workers : v = w
  BY DEF OneWorker
<1>5. orphans' = {}
  BY <1>3 DEF LineInv, Takes, Pushes, GoesOn
<1>6. CASE Takes(w)
  <2>1. /\ queue # <<>> /\ queue' = Tail(queue) /\ pushes' = pushes
        /\ workers'[w].job = Head(queue)
    BY <1>6 DEF Takes, PlatformTypes
  <2>2. /\ Head(queue) = queue[1] /\ 1 \in 1 .. Len(queue)
        /\ \A i \in 1 .. Len(Tail(queue)) :
             Tail(queue)[i] = queue[i + 1] /\ i + 1 \in 1 .. Len(queue) /\ 1 < i + 1
    BY <2>1 DEF TypeOK
  <2>3. \A i, j \in 1 .. Len(queue') :
          i < j => MayPrecede(queue'[i], queue'[j])
    BY <2>1, <2>2 DEF LineInv
  <2>4. \A i \in 1 .. Len(pushes'), j \in 1 .. Len(queue') :
          MayPrecede(pushes'[i], queue'[j])
    BY <2>1, <2>2 DEF LineInv
  <2>5. /\ \A i \in 1 .. Len(pushes') : MayPrecede(pushes'[i], workers'[w].job)
        /\ \A j \in 1 .. Len(queue') : MayPrecede(workers'[w].job, queue'[j])
    BY <2>1, <2>2 DEF LineInv
  <2>6. \A i, j \in 1 .. Len(pushes') :
          i < j => MayPrecede(pushes'[i], pushes'[j])
    BY <2>1 DEF LineInv
  <2> QED BY <1>1, <1>4, <1>5, <2>3, <2>4, <2>5, <2>6 DEF LineInv, MayPrecede
<1>7. CASE Pushes(w)
  <2>1. /\ workers[w].pc = "deliver" /\ workers'[w].pc # "deliver"
        /\ pushes' = Append(pushes, workers[w].job) /\ queue' = queue
    BY <1>7 DEF Pushes, PlatformTypes
  <2>2. /\ Len(pushes') = Len(pushes) + 1 /\ Len(pushes) \in Nat
        /\ pushes'[Len(pushes) + 1] = workers[w].job
        /\ \A i \in 1 .. Len(pushes) : pushes'[i] = pushes[i]
    BY <2>1 DEF PlatformTypes
  <2>3. ASSUME NEW i \in 1 .. Len(pushes'), NEW j \in 1 .. Len(pushes'), i < j
        PROVE  MayPrecede(pushes'[i], pushes'[j])
    <3>1. i \in 1 .. Len(pushes)
      BY <2>2, <2>3
    <3>2. CASE j \in 1 .. Len(pushes)
      BY <2>2, <2>3, <3>1, <3>2 DEF LineInv
    <3>3. CASE j = Len(pushes) + 1
      BY <2>1, <2>2, <3>1, <3>3 DEF LineInv
    <3> QED BY <2>2, <3>2, <3>3
  <2>4. ASSUME NEW i \in 1 .. Len(pushes'), NEW j \in 1 .. Len(queue')
        PROVE  MayPrecede(pushes'[i], queue'[j])
    <3>1. CASE i \in 1 .. Len(pushes)
      BY <2>1, <2>2, <3>1 DEF LineInv
    <3>2. CASE i = Len(pushes) + 1
      BY <2>1, <2>2, <3>2 DEF LineInv
    <3> QED BY <2>2, <3>1, <3>2
  <2>5. \A i, j \in 1 .. Len(queue') :
          i < j => MayPrecede(queue'[i], queue'[j])
    BY <2>1 DEF LineInv
  <2> QED BY <1>1, <1>4, <1>5, <2>1, <2>3, <2>4, <2>5 DEF LineInv, MayPrecede
<1>8. CASE GoesOn(w)
  <2>1. workers'[w].pc # "deliver" /\ pushes' = pushes /\ queue' = queue
    BY <1>8 DEF GoesOn, PlatformTypes, Delivery!Idle
  <2> QED BY <1>1, <1>4, <1>5, <2>1 DEF LineInv, MayPrecede
<1> QED BY <1>3, <1>6, <1>7, <1>8

(* A job joins the line while the request of its change is not answered.     *)
LEMMA LineOfQueueNotice ==
  ASSUME TypeOK, TypeOK', NoticeInv, PlatformTypes, OrderInv, LineInv,
         NEW r \in Requests, QueueNotice(r)
  PROVE  LineInv'
<1>1. PICK first \in Notification :
        /\ InTodo(r, first)
        /\ Len(queue') = Len(queue) + 1
        /\ queue'[Len(queue) + 1] = first
        /\ \A i \in 1 .. Len(queue) : queue'[i] = queue[i]
        /\ UNCHANGED <<workers, orphans, pushes, order>>
  BY AddedByRequest
<1>2. Len(queue) \in Nat
  BY DEF TypeOK
<1>3. ASSUME NEW m \in Notification PROVE MayPrecede(m, first)
  <2>1. ChangeOf(first) \notin answered
    BY <1>1 DEF OrderInv
  <2>2. ChangeOf(first) \in Change /\ ChangeOf(m) \in Change
    BY DEF ChangeOf, Change, Notification
  <2> QED BY <2>1, <2>2 DEF MayPrecede, OrderInv
<1>4. /\ \A i \in 1 .. Len(pushes) : pushes[i] \in Notification
      /\ \A i \in 1 .. Len(queue) : queue[i] \in Notification
      /\ \A w \in Workers :
           workers[w].pc = "deliver" => workers[w].job \in Notification
  BY DEF TypeOK, PlatformTypes, Delivery!Idle
<1>5. ASSUME NEW i \in 1 .. Len(queue'), NEW j \in 1 .. Len(queue'), i < j
      PROVE  MayPrecede(queue'[i], queue'[j])
  <2>1. i \in 1 .. Len(queue)
    BY <1>1, <1>2, <1>5
  <2>2. CASE j \in 1 .. Len(queue)
    BY <1>1, <1>5, <2>1, <2>2 DEF LineInv
  <2>3. CASE j = Len(queue) + 1
    BY <1>1, <1>3, <1>4, <2>1, <2>3
  <2> QED BY <1>1, <1>2, <2>2, <2>3
<1>6. ASSUME NEW j \in 1 .. Len(queue')
      PROVE  /\ \A i \in 1 .. Len(pushes) : MayPrecede(pushes[i], queue'[j])
             /\ \A w \in Workers : workers[w].pc = "deliver" =>
                  MayPrecede(workers[w].job, queue'[j])
  <2>1. CASE j \in 1 .. Len(queue)
    BY <1>1, <2>1 DEF LineInv
  <2>2. CASE j = Len(queue) + 1
    BY <1>1, <1>3, <1>4, <2>2
  <2> QED BY <1>1, <1>2, <2>1, <2>2
<1> QED BY <1>1, <1>5, <1>6 DEF LineInv, MayPrecede

(* A commit orders only its own change, of which nobody was told yet.        *)
LEMMA LineOfCommit ==
  ASSUME TypeOK, TypeOK', ShipmentsInv, NoticeInv, PlatformTypes, AddedInv,
         LineInv, NEW r \in Requests, Commit(r)
  PROVE  LineInv'
<1>1. PICK c \in Change : /\ ~ Committed(c)
                          /\ order' = order \cup (earlier[r] \X {c})
  BY NewChange
<1>2. UNCHANGED <<workers, orphans, pushes, queue>>
  BY DEF Commit, WriteStatus, deliveryVars
<1>3. ASSUME NEW m, NEW n, WasAdded(m), MayPrecede(m, n)
      PROVE  <<ChangeOf(n), ChangeOf(m)>> \notin order'
  <2>1. ChangeOf(m) # c
    BY <1>1, <1>3, AddedAreGood
  <2> QED BY <1>1, <1>3, <2>1 DEF MayPrecede
<1>4. /\ \A i \in 1 .. Len(pushes) : WasAdded(pushes[i])
      /\ \A i \in 1 .. Len(queue) : WasAdded(queue[i])
      /\ \A w \in Workers : workers[w].pc = "deliver" => WasAdded(workers[w].job)
  BY DEF AddedInv
<1>5. /\ \A i, j \in 1 .. Len(pushes) : i < j =>
           <<ChangeOf(pushes[j]), ChangeOf(pushes[i])>> \notin order'
      /\ \A i, j \in 1 .. Len(queue) : i < j =>
           <<ChangeOf(queue[j]), ChangeOf(queue[i])>> \notin order'
      /\ \A i \in 1 .. Len(pushes), j \in 1 .. Len(queue) :
           <<ChangeOf(queue[j]), ChangeOf(pushes[i])>> \notin order'
  BY <1>3, <1>4 DEF LineInv
<1>6. \A w \in Workers : workers[w].pc = "deliver" =>
        /\ \A i \in 1 .. Len(pushes) :
             <<ChangeOf(workers[w].job), ChangeOf(pushes[i])>> \notin order'
        /\ \A j \in 1 .. Len(queue) :
             <<ChangeOf(queue[j]), ChangeOf(workers[w].job)>> \notin order'
  BY <1>3, <1>4 DEF LineInv
<1> QED BY <1>2, <1>5, <1>6 DEF LineInv, MayPrecede, ChangeOf

LEMMA LineNext ==
  ASSUME TypeOK, TypeOK', ShipmentsInv, NoticeInv, PlatformTypes, AddedInv,
         OrderInv, OneWorker /\ losses = 0 => LineInv, OneWorker, losses' = 0,
         [PlatformNext]_platformVars
  PROVE  LineInv'
<1>1. losses = 0
  <2>1. CASE Deliver
    <3>1. /\ \A w \in Workers : Takes(w) \/ Pushes(w) \/ GoesOn(w) \/ Loses(w) =>
               losses' \in {losses, losses + 1}
          /\ \A n \in orphans : IsRecovered(n) => losses' = losses
      BY DEF Takes, Pushes, GoesOn, Loses, IsRecovered
    <3>2. losses' \in {losses, losses + 1} /\ losses \in Nat
      BY <2>1, <3>1, DeliverCases DEF PlatformTypes
    <3> QED BY <3>2
  <2>2. CASE ~ Deliver
    BY <2>2 DEF PlatformNext, platformVars, deliveryVars, Arrive, Commit,
                SaveNotice, QueueNotice
  <2> QED BY <2>1, <2>2
<1>2. LineInv
  BY <1>1
<1>3. ASSUME UNCHANGED <<workers, orphans, pushes, queue, order>> PROVE LineInv'
  BY <1>2, <1>3 DEF LineInv, MayPrecede
<1>4. ASSUME NEW r \in Requests, NEW s \in ShipmentIds, NEW u \in Users,
             NEW to \in ShipmentStatus,
             NEW d \in Drivers \cup {NoDriver, EmptyId}, Arrive(r, s, u, to, d)
      PROVE  LineInv'
  BY <1>3, <1>4 DEF Arrive, BeginUpdate, deliveryVars
<1>5. ASSUME NEW r \in Requests, SaveNotice(r) PROVE LineInv'
  BY <1>3, <1>5 DEF SaveNotice, Notify, SaveNotification, deliveryVars, orderVars
<1>6. ASSUME NEW s \in ShipmentIds, NEW u \in Users, NEW c \in Customers,
             Create(s, u, c), UNCHANGED <<deliveryVars, orderVars>>
      PROVE  LineInv'
  BY <1>3, <1>6 DEF Create, deliveryVars, orderVars
<1>7. CASE UNCHANGED platformVars
  BY <1>3, <1>7 DEF platformVars, vars, deliveryVars, orderVars
<1> QED BY <1>2, <1>4, <1>5, <1>6, <1>7, LineOfDeliver, LineOfQueueNotice,
           LineOfCommit DEF PlatformNext

-----------------------------------------------------------------------------
(* The theorems.                                                             *)

LEMMA PlatformInvInit == PlatformInit => PlatformInv
<1> SUFFICES ASSUME PlatformInit PROVE PlatformInv
  OBVIOUS
<1>1. TypeOK /\ ShipmentsInv /\ NoticeInv
  BY TypeOKInit, InvInit, NoticeInit DEF PlatformInit
<1>2. /\ queue = <<>> /\ notifications = {} /\ orphans = {} /\ losses = 0
      /\ workers = [w \in Workers |-> Delivery!Idle]
      /\ pushes = <<>> /\ added = <<>>
      /\ answered = {} /\ earlier = [r \in Requests |-> {}] /\ order = {}
      /\ requests = [r \in Requests |-> IdleRequest]
      /\ history = [s \in ShipmentIds |-> <<>>]
  BY DEF PlatformInit, Init, Delivery!Init
<1>3. PlatformTypes
  BY <1>2 DEF PlatformTypes
<1>4. HistoryBound
  BY <1>2 DEF HistoryBound, Pending, IdleRequest
<1>5. AddedInv
  BY <1>2 DEF AddedInv, WasAdded, Delivery!Idle
<1>6. OrderInv
  BY <1>2 DEF OrderInv, InTodo, Dispatching, IdleRequest
<1>7. LineInv
  BY <1>2 DEF LineInv, Delivery!Idle
<1> QED BY <1>1, <1>3, <1>4, <1>5, <1>6, <1>7 DEF PlatformInv

LEMMA PlatformInvNext ==
  PlatformInv /\ [PlatformNext]_platformVars => PlatformInv'
<1> SUFFICES ASSUME PlatformInv, [PlatformNext]_platformVars
             PROVE  PlatformInv'
  OBVIOUS
<1>1. /\ TypeOK /\ ShipmentsInv /\ NoticeInv
      /\ PlatformTypes /\ HistoryBound /\ AddedInv /\ OrderInv
      /\ OneWorker /\ losses = 0 => LineInv
  BY DEF PlatformInv
<1>2. (TypeOK /\ ShipmentsInv /\ NoticeInv)'
  BY <1>1, ShipmentsSide
<1>3. PlatformTypes'
  BY <1>1, <1>2, PlatformTypesNext
<1>4. HistoryBound'
  BY <1>1, <1>2, HistoryBoundNext
<1>5. AddedInv'
  BY <1>1, <1>2, <1>3, AddedNext
<1>6. OrderInv'
  BY <1>1, <1>2, <1>3, OrderNext
<1>7. (OneWorker /\ losses = 0 => LineInv)'
  BY <1>1, <1>2, LineNext DEF OneWorker
<1> QED BY <1>2, <1>3, <1>4, <1>5, <1>6, <1>7 DEF PlatformInv

THEOREM PlatformInvariant == PlatformSpec => []PlatformInv
BY PlatformInvInit, PlatformInvNext, PTL DEF PlatformSpec

(* What the requests do to the queue is what NotificationDelivery allows its *)
(* producers, and the rest of the platform is its own.                       *)
LEMMA DeliveryStep ==
  ASSUME PlatformInv, [PlatformNext]_platformVars
  PROVE  [Delivery!Next]_(Delivery!vars)
<1>1. /\ TypeOK /\ ShipmentsInv /\ NoticeInv
      /\ PlatformTypes /\ HistoryBound /\ AddedInv
  BY DEF PlatformInv
<1>2. ASSUME NEW r \in Requests, SaveNotice(r)
      PROVE  \E n \in Jobs : Delivery!Save(n)
  <2>1. PICK n \in Notification : /\ n = Head(requests[r].todo)
                                  /\ n = requests[r].todo[1] /\ InTodo(r, n)
                                  /\ 1 \in 1 .. Len(requests[r].todo)
    <3>1. Dispatching(r)
      BY <1>2 DEF SaveNotice, Notify, Dispatching
    <3> QED BY <1>1, <3>1, DispatchTypes
  <2>2. requests[r].pc = "save" /\ Dispatching(r)
    BY <1>2 DEF SaveNotice, Notify, Dispatching
  <2>3. n \notin notifications
    BY <1>1, <2>1, <2>2 DEF NoticeInv
  <2>4. n \in Jobs
    BY <1>1, <2>1, GoodNoticesAreJobs DEF NoticeInv
  <2>5. Delivery!SaveNotification(n)
    BY <1>2, <2>1 DEF SaveNotice, Notify, SaveNotification,
                      Delivery!SaveNotification
  <2>6. UNCHANGED <<workers, lapsed, Delivery!jobVars, Delivery!outVars,
                    Delivery!sourceVars, losses>>
    BY <1>2 DEF SaveNotice, deliveryVars, Delivery!jobVars, Delivery!outVars,
                Delivery!sourceVars
  <2> QED BY <2>3, <2>4, <2>5, <2>6 DEF Delivery!Save
<1>3. ASSUME NEW r \in Requests, QueueNotice(r)
      PROVE  \E n \in Jobs : Delivery!Add(n)
  <2>1. Enqueue(r)
    BY <1>3 DEF QueueNotice
  <2>2. PICK n \in Notification : /\ n = Head(requests[r].todo)
                                  /\ InTodo(r, n) /\ n \in notifications
    <3>1. InTodo(r, Head(requests[r].todo))
            /\ Head(requests[r].todo) \in Notification
      BY <1>1, <2>1, DispatchTypes DEF Enqueue, Dispatching
    <3>2. Head(requests[r].todo) \in notifications
      <4>1. requests[r].pc = "enqueue" /\ Dispatching(r)
        BY <2>1 DEF Enqueue, Dispatching
      <4>2. /\ Head(requests[r].todo) = requests[r].todo[1]
            /\ 1 \in 1 .. Len(requests[r].todo)
        BY <1>1, <4>1, DispatchTypes
      <4> QED BY <1>1, <4>1, <4>2 DEF NoticeInv
    <3> QED BY <3>1, <3>2
  <2>3. n \notin Delivery!Elements(added)
    <3>1. ~ WasAdded(n)
      BY <1>1, <2>2 DEF AddedInv
    <3>2. DOMAIN added = 1 .. Len(added)
      BY <1>1 DEF PlatformTypes
    <3> QED BY <3>1, <3>2 DEF WasAdded, Delivery!Elements
  <2>4. n \in Jobs
    BY <1>1, <2>2, GoodNoticesAreJobs DEF NoticeInv
  <2>5. Delivery!AddJob(n)
    BY <2>1, <2>2 DEF Enqueue, AddJob, Delivery!AddJob
  <2>6. added' = Append(added, n)
    BY <1>3, <2>2 DEF QueueNotice
  <2>7. UNCHANGED <<workers, lapsed, Delivery!jobVars, Delivery!outVars,
                    verified, losses>>
    BY <1>3 DEF QueueNotice, Delivery!jobVars, Delivery!outVars
  <2> QED BY <2>2, <2>3, <2>4, <2>5, <2>6, <2>7 DEF Delivery!Add
<1>4. ASSUME Deliver PROVE Delivery!Next
  <2>1. \A n \in orphans : n \in Jobs
    <3>1. \A n \in orphans : n \in Notification /\ GoodNotice(n)
      BY <1>1, AddedAreGood DEF AddedInv
    <3> QED BY <1>1, <3>1, GoodNoticesAreJobs
  <2> QED BY <1>4, <2>1 DEF Deliver, Delivery!Next
<1>5. ASSUME UNCHANGED <<notifications, queue, deliveryVars>>
      PROVE  UNCHANGED Delivery!vars
  BY <1>5 DEF deliveryVars, Delivery!vars, Delivery!jobVars, Delivery!outVars,
              Delivery!sourceVars
<1>6. ASSUME NEW r \in Requests,
             \/ Commit(r)
             \/ \E s \in ShipmentIds, u \in Users, to \in ShipmentStatus,
                  d \in Drivers \cup {NoDriver, EmptyId} : Arrive(r, s, u, to, d)
      PROVE  UNCHANGED Delivery!vars
  BY <1>5, <1>6 DEF Commit, WriteStatus, Arrive, BeginUpdate
<1>7. ASSUME NEW s \in ShipmentIds, NEW u \in Users, NEW c \in Customers,
             Create(s, u, c), UNCHANGED deliveryVars
      PROVE  UNCHANGED Delivery!vars
  BY <1>5, <1>7 DEF Create
<1>8. CASE UNCHANGED platformVars
  BY <1>5, <1>8 DEF platformVars, vars
<1> QED BY <1>2, <1>3, <1>4, <1>6, <1>7, <1>8 DEF PlatformNext, Delivery!Next

(* The requests are the producers that NotificationDelivery expects: each    *)
(* notification is saved once, before its job is added, and its job is added *)
(* once (notifications.service.ts:23), whatever the requests interleave.     *)
(* What is proved of the deliveries therefore holds of the whole system.     *)
THEOREM DeliveryIsImplemented == PlatformSpec => DeliveryIsUsedAsSpecified
<1>1. PlatformInit => Delivery!Init
  BY DEF PlatformInit
<1>2. PlatformInv /\ [PlatformNext]_platformVars
        => [Delivery!Next]_(Delivery!vars)
  BY DeliveryStep
<1> QED BY <1>1, <1>2, PlatformInvariant, PTL
        DEF PlatformSpec, DeliveryIsUsedAsSpecified, Delivery!Spec

(* With one worker that never lost a lock, nobody is told of a change before *)
(* one that was answered before the change was asked for: the notifications  *)
(* of a change are queued before its request is answered                     *)
(* (shipments.service.ts:185).                                               *)
THEOREM PushesAreInOrder == PlatformSpec => []ToldInOrder
<1>1. PlatformInv => ToldInOrder
  <2>1. ASSUME PlatformInv, losses = 0, OneWorker,
               NEW i \in DOMAIN pushes, NEW j \in DOMAIN pushes, i < j
        PROVE  <<ChangeOf(pushes[j]), ChangeOf(pushes[i])>> \notin order
    <3>1. DOMAIN pushes = 1 .. Len(pushes)
      BY <2>1 DEF PlatformInv, PlatformTypes
    <3> QED BY <2>1, <3>1 DEF PlatformInv, LineInv, MayPrecede
  <2> QED BY <2>1 DEF ToldInOrder, OneWorker, ChangeOf
<1> QED BY <1>1, PlatformInvariant, PTL

(* Whatever was pushed is true: it tells the status of a committed change,   *)
(* to the shipment's customer or, of an assignment, to a driver of its       *)
(* company, even if the shipment has moved on and the push comes late or     *)
(* twice (notification-delivery.service.ts:56).                              *)
PushesAreTrue ==
  \A i \in DOMAIN pushes :
    LET n == pushes[i]
        row == shipments[n.shipment]
    IN  /\ n.at \in 2 .. Len(history[n.shipment])
        /\ contentOf(n) = history[n.shipment][n.at].to
        /\ \/ n.user = row.customer
           \/ /\ contentOf(n) = "ASSIGNED"
              /\ \E d \in Drivers : /\ DriverUser[d] = n.user
                                    /\ DriverCompany[d] = row.company

THEOREM PushesTellTheTruth == PlatformSpec => []PushesAreTrue
<1>1. PlatformInv => PushesAreTrue
  <2>1. ASSUME PlatformInv, NEW i \in DOMAIN pushes,
               NEW n \in Notification, n = pushes[i], GoodNotice(n)
        PROVE  /\ n.at \in 2 .. Len(history[n.shipment])
               /\ contentOf(n) = history[n.shipment][n.at].to
               /\ \/ n.user = shipments[n.shipment].customer
                  \/ /\ contentOf(n) = "ASSIGNED"
                     /\ \E d \in Drivers :
                          /\ DriverUser[d] = n.user
                          /\ DriverCompany[d] = shipments[n.shipment].company
    <3>1. CASE n.type = "SHIPMENT_ASSIGNED"
      BY <2>1, <3>1 DEF GoodNotice, contentOf
    <3>2. CASE n.type = "DELIVERED"
      BY <2>1, <3>2 DEF GoodNotice, contentOf
    <3>3. CASE n.type = "STATUS_CHANGED"
      BY <2>1, <3>3 DEF GoodNotice, contentOf
    <3> QED BY <2>1, <3>1, <3>2, <3>3 DEF Notification
  <2>2. ASSUME PlatformInv, NEW i \in DOMAIN pushes
        PROVE  pushes[i] \in Notification /\ GoodNotice(pushes[i])
    <3>1. i \in 1 .. Len(pushes)
      BY <2>2 DEF PlatformInv, PlatformTypes
    <3>2. WasAdded(pushes[i])
      BY <2>2, <3>1 DEF PlatformInv, AddedInv
    <3> QED BY <2>2, <3>2, AddedAreGood DEF PlatformInv
  <2> QED BY <2>1, <2>2 DEF PushesAreTrue
<1> QED BY <1>1, PlatformInvariant, PTL

=============================================================================
