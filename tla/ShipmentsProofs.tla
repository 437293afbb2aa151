--------------------------- MODULE ShipmentsProofs --------------------------
(* Theorems about Shipments, for every number of requests, shipments, users, *)
(* drivers and companies, and every bound.                                   *)
EXTENDS Shipments, SequenceTheorems, TLAPS

(* The assumptions on the constants, under one name.                         *)
LEMMA ConstantsAreGood ==
  /\ DriverUser \in [Drivers -> Users]
  /\ DriverCompany \in [Drivers -> Companies]
  /\ CompanyOf \in [Users -> Companies \cup {NoCompany}]
  /\ Customers \subseteq Users
  /\ NoDriver \notin Drivers /\ EmptyId \notin Drivers /\ EmptyId # NoDriver
  /\ NoStatus \notin ShipmentStatus
  /\ NoShipment \notin Row
BY UsersAssumption, DriversAssumption, NullsAssumption, NoShipmentAssumption

(* resolveDriverId, after the checks of assertTransitionContext and of      *)
(* assertDriverBelongsToCompany, yields a driver of the company or null: the *)
(* empty string a body may carry is never stored.                            *)
LEMMA AcceptedDriver ==
  ASSUME NEW row \in Row, NEW u \in Users, NEW to \in ShipmentStatus,
         NEW d \in Drivers \cup {NoDriver, EmptyId},
         Accepts(row, u, to, d)
  PROVE  LET e == resolveDriverId(to, d, row.driver)
         IN  /\ e \in Drivers \cup {NoDriver}
             /\ to \in NeedsDriver => e # NoDriver
             /\ to = "CANCELLED" => e = row.driver
             /\ e \in {NoDriver, row.driver} \/ DriverCompany[e] = row.company
<1>1. assertTransitionContext(to, d, row.driver)
  BY DEF Accepts
<1>2. d \in Drivers => DriverCompany[d] = row.company
  BY ConstantsAreGood DEF Accepts, Truthy, assertDriverBelongsToCompany
<1>3. to \in {"ASSIGNED", "IN_TRANSIT", "DELIVERED", "CANCELLED"}
  BY DEF Accepts, assertValidTransition, ALLOWED_TRANSITIONS
<1>4. row.driver \in Drivers \cup {NoDriver}
  BY DEF Row
<1> QED
  BY <1>1, <1>2, <1>3, <1>4, ConstantsAreGood
     DEF resolveDriverId, Coalesce, assertTransitionContext, Truthy,
         NeedsDriver

(* The row an update writes is a row.                                        *)
LEMMA UpdatedRowIsRow ==
  ASSUME NEW row \in Row, NEW q \in UpdateRequest, NEW now \in Nat
  PROVE  UpdatedRow(row, q, now) \in Row
BY DEF UpdatedRow, Row, UpdateRequest

(* The notifications of a change are a non-empty sequence of notifications.  *)
LEMMA StatusNotificationsType ==
  ASSUME NEW row \in Row, NEW q \in UpdateRequest, NEW now \in Nat
  PROVE  StatusNotifications(row, q, now) \in Seq(Notification) \ {<<>>}
<1> DEFINE type == IF q.to = "DELIVERED" THEN "DELIVERED" ELSE "STATUS_CHANGED"
           a == [user |-> row.customer, type |-> type,
                 shipment |-> q.id, at |-> now]
           b == [user |-> DriverUser[q.driver], type |-> "SHIPMENT_ASSIGNED",
                 shipment |-> q.id, at |-> now]
<1>1. a \in Notification
  BY ConstantsAreGood DEF Notification, Row, UpdateRequest
<1>2. CASE q.to = "ASSIGNED" /\ q.driver # NoDriver
  <2>1. b \in Notification
    BY <1>2, ConstantsAreGood DEF Notification, UpdateRequest
  <2>2. StatusNotifications(row, q, now) = <<a, b>>
    BY <1>2 DEF StatusNotifications
  <2> QED BY <1>1, <2>1, <2>2
<1>3. CASE ~ (q.to = "ASSIGNED" /\ q.driver # NoDriver)
  <2>1. StatusNotifications(row, q, now) = <<a>>
    BY <1>3 DEF StatusNotifications
  <2> QED BY <1>1, <2>1
<1> QED BY <1>2, <1>3

-----------------------------------------------------------------------------
(* Type correctness.                                                         *)

LEMMA TypeOKInit == Init => TypeOK
BY DEF Init, TypeOK

(* The counter of a request tells what it holds.                             *)
LEMMA RequestTypes ==
  ASSUME TypeOK, NEW r \in Requests
  PROVE  /\ requests[r].pc = "update" => requests[r] \in UpdateRequest
         /\ requests[r].pc \in {"save", "enqueue"}
              => requests[r] \in DispatchRequest
<1>1. requests[r] \in {IdleRequest} \cup UpdateRequest \cup DispatchRequest
  BY DEF TypeOK
<1>2. CASE requests[r] = IdleRequest
  BY <1>2 DEF IdleRequest
<1>3. CASE requests[r] \in UpdateRequest
  <2>1. requests[r].pc = "update"
    BY <1>3 DEF UpdateRequest
  <2> QED BY <1>3, <2>1
<1>4. CASE requests[r] \in DispatchRequest
  <2>1. requests[r].pc \in {"save", "enqueue"}
    BY <1>4 DEF DispatchRequest
  <2> QED BY <1>4, <2>1
<1> QED BY <1>1, <1>2, <1>3, <1>4

LEMMA TypeOKNext ==
  ASSUME TypeOK, ShipmentsInv, [Next]_vars
  PROVE  TypeOK'
<1>1. ASSUME NEW s \in ShipmentIds, NEW u \in Users, NEW c \in Customers,
             Create(s, u, c)
      PROVE  TypeOK'
  <2>1. [ company |-> CompanyOf[u], customer |-> c, driver |-> NoDriver,
          status |-> "PENDING", assignedAt |-> 0, deliveredAt |-> 0 ] \in Row
    BY <1>1, ConstantsAreGood DEF Create, Row, ShipmentStatus
  <2>2. [from |-> NoStatus, to |-> "PENDING", changedAt |-> 0] \in HistoryRow
    BY DEF HistoryRow, ShipmentStatus
  <2> QED BY <1>1, <2>1, <2>2 DEF Create, TypeOK
<1>2. ASSUME NEW r \in Requests, NEW s \in ShipmentIds, NEW u \in Users,
             NEW to \in ShipmentStatus,
             NEW d \in Drivers \cup {NoDriver, EmptyId},
             BeginUpdate(r, s, u, to, d)
      PROVE  TypeOK'
  <2>1. shipments[s] \in Row
    BY <1>2 DEF BeginUpdate, Exists, TypeOK
  <2>2. resolveDriverId(to, d, shipments[s].driver) \in Drivers \cup {NoDriver}
    BY <1>2, <2>1, AcceptedDriver DEF BeginUpdate
  <2>3. [ pc |-> "update", id |-> s, actor |-> u, existing |-> shipments[s],
          to |-> to, driver |-> resolveDriverId(to, d, shipments[s].driver),
          since |-> Len(history[s]) ]
          \in UpdateRequest
    BY <2>1, <2>2 DEF UpdateRequest, TypeOK
  <2> QED BY <1>2, <2>3 DEF BeginUpdate, TypeOK
<1>3. ASSUME NEW r \in Requests, WriteStatus(r)
      PROVE  TypeOK'
  <2> DEFINE q == requests[r]
             now == Len(history[q.id]) + 1
             row == shipments[q.id]
  <2>1. q \in UpdateRequest
    BY <1>3, RequestTypes DEF WriteStatus
  <2>2. q.id \in ShipmentIds /\ now \in Nat
    BY <2>1 DEF UpdateRequest, TypeOK
  <2>3. row \in Row
    BY <1>3, <2>2 DEF WriteStatus, ShipmentsInv, UpdateFacts, Exists, TypeOK
  <2>4. UpdatedRow(row, q, now) \in Row
    BY <2>1, <2>2, <2>3, UpdatedRowIsRow
  <2>5. [pc |-> "save", todo |-> StatusNotifications(row, q, now)]
          \in DispatchRequest
    BY <2>1, <2>2, <2>3, StatusNotificationsType DEF DispatchRequest
  <2>6. \A changedAt \in q.since .. Len(history[q.id]) :
          [from |-> q.existing.status, to |-> q.to, changedAt |-> changedAt]
            \in HistoryRow
    BY <2>1 DEF UpdateRequest, HistoryRow, Row
  <2>7. shipments' \in [ShipmentIds -> Row \cup {NoShipment}]
    BY <1>3, <2>4 DEF WriteStatus, TypeOK
  <2>8. history' \in [ShipmentIds -> Seq(HistoryRow)]
    <3>1. PICK changedAt \in q.since .. Len(history[q.id]) :
            history' = [history EXCEPT ![q.id] =
              Append(@, [ from |-> q.existing.status, to |-> q.to,
                          changedAt |-> changedAt ])]
      BY <1>3 DEF WriteStatus
    <3> QED BY <2>2, <2>6, <3>1 DEF TypeOK
  <2>9. requests' \in [Requests -> {IdleRequest} \cup UpdateRequest
                                     \cup DispatchRequest]
    BY <1>3, <2>5 DEF WriteStatus, TypeOK
  <2> QED BY <1>3, <2>7, <2>8, <2>9 DEF WriteStatus, TypeOK
<1>4. ASSUME NEW r \in Requests, Notify(r)
      PROVE  TypeOK'
  <2>1. requests[r] \in DispatchRequest
    BY <1>4, RequestTypes DEF Notify
  <2>2. Head(requests[r].todo) \in Notification
    BY <2>1 DEF DispatchRequest
  <2>3. [requests[r] EXCEPT !.pc = "enqueue"] \in DispatchRequest
    BY <2>1 DEF DispatchRequest
  <2> QED BY <1>4, <2>2, <2>3 DEF Notify, SaveNotification, TypeOK
<1>5. ASSUME NEW r \in Requests, Enqueue(r)
      PROVE  TypeOK'
  <2> DEFINE todo == requests[r].todo
  <2>1. todo \in Seq(Notification) /\ todo # <<>>
    BY <1>5, RequestTypes DEF Enqueue, DispatchRequest
  <2>2. Head(todo) \in Notification
    BY <2>1
  <2>3. ASSUME Len(todo) # 1
        PROVE  [pc |-> "save", todo |-> Tail(todo)] \in DispatchRequest
    <3>1. Tail(todo) \in Seq(Notification) /\ Len(Tail(todo)) = Len(todo) - 1
      BY <2>1, HeadTailProperties
    <3>2. Len(todo) \in Nat \ {0}
      BY <2>1, EmptySeq
    <3>3. Len(Tail(todo)) # 0
      BY <3>1, <3>2, <2>3
    <3>4. Tail(todo) # <<>>
      BY <3>3, EmptySeq
    <3> QED BY <3>1, <3>4 DEF DispatchRequest
  <2>4. requests' \in [Requests -> {IdleRequest} \cup UpdateRequest
                                     \cup DispatchRequest]
    BY <1>5, <2>3 DEF Enqueue, TypeOK
  <2> QED BY <1>5, <2>2, <2>4 DEF Enqueue, AddJob, TypeOK
<1>6. ASSUME NEW r \in Requests, Abort(r)
      PROVE  TypeOK'
  BY <1>6 DEF Abort, TypeOK
<1>7. CASE UNCHANGED vars
  BY <1>7 DEF vars, TypeOK
<1> QED
  BY <1>1, <1>2, <1>3, <1>4, <1>5, <1>6, <1>7 DEF Next

-----------------------------------------------------------------------------
(* The inductive invariant.                                                  *)

(* What is true of a row that was read stays true while history rows are     *)
(* appended.                                                                 *)
LEMMA RowFactsMonotone ==
  ASSUME TypeOK, TypeOK',
         NEW s \in ShipmentIds, NEW row \in Row, RowFacts(s, row),
         NEW e \in HistoryRow,
         history'[s] = history[s] \/ history'[s] = Append(history[s], e)
  PROVE  RowFacts(s, row)'
<1>1. row.assignedAt \in Nat /\ history[s] \in Seq(HistoryRow)
  BY DEF Row, TypeOK
<1>2. /\ Len(history'[s]) \in Nat
      /\ Len(history[s]) \in Nat
      /\ Len(history'[s]) >= Len(history[s])
      /\ \A i \in 1 .. Len(history[s]) : history'[s][i] = history[s][i]
  BY <1>1, AppendProperties
<1> HIDE DEF TypeOK
<1> QED BY <1>1, <1>2 DEF RowFacts

(* A row just written, about to be committed with the history row that says  *)
(* so: the facts of the row the request once read, and the checks it then    *)
(* made, give the facts of the row it writes.                                *)
LEMMA RowFactsOfWrite ==
  ASSUME TypeOK, TypeOK',
         NEW q \in UpdateRequest, UpdateFacts(q),
         NEW row \in Row, row.company = q.existing.company,
         NEW e \in HistoryRow, e.to = q.to,
         NEW now \in Nat, now = Len(history[q.id]) + 1,
         history'[q.id] = Append(history[q.id], e)
  PROVE  /\ RowFacts(q.id, UpdatedRow(row, q, now))'
         /\ UpdatedRow(row, q, now).deliveredAt \in {0, Len(history'[q.id])}
<1> DEFINE new == UpdatedRow(row, q, now)
           old == q.existing
<1>1. /\ q.id \in ShipmentIds
      /\ old \in Row
      /\ q.to \in ShipmentStatus
      /\ q.driver \in Drivers \cup {NoDriver}
  BY DEF UpdateRequest
<1>2. history[q.id] \in Seq(HistoryRow)
  BY <1>1 DEF TypeOK
<1>3. /\ Len(history[q.id]) \in Nat
      /\ Len(history'[q.id]) = now
      /\ history'[q.id][now] = e
  BY <1>2, AppendProperties
<1>4. RowFacts(q.id, old)'
  BY <1>1, RowFactsMonotone DEF UpdateFacts
<1>5. /\ new.status = q.to
      /\ new.driver = q.driver
      /\ new.company = old.company
      /\ new.assignedAt = IF q.to = "ASSIGNED" THEN now ELSE old.assignedAt
      /\ new.deliveredAt = IF q.to = "DELIVERED" THEN now ELSE old.deliveredAt
  BY DEF UpdatedRow, Row
<1>6. /\ old.status \notin TERMINAL_STATUSES
      /\ <<old.status, q.to>> \in ALLOWED_TRANSITIONS
      /\ q.to \in NeedsDriver => q.driver # NoDriver
      /\ q.to = "CANCELLED" => q.driver = old.driver
      /\ q.driver # NoDriver => DriverCompany[q.driver] = old.company
  BY DEF UpdateFacts, assertValidTransition
<1>7. /\ old.assignedAt \in Nat
      /\ old.deliveredAt \in Nat
      /\ old.deliveredAt = 0
  BY <1>1, <1>4, <1>6 DEF Row, RowFacts, TERMINAL_STATUSES
<1>8. /\ old.assignedAt # 0 => old.assignedAt \in 1 .. Len(history[q.id])
      /\ old.assignedAt # 0 => history'[q.id][old.assignedAt].to = "ASSIGNED"
      /\ old.status \in NeedsDriver => old.driver # NoDriver
      /\ old.driver # NoDriver <=> old.assignedAt # 0
  BY <1>4 DEF RowFacts, UpdateFacts
<1>9. q.to \in {"ASSIGNED", "CANCELLED", "IN_TRANSIT", "DELIVERED"}
  BY <1>6 DEF ALLOWED_TRANSITIONS
<1>10. q.to \in {"IN_TRANSIT", "DELIVERED"} => old.status \in NeedsDriver
  BY <1>6 DEF ALLOWED_TRANSITIONS, NeedsDriver
<1>11. new.driver # NoDriver <=> new.assignedAt # 0
  BY <1>3, <1>5, <1>6, <1>8, <1>9, <1>10 DEF NeedsDriver
<1>12. new.assignedAt # 0 =>
         /\ new.assignedAt \in 1 .. now
         /\ history'[q.id][new.assignedAt].to = "ASSIGNED"
  BY <1>3, <1>5, <1>7, <1>8
<1>13. /\ new.deliveredAt \in {0, now}
       /\ new.deliveredAt # 0 <=> q.to = "DELIVERED"
       /\ new.deliveredAt # 0 => new.assignedAt < new.deliveredAt
  BY <1>3, <1>5, <1>7, <1>8, <1>10
<1>14. \E j \in 1 .. Len(history'[q.id]) : history'[q.id][j].to = new.status
  BY <1>3, <1>5
<1>15. RowFacts(q.id, new)'
  BY <1>3, <1>5, <1>6, <1>11, <1>12, <1>13, <1>14 DEF RowFacts
<1> QED BY <1>3, <1>13, <1>15

(* A step that leaves both tables alone keeps the invariant if each request  *)
(* about to write either was so before or has just made its checks.          *)
LEMMA InvWhenTablesUnchanged ==
  ASSUME ShipmentsInv, UNCHANGED <<shipments, history>>,
         \A r \in Requests :
           requests'[r].pc = "update" =>
             \/ requests'[r] = requests[r]
             \/ UpdateFacts(requests'[r])
  PROVE  ShipmentsInv'
<1>1. ASSUME NEW r \in Requests, requests'[r].pc = "update"
      PROVE  UpdateFacts(requests[r])'
  <2>1. UpdateFacts(requests'[r])
    BY <1>1 DEF ShipmentsInv
  <2> QED BY <2>1 DEF UpdateFacts, RowFacts, Exists
<1> QED BY <1>1 DEF ShipmentsInv, HistoryIsTheRecord, RowFacts, Exists

(* A shipment whose history grows by a row that says what its status now is, *)
(* an allowed move out of a status the shipment has had.                     *)
LEMMA HistoryGrows ==
  ASSUME TypeOK, HistoryIsTheRecord, NEW s \in ShipmentIds, Exists(s),
         NEW e \in HistoryRow,
         NEW row \in Row, row.status = e.to,
         shipments' = [shipments EXCEPT ![s] = row],
         history' = [history EXCEPT ![s] = Append(@, e)],
         <<e.from, e.to>> \in ALLOWED_TRANSITIONS,
         \E j \in 1 .. Len(history[s]) :
           history[s][j].to = e.from /\ history[s][j].changedAt < e.changedAt
  PROVE  HistoryIsTheRecord'
<1> SUFFICES ASSUME NEW t \in ShipmentIds
             PROVE  LET h == history'[t]
                    IN  /\ Exists(t)' <=> h # <<>>
                        /\ Exists(t)' => shipments'[t].status = h[Len(h)].to
                        /\ \A i \in 2 .. Len(h) :
                             /\ <<h[i].from, h[i].to>> \in ALLOWED_TRANSITIONS
                             /\ \E j \in 1 .. i - 1 :
                                  /\ h[j].to = h[i].from
                                  /\ h[j].changedAt < h[i].changedAt
  BY DEF HistoryIsTheRecord, Exists
<1>1. history[t] \in Seq(HistoryRow)
  BY DEF TypeOK
<1>2. CASE t # s
  BY <1>2 DEF TypeOK, Exists, HistoryIsTheRecord
<1>3. CASE t = s
  <2> DEFINE h == history[s]
             g == history'[s]
  <2>1. g = Append(h, e) /\ shipments'[s] = row
    BY DEF TypeOK
  <2>2. /\ Len(h) \in Nat
        /\ Len(g) = Len(h) + 1
        /\ g # <<>>
        /\ g[Len(h) + 1] = e
        /\ \A i \in 1 .. Len(h) : g[i] = h[i]
    BY <1>1, <1>3, <2>1, AppendProperties
  <2>3. Exists(s)'
    BY <2>1, ConstantsAreGood DEF Exists
  <2>4. ASSUME NEW i \in 2 .. Len(g)
        PROVE  /\ <<g[i].from, g[i].to>> \in ALLOWED_TRANSITIONS
               /\ \E j \in 1 .. i - 1 :
                    g[j].to = g[i].from /\ g[j].changedAt < g[i].changedAt
    <3>1. CASE i = Len(h) + 1
      <4>1. PICK j \in 1 .. Len(h) :
              h[j].to = e.from /\ h[j].changedAt < e.changedAt
        OBVIOUS
      <4>2. g[i] = e /\ g[j] = h[j] /\ j \in 1 .. i - 1
        BY <2>2, <3>1
      <4> QED BY <4>1, <4>2
    <3>2. CASE i \in 2 .. Len(h)
      <4>1. /\ <<h[i].from, h[i].to>> \in ALLOWED_TRANSITIONS
            /\ \E j \in 1 .. i - 1 :
                 h[j].to = h[i].from /\ h[j].changedAt < h[i].changedAt
        BY <3>2 DEF HistoryIsTheRecord
      <4>2. g[i] = h[i] /\ \A j \in 1 .. i - 1 : g[j] = h[j]
        BY <2>2, <3>2
      <4> QED BY <4>1, <4>2
    <3>3. i = Len(h) + 1 \/ i \in 2 .. Len(h)
      BY <2>2
    <3> QED BY <3>1, <3>2, <3>3
  <2> QED BY <1>3, <2>1, <2>2, <2>3, <2>4, ZenonT(60)
<1> QED BY <1>2, <1>3

LEMMA InvInit == Init => ShipmentsInv
<1> SUFFICES ASSUME Init PROVE ShipmentsInv
  OBVIOUS
<1>1. \A s \in ShipmentIds : ~ Exists(s) /\ history[s] = <<>>
  BY DEF Init, Exists
<1>2. \A r \in Requests : requests[r].pc # "update"
  BY DEF Init, IdleRequest
<1>3. HistoryIsTheRecord
  BY <1>1, EmptySeq DEF HistoryIsTheRecord
<1>4. \A s \in ShipmentIds : 1 .. Len(history[s]) = {}
  BY <1>1, EmptySeq
<1> QED BY <1>1, <1>2, <1>3, <1>4 DEF ShipmentsInv

LEMMA InvCreate ==
  ASSUME TypeOK, TypeOK', ShipmentsInv,
         NEW s \in ShipmentIds, NEW u \in Users, NEW c \in Customers,
         Create(s, u, c)
  PROVE  ShipmentsInv'
<1> DEFINE row == [ company |-> CompanyOf[u], customer |-> c,
                    driver |-> NoDriver, status |-> "PENDING",
                    assignedAt |-> 0, deliveredAt |-> 0 ]
           e == [from |-> NoStatus, to |-> "PENDING", changedAt |-> 0]
<1>1. history[s] = <<>>
  BY DEF Create, ShipmentsInv, HistoryIsTheRecord
<1>2. /\ shipments'[s] = row
      /\ \A t \in ShipmentIds \ {s} : shipments'[t] = shipments[t]
      /\ history'[s] = <<e>>
      /\ \A t \in ShipmentIds \ {s} : history'[t] = history[t]
      /\ requests' = requests
  BY <1>1 DEF Create, TypeOK
<1>3. Len(history'[s]) = 1 /\ history'[s][1] = e
  BY <1>2
<1>4. row \in Row
  BY ConstantsAreGood DEF Row, ShipmentStatus, Create
<1>5. Exists(s)'
  BY <1>2, <1>4, ConstantsAreGood DEF Exists
<1>6. RowFacts(s, shipments[s])'
  BY <1>2, <1>3 DEF RowFacts, NeedsDriver
<1>7. ASSUME NEW t \in ShipmentIds, Exists(t)'
      PROVE  /\ RowFacts(t, shipments[t])'
             /\ shipments'[t].deliveredAt \in {0, Len(history'[t])}
  <2>1. CASE t = s
    BY <1>2, <1>6, <2>1
  <2>2. CASE t # s
    BY <1>2, <1>7, <2>2 DEF ShipmentsInv, RowFacts, Exists
  <2> QED BY <2>1, <2>2
<1>8. ASSUME NEW r \in Requests, requests'[r].pc = "update"
      PROVE  UpdateFacts(requests[r])'
  <2> DEFINE q == requests[r]
  <2>1. UpdateFacts(q)
    BY <1>2, <1>8 DEF ShipmentsInv
  <2>2. q \in UpdateRequest
    BY <1>2, <1>8, RequestTypes
  <2>3. q.id \in ShipmentIds \ {s}
    BY <2>1, <2>2 DEF UpdateFacts, UpdateRequest, Create
  <2>4. shipments'[q.id] = shipments[q.id] /\ history'[q.id] = history[q.id]
    BY <1>2, <2>3
  <2> QED BY <1>2, <2>1, <2>4 DEF UpdateFacts, RowFacts, Exists
<1>9. HistoryIsTheRecord'
  <2>1. ASSUME NEW t \in ShipmentIds, t # s
        PROVE  LET h == history'[t]
               IN  /\ Exists(t)' <=> h # <<>>
                   /\ Exists(t)' => shipments'[t].status = h[Len(h)].to
                   /\ \A i \in 2 .. Len(h) :
                        /\ <<h[i].from, h[i].to>> \in ALLOWED_TRANSITIONS
                        /\ \E j \in 1 .. i - 1 :
                             /\ h[j].to = h[i].from
                             /\ h[j].changedAt < h[i].changedAt
    BY <1>2, <2>1 DEF ShipmentsInv, HistoryIsTheRecord, Exists
  <2>2. /\ Exists(s)' <=> history'[s] # <<>>
        /\ shipments'[s].status = history'[s][Len(history'[s])].to
        /\ 2 .. Len(history'[s]) = {}
    BY <1>2, <1>3, <1>5
  <2> QED BY <2>1, <2>2 DEF HistoryIsTheRecord
<1>10. ASSUME NEW t \in ShipmentIds, NEW i \in 1 .. Len(history'[t])
       PROVE  history'[t][i].changedAt < i
  <2>1. CASE t = s
    <3>1. history'[t] = history'[s]
      BY <2>1
    <3>2. history'[s][1].changedAt = 0
      BY <1>3
    <3>3. i = 1
      BY <1>3, <3>1
    <3> QED BY <3>1, <3>2, <3>3
  <2>2. CASE t # s
    <3>1. \A j \in 1 .. Len(history[t]) : history[t][j].changedAt < j
      <4>1. \A p \in ShipmentIds : \A j \in 1 .. Len(history[p]) :
              history[p][j].changedAt < j
        BY Zenon DEF ShipmentsInv
      <4> QED BY <4>1
    <3>2. history'[t] = history[t]
      BY <1>2, <2>2
    <3> QED BY <3>1, <3>2
  <2> QED BY <2>1, <2>2
<1> QED BY <1>7, <1>8, <1>9, <1>10 DEF ShipmentsInv

LEMMA InvBeginUpdate ==
  ASSUME TypeOK, ShipmentsInv,
         NEW r \in Requests, NEW s \in ShipmentIds, NEW u \in Users,
         NEW to \in ShipmentStatus,
         NEW d \in Drivers \cup {NoDriver, EmptyId},
         BeginUpdate(r, s, u, to, d)
  PROVE  ShipmentsInv'
<1> DEFINE row == shipments[s]
           e == resolveDriverId(to, d, row.driver)
           q == [ pc |-> "update", id |-> s, actor |-> u, existing |-> row,
                  to |-> to, driver |-> e, since |-> Len(history[s]) ]
<1>1. row \in Row
  BY DEF BeginUpdate, Exists, TypeOK
<1>2. /\ e \in Drivers \cup {NoDriver}
      /\ to \in NeedsDriver => e # NoDriver
      /\ to = "CANCELLED" => e = row.driver
      /\ e \in {NoDriver, row.driver} \/ DriverCompany[e] = row.company
  BY <1>1, AcceptedDriver DEF BeginUpdate
<1>3. RowFacts(s, row)
  BY DEF BeginUpdate, ShipmentsInv
<1>4. row.driver # NoDriver => DriverCompany[row.driver] = row.company
  BY <1>3 DEF RowFacts
<1>5. assertValidTransition(row.status, to)
  BY DEF BeginUpdate, Accepts
<1>6. Exists(s)
  BY DEF BeginUpdate
<1>7. UpdateFacts(q)
  <2>1. \E j \in 1 .. Len(history[s]) : history[s][j].to = row.status
    BY <1>3 DEF RowFacts
  <2>2. Len(history[s]) \in 1 .. Len(history[s])
    BY <2>1 DEF TypeOK
  <2> QED BY <1>2, <1>3, <1>4, <1>5, <1>6, <2>1, <2>2 DEF UpdateFacts
<1>8. requests' = [requests EXCEPT ![r] = q]
  BY DEF BeginUpdate
<1>9. \A p \in Requests : requests'[p] = requests[p] \/ requests'[p] = q
  BY <1>8 DEF TypeOK
<1>10. UNCHANGED <<shipments, history>>
  BY DEF BeginUpdate
<1> QED BY <1>7, <1>9, <1>10, InvWhenTablesUnchanged

LEMMA InvWriteStatus ==
  ASSUME TypeOK, TypeOK', ShipmentsInv, NEW r \in Requests, WriteStatus(r)
  PROVE  ShipmentsInv'
<1>1. requests[r] \in UpdateRequest /\ UpdateFacts(requests[r])
  BY RequestTypes DEF WriteStatus, ShipmentsInv
<1> SUFFICES ASSUME NEW q \in UpdateRequest, q = requests[r], UpdateFacts(q)
             PROVE  ShipmentsInv'
  BY <1>1
<1>a. PICK changedAt \in q.since .. Len(history[q.id]) :
        history' = [history EXCEPT ![q.id] =
          Append(@, [ from |-> q.existing.status, to |-> q.to,
                      changedAt |-> changedAt ])]
  BY DEF WriteStatus
<1> DEFINE s == q.id
           now == Len(history[s]) + 1
           row == shipments[s]
           new == UpdatedRow(row, q, now)
           e == [ from |-> q.existing.status, to |-> q.to,
                  changedAt |-> changedAt ]
<1>b. q.since \in Nat /\ changedAt \in Nat
  BY DEF UpdateRequest
<1>2. /\ s \in ShipmentIds
      /\ now \in Nat
      /\ Exists(s)
      /\ row \in Row
      /\ row.company = q.existing.company
  BY DEF UpdateRequest, UpdateFacts, TypeOK, Exists
<1>3. /\ e \in HistoryRow
      /\ e.from = q.existing.status /\ e.to = q.to /\ e.changedAt = changedAt
  BY <1>b DEF UpdateRequest, HistoryRow, Row
<1>4. new \in Row /\ new.status = q.to /\ new.company = row.company
  <2>1. new \in Row
    BY <1>2, UpdatedRowIsRow
  <2> QED BY <1>2, <2>1 DEF UpdatedRow, Row
<1>5. /\ shipments' = [shipments EXCEPT ![s] = new]
      /\ history' = [history EXCEPT ![s] = Append(@, e)]
  BY <1>a DEF WriteStatus
<1>6. /\ shipments'[s] = new
      /\ history'[s] = Append(history[s], e)
      /\ \A t \in ShipmentIds \ {s} :
           shipments'[t] = shipments[t] /\ history'[t] = history[t]
  BY <1>2, <1>5 DEF TypeOK
<1>7. /\ <<e.from, e.to>> \in ALLOWED_TRANSITIONS
      /\ \E j \in 1 .. Len(history[s]) :
           history[s][j].to = e.from /\ history[s][j].changedAt < e.changedAt
  <2>1. PICK j \in 1 .. q.since : history[s][j].to = q.existing.status
    BY DEF UpdateFacts
  <2>2. history[s] \in Seq(HistoryRow) /\ Len(history[s]) \in Nat
    BY <1>2 DEF TypeOK
  <2>3. j \in 1 .. Len(history[s]) /\ j <= changedAt
    BY <1>a, <1>b, <2>2
  <2>4. history[s][j].changedAt < j /\ history[s][j] \in HistoryRow
    BY <1>2, <2>2, <2>3 DEF ShipmentsInv
  <2>5. history[s][j].changedAt < changedAt
    BY <1>b, <2>3, <2>4 DEF HistoryRow
  <2>6. <<q.existing.status, q.to>> \in ALLOWED_TRANSITIONS
    BY DEF UpdateFacts, assertValidTransition
  <2> HIDE DEF e
  <2> QED BY <1>3, <2>1, <2>3, <2>5, <2>6
<1>8. HistoryIsTheRecord'
  BY <1>2, <1>3, <1>4, <1>5, <1>7, HistoryGrows DEF ShipmentsInv
<1>9. /\ RowFacts(s, shipments[s])'
      /\ shipments'[s].deliveredAt \in {0, Len(history'[s])}
  <2>1. PICK now0 \in Nat, row0 \in Row : now0 = now /\ row0 = row
    BY <1>2
  <2>2. /\ row0.company = q.existing.company
        /\ now0 = Len(history[q.id]) + 1
        /\ history'[q.id] = Append(history[q.id], e)
    BY <1>2, <1>6, <2>1
  <2>3. PICK new0 : new0 = UpdatedRow(row0, q, now0)
    OBVIOUS
  <2>4. shipments'[s] = new0
    BY <1>6, <2>1, <2>3
  <2>5. /\ RowFacts(s, UpdatedRow(row0, q, now0))'
        /\ UpdatedRow(row0, q, now0).deliveredAt \in {0, Len(history'[s])}
    <3> HIDE DEF now, row, new, e
    <3> QED BY <1>3, <2>2, RowFactsOfWrite
  <2>6. RowFacts(s, new0)' /\ new0.deliveredAt \in {0, Len(history'[s])}
    <3> HIDE DEF now, row, new, e
    <3> QED BY <2>3, <2>5 DEF RowFacts
  <2> HIDE DEF now, row, new, e
  <2> QED BY <2>4, <2>6 DEF RowFacts
<1>10. ASSUME NEW t \in ShipmentIds, Exists(t)'
       PROVE  /\ RowFacts(t, shipments[t])'
              /\ shipments'[t].deliveredAt \in {0, Len(history'[t])}
  <2>1. CASE t = s
    BY <1>9, <2>1
  <2>2. CASE t # s
    BY <1>6, <1>10, <2>2, SMTT(40) DEF ShipmentsInv, RowFacts, Exists
  <2> QED BY <2>1, <2>2
<1>11. ASSUME NEW p \in Requests, requests'[p].pc = "update"
       PROVE  UpdateFacts(requests[p])'
  <2>1. requests'[p] = requests[p]
    BY <1>11 DEF WriteStatus, TypeOK
  <2>2. UpdateFacts(requests[p])
    BY <1>11, <2>1 DEF ShipmentsInv
  <2>3. requests[p] \in UpdateRequest
    BY <1>11, <2>1, RequestTypes
  <2> SUFFICES ASSUME NEW p0 \in UpdateRequest, p0 = requests[p]
               PROVE  UpdateFacts(p0)'
    BY <2>1, <2>3 DEF UpdateFacts, RowFacts, Exists
  <2>4. p0.id \in ShipmentIds /\ p0.existing \in Row
    BY DEF UpdateRequest
  <2>5. RowFacts(p0.id, p0.existing)'
    <3>1. RowFacts(p0.id, p0.existing)
      BY <2>2 DEF UpdateFacts
    <3>2. \/ history'[p0.id] = history[p0.id]
          \/ history'[p0.id] = Append(history[p0.id], e)
      BY <1>6, <2>4
    <3>3. e \in HistoryRow
      BY <1>3
    <3> HIDE DEF s, now, row, new, e
    <3> QED BY <2>4, <3>1, <3>2, <3>3, RowFactsMonotone
  <2>6. /\ Exists(p0.id)'
        /\ shipments'[p0.id].company = shipments[p0.id].company
    BY <1>4, <1>6, <2>2, <2>4, ConstantsAreGood DEF UpdateFacts, Exists
  <2>7. /\ p0.since \in 1 .. Len(history'[p0.id])
        /\ \E j \in 1 .. p0.since :
             history'[p0.id][j].to = p0.existing.status
    <3>1. /\ p0.since \in 1 .. Len(history[p0.id])
          /\ \E j \in 1 .. p0.since :
               history[p0.id][j].to = p0.existing.status
      BY <2>2 DEF UpdateFacts
    <3>2. /\ Len(history'[p0.id]) \in Nat
          /\ Len(history[p0.id]) \in Nat
          /\ Len(history'[p0.id]) >= Len(history[p0.id])
          /\ \A i \in 1 .. Len(history[p0.id]) :
               history'[p0.id][i] = history[p0.id][i]
      <4>1. history[p0.id] \in Seq(HistoryRow)
        BY <2>4 DEF TypeOK
      <4>2. \/ history'[p0.id] = history[p0.id]
            \/ history'[p0.id] = Append(history[p0.id], e)
        BY <1>6, <2>4
      <4> HIDE DEF e
      <4> QED BY <1>3, <4>1, <4>2, AppendProperties
    <3> QED BY <3>1, <3>2
  <2> QED BY <2>2, <2>5, <2>6, <2>7 DEF UpdateFacts
<1>12. ASSUME NEW t \in ShipmentIds, NEW i \in 1 .. Len(history'[t])
       PROVE  history'[t][i].changedAt < i
  <2>1. history[t] \in Seq(HistoryRow) /\ Len(history[t]) \in Nat
    BY DEF TypeOK
  <2>2. CASE t # s
    BY <1>6, <2>2 DEF ShipmentsInv
  <2>3. CASE t = s
    <3>1. /\ Len(history'[s]) = Len(history[s]) + 1
          /\ history'[s][Len(history[s]) + 1] = e
          /\ \A j \in 1 .. Len(history[s]) : history'[s][j] = history[s][j]
      <4> HIDE DEF e
      <4> QED BY <1>3, <1>6, <2>1, <2>3, AppendProperties
    <3>2. CASE i \in 1 .. Len(history[s])
      BY <2>3, <3>1, <3>2 DEF ShipmentsInv
    <3>3. CASE i = Len(history[s]) + 1
      <4>1. history'[t][i].changedAt = changedAt
        BY <1>3, <2>3, <3>1, <3>3
      <4> QED BY <1>a, <1>b, <2>1, <2>3, <3>3, <4>1
    <3> QED BY <2>1, <2>3, <3>1, <3>2, <3>3
  <2> QED BY <2>2, <2>3
<1> QED BY <1>8, <1>10, <1>11, <1>12 DEF ShipmentsInv

LEMMA InvNext ==
  ASSUME TypeOK, TypeOK', ShipmentsInv, [Next]_vars
  PROVE  ShipmentsInv'
<1>1. ASSUME NEW r \in Requests, Notify(r)
      PROVE  ShipmentsInv'
  <2>1. requests[r] \in DispatchRequest
    BY <1>1, RequestTypes DEF Notify
  <2>2. \A p \in Requests :
          requests'[p] = requests[p] \/ requests'[p].pc = "enqueue"
    BY <1>1, <2>1 DEF Notify, TypeOK, DispatchRequest
  <2> QED BY <1>1, <2>2, InvWhenTablesUnchanged DEF Notify
<1>2. ASSUME NEW r \in Requests, Enqueue(r)
      PROVE  ShipmentsInv'
  <2>1. \A p \in Requests :
          requests'[p] = requests[p] \/ requests'[p].pc \in {"idle", "save"}
    BY <1>2 DEF Enqueue, TypeOK, IdleRequest
  <2> QED BY <1>2, <2>1, InvWhenTablesUnchanged DEF Enqueue
<1>3. ASSUME NEW r \in Requests, Abort(r)
      PROVE  ShipmentsInv'
  <2>1. \A p \in Requests :
          requests'[p] = requests[p] \/ requests'[p].pc = "idle"
    BY <1>3 DEF Abort, TypeOK, IdleRequest
  <2> QED BY <1>3, <2>1, InvWhenTablesUnchanged DEF Abort
<1>4. CASE UNCHANGED vars
  BY <1>4, InvWhenTablesUnchanged DEF vars
<1> QED
  BY <1>1, <1>2, <1>3, <1>4, InvCreate, InvBeginUpdate, InvWriteStatus DEF Next

-----------------------------------------------------------------------------
(* The theorems.                                                             *)

(* Every value of the tables and of the requests stays in its type: a write  *)
(* never stores the empty driver id a body may carry, and never the row of a *)
(* shipment that does not exist.                                             *)
THEOREM TypeCorrect == Spec => []TypeOK
<1>1. Init => TypeOK /\ ShipmentsInv
  BY TypeOKInit, InvInit
<1>2. TypeOK /\ ShipmentsInv /\ [Next]_vars => (TypeOK /\ ShipmentsInv)'
  BY TypeOKNext, InvNext
<1> QED BY <1>1, <1>2, PTL DEF Spec

(* The inductive invariant holds in every reachable state.                   *)
THEOREM InvariantHolds == Spec => []ShipmentsInv
<1>1. Init => TypeOK /\ ShipmentsInv
  BY TypeOKInit, InvInit
<1>2. TypeOK /\ ShipmentsInv /\ [Next]_vars => (TypeOK /\ ShipmentsInv)'
  BY TypeOKNext, InvNext
<1> QED BY <1>1, <1>2, PTL DEF Spec

(* However many stale writes cross, a shipment that needs a driver has one,  *)
(* and the driver is one of its company.                                     *)
THEOREM DriversAlwaysThere == Spec => []ActiveShipmentHasDriver
<1>1. ShipmentsInv => ActiveShipmentHasDriver
  BY DEF ShipmentsInv, RowFacts, ActiveShipmentHasDriver
<1> QED BY <1>1, InvariantHolds, PTL

(* assignedAt and deliveredAt always agree with the status and the history.  *)
THEOREM TimestampsAlwaysMatch == Spec => []TimestampsMatchStatus
<1>1. ShipmentsInv => TimestampsMatchStatus
  BY DEF ShipmentsInv, RowFacts, TimestampsMatchStatus
<1> QED BY <1>1, InvariantHolds, PTL

(* The last row to be committed always has the current status, and each row  *)
(* is an allowed move out of a status the shipment had and shows before it.  *)
(* It says nothing of the row shown last, which is another one where two     *)
(* updates overlapped.                                                       *)
THEOREM HistoryAlwaysTheRecord == Spec => []HistoryIsTheRecord
<1>1. ShipmentsInv => HistoryIsTheRecord
  BY DEF ShipmentsInv
<1> QED BY <1>1, InvariantHolds, PTL

(* The only step that changes the row of a shipment is the write of a        *)
(* request that passed its checks.                                           *)
LEMMA RowChanges ==
  ASSUME TypeOK, ShipmentsInv, [Next]_vars,
         NEW s \in ShipmentIds, Exists(s), shipments'[s] # shipments[s]
  PROVE  \E r \in Requests :
           /\ WriteStatus(r)
           /\ requests[r].pc = "update"
           /\ requests[r] \in UpdateRequest
           /\ UpdateFacts(requests[r])
           /\ requests[r].id = s
           /\ shipments'[s] = UpdatedRow(shipments[s], requests[r],
                                         Len(history[s]) + 1)
           /\ shipments' = [shipments EXCEPT ![s] = shipments'[s]]
           /\ shipments'[s].status = requests[r].to
<1>1. \A u \in Users, t \in ShipmentIds, c \in Customers :
        ~ Create(t, u, c)
  BY DEF Create, TypeOK, Exists
<1>2. \A r \in Requests : ~ Notify(r) /\ ~ Enqueue(r) /\ ~ Abort(r)
  BY DEF Notify, Enqueue, Abort
<1>3. \A r \in Requests, t \in ShipmentIds, u \in Users,
         to \in ShipmentStatus, d \in Drivers \cup {NoDriver, EmptyId} :
           ~ BeginUpdate(r, t, u, to, d)
  BY DEF BeginUpdate
<1>4. shipments' # shipments
  OBVIOUS
<1>5. PICK r \in Requests : WriteStatus(r)
  BY <1>1, <1>2, <1>3, <1>4 DEF Next, vars
<1>6. /\ requests[r].pc = "update"
      /\ requests[r] \in UpdateRequest
      /\ UpdateFacts(requests[r])
  BY <1>5, RequestTypes DEF WriteStatus, ShipmentsInv
<1>7. requests[r].id = s
  BY <1>5, <1>6 DEF WriteStatus, TypeOK, UpdateRequest
<1>8. /\ shipments'[s] = UpdatedRow(shipments[s], requests[r],
                                    Len(history[s]) + 1)
      /\ shipments' = [shipments EXCEPT ![s] = shipments'[s]]
  BY <1>5, <1>7 DEF WriteStatus, TypeOK
<1>9. shipments[s] \in Row
  BY DEF TypeOK, Exists
<1>10. shipments'[s].status = requests[r].to
  BY <1>8, <1>9 DEF UpdatedRow, Row
<1> QED BY <1>5, <1>6, <1>7, <1>8, <1>10

(* No write goes back to PENDING, and only a cancellation ever clears the    *)
(* driver and the date of the assignment, both at once.                      *)
THEOREM AssignmentIsKept == Spec => OnlyCancellingUnassigns
<1>1. ASSUME TypeOK, TypeOK', ShipmentsInv, ShipmentsInv', [Next]_vars,
             NEW s \in ShipmentIds, Exists(s)
      PROVE  UnassignsByCancelling(shipments[s], shipments'[s])
  <2>1. CASE shipments'[s] = shipments[s]
    <3>1. RowFacts(s, shipments[s])
      BY <1>1 DEF ShipmentsInv
    <3> QED BY <2>1, <3>1 DEF UnassignsByCancelling, RowFacts
  <2>2. CASE shipments'[s] # shipments[s]
    <3>1. PICK r \in Requests : /\ requests[r] \in UpdateRequest
                                /\ UpdateFacts(requests[r])
                                /\ shipments'[s].status = requests[r].to
                                /\ WriteStatus(r)
                                /\ requests[r].id = s
                                /\ shipments'[s] =
                                     UpdatedRow(shipments[s], requests[r],
                                                Len(history[s]) + 1)
      BY <1>1, <2>2, RowChanges
    <3>2. requests[r].to \in NeedsDriver \cup {"CANCELLED"}
      BY <3>1 DEF UpdateFacts, assertValidTransition, ALLOWED_TRANSITIONS,
                  NeedsDriver
    <3>3. RowFacts(s, shipments[s])
      BY <1>1 DEF ShipmentsInv
    <3>4. Exists(s)'
      <4>1. shipments[s] \in Row
        BY <1>1 DEF TypeOK, Exists
      <4>2. Len(history[s]) + 1 \in Nat
        BY <1>1 DEF TypeOK
      <4> QED BY <3>1, <4>1, <4>2, UpdatedRowIsRow, ConstantsAreGood
              DEF Exists
    <3>5. RowFacts(s, shipments[s])'
      BY <1>1, <3>4 DEF ShipmentsInv
    <3> QED
      BY <3>1, <3>2, <3>3, <3>5
         DEF UnassignsByCancelling, RowFacts, NeedsDriver
  <2> QED BY <2>1, <2>2
<1>2. TypeOK /\ TypeOK' /\ ShipmentsInv /\ ShipmentsInv' /\ [Next]_vars
        => [ \A s \in ShipmentIds : Exists(s) =>
               UnassignsByCancelling(shipments[s], shipments'[s]) ]_vars
  BY <1>1
<1> QED
  BY <1>2, TypeCorrect, InvariantHolds, PTL DEF Spec, OnlyCancellingUnassigns

-----------------------------------------------------------------------------
(* Refinement.  With one request at a time the row a request read is still   *)
(* the row it replaces.                                                      *)
OneAtATime == \A r1, r2 \in Requests : r1 = r2

NothingIsStale ==
  \A r \in Requests :
    requests[r].pc = "update" => requests[r].existing = shipments[requests[r].id]

(* A request about to write was so before the step, or has just begun.       *)
LEMMA UpdateOrigin ==
  ASSUME TypeOK, [Next]_vars, NEW r \in Requests, requests'[r].pc = "update"
  PROVE  \/ requests'[r] = requests[r]
         \/ \E s \in ShipmentIds, u \in Users, to \in ShipmentStatus,
              d \in Drivers \cup {NoDriver, EmptyId} : BeginUpdate(r, s, u, to, d)
<1> SUFFICES ASSUME requests'[r] # requests[r]
             PROVE  \E s \in ShipmentIds, u \in Users, to \in ShipmentStatus,
                      d \in Drivers \cup {NoDriver, EmptyId} :
                        BeginUpdate(r, s, u, to, d)
  OBVIOUS
<1>1. ASSUME NEW p \in Requests, NEW s \in ShipmentIds, NEW u \in Users,
             NEW to \in ShipmentStatus,
             NEW d \in Drivers \cup {NoDriver, EmptyId},
             BeginUpdate(p, s, u, to, d)
      PROVE  p = r
  BY <1>1 DEF BeginUpdate, TypeOK
<1>2. ASSUME NEW p \in Requests, WriteStatus(p) PROVE FALSE
  BY <1>2 DEF WriteStatus, TypeOK
<1>3. ASSUME NEW p \in Requests, Notify(p) PROVE FALSE
  <2>1. requests[p] \in DispatchRequest
    BY <1>3, RequestTypes DEF Notify
  <2> QED BY <1>3, <2>1 DEF Notify, TypeOK, DispatchRequest
<1>4. ASSUME NEW p \in Requests, Enqueue(p) PROVE FALSE
  BY <1>4 DEF Enqueue, TypeOK, IdleRequest
<1>5. ASSUME NEW p \in Requests, Abort(p) PROVE FALSE
  BY <1>5 DEF Abort, TypeOK, IdleRequest
<1>6. ASSUME NEW s \in ShipmentIds, NEW u \in Users, NEW c \in Customers,
             Create(s, u, c)
      PROVE  FALSE
  BY <1>6 DEF Create
<1>7. ~ UNCHANGED vars
  BY DEF vars
<1> QED BY <1>1, <1>2, <1>3, <1>4, <1>5, <1>6, <1>7 DEF Next

LEMMA NothingIsStaleNext ==
  ASSUME OneAtATime, TypeOK, ShipmentsInv, NothingIsStale, [Next]_vars
  PROVE  NothingIsStale'
<1>1. ASSUME NEW r \in Requests, requests'[r].pc = "update",
             requests'[r] = requests[r]
      PROVE  requests'[r].existing = shipments'[requests'[r].id]
  <2>1. /\ requests[r] \in UpdateRequest
        /\ Exists(requests[r].id)
    BY <1>1, RequestTypes DEF ShipmentsInv, UpdateFacts
  <2>2. ASSUME shipments'[requests[r].id] # shipments[requests[r].id]
        PROVE  FALSE
    <3>1. \E p \in Requests : WriteStatus(p)
      BY <2>1, <2>2, RowChanges DEF UpdateRequest
    <3>2. WriteStatus(r)
      BY <3>1 DEF OneAtATime
    <3>3. requests'[r].pc = "save"
      BY <3>2 DEF WriteStatus, TypeOK
    <3> QED BY <1>1, <3>3
  <2> QED BY <1>1, <2>2 DEF NothingIsStale
<1>2. ASSUME NEW r \in Requests, requests'[r].pc = "update",
             requests'[r] # requests[r]
      PROVE  requests'[r].existing = shipments'[requests'[r].id]
  <2>1. PICK s \in ShipmentIds, u \in Users, to \in ShipmentStatus,
             d \in Drivers \cup {NoDriver, EmptyId} : BeginUpdate(r, s, u, to, d)
    BY <1>2, UpdateOrigin
  <2> QED BY <2>1 DEF BeginUpdate, TypeOK
<1> QED BY <1>1, <1>2 DEF NothingIsStale

(* A step of the service is a step of the diagram, or none.                  *)
LEMMA LifecycleStep ==
  ASSUME TypeOK, ShipmentsInv, NothingIsStale, [Next]_vars
  PROVE  [Lifecycle!Next]_StatusOf
<1>1. CASE StatusOf' = StatusOf
  BY <1>1
<1>2. CASE StatusOf' # StatusOf
  <2>1. PICK s \in ShipmentIds : shipments'[s] # shipments[s]
    BY <1>2 DEF StatusOf, Exists
  <2>2. CASE Exists(s)
    <3>1. PICK r \in Requests :
            /\ requests[r].pc = "update"
            /\ UpdateFacts(requests[r])
            /\ requests[r] \in UpdateRequest
            /\ requests[r].id = s
            /\ shipments'[s] = UpdatedRow(shipments[s], requests[r],
                                          Len(history[s]) + 1)
            /\ shipments' = [shipments EXCEPT ![s] = shipments'[s]]
            /\ shipments'[s].status = requests[r].to
      BY <2>1, <2>2, RowChanges
    <3> DEFINE to == requests[r].to
    <3>2. <<shipments[s].status, to>> \in ALLOWED_TRANSITIONS
      BY <3>1 DEF NothingIsStale, UpdateFacts, assertValidTransition
    <3>3. Exists(s)'
      <4>1. shipments[s] \in Row /\ Len(history[s]) + 1 \in Nat
        BY <2>2 DEF TypeOK, Exists
      <4> QED BY <3>1, <4>1, UpdatedRowIsRow, ConstantsAreGood DEF Exists
    <3>4. StatusOf' = [StatusOf EXCEPT ![s] = to]
      BY <3>1, <3>3 DEF StatusOf, Exists, TypeOK
    <3>5. StatusOf[s] = shipments[s].status
      BY <2>2 DEF StatusOf
    <3>6. to \in ShipmentStatus
      BY <3>1 DEF UpdateRequest
    <3>7. /\ Lifecycle!ShipmentStatus = ShipmentStatus
          /\ Lifecycle!ALLOWED_TRANSITIONS = ALLOWED_TRANSITIONS
      BY DEF Lifecycle!ShipmentStatus, ShipmentStatus,
             Lifecycle!ALLOWED_TRANSITIONS, ALLOWED_TRANSITIONS
    <3>8. Lifecycle!Advance(s, to)
      BY <3>2, <3>4, <3>5, <3>7 DEF Lifecycle!Advance
    <3> QED BY <3>6, <3>7, <3>8 DEF Lifecycle!Next
  <2>3. CASE ~ Exists(s)
    <3>1. ASSUME NEW r \in Requests, WriteStatus(r) PROVE FALSE
      <4>1. /\ requests[r] \in UpdateRequest
            /\ Exists(requests[r].id)
        BY <3>1, RequestTypes DEF WriteStatus, ShipmentsInv, UpdateFacts
      <4> QED BY <2>1, <2>3, <3>1, <4>1
              DEF WriteStatus, TypeOK, Exists, UpdateRequest
    <3>2. PICK t \in ShipmentIds, u \in Users, c \in Customers :
            Create(t, u, c)
      BY <2>1, <3>1 DEF Next, vars, BeginUpdate, Notify, Enqueue, Abort
    <3>3. t = s
      BY <2>1, <3>2 DEF Create, TypeOK
    <3> DEFINE row == [ company |-> CompanyOf[u], customer |-> c,
                        driver |-> NoDriver, status |-> "PENDING",
                        assignedAt |-> 0, deliveredAt |-> 0 ]
    <3>4. shipments' = [shipments EXCEPT ![s] = row]
      BY <3>2, <3>3 DEF Create
    <3>5. row \in Row
      BY <3>2, ConstantsAreGood DEF Create, Row, ShipmentStatus
    <3>6. StatusOf' = [StatusOf EXCEPT ![s] = "PENDING"]
      BY <3>4, <3>5, ConstantsAreGood DEF StatusOf, Exists, TypeOK
    <3>7. StatusOf[s] = NoStatus
      BY <2>3 DEF StatusOf
    <3> QED BY <3>6, <3>7 DEF Lifecycle!Next, Lifecycle!Create
  <2> QED BY <2>2, <2>3
<1> QED BY <1>1, <1>2

(* If requests never overlap, the service implements the lifecycle diagram:  *)
(* what breaks it is the interleaving alone.                                 *)
THEOREM SerialRequestsFollowTheLifecycle ==
  ASSUME OneAtATime
  PROVE  Spec => LifecycleSpec
<1>1. Init => NothingIsStale /\ Lifecycle!Init
  BY DEF Init, NothingIsStale, IdleRequest, Lifecycle!Init, StatusOf, Exists
<1>2. TypeOK /\ ShipmentsInv /\ NothingIsStale /\ [Next]_vars
        => NothingIsStale'
  BY NothingIsStaleNext
<1>3. TypeOK /\ ShipmentsInv /\ NothingIsStale /\ [Next]_vars
        => [Lifecycle!Next]_StatusOf
  BY LifecycleStep
<1> QED
  BY <1>1, <1>2, <1>3, TypeCorrect, InvariantHolds, PTL
     DEF Spec, LifecycleSpec, Lifecycle!Spec

(* A request of a driver was checked to be about a shipment of that driver:  *)
(* the row it keeps names them.                                              *)
DriversActOnTheirs ==
  \A r \in Requests :
    requests[r].pc = "update" /\ RoleOf[requests[r].actor] = "DRIVER"
      => LET d == requests[r].existing.driver
         IN  d # NoDriver /\ DriverUser[d] = requests[r].actor

LEMMA DriversActOnTheirsNext ==
  ASSUME TypeOK, DriversActOnTheirs, [Next]_vars
  PROVE  DriversActOnTheirs'
<1> SUFFICES ASSUME NEW r \in Requests, requests'[r].pc = "update",
                    RoleOf[requests'[r].actor] = "DRIVER"
             PROVE  /\ requests'[r].existing.driver # NoDriver
                    /\ DriverUser[requests'[r].existing.driver]
                         = requests'[r].actor
  BY DEF DriversActOnTheirs
<1>1. CASE requests'[r] = requests[r]
  BY <1>1 DEF DriversActOnTheirs
<1>2. ASSUME NEW s \in ShipmentIds, NEW u \in Users, NEW to \in ShipmentStatus,
             NEW d \in Drivers \cup {NoDriver, EmptyId},
             BeginUpdate(r, s, u, to, d)
      PROVE  /\ requests'[r].existing.driver # NoDriver
             /\ DriverUser[requests'[r].existing.driver] = requests'[r].actor
  <2>1. requests'[r].actor = u /\ requests'[r].existing = shipments[s]
    BY <1>2 DEF BeginUpdate, TypeOK
  <2>2. \E e \in Drivers : DriverUser[e] = u /\ shipments[s].driver = e
    BY <1>2, <2>1 DEF BeginUpdate, Accepts, assertDriverCanUpdate
  <2> QED BY <2>1, <2>2, NullsAssumption
<1> QED BY <1>1, <1>2, UpdateOrigin

(* If requests never overlap, a driver changes no shipment but their own:    *)
(* the check of the row read (shipments.service.ts:276) is then a check of   *)
(* the row replaced.                                                         *)
THEOREM DriversKeepToTheirs ==
  ASSUME OneAtATime
  PROVE  Spec => DriversUpdateOnlyTheirs
<1>1. Init => NothingIsStale /\ DriversActOnTheirs
  BY DEF Init, NothingIsStale, DriversActOnTheirs, IdleRequest
<1>2. TypeOK /\ ShipmentsInv /\ NothingIsStale /\ [Next]_vars
        => NothingIsStale'
  BY NothingIsStaleNext
<1>3. TypeOK /\ DriversActOnTheirs /\ [Next]_vars => DriversActOnTheirs'
  BY DriversActOnTheirsNext
<1>4. NothingIsStale /\ DriversActOnTheirs
        => [ \A r \in Requests :
               WriteStatus(r) /\ RoleOf[requests[r].actor] = "DRIVER"
                 => LET d == shipments[requests[r].id].driver
                    IN  d # NoDriver /\ DriverUser[d] = requests[r].actor ]_vars
  BY DEF NothingIsStale, DriversActOnTheirs, WriteStatus
<1> QED
  BY <1>1, <1>2, <1>3, <1>4, TypeCorrect, InvariantHolds, PTL
     DEF Spec, DriversUpdateOnlyTheirs

-----------------------------------------------------------------------------
(* The notifications: what they say is committed.                            *)

(* What one notification reports of the tables.                              *)
GoodNotice(n) ==
  /\ n.at \in 2 .. Len(history[n.shipment])
  /\ LET to == history[n.shipment][n.at].to
     IN  CASE n.type = "DELIVERED" -> to = "DELIVERED"
           [] n.type = "STATUS_CHANGED" -> to # "DELIVERED"
           [] n.type = "SHIPMENT_ASSIGNED" -> to = "ASSIGNED"
  /\ IF n.type = "SHIPMENT_ASSIGNED"
       THEN \E d \in Drivers :
              /\ DriverUser[d] = n.user
              /\ DriverCompany[d] = shipments[n.shipment].company
       ELSE n.user = shipments[n.shipment].customer

Dispatching(r) == requests[r].pc \in {"save", "enqueue"}

(* The notifications a request has still to add to the queue.                *)
InTodo(r, n) ==
  Dispatching(r) /\ \E i \in 1 .. Len(requests[r].todo) : requests[r].todo[i] = n

InQueue(n) == \E i \in 1 .. Len(queue) : queue[i] = n

(* A notification is made by one request, which saves it once: until it is   *)
(* saved nobody else has it.                                                 *)
NoticeInv ==
  /\ \A n \in notifications : GoodNotice(n)
  /\ \A r \in Requests, n \in Notification :
       InTodo(r, n) =>
         /\ GoodNotice(n)
         /\ \A q \in Requests \ {r} : ~ InTodo(q, n)
  /\ \A r \in Requests :
       Dispatching(r) =>
         \A i, j \in 1 .. Len(requests[r].todo) :
           requests[r].todo[i] = requests[r].todo[j] => i = j
  /\ \A r \in Requests, i \in Nat :
       Dispatching(r) /\ i \in 1 .. Len(requests[r].todo) =>
         (requests[r].todo[i] \in notifications
            <=> i = 1 /\ requests[r].pc = "enqueue")

(* Its job is added once: until then no job of the queue has it.             *)
QueueInv ==
  /\ \A r \in Requests, n \in Notification : InTodo(r, n) => ~ InQueue(n)
  /\ \A i \in 1 .. Len(queue) :
       /\ queue[i] \in notifications
       /\ \A j \in 1 .. i - 1 : queue[j] # queue[i]

-----------------------------------------------------------------------------

(* History rows are only ever appended.                                      *)
LEMMA HistoryAppends ==
  ASSUME TypeOK, TypeOK', [Next]_vars, NEW s \in ShipmentIds
  PROVE  \/ history'[s] = history[s]
         \/ \E e : history'[s] = Append(history[s], e)
<1>1. ASSUME NEW t \in ShipmentIds, NEW u \in Users, NEW c \in Customers,
             Create(t, u, c)
      PROVE  history'[s] = history[s]
               \/ \E e : history'[s] = Append(history[s], e)
  BY <1>1 DEF Create, TypeOK
<1>2. ASSUME NEW r \in Requests, WriteStatus(r)
      PROVE  history'[s] = history[s]
               \/ \E e : history'[s] = Append(history[s], e)
  <2> DEFINE q == requests[r]
  <2>1. PICK changedAt \in q.since .. Len(history[q.id]) :
          history' = [history EXCEPT ![q.id] =
            Append(@, [ from |-> q.existing.status, to |-> q.to,
                        changedAt |-> changedAt ])]
    BY <1>2 DEF WriteStatus
  <2> QED BY <2>1 DEF TypeOK
<1>3. CASE history' = history
  BY <1>3
<1> QED BY <1>1, <1>2, <1>3
        DEF Next, vars, BeginUpdate, Notify, Enqueue, Abort

(* What a notification says stays true: histories grow, and no update        *)
(* changes the customer or the company of a shipment.                        *)
LEMMA GoodStays ==
  ASSUME TypeOK, TypeOK', ShipmentsInv, [Next]_vars,
         NEW n \in Notification, GoodNotice(n)
  PROVE  GoodNotice(n)'
<1> DEFINE s == n.shipment
<1>1. s \in ShipmentIds /\ n.at \in Nat
  BY DEF Notification
<1>2. /\ Len(history[s]) \in Nat /\ Len(history'[s]) \in Nat
      /\ Len(history'[s]) >= Len(history[s])
      /\ \A i \in 1 .. Len(history[s]) : history'[s][i] = history[s][i]
  <2>1. history[s] \in Seq(HistoryRow) /\ history'[s] \in Seq(HistoryRow)
    BY <1>1 DEF TypeOK
  <2>2. CASE history'[s] = history[s]
    BY <2>1, <2>2
  <2>3. ASSUME NEW e, history'[s] = Append(history[s], e)
        PROVE  /\ Len(history'[s]) >= Len(history[s])
               /\ \A i \in 1 .. Len(history[s]) : history'[s][i] = history[s][i]
    BY <2>1, <2>3
  <2> QED BY <1>1, <2>1, <2>2, <2>3, HistoryAppends
<1>3. n.at \in 2 .. Len(history[s]) /\ n.at \in 1 .. Len(history[s])
  BY <1>1, <1>2 DEF GoodNotice
<1>4. Exists(s)
  <2>1. history[s] # <<>>
    BY <1>3
  <2> QED BY <1>1, <2>1 DEF ShipmentsInv, HistoryIsTheRecord
<1>5. /\ shipments'[s].company = shipments[s].company
      /\ shipments'[s].customer = shipments[s].customer
  <2>1. CASE shipments'[s] # shipments[s]
    <3>1. shipments[s] \in Row
      BY <1>1, <1>4 DEF TypeOK, Exists
    <3>2. PICK q, now : shipments'[s] = UpdatedRow(shipments[s], q, now)
      BY <1>1, <1>4, <2>1, RowChanges
    <3> QED BY <3>1, <3>2 DEF UpdatedRow, Row
  <2> QED BY <2>1
<1>6. n.at \in 2 .. Len(history'[s]) /\ history'[s][n.at] = history[s][n.at]
  BY <1>1, <1>2, <1>3
<1> QED BY <1>5, <1>6 DEF GoodNotice

LEMMA DispatchTypes ==
  ASSUME TypeOK, NEW r \in Requests, Dispatching(r)
  PROVE  /\ requests[r].todo \in Seq(Notification)
         /\ requests[r].todo # <<>>
         /\ Len(requests[r].todo) \in Nat \ {0}
         /\ \A i \in 1 .. Len(requests[r].todo) :
              requests[r].todo[i] \in Notification
         /\ Head(requests[r].todo) = requests[r].todo[1]
         /\ InTodo(r, Head(requests[r].todo))
         /\ Head(requests[r].todo) \in Notification
<1>1. requests[r].todo \in Seq(Notification) \ {<<>>}
  BY RequestTypes DEF Dispatching, DispatchRequest
<1>2. /\ Len(requests[r].todo) \in Nat \ {0}
      /\ \A i \in 1 .. Len(requests[r].todo) :
           requests[r].todo[i] \in Notification
      /\ Head(requests[r].todo) = requests[r].todo[1]
      /\ 1 \in 1 .. Len(requests[r].todo)
  BY <1>1
<1> QED BY <1>1, <1>2 DEF InTodo

LEMMA NoticeInit == Init => NoticeInv /\ QueueInv
<1>1. Init => NoticeInv
  BY DEF Init, NoticeInv, InTodo, Dispatching, IdleRequest
<1>2. Init => QueueInv
  BY DEF Init, QueueInv, InTodo, Dispatching, IdleRequest
<1> QED BY <1>1, <1>2

(* A step that saves nothing and starts no dispatch.                         *)
LEMMA NoticesWhenQuiet ==
  ASSUME TypeOK, TypeOK', ShipmentsInv, [Next]_vars, NoticeInv,
         UNCHANGED notifications,
         \A q \in Requests : requests'[q] = requests[q]
                               \/ requests'[q].pc \in {"idle", "update"}
  PROVE  NoticeInv'
<1>1. \A q \in Requests : Dispatching(q)' =>
        Dispatching(q) /\ requests'[q] = requests[q]
  BY DEF Dispatching
<1>2. \A q \in Requests : \A n : InTodo(q, n)' => InTodo(q, n)
  BY <1>1 DEF InTodo
<1>3. \A n \in Notification : GoodNotice(n) => GoodNotice(n)'
  BY GoodStays
<1>4. notifications \subseteq Notification
  BY DEF TypeOK
<1> QED BY <1>1, <1>2, <1>3, <1>4 DEF NoticeInv

(* The notifications of a write, each different from every one that is good  *)
(* already because the change it reports was not there.                      *)
LEMMA NewNotices ==
  ASSUME TypeOK, TypeOK', ShipmentsInv, NEW r \in Requests, WriteStatus(r)
  PROVE  /\ requests'[r].pc = "save"
         /\ \A q \in Requests \ {r} : requests'[q] = requests[q]
         /\ \A n : InTodo(r, n)' => GoodNotice(n)' /\ ~ GoodNotice(n)
         /\ \A i, j \in 1 .. Len(requests'[r].todo) :
              requests'[r].todo[i] = requests'[r].todo[j] => i = j
<1> DEFINE q == requests[r]
<1>1. PICK now \in Nat, row \in Row :
        /\ now = Len(history[q.id]) + 1 /\ row = shipments[q.id]
        /\ now >= 2
        /\ q \in UpdateRequest /\ UpdateFacts(q) /\ q.id \in ShipmentIds
  <2>1. q \in UpdateRequest /\ UpdateFacts(q)
    BY RequestTypes DEF WriteStatus, ShipmentsInv
  <2>2. q.id \in ShipmentIds /\ Exists(q.id)
    BY <2>1 DEF UpdateRequest, UpdateFacts
  <2>3. shipments[q.id] \in Row /\ history[q.id] \in Seq(HistoryRow)
    BY <2>2 DEF TypeOK, Exists
  <2>4. history[q.id] # <<>>
    BY <2>2 DEF ShipmentsInv, HistoryIsTheRecord
  <2> QED BY <2>1, <2>2, <2>3, <2>4
<1>a. PICK changedAt \in q.since .. Len(history[q.id]) :
        history' = [history EXCEPT ![q.id] =
          Append(@, [ from |-> q.existing.status, to |-> q.to,
                      changedAt |-> changedAt ])]
  BY DEF WriteStatus
<1>2. /\ shipments'[q.id] = UpdatedRow(row, q, now)
      /\ history'[q.id] =
           Append(history[q.id], [ from |-> q.existing.status, to |-> q.to,
                                   changedAt |-> changedAt ])
      /\ requests' = [requests EXCEPT ![r] =
           [pc |-> "save", todo |-> StatusNotifications(row, q, now)]]
  BY <1>1, <1>a DEF WriteStatus, TypeOK
<1>3. /\ requests'[r].pc = "save"
      /\ requests'[r].todo = StatusNotifications(row, q, now)
      /\ \A p \in Requests \ {r} : requests'[p] = requests[p]
  BY <1>2 DEF TypeOK
<1>4. /\ Len(history'[q.id]) = now
      /\ history'[q.id][now].to = q.to
      /\ now \in 2 .. Len(history'[q.id])
  <2>1. history[q.id] \in Seq(HistoryRow)
    BY <1>1 DEF TypeOK
  <2> QED BY <1>1, <1>2, <2>1
<1>5. /\ shipments'[q.id].customer = row.customer
      /\ shipments'[q.id].company = row.company
      /\ q.driver # NoDriver =>
           q.driver \in Drivers /\ DriverCompany[q.driver] = row.company
  BY <1>1, <1>2 DEF UpdatedRow, Row, UpdateFacts, UpdateRequest
<1>6. PICK a : a = [ user |-> row.customer,
                     type |-> IF q.to = "DELIVERED" THEN "DELIVERED"
                                                    ELSE "STATUS_CHANGED",
                     shipment |-> q.id, at |-> now ]
  OBVIOUS
<1>7. PICK b : b = [ user |-> DriverUser[q.driver], type |-> "SHIPMENT_ASSIGNED",
                     shipment |-> q.id, at |-> now ]
  OBVIOUS
<1>8. /\ requests'[r].todo = <<a, b>> /\ q.to = "ASSIGNED" /\ q.driver # NoDriver
      \/ requests'[r].todo = <<a>>
  BY <1>3, <1>6, <1>7 DEF StatusNotifications
<1>9. a # b /\ a.shipment = q.id /\ a.at = now /\ b.shipment = q.id /\ b.at = now
  <2>1. a.type \in {"DELIVERED", "STATUS_CHANGED"} /\ b.type = "SHIPMENT_ASSIGNED"
    BY <1>6, <1>7
  <2> QED BY <1>6, <1>7, <2>1
<1>10. ~ GoodNotice(a) /\ ~ GoodNotice(b)
  <2>1. ~ now \in 2 .. Len(history[q.id])
    BY <1>1
  <2> QED BY <1>9, <2>1 DEF GoodNotice
<1>11. GoodNotice(a)'
  <2>1. /\ a.user = row.customer /\ a.type # "SHIPMENT_ASSIGNED"
        /\ a.type = IF q.to = "DELIVERED" THEN "DELIVERED" ELSE "STATUS_CHANGED"
    BY <1>6
  <2>2. history'[a.shipment] = history'[q.id]
        /\ shipments'[a.shipment] = shipments'[q.id]
    BY <1>9
  <2> QED BY <1>4, <1>5, <1>9, <2>1, <2>2 DEF GoodNotice
<1>12. q.to = "ASSIGNED" /\ q.driver # NoDriver => GoodNotice(b)'
  <2>1. b.user = DriverUser[q.driver] /\ b.type = "SHIPMENT_ASSIGNED"
    BY <1>7
  <2>2. history'[b.shipment] = history'[q.id]
        /\ shipments'[b.shipment] = shipments'[q.id]
    BY <1>9
  <2> QED BY <1>4, <1>5, <1>9, <2>1, <2>2 DEF GoodNotice
<1>13. CASE /\ requests'[r].todo = <<a, b>>
            /\ q.to = "ASSIGNED" /\ q.driver # NoDriver
  <2>1. /\ Len(requests'[r].todo) = 2
        /\ requests'[r].todo[1] = a /\ requests'[r].todo[2] = b
    BY <1>13
  <2>2. \A n : InTodo(r, n)' => n \in {a, b}
    BY <2>1 DEF InTodo
  <2> QED BY <1>3, <1>9, <1>10, <1>11, <1>12, <1>13, <2>1, <2>2
<1>14. CASE requests'[r].todo = <<a>>
  <2>1. Len(requests'[r].todo) = 1 /\ requests'[r].todo[1] = a
    BY <1>14
  <2>2. \A n : InTodo(r, n)' => n = a
    BY <2>1 DEF InTodo
  <2> QED BY <1>3, <1>10, <1>11, <2>1, <2>2
<1> QED BY <1>8, <1>13, <1>14

(* A write begins the dispatch of notifications that nobody has.             *)
LEMMA NoticesWriteStatus ==
  ASSUME TypeOK, TypeOK', ShipmentsInv, NoticeInv, [Next]_vars,
         NEW r \in Requests, WriteStatus(r)
  PROVE  NoticeInv'
<1>1. /\ requests'[r].pc = "save"
      /\ \A q \in Requests \ {r} : requests'[q] = requests[q]
      /\ \A n : InTodo(r, n)' => GoodNotice(n)' /\ ~ GoodNotice(n)
      /\ \A i, j \in 1 .. Len(requests'[r].todo) :
           requests'[r].todo[i] = requests'[r].todo[j] => i = j
  BY NewNotices
<1>2. notifications' = notifications
  BY DEF WriteStatus
<1>3. \A n \in Notification : GoodNotice(n) => GoodNotice(n)'
  BY GoodStays
<1>4. notifications \subseteq Notification
  BY DEF TypeOK
<1>5. \A q \in Requests \ {r} : \A n : InTodo(q, n)' <=> InTodo(q, n)
  BY <1>1 DEF InTodo, Dispatching
<1>6. ASSUME NEW q \in Requests, NEW n \in Notification, InTodo(q, n)'
      PROVE  GoodNotice(n)' /\ \A p \in Requests \ {q} : ~ InTodo(p, n)'
  <2>1. CASE q = r
    <3>1. GoodNotice(n)' /\ ~ GoodNotice(n)
      BY <1>1, <1>6, <2>1
    <3>2. \A p \in Requests \ {r} : ~ InTodo(p, n)
      BY <3>1 DEF NoticeInv
    <3> QED BY <1>5, <2>1, <3>1, <3>2
  <2>2. CASE q # r
    <3>1. GoodNotice(n) /\ \A p \in Requests \ {q} : ~ InTodo(p, n)
      BY <1>5, <1>6, <2>2 DEF NoticeInv
    <3>2. ~ InTodo(r, n)'
      BY <1>1, <3>1
    <3> QED BY <1>3, <1>5, <3>1, <3>2
  <2> QED BY <2>1, <2>2
<1>7. \A n \in notifications' : GoodNotice(n)'
  BY <1>2, <1>3, <1>4 DEF NoticeInv
<1>8. ASSUME NEW q \in Requests, Dispatching(q)'
      PROVE  \A i, j \in 1 .. Len(requests'[q].todo) :
               requests'[q].todo[i] = requests'[q].todo[j] => i = j
  BY <1>1, <1>8 DEF NoticeInv, Dispatching
<1>9. ASSUME NEW q \in Requests, Dispatching(q)',
             NEW i \in 1 .. Len(requests'[q].todo)
      PROVE  requests'[q].todo[i] \in notifications'
               <=> i = 1 /\ requests'[q].pc = "enqueue"
  <2>1. CASE q = r
    <3>1. PICK n : n = requests'[r].todo[i]
      OBVIOUS
    <3>2. InTodo(r, n)'
      BY <1>9, <2>1, <3>1 DEF InTodo
    <3> QED BY <1>1, <1>2, <2>1, <3>1, <3>2 DEF NoticeInv
  <2>2. CASE q # r
    BY <1>1, <1>2, <1>9, <2>2 DEF NoticeInv, Dispatching
  <2> QED BY <2>1, <2>2
<1> QED BY <1>6, <1>7, <1>8, <1>9 DEF NoticeInv

LEMMA NoticesNotify ==
  ASSUME TypeOK, TypeOK', ShipmentsInv, NoticeInv, [Next]_vars,
         NEW r \in Requests, Notify(r)
  PROVE  NoticeInv'
<1> DEFINE first == Head(requests[r].todo)
<1>1. /\ requests[r].pc = "save" /\ Dispatching(r)
      /\ notifications' = notifications \cup {first}
      /\ UNCHANGED <<shipments, history>>
      /\ requests' = [requests EXCEPT ![r] = [@ EXCEPT !.pc = "enqueue"]]
  BY DEF Notify, SaveNotification, Dispatching
<1>2. /\ requests'[r].pc = "enqueue" /\ requests'[r].todo = requests[r].todo
      /\ \A q \in Requests \ {r} : requests'[q] = requests[q]
  <2>1. requests[r] \in DispatchRequest
    BY <1>1, RequestTypes
  <2> QED BY <1>1, <2>1 DEF TypeOK, DispatchRequest
<1>3. \A q \in Requests :
        /\ Dispatching(q)' <=> Dispatching(q)
        /\ requests'[q].todo = requests[q].todo
        /\ q # r => requests'[q].pc = requests[q].pc
  BY <1>1, <1>2 DEF Dispatching
<1>4. \A q \in Requests : \A n : InTodo(q, n)' <=> InTodo(q, n)
  BY <1>3 DEF InTodo
<1>5. \A n : GoodNotice(n)' <=> GoodNotice(n)
  BY <1>1 DEF GoodNotice
<1>6. /\ GoodNotice(first) /\ InTodo(r, first) /\ first \in Notification
      /\ first = requests[r].todo[1] /\ 1 \in 1 .. Len(requests[r].todo)
  BY <1>1, DispatchTypes DEF NoticeInv
<1>7. \A n \in notifications' : GoodNotice(n)'
  BY <1>1, <1>5, <1>6 DEF NoticeInv
<1>8. \A q \in Requests, n \in Notification :
        InTodo(q, n)' =>
          GoodNotice(n)' /\ \A p \in Requests \ {q} : ~ InTodo(p, n)'
  BY <1>4, <1>5 DEF NoticeInv
<1>9. \A q \in Requests :
        Dispatching(q)' =>
          \A i, j \in 1 .. Len(requests'[q].todo) :
            requests'[q].todo[i] = requests'[q].todo[j] => i = j
  BY <1>3 DEF NoticeInv
<1>10. ASSUME NEW q \in Requests, Dispatching(q)',
              NEW i \in 1 .. Len(requests'[q].todo)
       PROVE  requests'[q].todo[i] \in notifications'
                <=> i = 1 /\ requests'[q].pc = "enqueue"
  <2>1. Dispatching(q) /\ i \in 1 .. Len(requests[q].todo) /\ i \in Nat
    BY <1>3, <1>10
  <2>2. requests[q].todo[i] \in notifications
          <=> i = 1 /\ requests[q].pc = "enqueue"
    BY <2>1 DEF NoticeInv
  <2>3. CASE q = r
    <3>1. requests[r].todo[i] = first <=> i = 1
      BY <1>1, <1>6, <2>1, <2>3 DEF NoticeInv
    <3> QED BY <1>1, <1>2, <2>2, <2>3, <3>1
  <2>4. CASE q # r
    <3>1. InTodo(q, requests[q].todo[i])
      BY <2>1 DEF InTodo
    <3>2. requests[q].todo[i] # first
      BY <1>6, <2>4, <3>1 DEF NoticeInv
    <3> QED BY <1>1, <1>2, <2>2, <2>4, <3>2
  <2> QED BY <2>3, <2>4
<1> QED BY <1>7, <1>8, <1>9, <1>10 DEF NoticeInv

(* What is left of a dispatch after its first notification.                  *)
LEMMA RestOfTodo ==
  ASSUME TypeOK, TypeOK', NoticeInv, NEW r \in Requests, Enqueue(r)
  PROVE  /\ requests[r].pc = "enqueue" /\ Dispatching(r)
         /\ InTodo(r, Head(requests[r].todo))
         /\ Head(requests[r].todo) \in notifications
         /\ \A q \in Requests \ {r} : requests'[q] = requests[q]
         /\ Dispatching(r)' =>
              /\ requests'[r].pc = "save"
              /\ \A i \in 1 .. Len(requests'[r].todo) :
                   /\ i + 1 \in 1 .. Len(requests[r].todo)
                   /\ requests'[r].todo[i] = requests[r].todo[i + 1]
                   /\ ~ requests'[r].todo[i] \in notifications
         /\ \A n : InTodo(r, n)' =>
              InTodo(r, n) /\ n # Head(requests[r].todo)
<1> DEFINE todo == requests[r].todo
<1>1. requests[r].pc = "enqueue" /\ Dispatching(r)
  BY DEF Enqueue, Dispatching
<1>2. /\ todo \in Seq(Notification) /\ Len(todo) \in Nat \ {0}
      /\ Head(todo) = todo[1] /\ InTodo(r, Head(todo))
  BY <1>1, DispatchTypes
<1>3. Head(todo) \in notifications
  BY <1>1, <1>2 DEF NoticeInv
<1>4. \A q \in Requests \ {r} : requests'[q] = requests[q]
  BY DEF Enqueue, TypeOK
<1>5. ASSUME Dispatching(r)'
      PROVE  requests'[r].pc = "save" /\ requests'[r].todo = Tail(todo)
  BY <1>5 DEF Enqueue, TypeOK, IdleRequest, Dispatching
<1>6. /\ Len(Tail(todo)) = Len(todo) - 1
      /\ \A i \in 1 .. Len(todo) - 1 :
           Tail(todo)[i] = todo[i + 1] /\ i + 1 \in 1 .. Len(todo)
  BY <1>2
<1>7. ASSUME Dispatching(r)', NEW i \in 1 .. Len(requests'[r].todo)
      PROVE  /\ i + 1 \in 1 .. Len(todo)
             /\ requests'[r].todo[i] = todo[i + 1]
             /\ ~ todo[i + 1] \in notifications
  <2>1. i + 1 \in 1 .. Len(todo) /\ requests'[r].todo[i] = todo[i + 1]
    BY <1>5, <1>6, <1>7
  <2>2. i + 1 \in Nat /\ i + 1 # 1
    BY <1>2, <1>5, <1>6, <1>7
  <2> QED BY <1>1, <2>1, <2>2 DEF NoticeInv
<1>8. ASSUME NEW n, InTodo(r, n)' PROVE InTodo(r, n) /\ n # Head(todo)
  <2>1. PICK i \in 1 .. Len(requests'[r].todo) :
          Dispatching(r)' /\ requests'[r].todo[i] = n
    BY <1>8 DEF InTodo
  <2> QED BY <1>1, <1>3, <1>7, <2>1 DEF InTodo
<1> QED BY <1>1, <1>2, <1>3, <1>4, <1>5, <1>7, <1>8

LEMMA NoticesEnqueue ==
  ASSUME TypeOK, TypeOK', ShipmentsInv, NoticeInv, [Next]_vars,
         NEW r \in Requests, Enqueue(r)
  PROVE  NoticeInv'
<1> DEFINE todo == requests[r].todo
<1>1. UNCHANGED <<notifications, shipments, history>>
  BY DEF Enqueue, AddJob
<1>2. \A q \in Requests \ {r} : requests'[q] = requests[q]
  BY RestOfTodo
<1>3. Dispatching(r) /\ \A n : InTodo(r, n)' => InTodo(r, n)
  BY RestOfTodo
<1>4. \A q \in Requests : \A n : InTodo(q, n)' => InTodo(q, n)
  BY <1>2, <1>3 DEF InTodo, Dispatching
<1>5. \A n : GoodNotice(n)' <=> GoodNotice(n)
  BY <1>1 DEF GoodNotice
<1>6. Dispatching(r)' =>
        /\ requests'[r].pc = "save"
        /\ \A i \in 1 .. Len(requests'[r].todo) :
             /\ i + 1 \in 1 .. Len(todo)
             /\ requests'[r].todo[i] = todo[i + 1]
             /\ ~ requests'[r].todo[i] \in notifications
  BY RestOfTodo
<1>7. ASSUME NEW q \in Requests, Dispatching(q)',
             NEW i \in 1 .. Len(requests'[q].todo),
             NEW j \in 1 .. Len(requests'[q].todo),
             requests'[q].todo[i] = requests'[q].todo[j]
      PROVE  i = j
  <2>1. CASE q = r
    <3>1. todo[i + 1] = todo[j + 1] /\ i + 1 \in 1 .. Len(todo)
            /\ j + 1 \in 1 .. Len(todo)
      BY <1>6, <1>7, <2>1
    <3>2. i + 1 = j + 1
      BY <1>3, <3>1 DEF NoticeInv
    <3>3. i \in Int /\ j \in Int
      BY <1>7
    <3> QED BY <3>2, <3>3
  <2>2. CASE q # r
    BY <1>2, <1>7, <2>2 DEF NoticeInv, Dispatching
  <2> QED BY <2>1, <2>2
<1>8. ASSUME NEW q \in Requests, Dispatching(q)',
             NEW i \in 1 .. Len(requests'[q].todo)
      PROVE  requests'[q].todo[i] \in notifications'
               <=> i = 1 /\ requests'[q].pc = "enqueue"
  <2>1. CASE q = r
    BY <1>1, <1>6, <1>8, <2>1
  <2>2. CASE q # r
    BY <1>1, <1>2, <1>8, <2>2 DEF NoticeInv, Dispatching
  <2> QED BY <2>1, <2>2
<1>9. \A n \in notifications' : GoodNotice(n)'
  BY <1>1, <1>5 DEF NoticeInv
<1>10. \A q \in Requests, n \in Notification :
         InTodo(q, n)' =>
           GoodNotice(n)' /\ \A p \in Requests \ {q} : ~ InTodo(p, n)'
  BY <1>4, <1>5 DEF NoticeInv
<1> QED BY <1>7, <1>8, <1>9, <1>10 DEF NoticeInv

LEMMA NoticeNext ==
  ASSUME TypeOK, TypeOK', ShipmentsInv, NoticeInv, [Next]_vars
  PROVE  NoticeInv'
<1>1. ASSUME NEW s \in ShipmentIds, NEW u \in Users, NEW c \in Customers,
             Create(s, u, c)
      PROVE  NoticeInv'
  BY <1>1, NoticesWhenQuiet DEF Create
<1>2. ASSUME NEW r \in Requests, NEW s \in ShipmentIds, NEW u \in Users,
             NEW to \in ShipmentStatus,
             NEW d \in Drivers \cup {NoDriver, EmptyId},
             BeginUpdate(r, s, u, to, d)
      PROVE  NoticeInv'
  <2>1. \A q \in Requests :
          requests'[q] = requests[q] \/ requests'[q].pc \in {"idle", "update"}
    BY <1>2 DEF BeginUpdate, TypeOK
  <2> QED BY <1>2, <2>1, NoticesWhenQuiet DEF BeginUpdate
<1>3. ASSUME NEW r \in Requests, Abort(r) PROVE NoticeInv'
  <2>1. \A q \in Requests :
          requests'[q] = requests[q] \/ requests'[q].pc \in {"idle", "update"}
    BY <1>3 DEF Abort, TypeOK, IdleRequest
  <2> QED BY <1>3, <2>1, NoticesWhenQuiet DEF Abort
<1>4. CASE UNCHANGED vars
  BY <1>4, NoticesWhenQuiet DEF vars
<1> QED BY <1>1, <1>2, <1>3, <1>4, NoticesWriteStatus, NoticesNotify,
           NoticesEnqueue DEF Next

(* Only a write gives a request notifications, and they are new; the one     *)
(* whose job is added leaves its request.                                    *)
LEMMA TodoOrigin ==
  ASSUME TypeOK, TypeOK', ShipmentsInv, NoticeInv, [Next]_vars,
         NEW r \in Requests, NEW n, InTodo(r, n)'
  PROVE  \/ InTodo(r, n) /\ (Enqueue(r) => n # Head(requests[r].todo))
         \/ WriteStatus(r) /\ ~ GoodNotice(n)
<1>1. CASE Enqueue(r)
  BY <1>1, RestOfTodo
<1>2. ASSUME NEW q \in Requests, WriteStatus(q) \/ Enqueue(q), q # r
      PROVE  InTodo(r, n)
  <2>1. requests'[r] = requests[r]
    BY <1>2 DEF WriteStatus, Enqueue, TypeOK
  <2> QED BY <2>1 DEF InTodo, Dispatching
<1>3. CASE WriteStatus(r)
  BY <1>3, NewNotices
<1>4. ASSUME NEW q \in Requests, Notify(q) PROVE InTodo(r, n)
  <2>1. requests[q] \in DispatchRequest
    BY <1>4, RequestTypes DEF Notify
  <2>2. \/ requests'[r] = requests[r]
        \/ Dispatching(r) /\ requests'[r].todo = requests[r].todo
    BY <1>4, <2>1 DEF Notify, TypeOK, DispatchRequest, Dispatching
  <2> QED BY <2>2 DEF InTodo, Dispatching
<1>5. ASSUME requests' = requests
             \/ \E q \in Requests : \/ Abort(q)
                                     \/ \E s \in ShipmentIds, u \in Users,
                                           to \in ShipmentStatus,
                                           d \in Drivers
                                                   \cup {NoDriver, EmptyId} :
                                             BeginUpdate(q, s, u, to, d)
      PROVE  InTodo(r, n)
  <2>1. requests'[r] = requests[r] \/ requests'[r].pc \in {"idle", "update"}
    BY <1>5 DEF Abort, BeginUpdate, TypeOK, IdleRequest
  <2> QED BY <2>1 DEF InTodo, Dispatching
<1>6. CASE Enqueue(r) \/ \A q \in Requests : ~ Enqueue(q) \/ q # r
  BY <1>1, <1>2, <1>3, <1>4, <1>5 DEF Next, vars, Create
<1> QED BY <1>6

LEMMA QueueNext ==
  ASSUME TypeOK, TypeOK', ShipmentsInv, NoticeInv, QueueInv, [Next]_vars
  PROVE  QueueInv'
<1>1. \A n : InQueue(n) => n \in notifications /\ GoodNotice(n)
  BY DEF InQueue, QueueInv, NoticeInv
<1>2. ASSUME NEW r \in Requests, Enqueue(r) PROVE QueueInv'
  <2> DEFINE first == Head(requests[r].todo)
  <2>1. /\ InTodo(r, first) /\ first \in notifications
        /\ first \in Notification
        /\ \A n : InTodo(r, n)' => InTodo(r, n) /\ n # first
        /\ \A q \in Requests \ {r} : requests'[q] = requests[q]
    BY <1>2, RestOfTodo DEF TypeOK
  <2>2. queue' = Append(queue, first) /\ notifications' = notifications
    BY <1>2 DEF Enqueue, AddJob
  <2>3. /\ queue \in Seq(Notification) /\ Len(queue) \in Nat
        /\ Len(queue') = Len(queue) + 1
        /\ \A i \in 1 .. Len(queue) : queue'[i] = queue[i]
        /\ queue'[Len(queue) + 1] = first
    BY <2>2 DEF TypeOK
  <2>4. ~ InQueue(first) /\ \A q \in Requests \ {r} : ~ InTodo(q, first)
    BY <2>1 DEF QueueInv, NoticeInv
  <2>5. ASSUME NEW q \in Requests, NEW n \in Notification, InTodo(q, n)'
        PROVE  ~ InQueue(n)'
    <3>1. q # r => InTodo(q, n)
      BY <2>1, <2>5 DEF InTodo, Dispatching
    <3>2. InTodo(q, n) /\ n # first
      BY <2>1, <2>4, <2>5, <3>1
    <3>3. ~ InQueue(n)
      BY <3>2 DEF QueueInv
    <3> QED BY <2>3, <3>2, <3>3 DEF InQueue
  <2>6. ASSUME NEW i \in 1 .. Len(queue')
        PROVE  /\ queue'[i] \in notifications'
               /\ \A j \in 1 .. i - 1 : queue'[j] # queue'[i]
    <3>1. CASE i \in 1 .. Len(queue)
      <4>1. \A j \in 1 .. i - 1 : j \in 1 .. Len(queue)
        BY <2>3, <3>1
      <4> QED BY <2>2, <2>3, <3>1, <4>1 DEF QueueInv
    <3>2. CASE i = Len(queue) + 1
      <4>1. \A j \in 1 .. i - 1 : j \in 1 .. Len(queue) /\ queue'[j] = queue[j]
        BY <2>3, <3>2
      <4> QED BY <2>1, <2>2, <2>3, <2>4, <3>2, <4>1 DEF InQueue
    <3> QED BY <2>3, <3>1, <3>2
  <2> QED BY <2>5, <2>6 DEF QueueInv
<1>3. ASSUME \A r \in Requests : ~ Enqueue(r) PROVE QueueInv'
  <2>1. queue' = queue /\ notifications \subseteq notifications'
    BY <1>3 DEF Next, vars, Create, BeginUpdate, WriteStatus, Notify,
                SaveNotification, Abort
  <2>2. \A n : InQueue(n)' <=> InQueue(n)
    BY <2>1 DEF InQueue
  <2>3. \A r \in Requests, n \in Notification :
          InTodo(r, n)' => InTodo(r, n) \/ ~ GoodNotice(n)
    BY TodoOrigin
  <2> QED BY <1>1, <2>1, <2>2, <2>3 DEF QueueInv
<1> QED BY <1>2, <1>3

-----------------------------------------------------------------------------
(* The theorem.                                                              *)

(* Whatever requests overlap, fail or read stale rows, a notification        *)
(* reports a committed change truthfully to the customer or to a driver of   *)
(* the company, and a job of the queue carries a saved one, once.            *)
THEOREM NotificationsNeverLie == Spec => []NotificationsFollowCommits
<1>1. Init => TypeOK /\ ShipmentsInv /\ NoticeInv /\ QueueInv
  BY TypeOKInit, InvInit, NoticeInit
<1>2. TypeOK /\ ShipmentsInv /\ NoticeInv /\ QueueInv /\ [Next]_vars
        => (TypeOK /\ ShipmentsInv /\ NoticeInv /\ QueueInv)'
  BY TypeOKNext, InvNext, NoticeNext, QueueNext
<1>3. NoticeInv /\ QueueInv => NotificationsFollowCommits
  BY DEF NoticeInv, QueueInv, GoodNotice, NotificationsFollowCommits
<1> QED BY <1>1, <1>2, <1>3, PTL DEF Spec

=============================================================================
