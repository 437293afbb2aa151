----------------------------- MODULE Analytics ------------------------------
(***************************************************************************)
(* AnalyticsService behind AnalyticsController: the figures of the         *)
(* dashboard, each the answer of a query of its own, over a Shipment table *)
(* that other requests go on writing.                                      *)
(*                                                                         *)
(* The table is written as ShipmentsService leaves it, overlapping updates *)
(* included: Change writes any row that has the facts proved of the rows   *)
(* of Shipments (RowFacts).  Time is counted in hours; a date is an hour,  *)
(* and 0 is null.  The drivers' figures read columns that no code of the   *)
(* repository writes and are left out.                                     *)
(*                                                                         *)
(* A definition marked `Fault' is no part of the model: it is the wrong    *)
(* version of the definition after it that a property has to catch.        *)
(***************************************************************************)
EXTENDS ShipmentStateMachine, Integers, FiniteSetsExt, SequencesExt

CONSTANTS
  ShipmentIds, Companies, Drivers, NoCompany, NoShipment,
  HoursPerDay,
  Week,          (* the days of the overview's recent figures: 7           *)
  TopDrivers,    (* the longest ranking: 10                                *)
  Dawn,          (* the hour at which a behaviour begins                   *)
  LastWrite,     (* bound: the hour after which nothing is written         *)
  MaxClock,      (* bound on the clock, for the table to grow old          *)
  MaxWrites      (* bound on the writes while an overview is computed      *)

ASSUME AnalyticsAssumption ==
  /\ HoursPerDay \in Nat \ {0} /\ Week \in Nat \ {0}
  /\ TopDrivers \in Nat \ {0}
  /\ Dawn \in Nat \ {0} /\ LastWrite \in Nat /\ MaxClock \in Nat
  /\ MaxWrites \in Nat
  /\ NoCompany \notin Companies

VARIABLES
  shipments,   (* the Shipment table                                       *)
  clock,       (* the hour, for Date.now() and NOW()                       *)
  request      (* the overview being computed: what its queries have read  *)

vars == <<shipments, clock, request>>

Row ==
  [ company : Companies, status : ShipmentStatus,
    driver : Drivers \cup {NoDriver},
    createdAt : Nat, assignedAt : Nat, deliveredAt : Nat ]

ASSUME NoShipmentAssumption == NoShipment \notin Row

Idle == [company |-> NoCompany]

Init ==
  /\ shipments = [s \in ShipmentIds |-> NoShipment]
  /\ clock = Dawn
  /\ request = Idle

-----------------------------------------------------------------------------
(* The queries.                                                             *)

Of(company) ==
  {s \in ShipmentIds :
     shipments[s] # NoShipment /\ shipments[s].company = company}

Delivered(company) == {s \in Of(company) : shipments[s].status = "DELIVERED"}

(* groupBy, with a zero for each status the table does not have.            *)
toStatusMap(company) ==
  [st \in ShipmentStatus |->
     Cardinality({s \in Of(company) : shipments[s].status = st})]

createdSince(company, since) ==
  Cardinality({s \in Of(company) : shipments[s].createdAt >= since})

(* Fault: the company is forgotten in one of the filters.                   *)
deliveredSince_AllCompanies(company, since) ==
  Cardinality({s \in UNION {Delivered(c) : c \in Companies} :
                 shipments[s].deliveredAt >= since})

deliveredSince(company, since) ==
  Cardinality({s \in Delivered(company) : shipments[s].deliveredAt >= since})

(* deliveredWithTimings: how many rows, and the sum of their hours.         *)
timings(company) ==
  LET rows == {s \in Delivered(company) :
                 shipments[s].assignedAt # 0 /\ shipments[s].deliveredAt # 0}
      hours(s) == shipments[s].deliveredAt - shipments[s].assignedAt
  IN  [count |-> Cardinality(rows), hours |-> MapThenSumSet(hours, rows)]

(* What each query of getOverview's Promise.all reads of the table now.     *)
Figure(query, company, since) ==
  CASE query = "status"    -> toStatusMap(company)
    [] query = "created"   -> createdSince(company, since)
    [] query = "delivered" -> deliveredSince(company, since)
    [] query = "timings"   -> timings(company)

Queries == {"status", "created", "delivered", "timings"}

-----------------------------------------------------------------------------
(* The figures computed from them.                                          *)

(* Math.round(a / b), b positive: halves are rounded up.                    *)
RoundedRatio(a, b) == (2 * a + b) \div (2 * b)

(* Tenths of an hour; null, here -1, of no delivery.                        *)
averageDeliveryHours(t) ==
  IF t.count = 0 THEN -1 ELSE RoundedRatio(10 * t.hours, t.count)

(* The summary; the rate in tenths of a percent.                            *)
Summary(read) ==
  LET total == MapThenSumSet(LAMBDA st : read.status[st], ShipmentStatus)
      delivered == read.status["DELIVERED"]
      cancelled == read.status["CANCELLED"]
      completed == total - cancelled
  IN  [ total |-> total,
        active |-> total - delivered - cancelled,
        rate |-> IF completed > 0 THEN RoundedRatio(1000 * delivered, completed)
                 ELSE 0,
        average |-> averageDeliveryHours(read.timings) ]

DayOf(hour) == hour \div HoursPerDay

daysAgo(days) == clock - days * HoursPerDay

(* Fault: the series ends with yesterday.                                   *)
getShipmentTrend_UntilYesterday(company, since) ==
  LET on(date, day) == date # 0 /\ DayOf(date) = day
  IN  [day \in DayOf(since) .. DayOf(clock) - 1 |->
         [ created |-> Cardinality({s \in Of(company) :
                         on(shipments[s].createdAt, day)}),
           delivered |-> Cardinality({s \in Delivered(company) :
                           on(shipments[s].deliveredAt, day)}) ]]

(* The points of the trend, one for each day from that of since, which the  *)
(* service computes, to that of NOW(), which the database does.             *)
getShipmentTrend(company, since) ==
  LET on(date, day) == date # 0 /\ DayOf(date) = day
  IN  [day \in DayOf(since) .. DayOf(clock) |->
         [ created |-> Cardinality({s \in Of(company) :
                         on(shipments[s].createdAt, day)}),
           delivered |-> Cardinality({s \in Delivered(company) :
                           on(shipments[s].deliveredAt, day)}) ]]

(* Fault: every shipment of the driver is ranked, delivered or not.         *)
Deliveries_AnyStatus(company, d) ==
  Cardinality({s \in Of(company) : shipments[s].driver = d})

Deliveries(company, d) ==
  Cardinality({s \in Delivered(company) : shipments[s].driver = d})

(* The rankings the query may answer with: the order of equal counts is the *)
(* database's choice.                                                       *)
getDriverPerformance(company) ==
  LET count(d) == Deliveries(company, d)
      drivers == {d \in Drivers : count(d) > 0}
      size == Min({TopDrivers, Cardinality(drivers)})
      best(D) == \A d \in D, e \in drivers \ D : count(d) >= count(e)
      sorted(p) == \A i, j \in DOMAIN p : i < j => count(p[i]) >= count(p[j])
  IN  { [i \in DOMAIN p |-> [driver |-> p[i], deliveries |-> count(p[i])]] :
          p \in { q \in UNION {SetToSeqs(D) : D \in {D \in SUBSET drivers :
                                 Cardinality(D) = size /\ best(D)}} :
                    sorted(q) } }

-----------------------------------------------------------------------------
(* The writers, and the requests for the overview.                          *)

Written ==
  /\ clock <= LastWrite
  /\ IF request = Idle
       THEN UNCHANGED request
       ELSE /\ request.writes < MaxWrites
            /\ request' = [request EXCEPT !.writes = @ + 1]

Create(s, company) ==
  /\ shipments[s] = NoShipment
  /\ shipments' = [shipments EXCEPT ![s] =
       [ company |-> company, status |-> "PENDING", driver |-> NoDriver,
         createdAt |-> clock, assignedAt |-> 0, deliveredAt |-> 0 ]]
  /\ Written
  /\ UNCHANGED clock

(* The row any update of ShipmentsService may leave: the date of the        *)
(* assignment is its own or one that was read before.                       *)
Change(s, to, driver, assignedAt) ==
  /\ shipments[s] # NoShipment
  /\ to # "PENDING"
  /\ driver = NoDriver <=> assignedAt = 0
  /\ driver = NoDriver => to = "CANCELLED"
  /\ to = "ASSIGNED" => assignedAt = clock
  /\ assignedAt # 0 => assignedAt \in shipments[s].createdAt .. clock
  /\ shipments' = [shipments EXCEPT ![s] =
       [ @ EXCEPT !.status = to, !.driver = driver, !.assignedAt = assignedAt,
                  !.deliveredAt = IF to = "DELIVERED" THEN clock ELSE 0 ]]
  /\ Written
  /\ UNCHANGED clock

Tick ==
  /\ clock < MaxClock
  /\ clock' = clock + 1
  /\ UNCHANGED <<shipments, request>>

(* getOverview as far as Promise.all.                                       *)
AskOverview(company) ==
  /\ company # NoCompany
  /\ request = Idle
  /\ request' = [ company |-> company, since |-> daysAgo(Week),
                  read |-> <<>>, writes |-> 0 ]
  /\ UNCHANGED <<shipments, clock>>

(* One of the queries is answered; they run on connections of their own and *)
(* share no snapshot.                                                       *)
Read(query) ==
  /\ request # Idle
  /\ query \notin DOMAIN request.read
  /\ request' = [request EXCEPT !.read =
       [q \in DOMAIN @ \cup {query} |->
          IF q = query THEN Figure(q, request.company, request.since) ELSE @[q]]]
  /\ UNCHANGED <<shipments, clock>>

(* The last answer resolves Promise.all, and the figures are sent.           *)
Answered == request # Idle /\ DOMAIN request.read = Queries

AnswerOverview ==
  /\ Answered
  /\ request' = Idle
  /\ UNCHANGED <<shipments, clock>>

Next ==
  \/ \E s \in ShipmentIds, c \in Companies : Create(s, c)
  \/ \E s \in ShipmentIds, to \in ShipmentStatus,
        d \in Drivers \cup {NoDriver}, at \in 0 .. clock : Change(s, to, d, at)
  \/ Tick
  \/ \E c \in Companies \cup {NoCompany} : AskOverview(c)
  \/ \E q \in Queries : Read(q)
  \/ AnswerOverview

Spec == Init /\ [][Next]_vars

-----------------------------------------------------------------------------

(* The figures of one overview agree with one another.  Those of the status *)
(* counts always do, since one query reads them all: no shipment is missing *)
(* from the active ones, and the rate is a percentage that reads 100.0 only *)
(* if at most one in 2000 is still open (it is rounded to tenths,           *)
(* analytics.service.ts:70, so 1999 of 2000 read 100.0).  The other queries *)
(* read the table at other moments (analytics.service.ts:23) and are off by *)
(* no more than the writes in between: the recent figures are among all,    *)
(* and the average is taken over the deliveries that are counted, because   *)
(* every delivered shipment has both of its dates.                          *)
OverviewIsConsistent ==
  Answered =>
    LET r == request.read
        o == Summary(r)
        n == request.writes
    IN  /\ o.active = r.status["PENDING"] + r.status["ASSIGNED"]
                        + r.status["IN_TRANSIT"]
        /\ o.rate \in 0 .. 1000
        /\ o.rate = 1000 => 2000 * o.active <= o.total
        /\ o.average >= -1
        /\ r.created <= o.total + n
        /\ r.delivered <= r.status["DELIVERED"] + n
        /\ r.timings.count \in r.status["DELIVERED"] - n
                                .. r.status["DELIVERED"] + n

(* The next two are of one query, so of one table, and every table of a     *)
(* behaviour is also one of a state without a request.                      *)

(* The two endpoints count the same shipments: what the overview counts of  *)
(* the last week is in the trend of as many days, which begins at midnight  *)
(* and so may count more, at most those of its first day; also when the     *)
(* clock passes midnight between the request and the query.                 *)
TrendCoversTheWeek ==
  request = Idle =>
  \A c \in Companies, since \in {daysAgo(Week), daysAgo(Week) - 1} :
    LET trend == getShipmentTrend(c, since)
        first == trend[DayOf(since)]
        created == MapThenSumSet(LAMBDA day : trend[day].created, DOMAIN trend)
        delivered == MapThenSumSet(LAMBDA day : trend[day].delivered,
                                   DOMAIN trend)
    IN  /\ createdSince(c, since) \in created - first.created .. created
        /\ deliveredSince(c, since) \in delivered - first.delivered .. delivered

(* The ranking counts each delivery of the company once, under the driver   *)
(* who has the shipment: as long as it is not cut off, its counts add up to *)
(* the deliveries of the overview; and nobody who was cut off has more than *)
(* one who is listed.                                                       *)
RankingCountsTheDeliveries ==
  request = Idle =>
  \A c \in Companies : \A ranking \in getDriverPerformance(c) :
    LET sum == MapThenSumSet(LAMBDA i : ranking[i].deliveries, DOMAIN ranking)
        listed == {ranking[i].driver : i \in DOMAIN ranking}
    IN  /\ sum <= Cardinality(Delivered(c))
        /\ {d \in Drivers : Deliveries(c, d) > 0} \subseteq listed
             => sum = Cardinality(Delivered(c))
        /\ \A d \in Drivers \ listed, i \in DOMAIN ranking :
             Deliveries(c, d) <= ranking[i].deliveries

=============================================================================
