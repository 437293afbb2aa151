------------------------------ MODULE Tracking ------------------------------
(***************************************************************************)
(* Live tracking, TrackingGateway and TrackingService, on several server   *)
(* instances: a driver reports positions to an instance, which records     *)
(* each in a transaction and then emits it to the room of the shipment;    *)
(* trackers sit in the rooms of the instance they are connected to, and    *)
(* hear the other instances over Redis, if both ends have the adapter.     *)
(*                                                                         *)
(* A report names the shipment whose record it joins and, independently,   *)
(* the tracking code whose room hears of it: nothing compares the two. It  *)
(* is kept with two facts for the properties: the instance it was sent to  *)
(* and the reports answered before it was sent.                            *)
(*                                                                         *)
(* The client that publishes is an ioredis that gives no command up        *)
(* (maxRetriesPerRequest: null): once it is connected again, it sends what *)
(* had no reply a second time, and what was asked of it meanwhile.         *)
(*                                                                         *)
(* A definition marked `Fault' is no part of the model: it is the wrong    *)
(* version of the definition after it that a property has to catch.        *)
(***************************************************************************)
EXTENDS RedisIoAdapter, Sequences, SequencesExt

CONSTANTS
  Trackers, Shipments, Codes, NoInstance,
  MaxReports               (* bound on the reports of a behaviour          *)

ASSUME TrackingAssumption == NoInstance \notin Instances /\ MaxReports \in Nat

VARIABLES
  at,          (* the instance each tracker is connected to                *)
  rooms,       (* the rooms it has joined there                            *)
  calls,       (* driverLocation messages being handled                    *)
  locations,   (* the LocationUpdate table, in commit order                *)
  current,     (* Driver.currentLat, currentLng: the report they are from  *)
  wire,        (* what Redis carries from one instance to another          *)
  unfulfilled, (* what each instance has published without a reply so far  *)
  shown,       (* the locationUpdate events of each tracker's connection   *)
  sent,        (* the number of reports, for their identity                *)
  answered     (* the reports whose call was answered                      *)

clientVars == <<at, rooms>>
tableVars == <<locations, current>>
outVars == <<wire, unfulfilled, shown>>
vars == <<serverVars, clientVars, calls, tableVars, outVars, sent, answered>>

Report ==
  [ no : 1 .. MaxReports, shipment : Shipments, room : Codes,
    from : Instances, after : SUBSET (1 .. MaxReports) ]

TypeOK ==
  /\ servers \in [Instances -> Server]
  /\ at \in [Trackers -> Instances \cup {NoInstance}]
  /\ rooms \in [Trackers -> SUBSET Codes]
  /\ calls \subseteq [pc : {"record", "emit"}, report : Report]
  /\ locations \in Seq(Report)
  /\ current \in 0 .. MaxReports
  /\ wire \in [Instances \X Instances -> Seq(Report)]
  /\ unfulfilled \in [Instances -> Seq(Report)]
  /\ shown \in [Trackers -> Seq(Report)]
  /\ sent \in 0 .. MaxReports /\ answered \subseteq 1 .. MaxReports

Init ==
  /\ ServersInit
  /\ at = [t \in Trackers |-> NoInstance]
  /\ rooms = [t \in Trackers |-> {}]
  /\ calls = {}
  /\ locations = <<>> /\ current = 0
  /\ wire = [link \in Instances \X Instances |-> <<>>]
  /\ unfulfilled = [i \in Instances |-> <<>>]
  /\ shown = [t \in Trackers |-> <<>>]
  /\ sent = 0 /\ answered = {}

-----------------------------------------------------------------------------

handleJoin(t, i, code) ==
  /\ Serving(i)
  /\ at[t] \in {i, NoInstance}
  /\ at' = [at EXCEPT ![t] = i]
  /\ rooms' = [rooms EXCEPT ![t] = @ \cup {code}]
  /\ UNCHANGED <<serverVars, calls, tableVars, outVars, sent, answered>>

Leave(t) ==
  /\ at[t] # NoInstance
  /\ at' = [at EXCEPT ![t] = NoInstance]
  /\ rooms' = [rooms EXCEPT ![t] = {}]
  /\ shown' = [shown EXCEPT ![t] = <<>>]
  /\ UNCHANGED <<serverVars, calls, tableVars, wire, unfulfilled, sent, answered>>

handleLocation(i, shipment, code) ==
  /\ Serving(i)
  /\ sent < MaxReports
  /\ sent' = sent + 1
  /\ calls' = calls \cup
       {[ pc |-> "record",
          report |-> [ no |-> sent', shipment |-> shipment, room |-> code,
                       from |-> i, after |-> answered ] ]}
  /\ UNCHANGED <<serverVars, clientVars, tableVars, outVars, answered>>

(* Fault: the row and the driver are written by two awaits, the second of   *)
(* which may fail.                                                          *)
recordLocation_NoTransaction(c) ==
  /\ c.pc = "record"
  /\ locations' = Append(locations, c.report)
  /\ \/ /\ current' = c.report.no
        /\ calls' = (calls \ {c}) \cup {[c EXCEPT !.pc = "emit"]}
     \/ current' = current /\ calls' = calls \ {c}
  /\ UNCHANGED <<serverVars, clientVars, outVars, sent, answered>>

recordLocation(c) ==
  /\ c.pc = "record"
  /\ locations' = Append(locations, c.report)
  /\ current' = c.report.no
  /\ calls' = (calls \ {c}) \cup {[c EXCEPT !.pc = "emit"]}
  /\ UNCHANGED <<serverVars, clientVars, outVars, sent, answered>>

(* The transaction is rolled back; the driver is told of an error.          *)
recordFails(c) ==
  /\ c.pc = "record"
  /\ calls' = calls \ {c}
  /\ UNCHANGED <<serverVars, clientVars, tableVars, outVars, sent, answered>>

InRoom(t, i, report) == at[t] = i /\ report.room \in rooms[t]

(* The events of the trackers once instance i has handed out the report.    *)
ShownBy(i, report) ==
  [t \in Trackers |->
     IF InRoom(t, i, report) THEN Append(shown[t], report) ELSE shown[t]]

(* The library's adapter: a clustered instance publishes for every other    *)
(* one that has subscribed.                                                 *)
Hears(i, j) ==
  j # i /\ servers[i].serving = "cluster" /\ servers[j].serving = "cluster"

Publish(i, report) ==
  /\ wire' = [link \in Instances \X Instances |->
                IF redisUp /\ link[1] = i /\ Hears(i, link[2])
                  THEN Append(wire[link], report)
                  ELSE wire[link]]
  /\ unfulfilled' = [j \in Instances |->
                       IF j = i /\ servers[i].serving = "cluster"
                         THEN Append(unfulfilled[i], report)
                         ELSE unfulfilled[j]]

(* Fault: the room hears of the position before the transaction has ended.  *)
emit_NotAwaited(c) ==
  /\ shown' = ShownBy(c.report.from, c.report)
  /\ Publish(c.report.from, c.report)
  /\ calls' = calls \ {c}
  /\ answered' = answered \cup {c.report.no}
  /\ UNCHANGED <<serverVars, clientVars, tableVars, sent>>

(* Fault: the gateway emits with server.local.                              *)
emit_Local(c) ==
  /\ c.pc = "emit"
  /\ shown' = ShownBy(c.report.from, c.report)
  /\ calls' = calls \ {c}
  /\ answered' = answered \cup {c.report.no}
  /\ UNCHANGED <<serverVars, clientVars, tableVars, wire, unfulfilled, sent>>

(* The rest of handleLocation: the room of this instance hears at once, the *)
(* others by Redis, and the driver is answered.                             *)
emit(c) ==
  /\ c.pc = "emit"
  /\ shown' = ShownBy(c.report.from, c.report)
  /\ Publish(c.report.from, c.report)
  /\ calls' = calls \ {c}
  /\ answered' = answered \cup {c.report.no}
  /\ UNCHANGED <<serverVars, clientVars, tableVars, sent>>

(* Redis replies to the oldest PUBLISH of instance i.                       *)
Reply(i) ==
  /\ redisUp
  /\ unfulfilled[i] # <<>>
  /\ unfulfilled' = [unfulfilled EXCEPT ![i] = Tail(@)]
  /\ UNCHANGED <<serverVars, clientVars, calls, tableVars, wire, shown, sent,
                 answered>>

Receive(link) ==
  /\ redisUp
  /\ wire[link] # <<>>
  /\ wire' = [wire EXCEPT ![link] = Tail(@)]
  /\ shown' = ShownBy(link[2], Head(wire[link]))
  /\ UNCHANGED <<serverVars, clientVars, calls, tableVars, unfulfilled, sent,
                 answered>>

(* Redis keeps nothing for a subscriber whose connection is down, as it is  *)
(* in an outage and until the client has connected and subscribed again.    *)
LostOnTheWire(link) ==
  /\ outages > 0
  /\ wire[link] # <<>>
  /\ wire' = [wire EXCEPT ![link] = Tail(@)]
  /\ UNCHANGED <<serverVars, clientVars, calls, tableVars, unfulfilled, shown,
                 sent, answered>>

(* The clients connect again and send what has had no reply: a report that  *)
(* Redis had handed on before the outage goes out twice.                    *)
Reconnect ==
  /\ RedisReturns
  /\ wire' = [link \in Instances \X Instances |->
                IF Hears(link[1], link[2])
                  THEN wire[link] \o unfulfilled[link[1]]
                  ELSE wire[link]]
  /\ UNCHANGED <<clientVars, calls, tableVars, unfulfilled, shown, sent, answered>>

(* The process dies with its calls, its rooms and what it was to receive;   *)
(* its trackers lose their connection.                                      *)
Crash(i) ==
  /\ CrashServer(i)
  /\ at' = [t \in Trackers |-> IF at[t] = i THEN NoInstance ELSE at[t]]
  /\ rooms' = [t \in Trackers |-> IF at[t] = i THEN {} ELSE rooms[t]]
  /\ shown' = [t \in Trackers |-> IF at[t] = i THEN <<>> ELSE shown[t]]
  /\ calls' = {c \in calls : c.report.from # i}
  /\ wire' = [link \in Instances \X Instances |->
                IF link[2] = i THEN <<>> ELSE wire[link]]
  /\ unfulfilled' = [unfulfilled EXCEPT ![i] = <<>>]
  /\ UNCHANGED <<tableVars, sent, answered>>

ServerStep(i) ==
  /\ Booting(i)
  /\ UNCHANGED <<clientVars, calls, tableVars, outVars, sent, answered>>

CallStep(c) == recordLocation(c) \/ recordFails(c) \/ emit(c)

Next ==
  \/ \E i \in Instances :
       \/ /\ Start(i)
          /\ UNCHANGED <<clientVars, calls, tableVars, outVars, sent, answered>>
       \/ ServerStep(i)
       \/ Crash(i)
       \/ Reply(i)
       \/ \E s \in Shipments, code \in Codes : handleLocation(i, s, code)
       \/ \E t \in Trackers, code \in Codes : handleJoin(t, i, code)
  \/ \E t \in Trackers : Leave(t)
  \/ \E c \in calls : CallStep(c)
  \/ \E link \in Instances \X Instances : Receive(link) \/ LostOnTheWire(link)
  \/ Reconnect
  \/ /\ RedisFails
     /\ UNCHANGED <<clientVars, calls, tableVars, outVars, sent, answered>>

(* A boot goes on, a call in flight is resumed when the database answers,   *)
(* and Redis carries what it was given while it is up.  Nobody has to       *)
(* start, connect, report, fail or come back.                               *)
Spec ==
  /\ Init /\ [][Next]_vars
  /\ \A i \in Instances : WF_vars(ServerStep(i))
  /\ WF_vars(\E c \in calls : CallStep(c))
  /\ \A link \in Instances \X Instances : WF_vars(Receive(link))

-----------------------------------------------------------------------------

(* The position kept with the driver never falls back behind the history:   *)
(* it is not that of a report which had been answered before another report *)
(* of the history was sent.  Reports that overlap may commit in either      *)
(* order (tracking.service.ts:14).                                          *)
PositionKeepsUp ==
  \A k \in DOMAIN locations : current \notin locations[k].after

(* What a tracker is shown on one connection is the record, whatever        *)
(* instance it sits on: only committed positions, reported to a room it has *)
(* joined.  It is shown none twice, and two that were reported to one       *)
(* instance, the second after the first was answered, in that order: always *)
(* if that is its own instance, and otherwise as long as Redis has had no   *)
(* outage, after which a client publishes again what had no reply           *)
(* (tracking.gateway.ts:43, redis-io.adapter.ts:42).                        *)
MarkersFollowTheRecord ==
  \A t \in Trackers :
    /\ \A k \in DOMAIN shown[t] :
         shown[t][k] \in ToSet(locations) /\ shown[t][k].room \in rooms[t]
    /\ \A j, k \in DOMAIN shown[t] :
         LET r == shown[t][j]
             q == shown[t][k]
         IN  j < k /\ r.from = q.from /\ (outages = 0 \/ r.from = at[t])
               => r # q /\ q.no \notin r.after

Clustered(i, j) == i = j \/ (servers[i].adapter /\ servers[j].adapter)

(* A recorded position reaches every tracker that is in the room when it is *)
(* recorded and stays there, if both sit on one instance or both instances  *)
(* have connected to Redis ("Works across multiple server instances",       *)
(* README.md:216), until an instance dies or Redis has an outage.           *)
EveryTrackerIsShown ==
  \A t \in Trackers, i, j \in Instances, n \in 1 .. MaxReports :
    LET due == \E c \in calls :
                 /\ c.pc = "emit" /\ c.report.no = n /\ c.report.from = i
                 /\ InRoom(t, j, c.report)
        ok == crashes + outages = 0 /\ Clustered(i, j)
    IN  due /\ ok ~> \/ \E k \in DOMAIN shown[t] : shown[t][k].no = n
                     \/ at[t] # j
                     \/ crashes + outages > 0

=============================================================================
