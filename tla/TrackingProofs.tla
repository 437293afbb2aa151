--------------------------- MODULE TrackingProofs ---------------------------
(* Theorems about Tracking and RedisIoAdapter, for every number of server    *)
(* instances, trackers, shipments and reports, crashes and outages.          *)
EXTENDS Tracking, TLAPS

(* An instance at each point of its start.                                   *)
BootInv ==
  \A i \in Instances :
    LET s == servers[i]
    IN  /\ s \in Server
        /\ s.connect = "not called" => s = Down
        /\ s.connect \in {"waiting", "disconnecting"}
             => ~ s.adapter /\ s.serving = "no"
        /\ s.connect = "done"
             => \/ /\ s.adapter /\ s.pub = "open" /\ s.sub = "open"
                   /\ s.serving # "local"
                \/ /\ ~ s.adapter /\ s.pub = "null" /\ s.sub = "null"
                   /\ s.serving # "cluster"

(* A tracker may be shown q after r.                                         *)
MayFollow(r, q) == r # q /\ (r.from = q.from => q.no \notin r.after)

InOrder(seq) ==
  \A j, k \in DOMAIN seq : j < k => MayFollow(seq[j], seq[k])

(* The same of what was reported to instance i.                              *)
OrderedFrom(i, seq) ==
  \A j, k \in DOMAIN seq :
    j < k /\ seq[j].from = i => MayFollow(seq[j], seq[k])

(* A report is answered after it was emitted, and knows of answered reports  *)
(* only: one that is still being handled comes after all that were emitted.  *)
CallsInv ==
  /\ answered \subseteq 1 .. sent
  /\ \A c \in calls :
       /\ c.report.no <= sent /\ c.report.no \notin answered
       /\ c.report.after \subseteq answered
       /\ c.pc = "emit" => c.report \in ToSet(locations)
  /\ \A c, d \in calls : c.report.no = d.report.no => c = d
  /\ \A r \in ToSet(locations) : r.after \subseteq answered

Emitted(r) == r \in ToSet(locations) /\ r.no \in answered

(* As long as Redis has had no outage, no report is on its way twice.        *)
WireInv ==
  \A i, j \in Instances :
    /\ outages = 0 => InOrder(wire[<<i, j>>])
    /\ \A r \in ToSet(wire[<<i, j>>]) : i # j /\ r.from = i /\ Emitted(r)

(* What an instance may publish again is of its own.                         *)
UnfulfilledInv ==
  \A i \in Instances :
    \A r \in ToSet(unfulfilled[i]) : r.from = i /\ Emitted(r)

(* What is on its way to an instance then comes after what its trackers were *)
(* shown; what was reported to their own instance is in order anyway.        *)
ShownInv ==
  \A t \in Trackers :
    /\ at[t] = NoInstance => shown[t] = <<>>
    /\ OrderedFrom(at[t], shown[t])
    /\ \A r \in ToSet(shown[t]) : Emitted(r) /\ r.room \in rooms[t]
    /\ outages = 0 =>
         /\ InOrder(shown[t])
         /\ at[t] # NoInstance =>
              \A i \in Instances, r \in ToSet(shown[t]) :
                \A q \in ToSet(wire[<<i, at[t]>>]) : MayFollow(r, q)

OutInv == WireInv /\ UnfulfilledInv /\ ShownInv

OutTypes ==
  /\ wire \in [Instances \X Instances -> Seq(Report)]
  /\ unfulfilled \in [Instances -> Seq(Report)]
  /\ shown \in [Trackers -> Seq(Report)]

(* Before its first outage Redis is down only if no instance has started.    *)
QuietInv ==
  /\ outages \in Nat
  /\ outages = 0 /\ ~ redisUp => \A i \in Instances : ~ Serving(i)

-----------------------------------------------------------------------------
(* Sequences of reports.                                                     *)

(* What a sequence that grows by q contains, and when it stays in order.     *)
LEMMA Appended ==
  ASSUME NEW S, NEW seq \in Seq(S), NEW q \in S
  PROVE  /\ Append(seq, q) \in Seq(S)
         /\ ToSet(Append(seq, q)) = ToSet(seq) \cup {q}
         /\ InOrder(seq) /\ (\A r \in ToSet(seq) : MayFollow(r, q))
              => InOrder(Append(seq, q))
         /\ \A i : OrderedFrom(i, seq)
                     /\ (\A r \in ToSet(seq) : r.from = i => MayFollow(r, q))
                   => OrderedFrom(i, Append(seq, q))
<1> DEFINE new == Append(seq, q)
<1>1. /\ new \in Seq(S) /\ DOMAIN seq = 1 .. Len(seq) /\ Len(seq) \in Nat
      /\ DOMAIN new = 1 .. Len(seq) + 1
      /\ \A i \in 1 .. Len(seq) : new[i] = seq[i]
      /\ new[Len(seq) + 1] = q
  OBVIOUS
<1> HIDE DEF new
<1>2. \A i \in 1 .. Len(seq) + 1 : i \in 1 .. Len(seq) \/ i = Len(seq) + 1
  BY <1>1
<1>3. ToSet(new) = ToSet(seq) \cup {q}
  BY <1>1, <1>2 DEF ToSet
<1>4. InOrder(seq) /\ (\A r \in ToSet(seq) : MayFollow(r, q)) => InOrder(new)
  BY <1>1, <1>2 DEF InOrder, ToSet
<1>5. ASSUME NEW i, OrderedFrom(i, seq),
             \A r \in ToSet(seq) : r.from = i => MayFollow(r, q)
      PROVE  OrderedFrom(i, new)
  BY <1>1, <1>2, <1>5 DEF OrderedFrom, ToSet
<1> QED BY <1>1, <1>3, <1>4, <1>5 DEF new

(* What is left of a sequence without its head follows that head.            *)
LEMMA Removed ==
  ASSUME NEW S, NEW seq \in Seq(S), seq # <<>>
  PROVE  /\ Tail(seq) \in Seq(S) /\ Head(seq) \in S
         /\ Head(seq) \in ToSet(seq) /\ ToSet(Tail(seq)) \subseteq ToSet(seq)
         /\ InOrder(seq) => /\ InOrder(Tail(seq))
                            /\ \A r \in ToSet(Tail(seq)) : MayFollow(Head(seq), r)
<1> DEFINE new == Tail(seq)
<1>1. /\ new \in Seq(S) /\ DOMAIN seq = 1 .. Len(seq) /\ Len(seq) \in Nat \ {0}
      /\ DOMAIN new = 1 .. Len(seq) - 1
      /\ \A i \in 1 .. Len(seq) - 1 : new[i] = seq[i + 1]
      /\ Head(seq) = seq[1] /\ seq[1] \in S
  OBVIOUS
<1> HIDE DEF new
<1>2. \A i \in 1 .. Len(seq) - 1 : i + 1 \in 1 .. Len(seq) /\ 1 < i + 1
  BY <1>1
<1>3. Head(seq) \in ToSet(seq) /\ ToSet(new) \subseteq ToSet(seq)
  BY <1>1, <1>2 DEF ToSet
<1>4. InOrder(seq) => InOrder(new)
  <2> SUFFICES ASSUME InOrder(seq), NEW j \in DOMAIN new, NEW k \in DOMAIN new,
                      j < k
               PROVE  MayFollow(new[j], new[k])
    BY DEF InOrder
  <2>1. j + 1 \in DOMAIN seq /\ k + 1 \in DOMAIN seq /\ j + 1 < k + 1
    BY <1>1
  <2> QED BY <1>1, <2>1 DEF InOrder
<1>5. InOrder(seq) => \A r \in ToSet(new) : MayFollow(Head(seq), r)
  <2> SUFFICES ASSUME InOrder(seq), NEW k \in DOMAIN new
               PROVE  MayFollow(Head(seq), new[k])
    BY DEF ToSet
  <2>1. 1 \in DOMAIN seq /\ k + 1 \in DOMAIN seq /\ 1 < k + 1
    BY <1>1
  <2> QED BY <1>1, <2>1 DEF InOrder
<1> QED BY <1>1, <1>3, <1>4, <1>5 DEF new

(* The empty sequence.                                                       *)
LEMMA Nothing ==
  InOrder(<<>>) /\ (\A i : OrderedFrom(i, <<>>)) /\ ToSet(<<>>) = {}
BY DEF InOrder, OrderedFrom, ToSet

(* Two sequences after each other contain what each of them contains.        *)
LEMMA Concatenated ==
  ASSUME NEW S, NEW seq \in Seq(S), NEW more \in Seq(S)
  PROVE  /\ seq \o more \in Seq(S)
         /\ ToSet(seq \o more) \subseteq ToSet(seq) \cup ToSet(more)
<1> DEFINE new == seq \o more
<1>1. /\ new \in Seq(S) /\ DOMAIN seq = 1 .. Len(seq) /\ Len(seq) \in Nat
      /\ DOMAIN more = 1 .. Len(more) /\ Len(more) \in Nat
      /\ DOMAIN new = 1 .. Len(seq) + Len(more)
      /\ \A i \in 1 .. Len(seq) + Len(more) :
           new[i] = IF i <= Len(seq) THEN seq[i] ELSE more[i - Len(seq)]
  OBVIOUS
<1> HIDE DEF new
<1>2. \A i \in 1 .. Len(seq) + Len(more) :
        \/ i \in 1 .. Len(seq) /\ i <= Len(seq)
        \/ i - Len(seq) \in 1 .. Len(more) /\ ~ (i <= Len(seq))
  BY <1>1
<1>3. ToSet(new) \subseteq ToSet(seq) \cup ToSet(more)
  BY <1>1, <1>2 DEF ToSet
<1> QED BY <1>1, <1>3 DEF new

-----------------------------------------------------------------------------
(* The start of an instance.                                                 *)

(* A step of its start takes an instance to a point of it.                   *)
LEMMA BootingNext ==
  ASSUME BootInv, NEW i \in Instances, servers \in [Instances -> Server],
         Start(i) \/ Booting(i) \/ CrashServer(i)
  PROVE  BootInv' /\ servers' \in [Instances -> Server]
<1>0. Down \in Server
  BY DEF Down, Server
<1>1. ASSUME NEW s \in Server,
             servers' = [servers EXCEPT ![i] = s],
             s.connect = "not called" => s = Down,
             s.connect \in {"waiting", "disconnecting"}
               => ~ s.adapter /\ s.serving = "no",
             s.connect = "done"
               => \/ /\ s.adapter /\ s.pub = "open" /\ s.sub = "open"
                     /\ s.serving # "local"
                  \/ /\ ~ s.adapter /\ s.pub = "null" /\ s.sub = "null"
                     /\ s.serving # "cluster"
      PROVE  BootInv' /\ servers' \in [Instances -> Server]
  <2>1. \A j \in Instances : servers'[j] = IF j = i THEN s ELSE servers[j]
    BY <1>1
  <2>2. servers' \in [Instances -> Server]
    BY <1>1
  <2> QED BY <1>1, <2>1, <2>2 DEF BootInv
<1> DEFINE s == servers[i]
<1>2. /\ s \in Server
      /\ s.connect = "not called" => s = Down
      /\ s.connect \in {"waiting", "disconnecting"}
           => ~ s.adapter /\ s.serving = "no"
      /\ s.connect = "done"
           => \/ /\ s.adapter /\ s.pub = "open" /\ s.sub = "open"
                 /\ s.serving # "local"
              \/ /\ ~ s.adapter /\ s.pub = "null" /\ s.sub = "null"
                 /\ s.serving # "cluster"
  BY DEF BootInv
<1> DEFINE Goal == BootInv' /\ servers' \in [Instances -> Server]
<1> HIDE DEF Goal
<1>3. ASSUME servers' = [servers EXCEPT ![i] = Down] PROVE Goal
  BY <1>0, <1>1, <1>3 DEF Goal, Down
<1>4. ASSUME servers' = [servers EXCEPT ![i] = [Down EXCEPT !.connect = "done"]]
      PROVE  Goal
  <2> DEFINE n == [Down EXCEPT !.connect = "done"]
  <2>1. /\ n \in Server /\ n.connect = "done" /\ ~ n.adapter
        /\ n.pub = "null" /\ n.sub = "null" /\ n.serving = "no"
    BY DEF Down, Server
  <2> HIDE DEF n
  <2>2. servers' = [servers EXCEPT ![i] = n]
    BY <1>4 DEF n
  <2> QED BY <1>1, <2>1, <2>2 DEF Goal
<1>5. ASSUME Start(i) PROVE Goal
  <2> DEFINE n == [Down EXCEPT !.connect = "waiting",
                               !.pub = "opening", !.sub = "opening"]
  <2>1. n \in Server /\ n.connect = "waiting" /\ ~ n.adapter /\ n.serving = "no"
    BY DEF Down, Server
  <2> HIDE DEF n
  <2>2. CASE servers' = [servers EXCEPT ![i] = n]
    BY <1>1, <2>1, <2>2 DEF Goal
  <2> QED BY <1>4, <1>5, <2>2 DEF Start, n
<1>6. ASSUME NEW client \in {"pub", "sub"}, ClientOpens(i, client) PROVE Goal
  <2>1. PICK n \in {[s EXCEPT !.pub = "open"], [s EXCEPT !.sub = "open"]} :
          servers' = [servers EXCEPT ![i] = n]
    BY <1>6 DEF ClientOpens
  <2>2. /\ n \in Server /\ n.connect = s.connect /\ n.adapter = s.adapter
        /\ n.serving = s.serving
    BY <1>2, <2>1 DEF Server
  <2>3. s.connect = "waiting"
    BY <1>6 DEF ClientOpens
  <2> HIDE DEF s
  <2> QED BY <1>1, <1>2, <2>1, <2>2, <2>3 DEF Goal
<1>7. ASSUME NEW client \in {"pub", "sub"}, ClientFails(i, client) PROVE Goal
  <2> DEFINE n == [s EXCEPT !.connect = "disconnecting"]
  <2>1. servers' = [servers EXCEPT ![i] = n] /\ s.connect = "waiting"
    BY <1>7 DEF ClientFails
  <2>2. /\ n \in Server /\ n.connect = "disconnecting" /\ n.adapter = s.adapter
        /\ n.serving = s.serving
    BY <1>2 DEF Server
  <2> HIDE DEF s, n
  <2> QED BY <1>1, <1>2, <2>1, <2>2 DEF Goal
<1>8. ASSUME Connected(i) PROVE Goal
  <2> DEFINE n == [s EXCEPT !.connect = "done", !.adapter = TRUE]
  <2>1. /\ servers' = [servers EXCEPT ![i] = n]
        /\ s.connect = "waiting" /\ s.pub = "open" /\ s.sub = "open"
    BY <1>8 DEF Connected
  <2>2. /\ n \in Server /\ n.connect = "done" /\ n.adapter
        /\ n.pub = s.pub /\ n.sub = s.sub /\ n.serving = s.serving
    BY <1>2 DEF Server
  <2> HIDE DEF s, n
  <2> QED BY <1>1, <1>2, <2>1, <2>2 DEF Goal
<1>9. ASSUME Listen(i) PROVE Goal
  <2> DEFINE n == [s EXCEPT !.serving = IF s.adapter THEN "cluster" ELSE "local"]
  <2>1. servers' = [servers EXCEPT ![i] = n] /\ s.connect = "done"
    BY <1>9 DEF Listen
  <2>2. /\ n \in Server /\ n.connect = "done" /\ n.adapter = s.adapter
        /\ n.pub = s.pub /\ n.sub = s.sub
        /\ n.serving = IF s.adapter THEN "cluster" ELSE "local"
    BY <1>2, <2>1 DEF Server
  <2> HIDE DEF s, n
  <2> QED BY <1>1, <1>2, <2>1, <2>2 DEF Goal
<1>10. CASE Disconnected(i) \/ QuitFails(i) \/ ListenFails(i) \/ CrashServer(i)
  BY <1>3, <1>4, <1>10 DEF Disconnected, QuitFails, ListenFails, CrashServer, Goal
<1> QED BY <1>5, <1>6, <1>7, <1>8, <1>9, <1>10 DEF Booting, Goal


-----------------------------------------------------------------------------
(* Types.                                                                    *)

(* The links between two instances.                                          *)
Links == Instances \X Instances

(* Handing a report out adds it, at its instance, or changes nothing.        *)
LEMMA ShownByFacts ==
  ASSUME TypeOK, NEW i \in Instances, NEW r \in Report, shown' = ShownBy(i, r)
  PROVE  /\ shown' \in [Trackers -> Seq(Report)]
         /\ \A t \in Trackers :
              \/ shown'[t] = shown[t]
              \/ /\ at[t] = i /\ r.room \in rooms[t]
                 /\ shown'[t] = Append(shown[t], r)
<1>1. \A t \in Trackers :
        \/ shown'[t] = shown[t]
        \/ /\ at[t] = i /\ r.room \in rooms[t]
           /\ shown'[t] = Append(shown[t], r)
  BY DEF ShownBy, InRoom
<1>2. \A t \in Trackers : shown[t] \in Seq(Report)
  BY DEF TypeOK
<1>3. \A seq \in Seq(Report) : Append(seq, r) \in Seq(Report)
  OBVIOUS
<1>4. \A t \in Trackers : shown'[t] \in Seq(Report)
  BY <1>1, <1>2, <1>3
<1> QED BY <1>1, <1>4 DEF ShownBy

(* Publishing adds the report to the links of its instance and to what it    *)
(* has no reply to, or nothing.                                              *)
LEMMA PublishFacts ==
  ASSUME TypeOK, NEW i \in Instances, NEW r \in Report, Publish(i, r)
  PROVE  /\ wire' \in [Links -> Seq(Report)]
         /\ \A j, k \in Instances :
              \/ wire'[<<j, k>>] = wire[<<j, k>>]
              \/ /\ j = i /\ k # i
                 /\ wire'[<<j, k>>] = Append(wire[<<j, k>>], r)
         /\ unfulfilled' \in [Instances -> Seq(Report)]
         /\ \A j \in Instances :
              \/ unfulfilled'[j] = unfulfilled[j]
              \/ j = i /\ unfulfilled'[j] = Append(unfulfilled[j], r)
<1>1. \A j, k \in Instances :
        \/ wire'[<<j, k>>] = wire[<<j, k>>]
        \/ /\ j = i /\ k # i
           /\ wire'[<<j, k>>] = Append(wire[<<j, k>>], r)
  BY DEF Publish, Hears
<1>2. \A j \in Instances :
        \/ unfulfilled'[j] = unfulfilled[j]
        \/ j = i /\ unfulfilled'[j] = Append(unfulfilled[j], r)
  BY DEF Publish
<1>3. /\ \A j, k \in Instances : wire[<<j, k>>] \in Seq(Report)
      /\ \A j \in Instances : unfulfilled[j] \in Seq(Report)
  BY DEF TypeOK
<1>4. \A seq \in Seq(Report) : Append(seq, r) \in Seq(Report)
  OBVIOUS
<1>5. \A j, k \in Instances : wire'[<<j, k>>] \in Seq(Report)
  BY <1>1, <1>3, <1>4
<1>6. \A link \in Links : wire'[link] \in Seq(Report)
  BY <1>5 DEF Links
<1>7. \A j \in Instances : unfulfilled'[j] \in Seq(Report)
  BY <1>2, <1>3, <1>4
<1>8. /\ wire' = [link \in Links |-> wire'[link]]
      /\ unfulfilled' = [j \in Instances |-> unfulfilled'[j]]
  BY DEF Publish, Links
<1>9. /\ wire' \in [Links -> Seq(Report)]
      /\ unfulfilled' \in [Instances -> Seq(Report)]
  BY <1>6, <1>7, <1>8
<1> QED BY <1>1, <1>2, <1>9

(* Taking the next report off a link leaves the other links alone.           *)
LEMMA TailOfWire ==
  ASSUME TypeOK, NEW i \in Instances, NEW j \in Instances, wire[<<i, j>>] # <<>>,
         wire' = [wire EXCEPT ![<<i, j>>] = Tail(@)]
  PROVE  /\ wire' \in [Links -> Seq(Report)]
         /\ Head(wire[<<i, j>>]) \in Report
         /\ wire'[<<i, j>>] = Tail(wire[<<i, j>>])
         /\ \A k, l \in Instances :
              <<k, l>> # <<i, j>> => wire'[<<k, l>>] = wire[<<k, l>>]
<1>1. wire \in [Links -> Seq(Report)] /\ <<i, j>> \in Links
  BY DEF TypeOK, Links
<1>2. /\ Tail(wire[<<i, j>>]) \in Seq(Report)
      /\ Head(wire[<<i, j>>]) \in Report
  BY <1>1, Removed
<1> QED BY <1>1, <1>2 DEF Links

(* The initial states have their types; no instance has started.             *)
LEMMA TypeInit == Init => TypeOK /\ BootInv
<1> SUFFICES ASSUME Init PROVE TypeOK /\ BootInv
  OBVIOUS
<1>1. Down \in Server /\ Down.connect = "not called"
  BY DEF Down, Server
<1>2. servers = [i \in Instances |-> Down]
  BY DEF Init, ServersInit
<1>3. BootInv /\ servers \in [Instances -> Server]
  BY <1>1, <1>2 DEF BootInv
<1>4. TypeOK
  BY <1>3, TrackingAssumption DEF Init, TypeOK
<1> QED BY <1>3, <1>4

(* No step takes an instance to a point its start does not have.             *)
LEMMA ServersNext ==
  ASSUME BootInv, TypeOK, [Next]_vars
  PROVE  BootInv' /\ servers' \in [Instances -> Server]
<1>1. servers \in [Instances -> Server]
  BY DEF TypeOK
<1>2. CASE UNCHANGED servers
  BY <1>1, <1>2 DEF BootInv
<1>3. ASSUME NEW i \in Instances, Start(i) \/ Booting(i) \/ CrashServer(i)
      PROVE  BootInv' /\ servers' \in [Instances -> Server]
  BY <1>1, <1>3, BootingNext
<1>4. ASSUME NEW i \in Instances, ServerStep(i) \/ Crash(i)
      PROVE  BootInv' /\ servers' \in [Instances -> Server]
  BY <1>3, <1>4 DEF ServerStep, Crash
<1>5. ASSUME NEW c, CallStep(c) PROVE UNCHANGED servers
  BY <1>5 DEF CallStep, recordLocation, recordFails, emit, serverVars
<1>6. ASSUME NEW link, Receive(link) \/ LostOnTheWire(link)
      PROVE  UNCHANGED servers
  BY <1>6 DEF Receive, LostOnTheWire, serverVars
<1>7. ASSUME NEW i \in Instances,
             Reply(i) \/ \E x \in Shipments, code \in Codes :
                          handleLocation(i, x, code)
      PROVE  UNCHANGED servers
  BY <1>7 DEF Reply, handleLocation, serverVars
<1>8. ASSUME NEW t \in Trackers,
             Leave(t) \/ \E i \in Instances, code \in Codes :
                          handleJoin(t, i, code)
      PROVE  UNCHANGED servers
  BY <1>8 DEF Leave, handleJoin, serverVars
<1>9. ASSUME RedisFails \/ Reconnect PROVE UNCHANGED servers
  BY <1>9 DEF RedisFails, Reconnect, RedisReturns
<1>10. CASE UNCHANGED vars
  BY <1>2, <1>10 DEF vars, serverVars
<1> QED BY <1>2, <1>3, <1>4, <1>5, <1>6, <1>7, <1>8, <1>9, <1>10 DEF Next

(* An instance serves only once Redis is up; it goes down by an outage.      *)
LEMMA QuietNext ==
  ASSUME TypeOK, QuietInv, [Next]_vars
  PROVE  QuietInv' /\ (outages' = 0 => outages = 0)
<1> DEFINE Goal == QuietInv' /\ (outages' = 0 => outages = 0)
<1> HIDE DEF Goal
<1>1. servers \in [Instances -> Server] /\ outages \in Nat
  BY DEF TypeOK, QuietInv
<1>2. ASSUME outages' = outages, redisUp' = redisUp,
             \/ redisUp
             \/ \A i \in Instances : Serving(i)' => Serving(i)
      PROVE  Goal
  BY <1>1, <1>2 DEF QuietInv, Goal
<1>3. ASSUME UNCHANGED <<servers, redisUp, outages>> PROVE Goal
  BY <1>2, <1>3 DEF Serving
<1>4. ASSUME outages' = outages, redisUp' = redisUp,
             \A j \in Instances :
               servers'[j].serving \in {"no", servers[j].serving}
      PROVE  Goal
  BY <1>2, <1>4 DEF Serving
<1>5. ASSUME NEW i \in Instances, Start(i) \/ Booting(i) \/ CrashServer(i)
      PROVE  Goal
  <2>1. CASE Start(i) \/ Disconnected(i) \/ QuitFails(i) \/ ListenFails(i)
               \/ CrashServer(i)
    <3>1. /\ Down.serving = "no" /\ [Down EXCEPT !.connect = "done"].serving = "no"
          /\ [Down EXCEPT !.connect = "waiting", !.pub = "opening",
                          !.sub = "opening"].serving = "no"
      BY DEF Down
    <3>2. PICK s : s.serving = "no" /\ servers' = [servers EXCEPT ![i] = s]
      BY <2>1, <3>1
      DEF Start, Disconnected, QuitFails, ListenFails, CrashServer
    <3>3. \A j \in Instances : servers'[j] = IF j = i THEN s ELSE servers[j]
      BY <1>1, <3>2
    <3>4. outages' = outages /\ redisUp' = redisUp
      BY <2>1 DEF Start, Disconnected, QuitFails, ListenFails, CrashServer
    <3> QED BY <1>4, <3>2, <3>3, <3>4
  <2>2. ASSUME NEW client \in {"pub", "sub"},
               \/ ClientOpens(i, client) \/ ClientFails(i, client)
               \/ Connected(i)
        PROVE  Goal
    <3>1. servers[i] \in Server
      BY <1>1
    <3>2. PICK s : /\ s.serving = servers[i].serving
                   /\ servers' = [servers EXCEPT ![i] = s]
      <4>1. CASE ClientOpens(i, client)
        <5>1. servers' \in {[servers EXCEPT ![i] = [servers[i] EXCEPT !.pub = "open"]],
                            [servers EXCEPT ![i] = [servers[i] EXCEPT !.sub = "open"]]}
          BY <4>1 DEF ClientOpens
        <5>2. /\ [servers[i] EXCEPT !.pub = "open"].serving = servers[i].serving
              /\ [servers[i] EXCEPT !.sub = "open"].serving = servers[i].serving
          BY <3>1 DEF Server
        <5> QED BY <5>1, <5>2
      <4>2. CASE ClientFails(i, client)
        <5> DEFINE n == [servers[i] EXCEPT !.connect = "disconnecting"]
        <5>1. servers' = [servers EXCEPT ![i] = n]
          BY <4>2 DEF ClientFails
        <5>2. n.serving = servers[i].serving
          BY <3>1 DEF Server
        <5> QED BY <5>1, <5>2
      <4>3. CASE Connected(i)
        <5> DEFINE n == [servers[i] EXCEPT !.connect = "done", !.adapter = TRUE]
        <5>1. servers' = [servers EXCEPT ![i] = n]
          BY <4>3 DEF Connected
        <5>2. n.serving = servers[i].serving
          BY <3>1 DEF Server
        <5> QED BY <5>1, <5>2
      <4> QED BY <2>2, <4>1, <4>2, <4>3
    <3>3. \A j \in Instances : servers'[j] = IF j = i THEN s ELSE servers[j]
      BY <1>1, <3>2
    <3>4. outages' = outages /\ redisUp' = redisUp
      BY <2>2 DEF ClientOpens, ClientFails, Connected
    <3> QED BY <1>4, <3>2, <3>3, <3>4
  <2>3. CASE Listen(i)
    BY <1>2, <2>3 DEF Listen
  <2> QED BY <1>5, <2>1, <2>2, <2>3 DEF Booting
<1>6. ASSUME NEW i \in Instances, ServerStep(i) \/ Crash(i) PROVE Goal
  BY <1>5, <1>6 DEF ServerStep, Crash
<1>7. ASSUME NEW c, CallStep(c) PROVE Goal
  BY <1>3, <1>7 DEF CallStep, recordLocation, recordFails, emit, serverVars
<1>8. ASSUME NEW link, Receive(link) \/ LostOnTheWire(link) PROVE Goal
  BY <1>3, <1>8 DEF Receive, LostOnTheWire, serverVars
<1>9. ASSUME NEW i \in Instances,
             Reply(i) \/ \E x \in Shipments, code \in Codes :
                          handleLocation(i, x, code)
      PROVE  Goal
  BY <1>3, <1>9 DEF Reply, handleLocation, serverVars
<1>10. ASSUME NEW t \in Trackers,
              Leave(t) \/ \E i \in Instances, code \in Codes :
                           handleJoin(t, i, code)
       PROVE  Goal
  BY <1>3, <1>10 DEF Leave, handleJoin, serverVars
<1>11. CASE RedisFails
  BY <1>1, <1>11 DEF RedisFails, QuietInv, Goal
<1>12. CASE Reconnect
  BY <1>1, <1>12 DEF Reconnect, RedisReturns, QuietInv, Goal
<1>13. CASE UNCHANGED vars
  BY <1>3, <1>13 DEF vars, serverVars, Goal
<1> QED
  BY <1>5, <1>6, <1>7, <1>8, <1>9, <1>10, <1>11, <1>12, <1>13 DEF Next, Goal

-----------------------------------------------------------------------------
(* The calls, the history and the position of the driver.                    *)

(* All of it together; it holds initially, and every step preserves it.      *)
Invariant ==
  /\ TypeOK /\ BootInv /\ QuietInv
  /\ CallsInv /\ PositionKeepsUp /\ OutInv

(* A step that leaves the calls and the tables alone.                        *)
LEMMA CallsAlone ==
  ASSUME TypeOK, CallsInv, PositionKeepsUp,
         UNCHANGED <<calls, tableVars, sent, answered>>
  PROVE  CallsInv' /\ PositionKeepsUp'
BY DEF CallsInv, PositionKeepsUp, tableVars

(* A new report is not answered and knows of what has been answered.         *)
LEMMA CallsHandle ==
  ASSUME TypeOK, CallsInv, PositionKeepsUp,
         NEW i \in Instances, NEW s \in Shipments, NEW code \in Codes,
         handleLocation(i, s, code)
  PROVE  /\ CallsInv' /\ PositionKeepsUp'
         /\ calls' \subseteq [pc : {"record", "emit"}, report : Report]
         /\ sent' \in 0 .. MaxReports
<1> DEFINE r == [ no |-> sent + 1, shipment |-> s, room |-> code,
                  from |-> i, after |-> answered ]
           n == [pc |-> "record", report |-> r]
<1>1. /\ sent \in Nat /\ sent' = sent + 1 /\ sent' \in 1 .. MaxReports
      /\ calls' = calls \cup {n}
      /\ answered' = answered /\ locations' = locations /\ current' = current
  BY TrackingAssumption DEF handleLocation, TypeOK, tableVars
<1>2. r \in Report /\ r.no = sent + 1 /\ r.after = answered
  BY <1>1 DEF Report, TypeOK
<1>3. n \in [pc : {"record", "emit"}, report : Report]
      /\ n.pc = "record" /\ n.report = r
  BY <1>2
<1>4. calls' \subseteq [pc : {"record", "emit"}, report : Report]
  BY <1>1, <1>3 DEF TypeOK
<1>5. \A c \in calls : c.report \in Report /\ c.report.no \in Nat
  BY TrackingAssumption DEF TypeOK, Report
<1> HIDE DEF r, n
<1>6. answered \subseteq 1 .. sent
  BY DEF CallsInv
<1>7. answered' \subseteq 1 .. sent' /\ sent + 1 \notin answered
  BY <1>1, <1>6
<1>8. \A c \in calls' :
        /\ c.report.no <= sent' /\ c.report.no \notin answered'
        /\ c.report.after \subseteq answered'
        /\ c.pc = "emit" => c.report \in ToSet(locations')
  BY <1>1, <1>2, <1>3, <1>5, <1>7 DEF CallsInv
<1>9. \A c, d \in calls' : c.report.no = d.report.no => c = d
  <2>1. \A c \in calls : c.report.no # n.report.no
    BY <1>1, <1>2, <1>3, <1>5 DEF CallsInv
  <2> QED BY <1>1, <2>1 DEF CallsInv
<1>10. \A q \in ToSet(locations') : q.after \subseteq answered'
  BY <1>1 DEF CallsInv
<1>11. CallsInv'
  BY <1>7, <1>8, <1>9, <1>10 DEF CallsInv
<1>12. PositionKeepsUp'
  BY <1>1 DEF PositionKeepsUp
<1> QED BY <1>1, <1>4, <1>11, <1>12

(* The report that commits is not answered, so it is after none of them.     *)
LEMMA CallsRecord ==
  ASSUME TypeOK, CallsInv, NEW c \in calls, recordLocation(c)
  PROVE  /\ CallsInv' /\ PositionKeepsUp'
         /\ calls' \subseteq [pc : {"record", "emit"}, report : Report]
         /\ locations' \in Seq(Report) /\ current' \in 0 .. MaxReports
         /\ ToSet(locations) \subseteq ToSet(locations')
<1> DEFINE n == [c EXCEPT !.pc = "emit"]
<1>1. /\ c \in [pc : {"record", "emit"}, report : Report]
      /\ locations' = Append(locations, c.report)
      /\ current' = c.report.no
      /\ calls' = (calls \ {c}) \cup {n}
      /\ sent' = sent /\ answered' = answered
  BY DEF recordLocation, TypeOK
<1>2. n \in [pc : {"record", "emit"}, report : Report] /\ n.report = c.report
  BY <1>1
<1>3. calls' \subseteq [pc : {"record", "emit"}, report : Report]
  BY <1>1, <1>2 DEF TypeOK
<1> HIDE DEF n
<1>4. c.report \in Report /\ c.report.no \in 0 .. MaxReports
  BY <1>1 DEF Report
<1>5. /\ locations' \in Seq(Report)
      /\ ToSet(locations') = ToSet(locations) \cup {c.report}
  BY <1>1, <1>4, Appended DEF TypeOK
<1>6. /\ c.report.no <= sent /\ c.report.no \notin answered
      /\ c.report.after \subseteq answered
  BY DEF CallsInv
<1>7. \A q \in ToSet(locations') : q.after \subseteq answered
  BY <1>5, <1>6 DEF CallsInv
<1>8. \A d \in calls' :
        /\ d.report.no <= sent' /\ d.report.no \notin answered'
        /\ d.report.after \subseteq answered'
        /\ d.pc = "emit" => d.report \in ToSet(locations')
  BY <1>1, <1>2, <1>5, <1>6 DEF CallsInv
<1>9. \A d, e \in calls' : d.report.no = e.report.no => d = e
  BY <1>1, <1>2 DEF CallsInv
<1>10. CallsInv'
  BY <1>1, <1>7, <1>8, <1>9 DEF CallsInv
<1>11. \A k \in DOMAIN locations' : locations'[k] \in ToSet(locations')
  BY DEF ToSet
<1>12. PositionKeepsUp'
  BY <1>1, <1>6, <1>7, <1>11 DEF PositionKeepsUp
<1> QED BY <1>1, <1>3, <1>4, <1>5, <1>10, <1>12

(* The call that is answered was the only one of its report.                 *)
LEMMA CallsEmit ==
  ASSUME TypeOK, CallsInv, PositionKeepsUp, NEW c \in calls, emit(c)
  PROVE  /\ CallsInv' /\ PositionKeepsUp'
         /\ calls' \subseteq [pc : {"record", "emit"}, report : Report]
         /\ answered \subseteq answered' /\ answered' \subseteq 1 .. MaxReports
<1>1. /\ c \in [pc : {"record", "emit"}, report : Report]
      /\ calls' = calls \ {c} /\ answered' = answered \cup {c.report.no}
      /\ sent' = sent /\ locations' = locations /\ current' = current
  BY DEF emit, TypeOK, tableVars
<1>2. /\ c.report.no \in 1 .. MaxReports /\ c.report.no <= sent
      /\ sent \in 0 .. MaxReports
  BY <1>1 DEF CallsInv, TypeOK, Report
<1>3. answered' \subseteq 1 .. sent' /\ answered' \subseteq 1 .. MaxReports
  <2>1. MaxReports \in Nat /\ answered \subseteq 1 .. sent
    BY TrackingAssumption DEF CallsInv
  <2>2. sent \in Nat /\ c.report.no \in Nat /\ c.report.no # 0
    BY <1>2, <2>1
  <2>3. \A n \in 1 .. sent : n \in 1 .. MaxReports
    BY <1>2, <2>1, <2>2
  <2>4. c.report.no \in 1 .. sent
    BY <1>2, <2>2
  <2> QED BY <1>1, <2>1, <2>3, <2>4
<1>4. \A d \in calls' : d \in calls /\ d.report.no # c.report.no
  BY <1>1 DEF CallsInv
<1>5. CallsInv'
  BY <1>1, <1>3, <1>4 DEF CallsInv
<1>6. PositionKeepsUp'
  BY <1>1 DEF PositionKeepsUp
<1> QED BY <1>1, <1>3, <1>5, <1>6 DEF TypeOK

(* A call that is given up, by an error or by the death of its instance.     *)
LEMMA CallsEnd ==
  ASSUME TypeOK, CallsInv, PositionKeepsUp, calls' \subseteq calls,
         UNCHANGED <<tableVars, sent, answered>>
  PROVE  /\ CallsInv' /\ PositionKeepsUp'
         /\ calls' \subseteq [pc : {"record", "emit"}, report : Report]
BY DEF CallsInv, PositionKeepsUp, tableVars, TypeOK

-----------------------------------------------------------------------------
(* What is on its way and what the trackers have been shown.                 *)

(* A step that leaves what is on its way and what was shown alone.           *)
LEMMA OutAlone ==
  ASSUME OutInv, UNCHANGED <<at, rooms, outVars>>,
         outages' = 0 => outages = 0,
         ToSet(locations) \subseteq ToSet(locations'),
         answered \subseteq answered'
  PROVE  OutInv'
<1>1. /\ at' = at /\ rooms' = rooms
      /\ wire' = wire /\ unfulfilled' = unfulfilled /\ shown' = shown
  BY DEF outVars
<1>2. \A r : Emitted(r) => Emitted(r)'
  BY DEF Emitted
<1>3. WireInv' /\ UnfulfilledInv'
  BY <1>1, <1>2 DEF OutInv, WireInv, UnfulfilledInv
<1>4. ShownInv'
  BY <1>1, <1>2 DEF OutInv, ShownInv
<1> QED BY <1>3, <1>4 DEF OutInv

(* An emitted report may follow all that were emitted before it.             *)
LEMMA OutEmit ==
  ASSUME TypeOK, CallsInv, OutInv, NEW c \in calls, emit(c)
  PROVE  OutInv' /\ OutTypes'
<1> DEFINE q == c.report
<1>1. /\ q \in Report /\ q.from \in Instances
      /\ c.pc = "emit"
      /\ shown' = ShownBy(q.from, q) /\ Publish(q.from, q)
      /\ answered' = answered \cup {q.no}
      /\ locations' = locations /\ at' = at /\ rooms' = rooms
      /\ outages' = outages
  BY DEF emit, TypeOK, tableVars, clientVars, serverVars, Report
<1>2. /\ q \in ToSet(locations) /\ q.no \notin answered
  BY <1>1 DEF CallsInv
<1>0. WireInv /\ UnfulfilledInv /\ ShownInv
  BY DEF OutInv
<1> HIDE DEF q
<1>3. \A r : Emitted(r) => Emitted(r)' /\ MayFollow(r, q)
  BY <1>1, <1>2 DEF Emitted, MayFollow, CallsInv
<1>4. Emitted(q)'
  BY <1>1, <1>2 DEF Emitted
<1>5. /\ wire' \in [Links -> Seq(Report)]
      /\ \A j, k \in Instances :
           \/ wire'[<<j, k>>] = wire[<<j, k>>]
           \/ /\ j = q.from /\ k # q.from
              /\ wire'[<<j, k>>] = Append(wire[<<j, k>>], q)
      /\ unfulfilled' \in [Instances -> Seq(Report)]
      /\ \A j \in Instances :
           \/ unfulfilled'[j] = unfulfilled[j]
           \/ j = q.from /\ unfulfilled'[j] = Append(unfulfilled[j], q)
  BY <1>1, PublishFacts
<1>6. /\ shown' \in [Trackers -> Seq(Report)]
      /\ \A t \in Trackers :
           \/ shown'[t] = shown[t]
           \/ /\ at[t] = q.from /\ q.room \in rooms[t]
              /\ shown'[t] = Append(shown[t], q)
  BY <1>1, ShownByFacts
<1>7. /\ \A j, k \in Instances : wire[<<j, k>>] \in Seq(Report)
      /\ \A j \in Instances : unfulfilled[j] \in Seq(Report)
      /\ \A t \in Trackers : shown[t] \in Seq(Report)
  BY DEF TypeOK
<1>8. \A seq \in Seq(Report) :
        /\ ToSet(Append(seq, q)) = ToSet(seq) \cup {q}
        /\ InOrder(seq) /\ (\A r \in ToSet(seq) : MayFollow(r, q))
             => InOrder(Append(seq, q))
        /\ \A i : OrderedFrom(i, seq) /\ (\A r \in ToSet(seq) : MayFollow(r, q))
                    => OrderedFrom(i, Append(seq, q))
  BY <1>1, Appended
<1>9. ASSUME NEW j \in Instances, NEW k \in Instances
      PROVE  /\ outages = 0 => InOrder(wire'[<<j, k>>])
             /\ \A r \in ToSet(wire'[<<j, k>>]) :
                  /\ j # k /\ r.from = j
                  /\ r = q \/ r \in ToSet(wire[<<j, k>>])
                  /\ Emitted(r)'
  <2>1. CASE wire'[<<j, k>>] = wire[<<j, k>>]
    BY <1>0, <1>3, <2>1 DEF WireInv
  <2>2. CASE j = q.from /\ k # q.from
             /\ wire'[<<j, k>>] = Append(wire[<<j, k>>], q)
    <3>1. /\ ToSet(wire'[<<j, k>>]) = ToSet(wire[<<j, k>>]) \cup {q}
          /\ InOrder(wire[<<j, k>>])
               /\ (\A r \in ToSet(wire[<<j, k>>]) : MayFollow(r, q))
             => InOrder(wire'[<<j, k>>])
      BY <1>7, <1>8, <2>2
    <3> QED BY <1>0, <1>3, <1>4, <2>2, <3>1 DEF WireInv
  <2> QED BY <1>5, <2>1, <2>2
<1>10. WireInv'
  BY <1>1, <1>9 DEF WireInv
<1>11. ASSUME NEW j \in Instances, NEW r \in ToSet(unfulfilled'[j])
       PROVE  r.from = j /\ Emitted(r)'
  <2>1. CASE unfulfilled'[j] = unfulfilled[j]
    BY <1>0, <1>3, <1>11, <2>1 DEF UnfulfilledInv
  <2>2. CASE j = q.from /\ unfulfilled'[j] = Append(unfulfilled[j], q)
    <3>1. r \in ToSet(unfulfilled[j]) \cup {q}
      BY <1>7, <1>8, <1>11, <2>2
    <3> QED BY <1>0, <1>3, <1>4, <2>2, <3>1 DEF UnfulfilledInv
  <2> QED BY <1>5, <2>1, <2>2
<1>12. UnfulfilledInv'
  BY <1>11 DEF UnfulfilledInv
<1>13. ASSUME NEW t \in Trackers
       PROVE  /\ OrderedFrom(at[t], shown'[t])
              /\ outages = 0 => InOrder(shown'[t])
              /\ \A r \in ToSet(shown'[t]) :
                   /\ Emitted(r)' /\ r.room \in rooms[t]
                   /\ \/ r \in ToSet(shown[t])
                      \/ r = q /\ at[t] = q.from
              /\ at[t] = NoInstance => shown'[t] = <<>>
  <2>1. CASE shown'[t] = shown[t]
    BY <1>0, <1>3, <2>1 DEF ShownInv
  <2>2. CASE /\ at[t] = q.from /\ q.room \in rooms[t]
             /\ shown'[t] = Append(shown[t], q)
    <3>1. /\ ToSet(shown'[t]) = ToSet(shown[t]) \cup {q}
          /\ InOrder(shown[t]) /\ (\A r \in ToSet(shown[t]) : MayFollow(r, q))
             => InOrder(shown'[t])
          /\ OrderedFrom(at[t], shown[t])
               /\ (\A r \in ToSet(shown[t]) : MayFollow(r, q))
             => OrderedFrom(at[t], shown'[t])
      BY <1>7, <1>8, <2>2
    <3>2. \A r \in ToSet(shown[t]) :
            Emitted(r)' /\ MayFollow(r, q) /\ r.room \in rooms[t]
      BY <1>0, <1>3 DEF ShownInv
    <3>3. OrderedFrom(at[t], shown[t]) /\ (outages = 0 => InOrder(shown[t]))
      BY <1>0 DEF ShownInv
    <3> QED BY <1>1, <1>4, <2>2, <3>1, <3>2, <3>3, TrackingAssumption
  <2> QED BY <1>6, <2>1, <2>2
<1>14. ASSUME outages = 0, NEW t \in Trackers, at[t] # NoInstance,
              NEW i \in Instances, NEW r \in ToSet(shown'[t]),
              NEW p \in ToSet(wire'[<<i, at[t]>>])
       PROVE  MayFollow(r, p)
  <2>0. at[t] \in Instances
    BY <1>14 DEF TypeOK
  <2>1. i # at[t] /\ p.from = i /\ (p = q \/ p \in ToSet(wire[<<i, at[t]>>]))
    BY <1>9, <1>14, <2>0
  <2>2. CASE r \in ToSet(shown[t])
    BY <1>0, <1>3, <1>14, <2>1, <2>2 DEF ShownInv
  <2>3. CASE r = q /\ at[t] = q.from
    BY <2>1, <2>3 DEF MayFollow
  <2> QED BY <1>13, <2>2, <2>3
<1>15. ShownInv'
  BY <1>1, <1>13, <1>14 DEF ShownInv
<1> QED BY <1>5, <1>6, <1>10, <1>12, <1>15 DEF OutInv, OutTypes, Links

(* What comes off a link may follow what was shown, and precede what is left *)
(* there; the other links carry reports of other instances.                  *)
LEMMA OutReceive ==
  ASSUME TypeOK, OutInv, NEW i \in Instances, NEW j \in Instances,
         Receive(<<i, j>>) \/ LostOnTheWire(<<i, j>>)
  PROVE  OutInv' /\ OutTypes'
<1> DEFINE q == Head(wire[<<i, j>>])
<1>0. WireInv /\ UnfulfilledInv /\ ShownInv
  BY DEF OutInv
<1>1. /\ wire[<<i, j>>] # <<>> /\ wire[<<i, j>>] \in Seq(Report)
      /\ wire' = [wire EXCEPT ![<<i, j>>] = Tail(@)]
      /\ shown' = ShownBy(j, q) \/ shown' = shown
      /\ locations' = locations /\ answered' = answered
      /\ at' = at /\ rooms' = rooms /\ unfulfilled' = unfulfilled
      /\ outages' = outages
  BY DEF Receive, LostOnTheWire, TypeOK, tableVars, clientVars, serverVars
<1>2. /\ wire' \in [Links -> Seq(Report)]
      /\ q \in Report
      /\ wire'[<<i, j>>] = Tail(wire[<<i, j>>])
      /\ \A k, l \in Instances :
           <<k, l>> # <<i, j>> => wire'[<<k, l>>] = wire[<<k, l>>]
  BY <1>1, TailOfWire
<1>3. /\ q \in ToSet(wire[<<i, j>>])
      /\ ToSet(wire'[<<i, j>>]) \subseteq ToSet(wire[<<i, j>>])
      /\ InOrder(wire[<<i, j>>]) => /\ InOrder(wire'[<<i, j>>])
                                    /\ \A r \in ToSet(wire'[<<i, j>>]) :
                                         MayFollow(q, r)
  <2>1. \A seq \in Seq(Report) : seq # <<>> =>
          /\ Head(seq) \in ToSet(seq) /\ ToSet(Tail(seq)) \subseteq ToSet(seq)
          /\ InOrder(seq) => /\ InOrder(Tail(seq))
                             /\ \A r \in ToSet(Tail(seq)) :
                                  MayFollow(Head(seq), r)
    BY Removed
  <2> QED BY <1>1, <1>2, <2>1
<1>4. /\ shown' \in [Trackers -> Seq(Report)]
      /\ \A t \in Trackers :
           \/ shown'[t] = shown[t]
           \/ /\ at[t] = j /\ q.room \in rooms[t]
              /\ shown'[t] = Append(shown[t], q)
  <2>1. CASE shown' = ShownBy(j, q)
    BY <1>2, <2>1, ShownByFacts
  <2>2. CASE shown' = shown
    BY <2>2 DEF TypeOK
  <2> QED BY <1>1, <2>1, <2>2
<1>5. /\ \A t \in Trackers : shown[t] \in Seq(Report)
      /\ unfulfilled' \in [Instances -> Seq(Report)]
  BY <1>1 DEF TypeOK
<1> HIDE DEF q
<1>6. i # j /\ q.from = i /\ Emitted(q)
  BY <1>0, <1>3 DEF WireInv
<1>7. \A r : Emitted(r)' <=> Emitted(r)
  BY <1>1 DEF Emitted
<1>8. \A k, l \in Instances :
        /\ outages = 0 => InOrder(wire'[<<k, l>>])
        /\ ToSet(wire'[<<k, l>>]) \subseteq ToSet(wire[<<k, l>>])
  <2> SUFFICES ASSUME NEW k \in Instances, NEW l \in Instances
               PROVE  /\ outages = 0 => InOrder(wire'[<<k, l>>])
                      /\ ToSet(wire'[<<k, l>>]) \subseteq ToSet(wire[<<k, l>>])
    OBVIOUS
  <2>1. CASE k = i /\ l = j
    BY <1>0, <1>3, <2>1 DEF WireInv
  <2>2. CASE k # i \/ l # j
    BY <1>0, <1>2, <2>2 DEF WireInv
  <2> QED BY <2>1, <2>2
<1>9. WireInv' /\ UnfulfilledInv'
  <2>1. WireInv'
    BY <1>0, <1>1, <1>7, <1>8 DEF WireInv
  <2>2. UnfulfilledInv'
    BY <1>0, <1>1, <1>7 DEF UnfulfilledInv
  <2> QED BY <2>1, <2>2
<1>10. ASSUME NEW t \in Trackers
       PROVE  /\ OrderedFrom(at[t], shown'[t])
              /\ outages = 0 => InOrder(shown'[t])
              /\ \A r \in ToSet(shown'[t]) :
                   /\ Emitted(r) /\ r.room \in rooms[t]
                   /\ \/ r \in ToSet(shown[t])
                      \/ r = q /\ at[t] = j
              /\ at[t] = NoInstance => shown'[t] = <<>>
  <2>1. CASE shown'[t] = shown[t]
    BY <1>0, <2>1 DEF ShownInv
  <2>2. CASE /\ at[t] = j /\ q.room \in rooms[t]
             /\ shown'[t] = Append(shown[t], q)
    <3>1. /\ ToSet(shown'[t]) = ToSet(shown[t]) \cup {q}
          /\ InOrder(shown[t]) /\ (\A r \in ToSet(shown[t]) : MayFollow(r, q))
             => InOrder(shown'[t])
          /\ OrderedFrom(at[t], shown[t])
               /\ (\A r \in ToSet(shown[t]) : r.from = at[t] => MayFollow(r, q))
             => OrderedFrom(at[t], shown'[t])
      BY <1>2, <1>5, <2>2, Appended
    <3>2. at[t] # NoInstance
      BY <2>2, TrackingAssumption
    <3>3. outages = 0 => \A r \in ToSet(shown[t]) : MayFollow(r, q)
      BY <1>0, <1>3, <2>2, <3>2 DEF ShownInv
    <3>4. \A r \in ToSet(shown[t]) : r.from = at[t] => MayFollow(r, q)
      BY <1>6, <2>2 DEF MayFollow
    <3>5. /\ \A r \in ToSet(shown[t]) : Emitted(r) /\ r.room \in rooms[t]
          /\ OrderedFrom(at[t], shown[t])
          /\ outages = 0 => InOrder(shown[t])
      BY <1>0 DEF ShownInv
    <3> QED BY <1>6, <2>2, <3>1, <3>2, <3>3, <3>4, <3>5
  <2> QED BY <1>4, <2>1, <2>2
<1>11. ASSUME outages = 0, NEW t \in Trackers, at[t] # NoInstance,
              NEW k \in Instances, NEW r \in ToSet(shown'[t]),
              NEW p \in ToSet(wire'[<<k, at[t]>>])
       PROVE  MayFollow(r, p)
  <2>0. at[t] \in Instances
    BY <1>11 DEF TypeOK
  <2>1. p \in ToSet(wire[<<k, at[t]>>]) /\ p.from = k
    BY <1>0, <1>8, <1>11, <2>0 DEF WireInv
  <2>2. CASE r \in ToSet(shown[t])
    BY <1>0, <1>11, <2>1, <2>2 DEF ShownInv
  <2>3. CASE r = q /\ at[t] = j
    <3>1. CASE k = i
      BY <1>0, <1>3, <1>11, <2>3, <3>1 DEF WireInv
    <3>2. CASE k # i
      BY <1>6, <2>1, <2>3, <3>2 DEF MayFollow
    <3> QED BY <3>1, <3>2
  <2> QED BY <1>10, <2>2, <2>3
<1>12. ShownInv'
  BY <1>1, <1>7, <1>10, <1>11 DEF ShownInv
<1> QED BY <1>2, <1>4, <1>5, <1>9, <1>12 DEF OutInv, OutTypes, Links

(* A reply leaves an instance less that it may publish again.                *)
LEMMA OutReply ==
  ASSUME TypeOK, OutInv, NEW i \in Instances, Reply(i)
  PROVE  OutInv' /\ OutTypes'
<1>0. WireInv /\ UnfulfilledInv /\ ShownInv
  BY DEF OutInv
<1>1. /\ unfulfilled[i] # <<>> /\ unfulfilled[i] \in Seq(Report)
      /\ unfulfilled' = [unfulfilled EXCEPT ![i] = Tail(@)]
      /\ wire' = wire /\ shown' = shown /\ at' = at /\ rooms' = rooms
      /\ locations' = locations /\ answered' = answered /\ outages' = outages
  BY DEF Reply, TypeOK, tableVars, clientVars, serverVars
<1>2. /\ Tail(unfulfilled[i]) \in Seq(Report)
      /\ ToSet(Tail(unfulfilled[i])) \subseteq ToSet(unfulfilled[i])
  BY <1>1, Removed
<1>3. OutTypes'
  BY <1>1, <1>2 DEF TypeOK, OutTypes, Links
<1>4. \A j \in Instances : ToSet(unfulfilled'[j]) \subseteq ToSet(unfulfilled[j])
  BY <1>1, <1>2 DEF TypeOK
<1>5. UnfulfilledInv'
  BY <1>0, <1>1, <1>4 DEF UnfulfilledInv, Emitted
<1>6. WireInv'
  BY <1>0, <1>1 DEF WireInv, Emitted
<1>7. ShownInv'
  BY <1>0, <1>1 DEF ShownInv, Emitted
<1> QED BY <1>3, <1>5, <1>6, <1>7 DEF OutInv

(* Nothing is published again unless Redis has had an outage.                *)
LEMMA OutReconnect ==
  ASSUME TypeOK, QuietInv, OutInv, Reconnect
  PROVE  OutInv' /\ OutTypes'
<1>0. WireInv /\ UnfulfilledInv /\ ShownInv
  BY DEF OutInv
<1>1. /\ ~ redisUp /\ outages' = outages
      /\ wire' = [link \in Links |->
                    IF Hears(link[1], link[2])
                      THEN wire[link] \o unfulfilled[link[1]]
                      ELSE wire[link]]
      /\ unfulfilled' = unfulfilled /\ shown' = shown /\ at' = at
      /\ rooms' = rooms /\ locations' = locations /\ answered' = answered
  BY DEF Reconnect, RedisReturns, tableVars, clientVars, Links
<1>2. \A i, j \in Instances :
        wire'[<<i, j>>] = IF Hears(i, j) THEN wire[<<i, j>>] \o unfulfilled[i]
                                         ELSE wire[<<i, j>>]
  BY <1>1 DEF Links
<1>3. ASSUME outages = 0, NEW i \in Instances, NEW j \in Instances
      PROVE  wire'[<<i, j>>] = wire[<<i, j>>]
  <2>1. ~ Serving(i)
    BY <1>1, <1>3 DEF QuietInv
  <2> QED BY <1>2, <2>1 DEF Serving, Hears
<1>4. ASSUME NEW i \in Instances, NEW j \in Instances
      PROVE  /\ wire'[<<i, j>>] \in Seq(Report)
             /\ \A r \in ToSet(wire'[<<i, j>>]) :
                  i # j /\ r.from = i /\ Emitted(r)
  <2>1. wire[<<i, j>>] \in Seq(Report) /\ unfulfilled[i] \in Seq(Report)
    BY DEF TypeOK
  <2>2. CASE Hears(i, j)
    <3>1. /\ wire'[<<i, j>>] \in Seq(Report)
          /\ ToSet(wire'[<<i, j>>])
               \subseteq ToSet(wire[<<i, j>>]) \cup ToSet(unfulfilled[i])
      BY <1>2, <2>1, <2>2, Concatenated
    <3> QED BY <1>0, <2>2, <3>1 DEF WireInv, UnfulfilledInv, Hears
  <2>3. CASE ~ Hears(i, j)
    BY <1>0, <1>2, <2>1, <2>3 DEF WireInv
  <2> QED BY <2>2, <2>3
<1>5. \A r : Emitted(r)' <=> Emitted(r)
  BY <1>1 DEF Emitted
<1>6. WireInv' /\ UnfulfilledInv'
  <2>1. \A i, j \in Instances : outages = 0 => InOrder(wire'[<<i, j>>])
    BY <1>0, <1>3 DEF WireInv
  <2>2. WireInv'
    BY <1>1, <1>4, <1>5, <2>1 DEF WireInv
  <2>3. UnfulfilledInv'
    BY <1>0, <1>1, <1>5 DEF UnfulfilledInv
  <2> QED BY <2>2, <2>3
<1>7. \A t \in Trackers : at[t] # NoInstance => at[t] \in Instances
  BY DEF TypeOK
<1>8. ShownInv'
  <2> SUFFICES ASSUME NEW t \in Trackers
               PROVE  /\ at[t] = NoInstance => shown[t] = <<>>
                      /\ OrderedFrom(at[t], shown[t])
                      /\ \A r \in ToSet(shown[t]) :
                           Emitted(r) /\ r.room \in rooms[t]
                      /\ outages = 0 =>
                           /\ InOrder(shown[t])
                           /\ at[t] # NoInstance =>
                                \A i \in Instances, r \in ToSet(shown[t]) :
                                  \A q \in ToSet(wire'[<<i, at[t]>>]) :
                                    MayFollow(r, q)
    BY <1>1, <1>5 DEF ShownInv
  <2>1. CASE outages = 0 /\ at[t] # NoInstance
    <3>1. \A i \in Instances : wire'[<<i, at[t]>>] = wire[<<i, at[t]>>]
      BY <1>3, <1>7, <2>1
    <3> QED BY <1>0, <2>1, <3>1 DEF ShownInv
  <2>2. CASE ~ (outages = 0 /\ at[t] # NoInstance)
    BY <1>0, <2>2 DEF ShownInv
  <2> QED BY <2>1, <2>2
<1>9. OutTypes'
  <2>1. \A link \in Links : wire'[link] \in Seq(Report)
    BY <1>4 DEF Links
  <2>2. wire' \in [Links -> Seq(Report)]
    BY <1>1, <2>1
  <2> QED BY <1>1, <2>2 DEF OutTypes, TypeOK, Links
<1> QED BY <1>6, <1>8, <1>9 DEF OutInv

(* A tracker that connects has been shown nothing yet.                       *)
LEMMA OutJoin ==
  ASSUME TypeOK, OutInv, NEW t \in Trackers, NEW i \in Instances,
         NEW code \in Codes, handleJoin(t, i, code)
  PROVE  /\ OutInv'
         /\ at' \in [Trackers -> Instances \cup {NoInstance}]
         /\ rooms' \in [Trackers -> SUBSET Codes]
<1>0. WireInv /\ UnfulfilledInv /\ ShownInv
  BY DEF OutInv
<1>1. /\ at[t] \in {i, NoInstance} /\ at' = [at EXCEPT ![t] = i]
      /\ rooms' = [rooms EXCEPT ![t] = @ \cup {code}]
      /\ wire' = wire /\ unfulfilled' = unfulfilled /\ shown' = shown
      /\ locations' = locations /\ answered' = answered /\ outages' = outages
  BY DEF handleJoin, outVars, tableVars, serverVars
<1>2. /\ at' \in [Trackers -> Instances \cup {NoInstance}]
      /\ rooms' \in [Trackers -> SUBSET Codes]
  BY <1>1 DEF TypeOK
<1>3. \A r : Emitted(r)' <=> Emitted(r)
  BY <1>1 DEF Emitted
<1>4. WireInv'
  BY <1>0, <1>1, <1>3 DEF WireInv
<1>5. UnfulfilledInv'
  BY <1>0, <1>1, <1>3 DEF UnfulfilledInv
<1>6. \A u \in Trackers :
        /\ \/ at'[u] = at[u]
           \/ at[u] = NoInstance /\ at'[u] # NoInstance
        /\ rooms[u] \subseteq rooms'[u]
  BY <1>1, TrackingAssumption DEF TypeOK
<1>7. ASSUME NEW u \in Trackers, at'[u] = at[u]
      PROVE  /\ at'[u] = NoInstance => shown'[u] = <<>>
             /\ OrderedFrom(at'[u], shown'[u])
             /\ \A r \in ToSet(shown'[u]) : Emitted(r)' /\ r.room \in rooms'[u]
             /\ outages' = 0 =>
                  /\ InOrder(shown'[u])
                  /\ at'[u] # NoInstance =>
                       \A k \in Instances, r \in ToSet(shown'[u]) :
                         \A q \in ToSet(wire'[<<k, at'[u]>>]) : MayFollow(r, q)
  BY <1>0, <1>1, <1>3, <1>6, <1>7 DEF ShownInv
<1>8. ASSUME NEW u \in Trackers, at[u] = NoInstance, at'[u] # NoInstance
      PROVE  /\ shown'[u] = <<>> /\ ToSet(shown'[u]) = {}
             /\ OrderedFrom(at'[u], shown'[u]) /\ InOrder(shown'[u])
  BY <1>0, <1>1, <1>8, Nothing DEF ShownInv
<1>9. ShownInv'
  BY <1>6, <1>7, <1>8 DEF ShownInv
<1> QED BY <1>2, <1>4, <1>5, <1>9 DEF OutInv

(* Trackers that lose their connection, and what was on its way to an        *)
(* instance that dies, or could have been published again by it.             *)
LEMMA OutCut ==
  ASSUME TypeOK, OutInv, NEW T \in SUBSET Trackers,
         at' = [t \in Trackers |-> IF t \in T THEN NoInstance ELSE at[t]],
         rooms' = [t \in Trackers |-> IF t \in T THEN {} ELSE rooms[t]],
         shown' = [t \in Trackers |-> IF t \in T THEN <<>> ELSE shown[t]],
         \A j, k \in Instances : \/ wire'[<<j, k>>] = wire[<<j, k>>]
                                 \/ wire'[<<j, k>>] = <<>>,
         \A j \in Instances : \/ unfulfilled'[j] = unfulfilled[j]
                              \/ unfulfilled'[j] = <<>>,
         locations' = locations, answered' = answered, outages' = outages
  PROVE  /\ OutInv'
         /\ at' \in [Trackers -> Instances \cup {NoInstance}]
         /\ rooms' \in [Trackers -> SUBSET Codes]
         /\ shown' \in [Trackers -> Seq(Report)]
<1>0. WireInv /\ UnfulfilledInv /\ ShownInv
  BY DEF OutInv
<1>1. /\ at' \in [Trackers -> Instances \cup {NoInstance}]
      /\ rooms' \in [Trackers -> SUBSET Codes]
      /\ shown' \in [Trackers -> Seq(Report)]
  BY DEF TypeOK
<1>2. WireInv' /\ UnfulfilledInv'
  BY <1>0, Nothing DEF WireInv, UnfulfilledInv, Emitted
<1>3. \A j, k \in Instances :
        ToSet(wire'[<<j, k>>]) \subseteq ToSet(wire[<<j, k>>])
  BY Nothing
<1>4. ASSUME NEW t \in Trackers, t \in T
      PROVE  at'[t] = NoInstance /\ shown'[t] = <<>>
  BY <1>4
<1>5. ASSUME NEW t \in Trackers, t \notin T
      PROVE  /\ at'[t] = at[t] /\ rooms'[t] = rooms[t] /\ shown'[t] = shown[t]
             /\ at[t] \in Instances \cup {NoInstance}
  BY <1>5 DEF TypeOK
<1>6. ShownInv'
  <2> SUFFICES ASSUME NEW t \in Trackers
               PROVE  /\ at'[t] = NoInstance => shown'[t] = <<>>
                      /\ OrderedFrom(at'[t], shown'[t])
                      /\ \A r \in ToSet(shown'[t]) :
                           Emitted(r)' /\ r.room \in rooms'[t]
                      /\ outages = 0 =>
                           /\ InOrder(shown'[t])
                           /\ at'[t] # NoInstance =>
                                \A i \in Instances, r \in ToSet(shown'[t]) :
                                  \A q \in ToSet(wire'[<<i, at'[t]>>]) :
                                    MayFollow(r, q)
    BY DEF ShownInv
  <2>1. CASE t \in T
    BY <1>4, <2>1, Nothing
  <2>2. CASE t \notin T
    BY <1>0, <1>3, <1>5, <2>2 DEF ShownInv, Emitted
  <2> QED BY <2>1, <2>2
<1> QED BY <1>1, <1>2, <1>6 DEF OutInv

-----------------------------------------------------------------------------
(* The invariant holds initially, and every step preserves it.               *)
LEMMA InvariantInit == Init => Invariant
<1> SUFFICES ASSUME Init PROVE Invariant
  OBVIOUS
<1>1. TypeOK /\ BootInv
  BY TypeInit
<1>2. /\ calls = {} /\ locations = <<>> /\ sent = 0 /\ answered = {}
      /\ \A i, j \in Instances : wire[<<i, j>>] = <<>>
      /\ \A i \in Instances : unfulfilled[i] = <<>>
      /\ \A t \in Trackers : shown[t] = <<>>
  BY DEF Init
<1>3. CallsInv
  BY <1>2, Nothing DEF CallsInv
<1>4. PositionKeepsUp
  BY <1>2 DEF PositionKeepsUp
<1>5. OutInv
  BY <1>2, Nothing DEF OutInv, WireInv, UnfulfilledInv, ShownInv
<1>6. QuietInv
  BY DEF Init, ServersInit, Down, Serving, QuietInv
<1> QED BY <1>1, <1>3, <1>4, <1>5, <1>6 DEF Invariant

LEMMA InvariantNext == Invariant /\ [Next]_vars => Invariant'
<1> SUFFICES ASSUME Invariant, [Next]_vars PROVE Invariant'
  OBVIOUS
<1> USE DEF Invariant
<1>0. /\ BootInv' /\ servers' \in [Instances -> Server]
      /\ QuietInv' /\ (outages' = 0 => outages = 0)
  BY ServersNext, QuietNext
<1>1. ASSUME UNCHANGED <<clientVars, calls, tableVars, outVars, sent, answered>>
      PROVE  Invariant'
  <2>1. CallsInv' /\ PositionKeepsUp'
    BY <1>1, CallsAlone
  <2>2. OutInv'
    BY <1>0, <1>1, OutAlone DEF clientVars, tableVars
  <2>3. TypeOK'
    BY <1>0, <1>1 DEF TypeOK, clientVars, tableVars, outVars
  <2> QED BY <1>0, <2>1, <2>2, <2>3
<1>2. ASSUME NEW i \in Instances, NEW s \in Shipments, NEW code \in Codes,
             handleLocation(i, s, code)
      PROVE  Invariant'
  <2>1. /\ CallsInv' /\ PositionKeepsUp'
        /\ calls' \subseteq [pc : {"record", "emit"}, report : Report]
        /\ sent' \in 0 .. MaxReports
    BY <1>2, CallsHandle
  <2>2. UNCHANGED <<clientVars, tableVars, outVars, answered>>
    BY <1>2 DEF handleLocation
  <2>3. OutInv'
    BY <1>0, <2>2, OutAlone DEF clientVars, tableVars
  <2>4. TypeOK'
    BY <1>0, <2>1, <2>2 DEF TypeOK, clientVars, tableVars, outVars
  <2> QED BY <1>0, <2>1, <2>3, <2>4
<1>3. ASSUME NEW t \in Trackers, NEW i \in Instances, NEW code \in Codes,
             handleJoin(t, i, code)
      PROVE  Invariant'
  <2>1. /\ OutInv'
        /\ at' \in [Trackers -> Instances \cup {NoInstance}]
        /\ rooms' \in [Trackers -> SUBSET Codes]
    BY <1>3, OutJoin
  <2>2. UNCHANGED <<calls, tableVars, outVars, sent, answered>>
    BY <1>3 DEF handleJoin
  <2>3. CallsInv' /\ PositionKeepsUp'
    BY <2>2, CallsAlone
  <2>4. TypeOK'
    BY <1>0, <2>1, <2>2 DEF TypeOK, tableVars, outVars
  <2> QED BY <1>0, <2>1, <2>3, <2>4
<1>4. ASSUME NEW t \in Trackers, Leave(t) PROVE Invariant'
  <2>1. /\ UNCHANGED <<serverVars, calls, tableVars, wire, unfulfilled, sent,
                       answered>>
        /\ at' = [u \in Trackers |-> IF u \in {t} THEN NoInstance ELSE at[u]]
        /\ rooms' = [u \in Trackers |-> IF u \in {t} THEN {} ELSE rooms[u]]
        /\ shown' = [u \in Trackers |-> IF u \in {t} THEN <<>> ELSE shown[u]]
    BY <1>4 DEF Leave, TypeOK
  <2>2. locations' = locations /\ answered' = answered /\ outages' = outages
    BY <2>1 DEF tableVars, serverVars
  <2>3. /\ OutInv'
        /\ at' \in [Trackers -> Instances \cup {NoInstance}]
        /\ rooms' \in [Trackers -> SUBSET Codes]
        /\ shown' \in [Trackers -> Seq(Report)]
    BY <2>1, <2>2, OutCut
  <2>4. CallsInv' /\ PositionKeepsUp'
    BY <2>1, CallsAlone
  <2>5. TypeOK'
    BY <1>0, <2>1, <2>3 DEF TypeOK, tableVars
  <2> QED BY <1>0, <2>3, <2>4, <2>5
<1>5. ASSUME NEW i \in Instances, Crash(i) PROVE Invariant'
  <2> DEFINE T == {t \in Trackers : at[t] = i}
  <2>1. /\ calls' \subseteq calls /\ UNCHANGED <<tableVars, sent, answered>>
        /\ at' = [t \in Trackers |-> IF t \in T THEN NoInstance ELSE at[t]]
        /\ rooms' = [t \in Trackers |-> IF t \in T THEN {} ELSE rooms[t]]
        /\ shown' = [t \in Trackers |-> IF t \in T THEN <<>> ELSE shown[t]]
        /\ wire' = [link \in Instances \X Instances |->
                      IF link[2] = i THEN <<>> ELSE wire[link]]
        /\ unfulfilled' = [unfulfilled EXCEPT ![i] = <<>>]
    BY <1>5 DEF Crash
  <2>2. /\ wire' \in [Instances \X Instances -> Seq(Report)]
        /\ \A j, k \in Instances : \/ wire'[<<j, k>>] = wire[<<j, k>>]
                                   \/ wire'[<<j, k>>] = <<>>
        /\ unfulfilled' \in [Instances -> Seq(Report)]
        /\ \A j \in Instances : \/ unfulfilled'[j] = unfulfilled[j]
                                \/ unfulfilled'[j] = <<>>
    BY <2>1 DEF TypeOK
  <2>3. locations' = locations /\ answered' = answered /\ outages' = outages
    BY <1>5, <2>1 DEF tableVars, Crash, CrashServer
  <2>4. /\ OutInv'
        /\ at' \in [Trackers -> Instances \cup {NoInstance}]
        /\ rooms' \in [Trackers -> SUBSET Codes]
        /\ shown' \in [Trackers -> Seq(Report)]
    <3> HIDE DEF T
    <3>1. T \in SUBSET Trackers
      BY DEF T
    <3> QED BY <2>1, <2>2, <2>3, <3>1, OutCut
  <2>5. /\ CallsInv' /\ PositionKeepsUp'
        /\ calls' \subseteq [pc : {"record", "emit"}, report : Report]
    BY <2>1, CallsEnd
  <2>6. TypeOK'
    BY <1>0, <2>1, <2>2, <2>4, <2>5 DEF TypeOK, tableVars
  <2> QED BY <1>0, <2>4, <2>5, <2>6
<1>6. ASSUME NEW c \in calls, recordLocation(c) PROVE Invariant'
  <2>1. /\ CallsInv' /\ PositionKeepsUp'
        /\ calls' \subseteq [pc : {"record", "emit"}, report : Report]
        /\ locations' \in Seq(Report) /\ current' \in 0 .. MaxReports
        /\ ToSet(locations) \subseteq ToSet(locations')
    BY <1>6, CallsRecord
  <2>2. UNCHANGED <<clientVars, outVars, sent, answered>>
    BY <1>6 DEF recordLocation
  <2>3. OutInv'
    BY <1>0, <2>1, <2>2, OutAlone DEF clientVars
  <2>4. TypeOK'
    BY <1>0, <2>1, <2>2 DEF TypeOK, clientVars, outVars
  <2> QED BY <1>0, <2>1, <2>3, <2>4
<1>7. ASSUME NEW c \in calls, recordFails(c) PROVE Invariant'
  <2>1. /\ calls' \subseteq calls
        /\ UNCHANGED <<clientVars, tableVars, outVars, sent, answered>>
    BY <1>7 DEF recordFails
  <2>2. /\ CallsInv' /\ PositionKeepsUp'
        /\ calls' \subseteq [pc : {"record", "emit"}, report : Report]
    BY <2>1, CallsEnd
  <2>3. OutInv'
    BY <1>0, <2>1, OutAlone DEF clientVars, tableVars
  <2>4. TypeOK'
    BY <1>0, <2>1, <2>2 DEF TypeOK, clientVars, tableVars, outVars
  <2> QED BY <1>0, <2>2, <2>3, <2>4
<1>8. ASSUME NEW c \in calls, emit(c) PROVE Invariant'
  <2>1. /\ CallsInv' /\ PositionKeepsUp'
        /\ calls' \subseteq [pc : {"record", "emit"}, report : Report]
        /\ answered \subseteq answered' /\ answered' \subseteq 1 .. MaxReports
    BY <1>8, CallsEmit
  <2>2. OutInv' /\ OutTypes'
    BY <1>8, OutEmit
  <2>3. UNCHANGED <<clientVars, tableVars, sent>>
    BY <1>8 DEF emit
  <2>4. TypeOK'
    BY <1>0, <2>1, <2>2, <2>3 DEF TypeOK, OutTypes, clientVars, tableVars
  <2> QED BY <1>0, <2>1, <2>2, <2>4
<1>9. ASSUME OutInv' /\ OutTypes',
             UNCHANGED <<clientVars, calls, tableVars, sent, answered>>
      PROVE  Invariant'
  <2>1. CallsInv' /\ PositionKeepsUp'
    BY <1>9, CallsAlone
  <2>2. TypeOK'
    BY <1>0, <1>9 DEF TypeOK, OutTypes, clientVars, tableVars
  <2> QED BY <1>0, <1>9, <2>1, <2>2
<1>10. ASSUME NEW link \in Instances \X Instances,
              Receive(link) \/ LostOnTheWire(link)
       PROVE  Invariant'
  <2>1. PICK i \in Instances, j \in Instances : link = <<i, j>>
    OBVIOUS
  <2>2. OutInv' /\ OutTypes'
    BY <1>10, <2>1, OutReceive
  <2>3. UNCHANGED <<clientVars, calls, tableVars, sent, answered>>
    BY <1>10 DEF Receive, LostOnTheWire
  <2> QED BY <1>9, <2>2, <2>3
<1>11. ASSUME NEW i \in Instances, Reply(i) PROVE Invariant'
  BY <1>9, <1>11, OutReply DEF Reply
<1>12. CASE Reconnect
  BY <1>9, <1>12, OutReconnect DEF Reconnect
<1>13. CASE UNCHANGED vars
  BY <1>1, <1>13 DEF vars
<1> HIDE DEF Invariant
<1> QED
  BY <1>1, <1>2, <1>3, <1>4, <1>5, <1>6, <1>7, <1>8, <1>10, <1>11, <1>12, <1>13
  DEF Next, ServerStep, CallStep

-----------------------------------------------------------------------------

(* The inductive invariant the theorems below follow from.                   *)
THEOREM TrackingInvariant == Spec => []Invariant
BY InvariantInit, InvariantNext, PTL DEF Spec

(* Every variable of Tracking keeps to its type.                             *)
THEOREM TrackingTypeCorrect == Spec => []TypeOK
<1>1. Invariant => TypeOK
  BY DEF Invariant
<1> QED BY <1>1, TrackingInvariant, PTL

(* Every instance serves with both of its clients and the adapter or with    *)
(* none of them, whenever Redis or an instance fails (redis-io.adapter.ts).  *)
THEOREM InstancesAllOrNothing == Spec => []AllOrNothing
<1>1. Invariant => AllOrNothing
  <2> SUFFICES ASSUME BootInv, NEW i \in Instances, Serving(i)
               PROVE  LET s == servers[i]
                      IN  \/ s.serving = "cluster" /\ s.adapter
                             /\ s.pub = "open" /\ s.sub = "open"
                          \/ s.serving = "local" /\ ~ s.adapter
                             /\ s.pub = "null" /\ s.sub = "null"
    BY DEF Invariant, AllOrNothing
  <2> DEFINE s == servers[i]
  <2>1. /\ s \in Server
        /\ s.connect = "not called" => s = Down
        /\ s.connect \in {"waiting", "disconnecting"}
             => ~ s.adapter /\ s.serving = "no"
        /\ s.connect = "done"
             => \/ /\ s.adapter /\ s.pub = "open" /\ s.sub = "open"
                   /\ s.serving # "local"
                \/ /\ ~ s.adapter /\ s.pub = "null" /\ s.sub = "null"
                   /\ s.serving # "cluster"
    BY DEF BootInv
  <2>2. /\ s.connect \in {"not called", "waiting", "disconnecting", "done"}
        /\ s.serving \in {"no", "local", "cluster"} /\ s.serving # "no"
    BY <2>1 DEF Server, Serving
  <2>3. s.connect = "done"
    <3>1. Down.serving = "no"
      BY DEF Down
    <3> HIDE DEF s
    <3> QED BY <2>1, <2>2, <3>1
  <2> QED BY <2>1, <2>2, <2>3
<1> QED BY <1>1, TrackingInvariant, PTL

(* The position kept with the driver never falls back behind the history,    *)
(* in whatever order overlapping reports commit (tracking.service.ts:14).    *)
THEOREM ThePositionKeepsUp == Spec => []PositionKeepsUp
<1>1. Invariant => PositionKeepsUp
  BY DEF Invariant
<1> QED BY <1>1, TrackingInvariant, PTL

(* A tracker is shown committed positions only, reported to its rooms; none  *)
(* twice and two of one instance in the order in which they were reported,   *)
(* if that is its own instance, or as long as Redis has had no outage        *)
(* (tracking.gateway.ts:43, redis-io.adapter.ts:42).                         *)
THEOREM MarkersAreTheRecord == Spec => []MarkersFollowTheRecord
<1>1. Invariant => MarkersFollowTheRecord
  <2> SUFFICES ASSUME ShownInv, NEW t \in Trackers
               PROVE  /\ \A k \in DOMAIN shown[t] :
                           /\ shown[t][k] \in ToSet(locations)
                           /\ shown[t][k].room \in rooms[t]
                      /\ \A j, k \in DOMAIN shown[t] :
                           /\ j < k /\ shown[t][j].from = shown[t][k].from
                           /\ outages = 0 \/ shown[t][j].from = at[t]
                           => /\ shown[t][j] # shown[t][k]
                              /\ shown[t][k].no \notin shown[t][j].after
    BY DEF Invariant, OutInv, MarkersFollowTheRecord
  <2> DEFINE seq == shown[t]
  <2>1. outages = 0 => InOrder(seq)
    BY DEF ShownInv
  <2>2. OrderedFrom(at[t], seq)
    BY DEF ShownInv
  <2>3. \A k \in DOMAIN seq :
          seq[k] \in ToSet(locations) /\ seq[k].room \in rooms[t]
    BY DEF ShownInv, Emitted, ToSet
  <2> HIDE DEF seq
  <2>4. \A j, k \in DOMAIN seq :
          j < k /\ (outages = 0 \/ seq[j].from = at[t]) => MayFollow(seq[j], seq[k])
    BY <2>1, <2>2 DEF InOrder, OrderedFrom
  <2> QED BY <2>3, <2>4 DEF MayFollow, seq
<1> QED BY <1>1, TrackingInvariant, PTL

=============================================================================
