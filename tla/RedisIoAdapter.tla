--------------------------- MODULE RedisIoAdapter ---------------------------
(***************************************************************************)
(* The start of a server instance, bootstrap in main.ts, and the decision  *)
(* RedisIoAdapter takes there, once for the life of the process: whether   *)
(* its WebSocket broadcasts reach the other instances through Redis.       *)
(* Redis, its clients and the library's adapter are external.              *)
(*                                                                         *)
(* A definition marked `Fault' is no part of the model: it is the wrong    *)
(* version of the definition after it that a property has to catch.        *)
(***************************************************************************)
EXTENDS Naturals

CONSTANTS
  Instances,
  Configured,    (* those whose configuration names a Redis host and does  *)
                 (* not disable the adapter                                *)
  MaxCrashes, MaxOutages   (* bounds on what may go wrong in a behaviour   *)

ASSUME InstancesAssumption ==
  /\ Configured \subseteq Instances
  /\ MaxCrashes \in Nat /\ MaxOutages \in Nat

VARIABLES
  servers,           (* Instances -> the state of the process              *)
  redisUp,
  crashes, outages   (* how often an instance, or Redis, has gone down     *)

serverVars == <<servers, redisUp, crashes, outages>>

(* connect: where connect() is; pub, sub: the two clients; adapter: whether *)
(* adapterConstructor is set; serving: whether the Socket.IO server exists, *)
(* and with which adapter.                                                  *)
Server ==
  [ connect : {"not called", "waiting", "disconnecting", "done"},
    pub : {"null", "opening", "open"}, sub : {"null", "opening", "open"},
    adapter : BOOLEAN, serving : {"no", "local", "cluster"} ]

Down ==
  [ connect |-> "not called", pub |-> "null", sub |-> "null",
    adapter |-> FALSE, serving |-> "no" ]

Serving(i) == servers[i].serving # "no"

ServersInit ==
  /\ servers = [i \in Instances |-> Down]
  /\ redisUp \in BOOLEAN
  /\ crashes = 0 /\ outages = 0

(* connect() as far as its await: two clients, unless it has nothing to     *)
(* connect to.                                                              *)
Start(i) ==
  /\ servers[i] = Down
  /\ servers' = [servers EXCEPT ![i] =
       IF i \in Configured
         THEN [Down EXCEPT !.connect = "waiting",
                           !.pub = "opening", !.sub = "opening"]
         ELSE [Down EXCEPT !.connect = "done"]]
  /\ UNCHANGED <<redisUp, crashes, outages>>

ClientOpens(i, client) ==
  /\ redisUp
  /\ servers[i].connect = "waiting" /\ servers[i][client] = "opening"
  /\ servers' = [servers EXCEPT ![i][client] = "open"]
  /\ UNCHANGED <<redisUp, crashes, outages>>

(* Promise.all rejects with the first client that does, whatever becomes of *)
(* the other, and the catch block calls disconnect().                       *)
ClientFails(i, client) ==
  /\ servers[i].connect = "waiting" /\ servers[i][client] = "opening"
  /\ servers' = [servers EXCEPT ![i].connect = "disconnecting"]
  /\ UNCHANGED <<redisUp, crashes, outages>>

(* Fault: the catch block only logs.                                        *)
Disconnected_OnlyLogged(i) ==
  /\ servers[i].connect = "disconnecting"
  /\ servers' = [servers EXCEPT ![i].connect = "done"]
  /\ UNCHANGED <<redisUp, crashes, outages>>

Disconnected(i) ==
  /\ servers[i].connect = "disconnecting"
  /\ servers' = [servers EXCEPT ![i] = [Down EXCEPT !.connect = "done"]]
  /\ UNCHANGED <<redisUp, crashes, outages>>

(* A rejected quit() is caught by nobody and ends the process.              *)
QuitFails(i) ==
  /\ servers[i].connect = "disconnecting"
  /\ servers' = [servers EXCEPT ![i] = Down]
  /\ UNCHANGED <<redisUp, crashes, outages>>

Connected(i) ==
  /\ servers[i].connect = "waiting"
  /\ servers[i].pub = "open" /\ servers[i].sub = "open"
  /\ servers' = [servers EXCEPT ![i].connect = "done", ![i].adapter = TRUE]
  /\ UNCHANGED <<redisUp, crashes, outages>>

(* app.listen: createIOServer, and then the connection of RedisService.     *)
Listen(i) ==
  /\ servers[i].connect = "done"
  /\ ~ Serving(i) /\ redisUp
  /\ servers' = [servers EXCEPT ![i].serving =
                   IF servers[i].adapter THEN "cluster" ELSE "local"]
  /\ UNCHANGED <<redisUp, crashes, outages>>

(* RedisService, whose connect() nobody catches, ends the process: the      *)
(* instance that has just fallen back does not start after all.             *)
ListenFails(i) ==
  /\ servers[i].connect = "done" /\ ~ Serving(i)
  /\ servers' = [servers EXCEPT ![i] = Down]
  /\ UNCHANGED <<redisUp, crashes, outages>>

Booting(i) ==
  \/ \E client \in {"pub", "sub"} : ClientOpens(i, client)
                                      \/ ClientFails(i, client)
  \/ Disconnected(i)
  \/ QuitFails(i)
  \/ Connected(i)
  \/ Listen(i)
  \/ ListenFails(i)

RedisFails ==
  /\ redisUp /\ outages < MaxOutages
  /\ redisUp' = FALSE /\ outages' = outages + 1
  /\ UNCHANGED <<servers, crashes>>

RedisReturns ==
  /\ ~ redisUp
  /\ redisUp' = TRUE
  /\ UNCHANGED <<servers, crashes, outages>>

CrashServer(i) ==
  /\ crashes < MaxCrashes
  /\ Serving(i)
  /\ servers' = [servers EXCEPT ![i] = Down]
  /\ crashes' = crashes + 1
  /\ UNCHANGED <<redisUp, outages>>

-----------------------------------------------------------------------------

(* An instance serves with both of its clients and the adapter, or with     *)
(* none of them: a connection to Redis that half succeeded leaves no client *)
(* behind that would go on reconnecting (redis-io.adapter.ts:57), and the   *)
(* Socket.IO server has the adapter its instance has built.                 *)
AllOrNothing ==
  \A i \in Instances :
    Serving(i) =>
      LET s == servers[i]
      IN  \/ s.serving = "cluster" /\ s.adapter
             /\ s.pub = "open" /\ s.sub = "open"
          \/ s.serving = "local" /\ ~ s.adapter
             /\ s.pub = "null" /\ s.sub = "null"

=============================================================================
