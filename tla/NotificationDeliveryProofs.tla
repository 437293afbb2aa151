---------------------- MODULE NotificationDeliveryProofs --------------------
(* Theorems about NotificationDelivery, for every number of jobs, workers    *)
(* and lost locks, and every limit of the stalled-job check.                 *)
EXTENDS NotificationDelivery, FiniteSetTheorems, TLAPS

Injective(seq) == \A i, j \in DOMAIN seq : seq[i] = seq[j] => i = j

(* No job has two owners; only workers with a job have lost a lock.          *)
OwnersInv ==
  /\ \A v, w \in Workers \ lapsed :
       workers[v].job = workers[w].job /\ workers[v] # Idle => v = w
  /\ \A w \in lapsed : workers[w] # Idle

(* Where a job is: each has at most one place, and those that were added     *)
(* have one.                                                                 *)
HandsInv ==
  /\ Injective(queue)
  /\ OwnersInv
  /\ Elements(queue) \cap (Active \cup orphans \cup completed \cup failed) = {}
  /\ Active \cap (orphans \cup completed \cup failed) = {}
  /\ orphans \cap (completed \cup failed) = {}
  /\ completed \cap failed = {}
  /\ Elements(added)
       = Elements(queue) \cup Active \cup orphans \cup completed \cup failed

Count(seq, e) == Cardinality({i \in DOMAIN seq : seq[i] = e})

(* The workers, with or without the lock, at one of the steps with job n.    *)
Underway(n, pcs) == {w \in Workers : workers[w].job = n /\ workers[w].pc \in pcs}

(* Whether a start of the job is still to come that needs no further stall.  *)
Waiting(n) == IF n \in Elements(queue) \/ n \notin Elements(added) THEN 1 ELSE 0

(* The handlers of a job, the pushes and the mails about it: those that have *)
(* been and those that the starts under way and to come can still add.       *)
Handlers(n) ==
  Cardinality(Underway(n, {"deliver", "mail", "return"})) + Waiting(n)
PushesToBe(n) ==
  Count(pushes, n) + Cardinality(Underway(n, {"deliver"})) + Waiting(n)
MailsToBe(n) ==
  mails[n] + Cardinality(Underway(n, {"deliver", "mail"})) + Waiting(n)

(* The first start is free, every other one is paid for by a stall.          *)
StartsInv ==
  \A n \in Jobs :
    /\ Handlers(n) <= 1 + stalls[n] /\ Handlers(n) <= 1 + MaxStalledCount
    /\ PushesToBe(n) <= 1 + stalls[n] /\ PushesToBe(n) <= 1 + MaxStalledCount
    /\ MailsToBe(n) <= 1 + stalls[n] /\ MailsToBe(n) <= 1 + MaxStalledCount
    /\ n \notin failed => stalls[n] <= MaxStalledCount

-----------------------------------------------------------------------------
(* Sequences: what the three ways of changing a queue do to its elements.    *)

LEMMA ElementsOfAppend ==
  ASSUME NEW S, NEW seq \in Seq(S), NEW e \in S
  PROVE  /\ Elements(Append(seq, e)) = Elements(seq) \cup {e}
         /\ Injective(seq) /\ e \notin Elements(seq) => Injective(Append(seq, e))
<1> DEFINE new == Append(seq, e)
<1>1. /\ DOMAIN seq = 1 .. Len(seq) /\ Len(seq) \in Nat
      /\ DOMAIN new = 1 .. Len(seq) + 1
      /\ \A i \in 1 .. Len(seq) : new[i] = seq[i]
      /\ new[Len(seq) + 1] = e
  OBVIOUS
<1> HIDE DEF new
<1>2. \A i \in 1 .. Len(seq) + 1 : i \in 1 .. Len(seq) \/ i = Len(seq) + 1
  BY <1>1
<1>3. Elements(new) = Elements(seq) \cup {e}
  BY <1>1, <1>2 DEF Elements
<1>4. Injective(seq) /\ e \notin Elements(seq) => Injective(new)
  BY <1>1, <1>2 DEF Elements, Injective
<1> QED BY <1>3, <1>4 DEF new

LEMMA ElementsOfPushFront ==
  ASSUME NEW S, NEW seq \in Seq(S), NEW e \in S
  PROVE  /\ <<e>> \o seq \in Seq(S)
         /\ Elements(<<e>> \o seq) = Elements(seq) \cup {e}
         /\ Injective(seq) /\ e \notin Elements(seq) => Injective(<<e>> \o seq)
<1> DEFINE new == <<e>> \o seq
<1>1. /\ new \in Seq(S)
      /\ DOMAIN seq = 1 .. Len(seq) /\ Len(seq) \in Nat
      /\ DOMAIN new = 1 .. Len(seq) + 1
      /\ \A i \in 1 .. Len(seq) : new[i + 1] = seq[i]
      /\ new[1] = e
  OBVIOUS
<1> HIDE DEF new
<1>2. \A i \in 1 .. Len(seq) + 1 :
        i = 1 \/ (i - 1 \in 1 .. Len(seq) /\ new[i] = seq[i - 1])
  <2> TAKE i \in 1 .. Len(seq) + 1
  <2>1. CASE i # 1
    <3>1. i - 1 \in 1 .. Len(seq) /\ (i - 1) + 1 = i
      BY <1>1, <2>1
    <3> QED BY <1>1, <3>1
  <2> QED BY <2>1
<1>3. Elements(new) = Elements(seq) \cup {e}
  <2>1. ASSUME NEW i \in DOMAIN new PROVE new[i] \in Elements(seq) \cup {e}
    BY <1>1, <1>2 DEF Elements
  <2>2. ASSUME NEW i \in DOMAIN seq PROVE seq[i] \in Elements(new)
    <3>1. i + 1 \in DOMAIN new /\ new[i + 1] = seq[i]
      BY <1>1
    <3> QED BY <3>1 DEF Elements
  <2>3. e \in Elements(new)
    <3>1. 1 \in DOMAIN new
      BY <1>1
    <3> QED BY <1>1, <3>1 DEF Elements
  <2> QED BY <2>1, <2>2, <2>3 DEF Elements
<1>4. ASSUME Injective(seq), e \notin Elements(seq),
             NEW i \in DOMAIN new, NEW k \in DOMAIN new, new[i] = new[k]
      PROVE  i = k
  <2>1. \A x \in DOMAIN seq : seq[x] # e
    BY <1>4 DEF Elements
  <2>2. /\ i = 1 \/ (i - 1 \in DOMAIN seq /\ new[i] = seq[i - 1])
        /\ k = 1 \/ (k - 1 \in DOMAIN seq /\ new[k] = seq[k - 1])
    BY <1>1, <1>2
  <2>3. ASSUME i # 1, k # 1 PROVE i = k
    <3>1. /\ i - 1 \in DOMAIN seq /\ k - 1 \in DOMAIN seq
          /\ seq[i - 1] = seq[k - 1]
      BY <1>4, <2>2, <2>3
    <3>2. i - 1 = k - 1
      BY <1>4, <3>1 DEF Injective
    <3> QED BY <1>1, <3>2
  <2>4. i = 1 <=> k = 1
    BY <1>1, <1>4, <2>1, <2>2
  <2> QED BY <2>3, <2>4
<1> QED BY <1>1, <1>3, <1>4 DEF new, Injective

LEMMA ElementsOfTail ==
  ASSUME NEW S, NEW seq \in Seq(S), seq # <<>>, Injective(seq)
  PROVE  /\ Head(seq) \in S /\ Tail(seq) \in Seq(S)
         /\ Elements(seq) = Elements(Tail(seq)) \cup {Head(seq)}
         /\ Head(seq) \notin Elements(Tail(seq))
         /\ Injective(Tail(seq))
<1> DEFINE new == Tail(seq)
<1>1. /\ Head(seq) \in S /\ new \in Seq(S)
      /\ DOMAIN seq = 1 .. Len(seq) /\ Len(seq) \in Nat \ {0}
      /\ DOMAIN new = 1 .. Len(seq) - 1
      /\ \A i \in 1 .. Len(seq) - 1 : new[i] = seq[i + 1]
      /\ Head(seq) = seq[1]
  OBVIOUS
<1> HIDE DEF new
<1>2. \A i \in 1 .. Len(seq) :
        i = 1 \/ (i - 1 \in 1 .. Len(seq) - 1 /\ new[i - 1] = seq[i])
  <2> TAKE i \in 1 .. Len(seq)
  <2>1. CASE i # 1
    <3>1. i - 1 \in 1 .. Len(seq) - 1 /\ (i - 1) + 1 = i
      BY <1>1, <2>1
    <3> QED BY <1>1, <3>1
  <2> QED BY <2>1
<1>3. \A i \in DOMAIN new : i + 1 \in DOMAIN seq /\ i + 1 # 1 /\ 1 \in DOMAIN seq
  BY <1>1
<1>4. Elements(seq) = Elements(new) \cup {Head(seq)}
  <2>1. ASSUME NEW i \in DOMAIN seq
        PROVE  seq[i] \in Elements(new) \cup {Head(seq)}
    BY <1>1, <1>2 DEF Elements
  <2>2. ASSUME NEW i \in DOMAIN new PROVE new[i] \in Elements(seq)
    BY <1>1, <1>3 DEF Elements
  <2>3. Head(seq) \in Elements(seq)
    <3>1. 1 \in DOMAIN seq
      BY <1>1
    <3> QED BY <1>1, <3>1 DEF Elements
  <2> QED BY <2>1, <2>2, <2>3 DEF Elements
<1>5. Head(seq) \notin Elements(new)
  BY <1>1, <1>3 DEF Elements, Injective
<1>6. ASSUME NEW i \in DOMAIN new, NEW k \in DOMAIN new, new[i] = new[k]
      PROVE  i = k
  <2>1. i + 1 = k + 1
    BY <1>1, <1>3, <1>6 DEF Injective
  <2> QED BY <1>1, <2>1
<1> QED BY <1>1, <1>4, <1>5, <1>6 DEF new, Injective

-----------------------------------------------------------------------------
(* The places of the jobs.                                                   *)

LEMMA WorkerTypes ==
  ASSUME TypeOK, NEW w \in Workers
  PROVE  /\ workers[w] = Idle
              \/ /\ workers[w].pc \in {"deliver", "mail", "return"}
                 /\ workers[w].job \in Jobs
         /\ workers[w] = Idle <=> workers[w].pc = "idle"
         /\ workers[w] = Idle <=> workers[w].job = NoJob
         /\ workers[w] # Idle /\ w \notin lapsed => workers[w].job \in Active
         /\ NoJob \notin Jobs
BY DeliveryAssumption DEF TypeOK, Idle, Active

LEMMA TypeInit == Init => TypeOK
BY DeliveryAssumption DEF Init, TypeOK

LEMMA HandsInit == Init => HandsInv
<1> SUFFICES ASSUME Init PROVE HandsInv
  OBVIOUS
<1>1. Elements(<<>>) = {}
  BY DEF Elements
<1>2. Active = {}
  BY DEF Init, Active, Idle
<1> QED BY <1>1, <1>2 DEF Init, HandsInv, OwnersInv, Injective, Idle

(* A worker that is done with its job, in whatever way, has none.            *)
LEMMA ActiveWhenFreed ==
  ASSUME TypeOK, HandsInv, NEW w \in Workers, workers[w] # Idle, Rest(w)
  PROVE  /\ w \in lapsed => Active' = Active
         /\ w \notin lapsed => Active' = Active \ {workers[w].job}
         /\ OwnersInv'
         /\ workers' \in [Workers -> {Idle} \cup
                            [pc : {"deliver", "mail", "return"}, job : Jobs]]
         /\ \A v \in Workers \ {w} : workers'[v] = workers[v]
         /\ workers'[w] = Idle
<1>1. /\ \A v \in Workers : workers'[v] = IF v = w THEN Idle ELSE workers[v]
      /\ lapsed' = lapsed \ {w}
      /\ workers' \in [Workers -> {Idle} \cup
                            [pc : {"deliver", "mail", "return"}, job : Jobs]]
  BY DEF TypeOK, Rest
<1>2. Idle.job = NoJob
  BY DEF Idle
<1>3. \A v \in Workers : workers[v] # Idle => workers[v].job # NoJob
  BY WorkerTypes
<1>4. w \in lapsed => Active' = Active
  <2>1. ASSUME w \in lapsed
        PROVE  Workers \ lapsed' = (Workers \ lapsed) \cup {w}
    BY <1>1, <2>1
  <2> QED BY <1>1, <1>2, <2>1 DEF Active
<1>5. w \notin lapsed => Active' = Active \ {workers[w].job}
  <2>1. ASSUME w \notin lapsed
        PROVE  /\ lapsed' = lapsed
               /\ \A v \in Workers \ lapsed :
                    v # w => workers[v].job # workers[w].job
    BY <1>1, <2>1 DEF HandsInv, OwnersInv
  <2> QED BY <1>1, <1>2, <2>1 DEF Active
<1>6. OwnersInv'
  <2>1. ASSUME NEW v \in Workers \ lapsed', NEW x \in Workers \ lapsed',
               workers'[v].job = workers'[x].job, workers'[v] # Idle
        PROVE  v = x
    <3>1. v # w /\ workers'[v] = workers[v] /\ v \notin lapsed
      BY <1>1, <2>1
    <3>2. x # w
      BY <1>1, <1>2, <1>3, <2>1, <3>1
    <3> QED BY <1>1, <2>1, <3>1, <3>2 DEF HandsInv, OwnersInv
  <2>2. \A v \in lapsed' : workers'[v] # Idle
    BY <1>1 DEF HandsInv, OwnersInv, TypeOK
  <2> QED BY <2>1, <2>2 DEF OwnersInv
<1> QED BY <1>1, <1>4, <1>5, <1>6

(* A worker that goes on with its job keeps it.                              *)
LEMMA ActiveWhenGoing ==
  ASSUME TypeOK, HandsInv, NEW w \in Workers, workers[w] # Idle,
         NEW pc \in {"deliver", "mail", "return"}, Goto(w, pc)
  PROVE  /\ Active' = Active
         /\ OwnersInv'
         /\ \A v \in Workers \ {w} : workers'[v] = workers[v]
         /\ workers'[w].pc = pc /\ workers'[w].job = workers[w].job
         /\ workers' \in [Workers -> {Idle} \cup
                            [pc : {"deliver", "mail", "return"}, job : Jobs]]
<1>1. workers[w] \in [pc : {"deliver", "mail", "return"}, job : Jobs]
  BY DEF TypeOK
<1>2. /\ \A v \in Workers \ {w} : workers'[v] = workers[v]
      /\ workers'[w].pc = pc /\ workers'[w].job = workers[w].job
      /\ workers' \in [Workers -> {Idle} \cup
                         [pc : {"deliver", "mail", "return"}, job : Jobs]]
      /\ lapsed' = lapsed
  BY <1>1 DEF Goto, TypeOK
<1>3. \A v \in Workers : workers'[v].job = workers[v].job
  BY <1>2
<1>4. Active' = Active
  BY <1>2, <1>3 DEF Active
<1>5. /\ \A v \in Workers : workers'[v] # Idle => workers[v] # Idle
      /\ workers'[w] # Idle
  BY <1>2 DEF Idle
<1>6. OwnersInv'
  BY <1>2, <1>3, <1>5 DEF HandsInv, OwnersInv, TypeOK
<1> QED BY <1>2, <1>4, <1>6

LEMMA TypeNext ==
  ASSUME TypeOK, HandsInv, StartsInv, [Next]_vars
  PROVE  TypeOK'
<1> USE DEF jobVars, outVars, sourceVars
<1>1. ASSUME NEW n \in Jobs, Save(n) PROVE TypeOK'
  BY <1>1 DEF Save, SaveNotification, TypeOK
<1>2. ASSUME NEW n \in Jobs, Add(n) PROVE TypeOK'
  BY <1>2 DEF Add, AddJob, TypeOK
<1>3. ASSUME NEW n \in Jobs, Recover(n) PROVE TypeOK'
  <2>1. stalls[n] \in 0 .. MaxStalledCount
    <3>1. n \notin failed
      BY <1>3 DEF Recover, HandsInv
    <3>2. stalls[n] <= MaxStalledCount
      BY <3>1, Zenon DEF StartsInv
    <3>3. stalls[n] \in 0 .. MaxStalledCount + 1
      BY DEF TypeOK
    <3> QED BY <3>2, <3>3, DeliveryAssumption
  <2>2. stalls' \in [Jobs -> 0 .. MaxStalledCount + 1]
    BY <1>3, <2>1, DeliveryAssumption DEF Recover, TypeOK
  <2>3. queue' \in Seq(Jobs) /\ failed' \subseteq Jobs
    <3>1. <<n>> \o queue \in Seq(Jobs)
      BY ElementsOfPushFront DEF TypeOK
    <3> QED BY <1>3, <3>1 DEF Recover, TypeOK
  <2> QED BY <1>3, <2>2, <2>3 DEF Recover, TypeOK
<1>4. ASSUME NEW u \in Users, VerifyEmail(u) PROVE TypeOK'
  BY <1>4 DEF VerifyEmail, TypeOK
<1>5. ASSUME NEW w \in Workers, workers[w] # Idle
      PROVE  workers[w].job \in Jobs
  BY <1>5, WorkerTypes
<1>6. ASSUME NEW w \in Workers, Take(w) PROVE TypeOK'
  <2>1. Head(queue) \in Jobs /\ Tail(queue) \in Seq(Jobs)
    BY <1>6 DEF Take, TypeOK
  <2> QED BY <1>6, <2>1 DEF Take, TypeOK
<1>7. ASSUME NEW w \in Workers,
             Deliver(w) \/ UserNotFound(w) \/ MailSent(w) \/ MailRejected(w)
      PROVE  TypeOK'
  <2>1. workers[w] # Idle
    BY <1>7 DEF Deliver, UserNotFound, MailSent, MailRejected, Idle
  <2>2. \E pc \in {"deliver", "mail", "return"} : Goto(w, pc)
    BY <1>7 DEF Deliver, UserNotFound, MailSent, MailRejected
  <2>3. /\ workers' \in [Workers -> {Idle} \cup
                           [pc : {"deliver", "mail", "return"}, job : Jobs]]
        /\ lapsed' = lapsed
    BY <2>1, <2>2, ActiveWhenGoing DEF Goto
  <2>4. workers[w].job \in Jobs
    BY <1>5, <2>1
  <2>5. CASE Deliver(w)
    <3>1. PICK n \in Jobs : n = workers[w].job
      BY <2>4
    <3>2. \/ pushes' = Append(pushes, n) /\ skipped' = skipped
          \/ pushes' = pushes /\ skipped' = skipped \cup {n}
      BY <2>5, <3>1 DEF Deliver, deliverPush
    <3>3. pushes \in Seq(Jobs) /\ skipped \subseteq Jobs
      BY DEF TypeOK
    <3>4. pushes' \in Seq(Jobs) /\ skipped' \subseteq Jobs
      BY <3>2, <3>3
    <3> QED BY <2>3, <2>5, <3>4 DEF Deliver, TypeOK
  <2>6. CASE UserNotFound(w)
    BY <2>3, <2>4, <2>6 DEF UserNotFound, TypeOK
  <2>7. CASE MailSent(w)
    <3>1. mails' \in [Jobs -> Nat]
      BY <2>4, <2>7 DEF MailSent, TypeOK
    <3> QED BY <2>3, <2>7, <3>1 DEF MailSent, TypeOK
  <2>8. CASE MailRejected(w)
    BY <2>3, <2>8 DEF MailRejected, TypeOK
  <2> QED BY <1>7, <2>5, <2>6, <2>7, <2>8
<1>8. ASSUME NEW w \in Workers, LookupFails(w) \/ Return(w) \/ Crash(w)
      PROVE  TypeOK'
  <2>1. workers[w] # Idle /\ Rest(w)
    BY <1>8 DEF LookupFails, Return, Crash, Idle
  <2>2. /\ workers' \in [Workers -> {Idle} \cup
                           [pc : {"deliver", "mail", "return"}, job : Jobs]]
        /\ lapsed' \subseteq Workers
    BY <2>1, ActiveWhenFreed DEF Rest, TypeOK
  <2>3. workers[w].job \in Jobs
    BY <1>5, <2>1
  <2>4. CASE LookupFails(w)
    BY <2>2, <2>3, <2>4 DEF LookupFails, TypeOK
  <2>5. CASE Return(w)
    BY <2>2, <2>3, <2>5 DEF Return, TypeOK
  <2>6. CASE Crash(w)
    BY <2>2, <2>3, <2>6, DeliveryAssumption DEF Crash, TypeOK
  <2> QED BY <1>8, <2>4, <2>5, <2>6
<1>9. ASSUME NEW w \in Workers, Lapse(w) PROVE TypeOK'
  <2>1. workers[w].job \in Jobs
    BY <1>5, <1>9 DEF Lapse
  <2> QED BY <1>9, <2>1, DeliveryAssumption DEF Lapse, TypeOK
<1>10. CASE UNCHANGED vars
  BY <1>10 DEF vars, TypeOK
<1> QED BY <1>1, <1>2, <1>3, <1>4, <1>6, <1>7, <1>8, <1>9, <1>10
        DEF Next, WorkerStep

(* Whatever a worker does to the world while it keeps its job.               *)
LEMMA HandsWhenGoing ==
  ASSUME TypeOK, HandsInv, NEW w \in Workers, workers[w] # Idle,
         NEW pc \in {"deliver", "mail", "return"}, Goto(w, pc),
         UNCHANGED <<queue, orphans, completed, failed, added>>
  PROVE  HandsInv'
<1>1. Active' = Active /\ OwnersInv'
  BY ActiveWhenGoing
<1>2. Injective(queue)'
  BY DEF HandsInv, Injective
<1>3. Elements(queue)' = Elements(queue) /\ Elements(added)' = Elements(added)
  BY DEF Elements
<1> QED BY <1>1, <1>2, <1>3 DEF HandsInv

LEMMA HandsNext ==
  ASSUME TypeOK, HandsInv, [Next]_vars
  PROVE  HandsInv'
<1> USE DEF jobVars, outVars, sourceVars
<1>1. ASSUME UNCHANGED <<queue, workers, lapsed, orphans, completed, failed, added>>
      PROVE  HandsInv'
  BY <1>1 DEF HandsInv, OwnersInv, Injective, Elements, Active
<1>2. ASSUME NEW n \in Jobs, Add(n) PROVE HandsInv'
  <2>1. n \notin Elements(queue)
    BY <1>2 DEF Add, HandsInv
  <2>2. /\ Elements(queue)' = Elements(queue) \cup {n} /\ Injective(queue)'
        /\ Elements(added)' = Elements(added) \cup {n}
    BY <1>2, <2>1, ElementsOfAppend DEF Add, AddJob, TypeOK, HandsInv
  <2>3. Active' = Active /\ OwnersInv'
    BY <1>2 DEF Add, Active, HandsInv, OwnersInv
  <2> QED BY <1>2, <2>2, <2>3 DEF Add, HandsInv
<1>3. ASSUME NEW n \in Jobs, Recover(n) PROVE HandsInv'
  <2>1. n \in orphans /\ orphans' = orphans \ {n}
    BY <1>3 DEF Recover
  <2>2. /\ Active' = Active /\ OwnersInv'
        /\ Elements(added)' = Elements(added)
    BY <1>3 DEF Recover, Active, Elements, HandsInv, OwnersInv
  <2>3. CASE failed' = failed \cup {n} /\ UNCHANGED queue
    <3>1. Elements(queue)' = Elements(queue) /\ Injective(queue)'
      BY <2>3 DEF Elements, Injective, HandsInv
    <3> QED BY <1>3, <2>1, <2>2, <2>3, <3>1 DEF HandsInv, Recover
  <2>4. CASE queue' = <<n>> \o queue /\ UNCHANGED failed
    <3>1. n \notin Elements(queue)
      BY <2>1 DEF HandsInv
    <3>2. Elements(queue)' = Elements(queue) \cup {n} /\ Injective(queue)'
      BY <2>4, <3>1, ElementsOfPushFront DEF TypeOK, HandsInv
    <3> QED BY <1>3, <2>1, <2>2, <2>4, <3>2 DEF HandsInv, Recover
  <2> QED BY <1>3, <2>3, <2>4 DEF Recover
<1>4. ASSUME NEW w \in Workers, Take(w) PROVE HandsInv'
  <2>1. /\ Head(queue) \in Jobs /\ Head(queue) \notin Elements(queue)'
        /\ Elements(queue) = Elements(queue)' \cup {Head(queue)}
        /\ Injective(queue)'
    BY <1>4, ElementsOfTail DEF Take, TypeOK, HandsInv
  <2>2. /\ workers'[w] = [pc |-> "deliver", job |-> Head(queue)]
        /\ \A v \in Workers \ {w} : workers'[v] = workers[v]
        /\ lapsed' = lapsed
    BY <1>4 DEF Take, TypeOK
  <2>3. workers[w].job = NoJob /\ NoJob \notin Jobs /\ workers[w] = Idle
    BY <1>4, WorkerTypes DEF Take
  <2>4. w \notin lapsed
    BY <2>3 DEF HandsInv, OwnersInv
  <2>5. Active' = Active \cup {Head(queue)}
    BY <2>1, <2>2, <2>3, <2>4 DEF Active
  <2>6. \A v \in Workers \ lapsed : workers[v].job # Head(queue)
    <3>1. Head(queue) \notin Active
      BY <2>1 DEF HandsInv
    <3> QED BY <2>1, <2>3, <3>1 DEF Active
  <2>7. OwnersInv'
    <3>1. \A v, x \in Workers \ lapsed' :
            workers'[v].job = workers'[x].job /\ workers'[v] # Idle => v = x
      BY <2>2, <2>6 DEF HandsInv, OwnersInv
    <3>2. \A v \in lapsed' : workers'[v] # Idle
      BY <2>2, <2>4 DEF HandsInv, OwnersInv, TypeOK
    <3> QED BY <3>1, <3>2 DEF OwnersInv
  <2>8. Elements(added)' = Elements(added)
    BY <1>4 DEF Take, Elements
  <2> QED BY <1>4, <2>1, <2>5, <2>7, <2>8 DEF Take, HandsInv
<1>5. ASSUME NEW w \in Workers,
             Deliver(w) \/ UserNotFound(w) \/ MailSent(w) \/ MailRejected(w)
      PROVE  HandsInv'
  <2>1. workers[w] # Idle
    BY <1>5 DEF Deliver, UserNotFound, MailSent, MailRejected, Idle
  <2>2. PICK pc \in {"deliver", "mail", "return"} : Goto(w, pc)
    BY <1>5 DEF Deliver, UserNotFound, MailSent, MailRejected
  <2>3. UNCHANGED <<queue, orphans, completed, failed, added>>
    BY <1>5 DEF Deliver, UserNotFound, MailSent, MailRejected
  <2> QED BY <2>1, <2>2, <2>3, HandsWhenGoing
<1>6. ASSUME NEW w \in Workers, LookupFails(w) \/ Return(w) \/ Crash(w)
      PROVE  HandsInv'
  <2>1. workers[w] # Idle /\ Rest(w)
    BY <1>6 DEF LookupFails, Return, Crash, Idle
  <2>2. w \notin lapsed => workers[w].job \in Active
    BY <2>1, WorkerTypes
  <2>3. /\ w \in lapsed => Active' = Active
        /\ w \notin lapsed => Active' = Active \ {workers[w].job}
        /\ OwnersInv'
    BY <2>1, ActiveWhenFreed
  <2>4. /\ Elements(queue)' = Elements(queue) /\ Injective(queue)'
        /\ Elements(added)' = Elements(added)
    BY <1>6 DEF LookupFails, Return, Crash, Elements, Injective, HandsInv
  <2>5. CASE w \in lapsed
    <3>1. UNCHANGED <<orphans, completed, failed>>
      BY <1>6, <2>5 DEF LookupFails, Return, Crash
    <3> QED BY <2>3, <2>4, <2>5, <3>1 DEF HandsInv
  <2>6. CASE w \notin lapsed /\ LookupFails(w)
    BY <2>2, <2>3, <2>4, <2>6 DEF LookupFails, HandsInv
  <2>7. CASE w \notin lapsed /\ Return(w)
    BY <2>2, <2>3, <2>4, <2>7 DEF Return, HandsInv
  <2>8. CASE w \notin lapsed /\ Crash(w)
    BY <2>2, <2>3, <2>4, <2>8 DEF Crash, HandsInv
  <2> QED BY <1>6, <2>5, <2>6, <2>7, <2>8
<1>7. ASSUME NEW w \in Workers, Lapse(w) PROVE HandsInv'
  <2>1. w \notin lapsed /\ workers[w] # Idle /\ workers[w].job \in Active
    BY <1>7, WorkerTypes DEF Lapse
  <2>2. workers' = workers /\ lapsed' = lapsed \cup {w}
    BY <1>7 DEF Lapse
  <2>3. \A v \in Workers \ lapsed' : workers[v].job # workers[w].job
    BY <2>1, <2>2 DEF HandsInv, OwnersInv
  <2>4. Active' = Active \ {workers[w].job}
    BY <2>2, <2>3 DEF Active
  <2>5. OwnersInv'
    BY <2>1, <2>2 DEF HandsInv, OwnersInv
  <2>6. /\ Elements(queue)' = Elements(queue) /\ Injective(queue)'
        /\ Elements(added)' = Elements(added)
    BY <1>7 DEF Lapse, Elements, Injective, HandsInv
  <2> QED BY <1>7, <2>1, <2>4, <2>5, <2>6 DEF Lapse, HandsInv
<1>8. ASSUME NEW n \in Jobs, Save(n) PROVE HandsInv'
  BY <1>1, <1>8 DEF Save, SaveNotification
<1>9. ASSUME NEW u \in Users, VerifyEmail(u) PROVE HandsInv'
  BY <1>1, <1>9 DEF VerifyEmail
<1>10. CASE UNCHANGED vars
  BY <1>1, <1>10 DEF vars
<1> QED BY <1>2, <1>3, <1>4, <1>5, <1>6, <1>7, <1>8, <1>9, <1>10
        DEF Next, WorkerStep

-----------------------------------------------------------------------------
(* How often a job was pushed and mailed.                                    *)

(* A count of positions: a push adds one to that of its job.                 *)
LEMMA CountType ==
  ASSUME NEW S, NEW seq \in Seq(S), NEW e
  PROVE  /\ Count(seq, e) \in Nat
         /\ IsFiniteSet({i \in DOMAIN seq : seq[i] = e})
<1> DEFINE C == {i \in DOMAIN seq : seq[i] = e}
<1>1. DOMAIN seq = 1 .. Len(seq) /\ Len(seq) \in Int
  OBVIOUS
<1>2. IsFiniteSet(1 .. Len(seq))
  BY <1>1, FS_Interval
<1>3. C \in SUBSET (1 .. Len(seq))
  BY <1>1
<1>4. IsFiniteSet(C)
  BY <1>2, <1>3, FS_Subset
<1> QED BY <1>4, FS_CardinalityType DEF Count

LEMMA CountOfAppend ==
  ASSUME NEW S, NEW seq \in Seq(S), NEW j \in S, NEW e
  PROVE  Count(Append(seq, j), e)
           = IF e = j THEN Count(seq, e) + 1 ELSE Count(seq, e)
<1> DEFINE new == Append(seq, j)
           last == Len(seq) + 1
           C == {i \in DOMAIN seq : seq[i] = e}
           D == {i \in DOMAIN new : new[i] = e}
<1>1. /\ DOMAIN seq = 1 .. Len(seq) /\ Len(seq) \in Nat
      /\ DOMAIN new = 1 .. Len(seq) + 1
      /\ \A i \in 1 .. Len(seq) : new[i] = seq[i]
      /\ new[Len(seq) + 1] = j
  OBVIOUS
<1>2. Count(new, e) = Cardinality(D)
  BY DEF Count
<1> HIDE DEF new
<1>3. /\ DOMAIN new = DOMAIN seq \cup {last}
      /\ last \notin DOMAIN seq
  BY <1>1
<1>4. IsFiniteSet(C) /\ Count(seq, e) = Cardinality(C)
  BY CountType DEF Count
<1>5. CASE e = j
  <2>1. D = C \cup {last} /\ last \notin C
    BY <1>1, <1>3, <1>5
  <2> QED BY <1>2, <1>4, <1>5, <2>1, FS_AddElement DEF new
<1>6. CASE e # j
  <2>1. D = C
    BY <1>1, <1>3, <1>6
  <2> QED BY <1>2, <1>4, <1>6, <2>1 DEF new
<1> QED BY <1>5, <1>6

(* 1 if a worker in state x is at one of the steps with job n, else 0.       *)
At(x, n, pcs) == IF x.job = n /\ x.pc \in pcs THEN 1 ELSE 0

LEMMA CardinalityWithout ==
  ASSUME NEW A \in SUBSET Workers, NEW w
  PROVE  /\ Cardinality(A) \in Nat /\ Cardinality(A \ {w}) \in Nat
         /\ Cardinality(A)
              = IF w \in A THEN Cardinality(A \ {w}) + 1 ELSE Cardinality(A \ {w})
<1>1. IsFiniteSet(A) /\ IsFiniteSet(A \ {w})
  BY DeliveryAssumption, FS_Subset
<1>2. Cardinality(A) \in Nat /\ Cardinality(A \ {w}) \in Nat
  BY <1>1, FS_CardinalityType
<1>3. CASE w \in A
  <2>1. Cardinality(A \ {w}) = Cardinality(A) - 1
    BY <1>1, <1>3, FS_RemoveElement
  <2> QED BY <1>2, <1>3, <2>1
<1>4. CASE w \notin A
  <2>1. A \ {w} = A
    BY <1>4
  <2> QED BY <1>2, <1>4, <2>1
<1> QED BY <1>3, <1>4

(* The numbers the invariant speaks of.                                      *)
LEMMA NumberTypes ==
  ASSUME TypeOK, NEW n \in Jobs
  PROVE  /\ mails[n] \in Nat /\ stalls[n] \in Nat /\ MaxStalledCount \in Nat
         /\ Count(pushes, n) \in Nat /\ Waiting(n) \in Nat
         /\ \A pcs : Cardinality(Underway(n, pcs)) \in Nat
<1>1. mails[n] \in Nat /\ stalls[n] \in Nat /\ MaxStalledCount \in Nat
  BY DeliveryAssumption DEF TypeOK
<1>2. Count(pushes, n) \in Nat
  BY CountType DEF TypeOK
<1>3. Waiting(n) \in Nat
  BY DEF Waiting
<1>4. \A pcs : Underway(n, pcs) \in SUBSET Workers
  BY DEF Underway
<1>5. \A pcs : Cardinality(Underway(n, pcs)) \in Nat
  BY <1>4, CardinalityWithout
<1> QED BY <1>1, <1>2, <1>3, <1>5

(* A step of one worker changes the number of workers at some steps with a   *)
(* job by what it does itself.                                               *)
LEMMA UnderwayChange ==
  ASSUME NEW w \in Workers,
         \A v \in Workers \ {w} : workers'[v] = workers[v],
         NEW n, NEW pcs
  PROVE  /\ Cardinality(Underway(n, pcs)) \in Nat
         /\ Cardinality(Underway(n, pcs))' \in Nat
         /\ Cardinality(Underway(n, pcs))' + At(workers[w], n, pcs)
              = Cardinality(Underway(n, pcs)) + At(workers'[w], n, pcs)
<1>1. PICK A \in SUBSET Workers, B \in SUBSET Workers :
        A = Underway(n, pcs) /\ B = Underway(n, pcs)'
  BY DEF Underway
<1>2. A \ {w} = B \ {w}
  BY <1>1 DEF Underway
<1>3. /\ w \in A <=> workers[w].job = n /\ workers[w].pc \in pcs
      /\ w \in B <=> workers'[w].job = n /\ workers'[w].pc \in pcs
  BY <1>1 DEF Underway
<1>4. /\ Cardinality(A) \in Nat /\ Cardinality(A \ {w}) \in Nat
      /\ Cardinality(A)
           = IF w \in A THEN Cardinality(A \ {w}) + 1 ELSE Cardinality(A \ {w})
  BY CardinalityWithout
<1>5. /\ Cardinality(B) \in Nat /\ Cardinality(B \ {w}) \in Nat
      /\ Cardinality(B)
           = IF w \in B THEN Cardinality(B \ {w}) + 1 ELSE Cardinality(B \ {w})
  BY CardinalityWithout
<1>6. /\ At(workers[w], n, pcs) = IF w \in A THEN 1 ELSE 0
      /\ At(workers'[w], n, pcs) = IF w \in B THEN 1 ELSE 0
  BY <1>3 DEF At
<1>7. Cardinality(B) + At(workers[w], n, pcs)
        = Cardinality(A) + At(workers'[w], n, pcs)
  BY <1>2, <1>4, <1>5, <1>6
<1> QED BY <1>1, <1>4, <1>5, <1>7

(* A step of one worker that stalls no job and adds nothing to what may be:  *)
(* what it has told and what it and the queue still can tell, together, do   *)
(* not grow.                                                                 *)
NoMore(w, n) ==
  /\ At(workers'[w], n, {"deliver", "mail", "return"}) + Waiting(n)'
       <= At(workers[w], n, {"deliver", "mail", "return"}) + Waiting(n)
  /\ Count(pushes', n) + At(workers'[w], n, {"deliver"}) + Waiting(n)'
       <= Count(pushes, n) + At(workers[w], n, {"deliver"}) + Waiting(n)
  /\ mails'[n] + At(workers'[w], n, {"deliver", "mail"}) + Waiting(n)'
       <= mails[n] + At(workers[w], n, {"deliver", "mail"}) + Waiting(n)

LEMMA StartsWhenNoMore ==
  ASSUME TypeOK, TypeOK', StartsInv, NEW w \in Workers,
         \A v \in Workers \ {w} : workers'[v] = workers[v],
         UNCHANGED stalls, failed \subseteq failed',
         \A n \in Jobs : NoMore(w, n)
  PROVE  StartsInv'
<1> SUFFICES ASSUME NEW n \in Jobs
             PROVE  /\ Handlers(n)' <= 1 + stalls'[n]
                    /\ Handlers(n)' <= 1 + MaxStalledCount
                    /\ PushesToBe(n)' <= 1 + stalls'[n]
                    /\ PushesToBe(n)' <= 1 + MaxStalledCount
                    /\ MailsToBe(n)' <= 1 + stalls'[n]
                    /\ MailsToBe(n)' <= 1 + MaxStalledCount
                    /\ n \notin failed' => stalls'[n] <= MaxStalledCount
  BY Zenon DEF StartsInv
<1>1. /\ Handlers(n) <= 1 + stalls[n] /\ Handlers(n) <= 1 + MaxStalledCount
      /\ PushesToBe(n) <= 1 + stalls[n] /\ PushesToBe(n) <= 1 + MaxStalledCount
      /\ MailsToBe(n) <= 1 + stalls[n] /\ MailsToBe(n) <= 1 + MaxStalledCount
      /\ n \notin failed => stalls[n] <= MaxStalledCount
  BY Zenon DEF StartsInv
<1>2. /\ stalls[n] \in Nat /\ stalls'[n] = stalls[n] /\ MaxStalledCount \in Nat
      /\ mails[n] \in Nat /\ mails'[n] \in Nat
  BY DeliveryAssumption DEF TypeOK
<1>3. Count(pushes, n) \in Nat /\ Count(pushes', n) \in Nat
  BY CountType DEF TypeOK
<1>4. Waiting(n) \in Nat /\ Waiting(n)' \in Nat
  BY DEF Waiting
<1>5. \A pcs : At(workers[w], n, pcs) \in Nat /\ At(workers'[w], n, pcs) \in Nat
  BY DEF At
<1> DEFINE all == {"deliver", "mail", "return"}
           open == {"deliver", "mail"}
<1>6. NoMore(w, n)
  OBVIOUS
<1>7. /\ Handlers(n)' \in Nat /\ Handlers(n) \in Nat
      /\ Handlers(n)' <= Handlers(n)
  <2>1. /\ Cardinality(Underway(n, all)) \in Nat
        /\ Cardinality(Underway(n, all))' \in Nat
        /\ Cardinality(Underway(n, all))' + At(workers[w], n, all)
             = Cardinality(Underway(n, all)) + At(workers'[w], n, all)
    BY UnderwayChange
  <2>2. At(workers'[w], n, all) + Waiting(n)' <= At(workers[w], n, all) + Waiting(n)
    BY <1>6 DEF NoMore
  <2> QED BY <1>4, <1>5, <2>1, <2>2 DEF Handlers
<1>8. /\ PushesToBe(n)' \in Nat /\ PushesToBe(n) \in Nat
      /\ PushesToBe(n)' <= PushesToBe(n)
  <2>1. /\ Cardinality(Underway(n, {"deliver"})) \in Nat
        /\ Cardinality(Underway(n, {"deliver"}))' \in Nat
        /\ Cardinality(Underway(n, {"deliver"}))' + At(workers[w], n, {"deliver"})
             = Cardinality(Underway(n, {"deliver"}))
                 + At(workers'[w], n, {"deliver"})
    BY UnderwayChange
  <2>2. Count(pushes', n) + At(workers'[w], n, {"deliver"}) + Waiting(n)'
          <= Count(pushes, n) + At(workers[w], n, {"deliver"}) + Waiting(n)
    BY <1>6 DEF NoMore
  <2> QED BY <1>3, <1>4, <1>5, <2>1, <2>2 DEF PushesToBe
<1>9. /\ MailsToBe(n)' \in Nat /\ MailsToBe(n) \in Nat
      /\ MailsToBe(n)' <= MailsToBe(n)
  <2>1. /\ Cardinality(Underway(n, open)) \in Nat
        /\ Cardinality(Underway(n, open))' \in Nat
        /\ Cardinality(Underway(n, open))' + At(workers[w], n, open)
             = Cardinality(Underway(n, open)) + At(workers'[w], n, open)
    BY UnderwayChange
  <2>2. mails'[n] + At(workers'[w], n, open) + Waiting(n)'
          <= mails[n] + At(workers[w], n, open) + Waiting(n)
    BY <1>6 DEF NoMore
  <2> QED BY <1>2, <1>4, <1>5, <2>1, <2>2 DEF MailsToBe
<1> HIDE DEF all, open
<1> QED BY <1>1, <1>2, <1>7, <1>8, <1>9

LEMMA StartsInit == Init => StartsInv
<1> SUFFICES ASSUME Init, NEW n \in Jobs
             PROVE  /\ Handlers(n) = 1 /\ PushesToBe(n) = 1 /\ MailsToBe(n) = 1
                    /\ stalls[n] = 0
  BY DeliveryAssumption DEF StartsInv
<1>1. Count(pushes, n) = 0 /\ mails[n] = 0 /\ stalls[n] = 0
  <2>1. {i \in DOMAIN pushes : pushes[i] = n} = {}
    BY DEF Init
  <2> QED BY <2>1, FS_EmptySet DEF Count, Init
<1>2. \A pcs : Cardinality(Underway(n, pcs)) = 0
  <2> TAKE pcs
  <2>1. Underway(n, pcs) = {}
    BY DeliveryAssumption DEF Init, Underway, Idle
  <2> QED BY <2>1, FS_EmptySet
<1>3. Waiting(n) = 1
  BY DEF Init, Waiting, Elements
<1> QED BY <1>1, <1>2, <1>3 DEF Handlers, PushesToBe, MailsToBe

(* Taking a job turns a start to come into one that is under way.            *)
LEMMA StartsTake ==
  ASSUME TypeOK, TypeOK', HandsInv, StartsInv, NEW w \in Workers, Take(w)
  PROVE  StartsInv'
<1>1. /\ Head(queue) \in Jobs /\ Head(queue) \notin Elements(queue)'
      /\ Elements(queue) = Elements(queue)' \cup {Head(queue)}
  BY ElementsOfTail DEF Take, TypeOK, HandsInv
<1>2. /\ Elements(added)' = Elements(added)
      /\ Head(queue) \in Elements(added)
  BY <1>1 DEF Take, sourceVars, Elements, HandsInv
<1>3. /\ workers'[w] = [pc |-> "deliver", job |-> Head(queue)]
      /\ \A v \in Workers \ {w} : workers'[v] = workers[v]
      /\ UNCHANGED <<pushes, mails, stalls, failed>>
  BY DEF Take, jobVars, outVars, TypeOK
<1>4. ASSUME NEW n \in Jobs, NEW pcs, "deliver" \in pcs
      PROVE  At(workers'[w], n, pcs) + Waiting(n)'
               <= At(workers[w], n, pcs) + Waiting(n)
  <2>1. workers[w].job # n
    BY DeliveryAssumption DEF Take, Idle
  <2>2. CASE n = Head(queue)
    BY <1>1, <1>2, <1>3, <1>4, <2>1, <2>2 DEF At, Waiting
  <2>3. CASE n # Head(queue)
    BY <1>1, <1>2, <1>3, <2>1, <2>3 DEF At, Waiting
  <2> QED BY <2>2, <2>3
<1>5. ASSUME NEW n \in Jobs PROVE NoMore(w, n)
  <2>1. /\ Count(pushes', n) = Count(pushes, n) /\ Count(pushes, n) \in Nat
        /\ mails'[n] = mails[n] /\ mails[n] \in Nat
        /\ Waiting(n) \in Nat /\ Waiting(n)' \in Nat
        /\ \A pcs : At(workers[w], n, pcs) \in Nat
                      /\ At(workers'[w], n, pcs) \in Nat
    BY <1>3, CountType DEF TypeOK, Waiting, At
  <2> QED BY <1>4, <2>1 DEF NoMore
<1> QED BY <1>3, <1>5, StartsWhenNoMore

(* The steps of the handler after the job is taken: each push and each mail  *)
(* is made on leaving the step that stood for it, whether or not the worker  *)
(* still has the lock.                                                       *)
LEMMA StartsHandler ==
  ASSUME TypeOK, TypeOK', HandsInv, StartsInv, NEW w \in Workers,
         \/ Deliver(w) \/ UserNotFound(w) \/ MailSent(w) \/ MailRejected(w)
         \/ LookupFails(w) \/ Return(w) \/ Crash(w)
  PROVE  StartsInv'
<1>1. workers[w] # Idle /\ workers[w].job \in Jobs
  <2>1. workers[w].pc # "idle"
    BY WorkerTypes DEF Deliver, UserNotFound, MailSent, MailRejected, LookupFails,
                       Return, Crash
  <2> QED BY <2>1, WorkerTypes
<1>2. PICK j \in Jobs : j = workers[w].job
  BY <1>1
<1>3. UNCHANGED <<queue, added, stalls>> /\ failed \subseteq failed'
  BY DEF Deliver, UserNotFound, MailSent, MailRejected, LookupFails, Return, Crash,
         jobVars, sourceVars
<1>4. \A n : Waiting(n)' = Waiting(n) /\ Waiting(n) \in Nat
  BY <1>3 DEF Waiting, Elements
<1>5. /\ \A v \in Workers \ {w} : workers'[v] = workers[v]
      /\ \/ workers'[w] = Idle
         \/ workers'[w].pc \in {"mail", "return"} /\ workers'[w].job = j
  <2>1. CASE \E pc \in {"mail", "return"} : Goto(w, pc)
    BY <1>1, <1>2, <2>1, ActiveWhenGoing
  <2>2. CASE Rest(w)
    BY <1>1, <2>2, ActiveWhenFreed
  <2> QED BY <2>1, <2>2 DEF Deliver, UserNotFound, MailSent, MailRejected,
                            LookupFails, Return, Crash
<1>6. /\ workers[w].pc \in {"deliver", "mail", "return"}
      /\ Deliver(w) => workers[w].pc = "deliver"
      /\ MailSent(w) => workers[w].pc = "mail" /\ workers'[w].pc = "return"
      /\ workers'[w].pc = "mail" => workers[w].pc = "deliver"
  <2>1. workers[w].pc \in {"deliver", "mail", "return"}
    BY <1>1, WorkerTypes
  <2>2. MailSent(w) => workers'[w].pc = "return"
    BY <1>1, ActiveWhenGoing DEF MailSent
  <2>3. ASSUME UserNotFound(w) \/ MailSent(w) \/ MailRejected(w)
        PROVE  workers'[w].pc = "return"
    BY <1>1, <2>3, ActiveWhenGoing DEF UserNotFound, MailSent, MailRejected
  <2>4. ASSUME LookupFails(w) \/ Return(w) \/ Crash(w)
        PROVE  workers'[w].pc = "idle"
    BY <1>1, <2>4, ActiveWhenFreed DEF LookupFails, Return, Crash, Idle
  <2> QED BY <2>1, <2>2, <2>3, <2>4 DEF Deliver, MailSent
<1>7. ASSUME NEW n \in Jobs
      PROVE  /\ Count(pushes, n) \in Nat /\ Count(pushes', n) \in Nat
             /\ \/ Count(pushes', n) = Count(pushes, n)
                \/ Deliver(w) /\ n = j /\ Count(pushes', n) = Count(pushes, n) + 1
             /\ mails[n] \in Nat
             /\ \/ mails'[n] = mails[n]
                \/ MailSent(w) /\ n = j /\ mails'[n] = mails[n] + 1
  <2>1. /\ Count(pushes, n) \in Nat /\ Count(pushes', n) \in Nat
        /\ mails[n] \in Nat
    BY CountType DEF TypeOK
  <2>2. pushes' = pushes \/ (Deliver(w) /\ pushes' = Append(pushes, j))
    BY <1>2 DEF Deliver, deliverPush, UserNotFound, MailSent, MailRejected,
                LookupFails, Return, Crash, outVars
  <2>3. Count(Append(pushes, j), n)
          = IF n = j THEN Count(pushes, n) + 1 ELSE Count(pushes, n)
    BY CountOfAppend DEF TypeOK
  <2>4. mails' = mails \/ (MailSent(w) /\ mails' = [mails EXCEPT ![j] = @ + 1])
    BY <1>2 DEF Deliver, UserNotFound, MailSent, MailRejected, LookupFails, Return,
                Crash, outVars
  <2>5. mails'[n] = mails[n] \/ (MailSent(w) /\ n = j /\ mails'[n] = mails[n] + 1)
    BY <2>4 DEF TypeOK
  <2> QED BY <2>1, <2>2, <2>3, <2>5
<1>8. ASSUME NEW n \in Jobs PROVE NoMore(w, n)
  <2>1. workers'[w] = Idle => \A pcs : At(workers'[w], n, pcs) = 0
    BY DeliveryAssumption DEF At, Idle
  <2>2. /\ At(workers[w], n, {"deliver", "mail", "return"})
             = IF n = j THEN 1 ELSE 0
        /\ At(workers[w], n, {"deliver"})
             = IF n = j /\ workers[w].pc = "deliver" THEN 1 ELSE 0
        /\ At(workers[w], n, {"deliver", "mail"})
             = IF n = j /\ workers[w].pc # "return" THEN 1 ELSE 0
    BY <1>2, <1>6 DEF At
  <2>3. /\ At(workers'[w], n, {"deliver", "mail", "return"})
             <= IF n = j THEN 1 ELSE 0
        /\ At(workers'[w], n, {"deliver", "mail", "return"}) \in Nat
        /\ At(workers'[w], n, {"deliver"}) = 0
        /\ At(workers'[w], n, {"deliver", "mail"})
             = IF n = j /\ workers'[w].pc = "mail" THEN 1 ELSE 0
    <3>1. CASE workers'[w] = Idle
      BY <2>1, <3>1 DEF Idle
    <3>2. CASE workers'[w].pc \in {"mail", "return"} /\ workers'[w].job = j
      BY <3>2 DEF At
    <3> QED BY <1>5, <3>1, <3>2
  <2>4. Waiting(n)' = Waiting(n) /\ Waiting(n) \in Nat
    BY <1>4
  <2>5. At(workers'[w], n, {"deliver", "mail", "return"}) + Waiting(n)'
          <= At(workers[w], n, {"deliver", "mail", "return"}) + Waiting(n)
    BY <2>2, <2>3, <2>4
  <2>6. Count(pushes', n) + At(workers'[w], n, {"deliver"}) + Waiting(n)'
          <= Count(pushes, n) + At(workers[w], n, {"deliver"}) + Waiting(n)
    BY <1>6, <1>7, <2>2, <2>3, <2>4
  <2>7. mails'[n] + At(workers'[w], n, {"deliver", "mail"}) + Waiting(n)'
          <= mails[n] + At(workers[w], n, {"deliver", "mail"}) + Waiting(n)
    BY <1>6, <1>7, <2>2, <2>3, <2>4
  <2> QED BY <2>5, <2>6, <2>7 DEF NoMore
<1> QED BY <1>3, <1>5, <1>8, StartsWhenNoMore

(* The stall that sends a job back to the queue pays for the start to come,  *)
(* whatever the worker that lost it is still at.                             *)
LEMMA StartsRecover ==
  ASSUME TypeOK, HandsInv, StartsInv, NEW n \in Jobs, Recover(n)
  PROVE  StartsInv'
<1>1. UNCHANGED <<workers, mails, pushes, added>>
  BY DEF Recover, outVars, sourceVars
<1>2. \A k \in Jobs : stalls'[k] = IF k = n THEN stalls[k] + 1 ELSE stalls[k]
  BY DEF Recover, TypeOK
<1>3. Elements(<<n>> \o queue) = Elements(queue) \cup {n}
  BY ElementsOfPushFront DEF TypeOK
<1>4. n \in Elements(added) /\ n \notin Elements(queue)
  BY DEF Recover, HandsInv
<1>5. \/ stalls'[n] <= MaxStalledCount /\ queue' = <<n>> \o queue
      \/ n \in failed' /\ queue' = queue
  <2>1. stalls'[n] \in Int /\ MaxStalledCount \in Int
    BY <1>2, DeliveryAssumption DEF TypeOK
  <2> QED BY <2>1 DEF Recover
<1>6. /\ failed \subseteq failed'
      /\ \A k \in Jobs \ {n} : k \in failed' <=> k \in failed
  BY DEF Recover
<1>7. ASSUME NEW k \in Jobs
      PROVE  /\ Waiting(k)' \in Nat /\ Waiting(k) \in Nat
             /\ k # n => Waiting(k)' = Waiting(k)
             /\ Waiting(n)' = Waiting(n)
                  \/ (Waiting(n)' = Waiting(n) + 1 /\ stalls'[n] <= MaxStalledCount)
  <2>1. Elements(added)' = Elements(added)
    BY <1>1 DEF Elements
  <2>2. Elements(queue)' = Elements(queue)
          \/ (Elements(queue)' = Elements(queue) \cup {n}
                /\ stalls'[n] <= MaxStalledCount)
    BY <1>3, <1>5 DEF Elements
  <2> QED BY <1>4, <2>1, <2>2 DEF Waiting
<1>8. ASSUME NEW k \in Jobs
      PROVE  /\ Handlers(k) = Cardinality(Underway(k, {"deliver", "mail", "return"}))
                                + Waiting(k)
             /\ Handlers(k)' = Cardinality(Underway(k, {"deliver", "mail", "return"}))
                                 + Waiting(k)'
             /\ PushesToBe(k) = Count(pushes, k)
                  + Cardinality(Underway(k, {"deliver"})) + Waiting(k)
             /\ PushesToBe(k)' = Count(pushes, k)
                  + Cardinality(Underway(k, {"deliver"})) + Waiting(k)'
             /\ MailsToBe(k) = mails[k]
                  + Cardinality(Underway(k, {"deliver", "mail"})) + Waiting(k)
             /\ MailsToBe(k)' = mails[k]
                  + Cardinality(Underway(k, {"deliver", "mail"})) + Waiting(k)'
  BY <1>1 DEF Handlers, PushesToBe, MailsToBe, Underway
<1>9. ASSUME NEW k \in Jobs
      PROVE  /\ \A pcs : Cardinality(Underway(k, pcs)) \in Nat
             /\ Count(pushes, k) \in Nat /\ mails[k] \in Nat
             /\ stalls[k] \in Nat /\ stalls'[k] \in Nat /\ MaxStalledCount \in Nat
  <2>1. stalls'[k] = stalls[k] \/ stalls'[k] = stalls[k] + 1
    BY <1>2
  <2> QED BY <2>1, NumberTypes
<1> SUFFICES ASSUME NEW k \in Jobs
             PROVE  /\ Handlers(k)' <= 1 + stalls'[k]
                    /\ Handlers(k)' <= 1 + MaxStalledCount
                    /\ PushesToBe(k)' <= 1 + stalls'[k]
                    /\ PushesToBe(k)' <= 1 + MaxStalledCount
                    /\ MailsToBe(k)' <= 1 + stalls'[k]
                    /\ MailsToBe(k)' <= 1 + MaxStalledCount
                    /\ k \notin failed' => stalls'[k] <= MaxStalledCount
  BY Zenon DEF StartsInv
<1>10. /\ Handlers(k) <= 1 + stalls[k] /\ Handlers(k) <= 1 + MaxStalledCount
       /\ PushesToBe(k) <= 1 + stalls[k] /\ PushesToBe(k) <= 1 + MaxStalledCount
       /\ MailsToBe(k) <= 1 + stalls[k] /\ MailsToBe(k) <= 1 + MaxStalledCount
       /\ k \notin failed => stalls[k] <= MaxStalledCount
  BY Zenon DEF StartsInv
<1>11. CASE k # n
  <2>1. Waiting(k)' = Waiting(k) /\ stalls'[k] = stalls[k]
    BY <1>2, <1>7, <1>11
  <2> QED BY <1>6, <1>8, <1>10, <1>11, <2>1
<1>12. CASE k = n
  <2>1. /\ stalls'[k] = stalls[k] + 1
        /\ k \notin failed' => stalls'[k] <= MaxStalledCount
    BY <1>2, <1>5, <1>12
  <2>2. \/ Waiting(k)' = Waiting(k)
        \/ Waiting(k)' = Waiting(k) + 1 /\ stalls'[k] <= MaxStalledCount
    BY <1>7, <1>12
  <2>3. /\ Handlers(k) \in Nat /\ PushesToBe(k) \in Nat /\ MailsToBe(k) \in Nat
        /\ Waiting(k) \in Nat
    BY <1>7, <1>8, <1>9
  <2>4. \/ /\ Handlers(k)' = Handlers(k) /\ PushesToBe(k)' = PushesToBe(k)
           /\ MailsToBe(k)' = MailsToBe(k)
        \/ /\ Handlers(k)' = Handlers(k) + 1 /\ PushesToBe(k)' = PushesToBe(k) + 1
           /\ MailsToBe(k)' = MailsToBe(k) + 1
           /\ stalls'[k] <= MaxStalledCount
    BY <1>7, <1>8, <1>9, <2>2
  <2> QED BY <1>9, <1>10, <2>1, <2>3, <2>4
<1> QED BY <1>11, <1>12

LEMMA StartsNext ==
  ASSUME TypeOK, TypeOK', HandsInv, StartsInv, [Next]_vars
  PROVE  StartsInv'
<1> USE DEF jobVars, outVars, sourceVars
<1>1. ASSUME UNCHANGED <<workers, stalls, failed, mails, pushes>>,
             \A n \in Jobs : Waiting(n)' = Waiting(n)
      PROVE  StartsInv'
  <2>1. \A n \in Jobs : /\ Handlers(n)' = Handlers(n)
                        /\ PushesToBe(n)' = PushesToBe(n)
                        /\ MailsToBe(n)' = MailsToBe(n)
    BY <1>1 DEF Handlers, PushesToBe, MailsToBe, Underway
  <2> QED BY <1>1, <2>1 DEF StartsInv
<1>2. ASSUME UNCHANGED <<queue, added>> PROVE \A n : Waiting(n)' = Waiting(n)
  BY <1>2 DEF Waiting, Elements
<1>3. ASSUME NEW n \in Jobs, Save(n) PROVE StartsInv'
  BY <1>1, <1>2, <1>3 DEF Save, SaveNotification
<1>4. ASSUME NEW u \in Users, VerifyEmail(u) PROVE StartsInv'
  BY <1>1, <1>2, <1>4 DEF VerifyEmail
<1>5. ASSUME NEW n \in Jobs, Add(n) PROVE StartsInv'
  <2>1. /\ Elements(queue)' = Elements(queue) \cup {n}
        /\ Elements(added)' = Elements(added) \cup {n}
        /\ n \notin Elements(added)
    BY <1>5, ElementsOfAppend DEF Add, AddJob, TypeOK
  <2>2. \A k \in Jobs : Waiting(k)' = Waiting(k)
    BY <2>1 DEF Waiting
  <2> QED BY <1>1, <1>5, <2>2 DEF Add
<1>6. ASSUME NEW w \in Workers, Lapse(w) PROVE StartsInv'
  BY <1>1, <1>2, <1>6 DEF Lapse
<1>7. CASE UNCHANGED vars
  BY <1>1, <1>2, <1>7 DEF vars
<1> QED BY <1>3, <1>4, <1>5, <1>6, <1>7, StartsTake, StartsHandler,
           StartsRecover DEF Next, WorkerStep

-----------------------------------------------------------------------------
(* The theorems.  FairSpec implies Spec, so they hold of the fair behaviours *)
(* as well.                                                                  *)

(* The inductive invariant: the types, the one place of every job, and the   *)
(* stalls that pay for its starts, which the processor and the stalled-job   *)
(* check preserve in every interleaving, whatever dies and whatever lock     *)
(* expires.                                                                  *)
THEOREM DeliveryInvariant == Spec => [](TypeOK /\ HandsInv /\ StartsInv)
<1>1. Init => TypeOK /\ HandsInv /\ StartsInv
  BY TypeInit, HandsInit, StartsInit
<1>2. TypeOK /\ HandsInv /\ StartsInv /\ [Next]_vars
        => (TypeOK /\ HandsInv /\ StartsInv)'
  BY TypeNext, HandsNext, StartsNext
<1> QED BY <1>1, <1>2, PTL DEF Spec

(* Types; in particular no job stalls more than once past the limit at which *)
(* BullMQ gives it up.                                                       *)
THEOREM DeliveryTypeCorrect == Spec => []TypeOK
BY DeliveryInvariant, PTL

LEMMA OneOwnerFollows ==
  ASSUME TypeOK, HandsInv, StartsInv
  PROVE  OneOwner
<1> DEFINE In(n, place) ==
             CASE place = "queue"     -> n \in Elements(queue)
               [] place = "active"    -> n \in Active
               [] place = "orphan"    -> n \in orphans
               [] place = "completed" -> n \in completed
               [] place = "failed"    -> n \in failed
           Places == {"queue", "active", "orphan", "completed", "failed"}
<1>1. ASSUME NEW n \in Elements(added)
      PROVE  Cardinality({place \in Places : In(n, place)}) = 1
  <2>1. \E p \in Places : {place \in Places : In(n, place)} = {p}
    <3>1. CASE n \in Elements(queue)
      <4>1. {place \in Places : In(n, place)} = {"queue"}
        BY <3>1 DEF HandsInv
      <4> QED BY <4>1
    <3>2. CASE n \in Active
      <4>1. {place \in Places : In(n, place)} = {"active"}
        BY <3>2 DEF HandsInv
      <4> QED BY <4>1
    <3>3. CASE n \in orphans
      <4>1. {place \in Places : In(n, place)} = {"orphan"}
        BY <3>3 DEF HandsInv
      <4> QED BY <4>1
    <3>4. CASE n \in completed
      <4>1. {place \in Places : In(n, place)} = {"completed"}
        BY <3>4 DEF HandsInv
      <4> QED BY <4>1
    <3>5. CASE n \in failed
      <4>1. {place \in Places : In(n, place)} = {"failed"}
        BY <3>5 DEF HandsInv
      <4> QED BY <4>1
    <3> QED BY <3>1, <3>2, <3>3, <3>4, <3>5 DEF HandsInv
  <2> QED BY <2>1, FS_Singleton
<1>2. ASSUME NEW n \in Jobs
      PROVE  Cardinality({w \in Workers : workers[w].job = n}) <= 1 + stalls[n]
  <2>1. {w \in Workers : workers[w].job = n}
          = Underway(n, {"deliver", "mail", "return"})
    <3>1. \A w \in Workers : workers[w].job = n
                               => workers[w].pc \in {"deliver", "mail", "return"}
      BY WorkerTypes DEF Idle
    <3> QED BY <3>1 DEF Underway
  <2>2. /\ Cardinality(Underway(n, {"deliver", "mail", "return"})) \in Nat
        /\ stalls[n] \in Nat /\ Waiting(n) \in Nat
    BY NumberTypes
  <2>3. Handlers(n) <= 1 + stalls[n]
    BY Zenon DEF StartsInv
  <2>4. Handlers(n) = Cardinality({w \in Workers : workers[w].job = n}) + Waiting(n)
    BY <2>1 DEF Handlers
  <2>5. Cardinality({w \in Workers : workers[w].job = n}) \in Nat
    BY <2>1, <2>2
  <2> DEFINE c == Cardinality({w \in Workers : workers[w].job = n})
  <2> HIDE DEF c
  <2>6. c \in Nat /\ Handlers(n) = c + Waiting(n)
    BY <2>4, <2>5 DEF c
  <2>7. c <= 1 + stalls[n]
    BY <2>2, <2>3, <2>6
  <2> QED BY <2>7 DEF c
<1> QED BY <1>1, <1>2 DEF OneOwner, HandsInv, OwnersInv, Injective

(* BullMQ has a job in one place and gives it one owner, for every number of *)
(* workers and lost locks; besides the owner, a job has at most one handler  *)
(* still running for each time it stalled.  The job is not delivered side by *)
(* side unless a live worker lost its lock, when it is.                      *)
THEOREM JobsHaveOneOwner == Spec => []OneOwner
<1>1. TypeOK /\ HandsInv /\ StartsInv => OneOwner
  BY OneOwnerFollows
<1> QED BY <1>1, DeliveryInvariant, PTL

(* What the starts of a job add up to bounds what was sent.                  *)
LEMMA SentIsPaid ==
  ASSUME TypeOK, StartsInv, NEW n \in Jobs
  PROVE  /\ mails[n] <= 1 + stalls[n] /\ mails[n] <= 1 + MaxStalledCount
         /\ PushCount(n) <= 1 + stalls[n] /\ PushCount(n) <= 1 + MaxStalledCount
<1>1. PushCount(n) = Count(pushes, n)
  BY DEF PushCount, Count
<1>2. /\ Count(pushes, n) \in Nat /\ mails[n] \in Nat /\ stalls[n] \in Nat
      /\ Waiting(n) \in Nat /\ MaxStalledCount \in Nat
      /\ \A pcs : Cardinality(Underway(n, pcs)) \in Nat
  BY NumberTypes
<1>3. /\ PushesToBe(n) <= 1 + stalls[n] /\ PushesToBe(n) <= 1 + MaxStalledCount
      /\ MailsToBe(n) <= 1 + stalls[n] /\ MailsToBe(n) <= 1 + MaxStalledCount
  BY Zenon DEF StartsInv
<1> QED BY <1>1, <1>2, <1>3 DEF PushesToBe, MailsToBe

(* A user gets at most one push and one mail for each time the job was       *)
(* started: only the loss of a lock between the push and the completion of   *)
(* the job tells the user twice (notification-delivery.service.ts:31).       *)
THEOREM ToldOncePerStart == Spec => []AtMostOncePerStart
<1>1. TypeOK /\ HandsInv /\ StartsInv => AtMostOncePerStart
  BY SentIsPaid DEF AtMostOncePerStart
<1> QED BY <1>1, DeliveryInvariant, PTL

(* At most MaxStalledCount + 1 pushes, however often a process dies or a     *)
(* lock expires.                                                             *)
THEOREM PushesAreBounded ==
  Spec => [](\A n \in Jobs : PushCount(n) <= 1 + MaxStalledCount)
<1>1. TypeOK /\ HandsInv /\ StartsInv
        => \A n \in Jobs : PushCount(n) <= 1 + MaxStalledCount
  BY SentIsPaid
<1> QED BY <1>1, DeliveryInvariant, PTL

=============================================================================
