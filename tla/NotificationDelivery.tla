------------------------- MODULE NotificationDelivery -----------------------
(***************************************************************************)
(* The consumer side of the notifications queue: NotificationsProcessor    *)
(* and NotificationDeliveryService, on top of BullMQ.                      *)
(*                                                                         *)
(* A worker is one process with the processor's default concurrency of 1.  *)
(* BullMQ is external and modelled from how the source uses it: the queue  *)
(* is registered without job options (queue.module.ts), so a job whose     *)
(* processor throws has used its only attempt.  A worker owns its job by a *)
(* lock that it renews while it runs.  The lock is lost when the process   *)
(* dies, and also when a live one cannot renew it in time: its event loop  *)
(* is blocked, or Redis out of reach.  The stalled-job check finds jobs    *)
(* without a lock, puts them back at the front of the line, and gives them *)
(* up once they have stalled more than MaxStalledCount times.  The live    *)
(* worker knows nothing of it and runs the handler to its end; only then   *)
(* does BullMQ refuse to finish a job whose lock it no longer holds.       *)
(*                                                                         *)
(* deliver() runs without an await from the moment the user is read until  *)
(* the mail is under way and the push emitted (Promise.all of deliverEmail *)
(* and deliverPush), so these are one step; the SMTP server's acceptance   *)
(* of the mail and the settling of the promise are later steps, between    *)
(* which the process may die.                                              *)
(*                                                                         *)
(* A definition marked `Fault' is no part of the model: it is the wrong    *)
(* version of the definition after it that a property has to catch.        *)
(***************************************************************************)
EXTENDS NotificationsService, Naturals, FiniteSets

CONSTANTS
  Jobs,              (* the notifications, each with the job that carries it *)
  Users, UserOf,     (* NotificationJobData.userId                         *)
  Workers, NoJob,
  MailConfigured,    (* whether MailService has a transporter              *)
  MaxStalledCount,   (* BullMQ's limit, 1 unless configured                *)
  LookupsMayFail,    (* whether prisma.user.findUnique may reject          *)
  UsersMayVanish,    (* whether it may find nobody: no code of the         *)
                     (* repository deletes a user                          *)
  EmitsMayFail,      (* whether emitToUser may throw                       *)
  MaxLosses          (* bound on the locks lost in a behaviour             *)

ASSUME DeliveryAssumption ==
  /\ IsFiniteSet(Workers)
  /\ UserOf \in [Jobs -> Users]
  /\ NoJob \notin Jobs
  /\ MailConfigured \in BOOLEAN /\ LookupsMayFail \in BOOLEAN
  /\ UsersMayVanish \in BOOLEAN /\ EmitsMayFail \in BOOLEAN
  /\ MaxStalledCount \in Nat /\ MaxLosses \in Nat

VARIABLES
  workers,     (* what each worker is doing: a step of deliver, and a job  *)
  lapsed,      (* the live workers that have lost the lock on their job    *)
  orphans,     (* jobs BullMQ holds as active although nobody has the lock *)
  stalls,      (* BullMQ's count of the stalls of each job                 *)
  completed, failed,   (* BullMQ's final sets                              *)
  verified,    (* the users whose email address is verified                *)
  mails,       (* how many mails about each job the SMTP server accepted   *)
  pushes,      (* the jobs pushed, in the order of the emit calls          *)
  skipped,     (* the jobs a start of which had nobody to push to, or an   *)
               (* emit that threw, for the properties                      *)
  added,       (* the order in which jobs were added, for the properties   *)
  losses       (* counted for the bound only                               *)

jobVars == <<orphans, stalls, completed, failed>>
outVars == <<mails, pushes, skipped>>
sourceVars == <<verified, added>>
vars ==
  <<notifications, queue, workers, lapsed, jobVars, outVars, sourceVars, losses>>

Elements(seq) == {seq[i] : i \in DOMAIN seq}

Idle == [pc |-> "idle", job |-> NoJob]

Active == {workers[w].job : w \in Workers \ lapsed} \ {NoJob}

TypeOK ==
  /\ notifications \subseteq Jobs
  /\ queue \in Seq(Jobs)
  /\ workers \in [Workers -> {Idle} \cup
                    [pc : {"deliver", "mail", "return"}, job : Jobs]]
  /\ lapsed \subseteq Workers
  /\ orphans \subseteq Jobs /\ completed \subseteq Jobs /\ failed \subseteq Jobs
  /\ stalls \in [Jobs -> 0 .. MaxStalledCount + 1]
  /\ verified \subseteq Users
  /\ mails \in [Jobs -> Nat]
  /\ pushes \in Seq(Jobs) /\ added \in Seq(Jobs)
  /\ skipped \subseteq Jobs
  /\ losses \in 0 .. MaxLosses

Init ==
  /\ notifications = {} /\ queue = <<>>
  /\ workers = [w \in Workers |-> Idle] /\ lapsed = {}
  /\ orphans = {} /\ completed = {} /\ failed = {}
  /\ stalls = [n \in Jobs |-> 0]
  /\ verified \in SUBSET Users
  /\ mails = [n \in Jobs |-> 0]
  /\ pushes = <<>> /\ added = <<>> /\ skipped = {}
  /\ losses = 0

-----------------------------------------------------------------------------
(* The producers: the two awaits of NotificationsService.create, and the    *)
(* verification of an address by AuthService.                               *)

Save(n) ==
  /\ n \notin notifications
  /\ SaveNotification(n)
  /\ UNCHANGED <<workers, lapsed, jobVars, outVars, sourceVars, losses>>

Add(n) ==
  /\ n \in notifications
  /\ n \notin Elements(added)
  /\ AddJob(n)
  /\ added' = Append(added, n)
  /\ UNCHANGED <<workers, lapsed, jobVars, outVars, verified, losses>>

VerifyEmail(u) ==
  /\ verified' = verified \cup {u}
  /\ UNCHANGED <<notifications, queue, workers, lapsed, jobVars, outVars, added,
                 losses>>

-----------------------------------------------------------------------------
(* A worker.                                                                *)

Goto(w, pc) ==
  /\ workers' = [workers EXCEPT ![w].pc = pc]
  /\ UNCHANGED lapsed

(* The handler is over, and with it the lock if the worker still has it.    *)
Rest(w) ==
  /\ workers' = [workers EXCEPT ![w] = Idle]
  /\ lapsed' = lapsed \ {w}

Take(w) ==
  /\ workers[w] = Idle
  /\ queue # <<>>
  /\ workers' = [workers EXCEPT ![w] = [pc |-> "deliver", job |-> Head(queue)]]
  /\ queue' = Tail(queue)
  /\ UNCHANGED <<notifications, lapsed, jobVars, outVars, sourceVars, losses>>

(* The user is not found: a warning, and the job ends like any other.       *)
UserNotFound(w) ==
  /\ UsersMayVanish
  /\ workers[w].pc = "deliver"
  /\ skipped' = skipped \cup {workers[w].job}
  /\ Goto(w, "return")
  /\ UNCHANGED <<notifications, queue, jobVars, mails, pushes, sourceVars, losses>>

(* deliverPush: an emit that throws is logged, and the job goes on.         *)
deliverPush(n) ==
  \/ pushes' = Append(pushes, n) /\ UNCHANGED skipped
  \/ EmitsMayFail /\ skipped' = skipped \cup {n} /\ UNCHANGED pushes

(* deliverEmail and sendNotificationEmail: both may decline without error.  *)
WantsMail(n) == MailConfigured /\ UserOf[n] \in verified

(* Fault: the push is emitted only when there is no mail to send.           *)
Deliver_MailOrPush(w) ==
  /\ workers[w].pc = "deliver"
  /\ IF WantsMail(workers[w].job)
       THEN Goto(w, "mail") /\ UNCHANGED <<pushes, skipped>>
       ELSE Goto(w, "return") /\ deliverPush(workers[w].job)
  /\ UNCHANGED <<notifications, queue, jobVars, mails, sourceVars, losses>>

(* The user is read, the push emitted, and the mail, if any, under way.     *)
Deliver(w) ==
  /\ workers[w].pc = "deliver"
  /\ deliverPush(workers[w].job)
  /\ Goto(w, IF WantsMail(workers[w].job) THEN "mail" ELSE "return")
  /\ UNCHANGED <<notifications, queue, jobVars, mails, sourceVars, losses>>

(* Nothing in deliver() catches a rejected lookup: the job fails for good,  *)
(* unless BullMQ has taken it from the worker.                              *)
LookupFails(w) ==
  /\ LookupsMayFail
  /\ workers[w].pc = "deliver"
  /\ failed' = IF w \in lapsed THEN failed ELSE failed \cup {workers[w].job}
  /\ Rest(w)
  /\ UNCHANGED <<notifications, queue, orphans, stalls, completed, outVars,
                 sourceVars, losses>>

MailSent(w) ==
  /\ workers[w].pc = "mail"
  /\ mails' = [mails EXCEPT ![workers[w].job] = @ + 1]
  /\ Goto(w, "return")
  /\ UNCHANGED <<notifications, queue, jobVars, pushes, skipped, sourceVars,
                 losses>>

(* Fault: the rejection reaches BullMQ, which tries the job again at once.  *)
MailRejected_Retry(w) ==
  /\ workers[w].pc = "mail"
  /\ Rest(w)
  /\ queue' = Append(queue, workers[w].job)
  /\ UNCHANGED <<notifications, jobVars, outVars, sourceVars, losses>>

(* Fault: the handler adds the job once more and completes this one.        *)
MailRejected_AddAgain(w) ==
  /\ workers[w].pc = "mail"
  /\ Goto(w, "return")
  /\ queue' = Append(queue, workers[w].job)
  /\ UNCHANGED <<notifications, jobVars, outVars, sourceVars, losses>>

(* deliverEmail logs the rejection and goes on as if the mail had been sent.*)
MailRejected(w) ==
  /\ workers[w].pc = "mail"
  /\ Goto(w, "return")
  /\ UNCHANGED <<notifications, queue, jobVars, outVars, sourceVars, losses>>

(* Fault: the job of the worker is not cleared.                             *)
Return_KeepJob(w) ==
  /\ workers[w].pc = "return"
  /\ completed' = completed \cup {workers[w].job}
  /\ Goto(w, "idle")
  /\ UNCHANGED <<notifications, queue, orphans, stalls, failed, outVars,
                 sourceVars, losses>>

(* process() resolves and BullMQ completes the job, unless it has taken it  *)
(* from the worker.                                                         *)
Return(w) ==
  /\ workers[w].pc = "return"
  /\ completed' =
       IF w \in lapsed THEN completed ELSE completed \cup {workers[w].job}
  /\ Rest(w)
  /\ UNCHANGED <<notifications, queue, orphans, stalls, failed, outVars,
                 sourceVars, losses>>

(* The process dies with its job and is started again.                      *)
Crash(w) ==
  /\ losses < MaxLosses
  /\ workers[w] # Idle
  /\ orphans' = IF w \in lapsed THEN orphans ELSE orphans \cup {workers[w].job}
  /\ Rest(w)
  /\ losses' = losses + 1
  /\ UNCHANGED <<notifications, queue, stalls, completed, failed, outVars,
                 sourceVars>>

(* The lock expires under a worker that lives and goes on with its job.     *)
Lapse(w) ==
  /\ losses < MaxLosses
  /\ workers[w] # Idle
  /\ w \notin lapsed
  /\ orphans' = orphans \cup {workers[w].job}
  /\ lapsed' = lapsed \cup {w}
  /\ losses' = losses + 1
  /\ UNCHANGED <<notifications, queue, workers, stalls, completed, failed,
                 outVars, sourceVars>>

(* BullMQ's stalled-job check.                                              *)
Recover(n) ==
  /\ n \in orphans
  /\ orphans' = orphans \ {n}
  /\ stalls' = [stalls EXCEPT ![n] = @ + 1]
  /\ IF stalls'[n] > MaxStalledCount
       THEN failed' = failed \cup {n} /\ UNCHANGED queue
       ELSE queue' = <<n>> \o queue /\ UNCHANGED failed
  /\ UNCHANGED <<notifications, workers, lapsed, completed, outVars, sourceVars,
                 losses>>

WorkerStep(w) ==
  \/ Take(w)
  \/ UserNotFound(w)
  \/ Deliver(w)
  \/ LookupFails(w)
  \/ MailSent(w)
  \/ MailRejected(w)
  \/ Return(w)

Next ==
  \/ \E n \in Jobs : Save(n) \/ Add(n) \/ Recover(n)
  \/ \E u \in Users : VerifyEmail(u)
  \/ \E w \in Workers : WorkerStep(w) \/ Crash(w) \/ Lapse(w)

(* A live worker goes on: Node resumes it when the call it awaits settles,  *)
(* which nodemailer's time-outs guarantee for SMTP, and BullMQ runs its     *)
(* stalled-job check periodically.  Nothing makes a lock be lost.           *)
Fairness ==
  /\ \A w \in Workers : WF_vars(WorkerStep(w))
  /\ \A n \in Jobs : WF_vars(Recover(n))

Spec == Init /\ [][Next]_vars

FairSpec == Spec /\ Fairness

-----------------------------------------------------------------------------

(* BullMQ has a job in one place only, and two workers run the handler of   *)
(* one job side by side only if one of them has lost its lock: besides the  *)
(* owner there is at most one late handler for each time the job stalled.   *)
(* What such a handler does at its end moves nothing (the processor leaves  *)
(* the end of the job to BullMQ, notifications.processor.ts:28).            *)
OneOwner ==
  /\ \A i, j \in DOMAIN queue : queue[i] = queue[j] => i = j
  /\ \A v, w \in Workers \ lapsed :
       workers[v].job = workers[w].job /\ workers[v] # Idle => v = w
  /\ \A n \in Jobs :
       Cardinality({w \in Workers : workers[w].job = n}) <= 1 + stalls[n]
  /\ \A n \in Elements(added) :
       Cardinality({ place \in {"queue", "active", "orphan", "completed",
                                "failed"} :
         CASE place = "queue"     -> n \in Elements(queue)
           [] place = "active"    -> n \in Active
           [] place = "orphan"    -> n \in orphans
           [] place = "completed" -> n \in completed
           [] place = "failed"    -> n \in failed }) = 1

PushCount(n) == Cardinality({i \in DOMAIN pushes : pushes[i] = n})

(* A user is told at most once per time the job was started, by mail and by *)
(* push: a second mail or push needs a lock that was lost, by a worker that *)
(* died or by one that is still at work on the first.  A rejected mail      *)
(* costs no second push (notification-delivery.service.ts:53).              *)
AtMostOncePerStart ==
  \A n \in Jobs : mails[n] <= 1 + stalls[n] /\ PushCount(n) <= 1 + stalls[n]

(* Every job comes to an end, although locks are lost, and one that ends as *)
(* completed was pushed, whether there was a mail to send or not and        *)
(* whatever became of it (notification-delivery.service.ts:31), unless the  *)
(* user was not found or the emit threw: those two are only logged.         *)
EveryJobEnds ==
  \A n \in Jobs :
    n \in Elements(added)
      ~> \/ n \in failed
         \/ n \in completed /\ n \in Elements(pushes) \cup skipped

=============================================================================
