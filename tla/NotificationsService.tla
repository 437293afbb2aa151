----------------------- MODULE NotificationsService -------------------------
(***************************************************************************)
(* NotificationsService.create: the row of the Notification table and the  *)
(* job of the BullMQ queue.  The source awaits the two one after the other *)
(* and outside any transaction, so they are two actions of the caller.     *)
(* A definition marked `Fault' is no part of the model: a property has to  *)
(* catch it.                                                               *)
(***************************************************************************)
EXTENDS Sequences

VARIABLES
  notifications,   (* the rows of the Notification table                   *)
  queue            (* the jobs waiting in the BullMQ list, oldest first    *)

SaveNotification(n) ==
  /\ notifications' = notifications \cup {n}
  /\ UNCHANGED queue

(* Fault: the job is added with the option lifo.                            *)
AddJob_Lifo(n) ==
  /\ queue' = <<n>> \o queue
  /\ UNCHANGED notifications

AddJob(n) ==
  /\ queue' = Append(queue, n)
  /\ UNCHANGED notifications

=============================================================================
