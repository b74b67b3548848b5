---------------------------- MODULE MCScheduler ----------------------------
(***************************************************************************)
(* Scheduler on a small instance: a worker, another that signal_task may   *)
(* add, a pthread that makes fibers runnable, and full queues.             *)
(***************************************************************************)
EXTENDS Scheduler

ASSUME SchedulerAssumption

\* The lots form a ring, so they may be numbered from the producer's.
SchedulerInit == Init /\ \A p \in Producers : lotOf[p] = 0

SchedulerSpec == SchedulerInit /\ [][Next]_vars

\* No runnable fiber is forgotten by workers that sleep, nor left by a worker
\* in its own queue.
NothingStranded == [](TypeOK /\ NoTaskStranded) /\ OwnQueueFirst
============================================================================
