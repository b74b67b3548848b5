------------------------------- MODULE Fiber -------------------------------
(***************************************************************************)
(* flare/fiber/internal/fiber_worker.cc: the life of a fiber_entity, which *)
(* pools reuse and only the version in a fiber_id_t tells apart: start,    *)
(* yield, usleep, the wait on an event, interrupt and stop by id, the end, *)
(* and join.                                                               *)
(*                                                                         *)
(* A sleep is finished by whoever gets the timer task: the timer thread,   *)
(* an interrupter, or the worker that adds the sleep after it switched     *)
(* away from the fiber and may still be adding it when the fiber runs      *)
(* again elsewhere.  A critical section under version_lock is one step.    *)
(* What a waiter and an interrupter do to an event is WaitableEvent's      *)
(* matter: here a fiber is in the list of an event or it is not.           *)
(***************************************************************************)
EXTENDS Integers, Bags, FiniteSets

CONSTANTS
    Interrupters, Joiners,
    VerMod,                \* 2^32: versions are uint32_t
    MaxLives, MaxSleeps, MaxWaits, MaxInterrupts    \* bounds: on the number of each

VARIABLES
    version,               \* *version_butex
    stop, interrupted, current_waiter, current_sleep,
    tid, ids,              \* of the fiber in the entity, of all it has had
    pc,                    \* where the fiber is
    ready,                 \* the fiber_id_t's in the run queues
    timer,                 \* of each sleep: the task in the timer thread
    adding,                \* of each sleep: where its _add_sleep_event is
    sleep_tid,             \* of each sleep: SleepArgs::tid
    queued,                \* the waiter of the fiber is in the list of an event
    ipc, given, got,       \* interrupters: the id, and the sleep they consumed
    jpc, joined,           \* joiners and the id they join
    owed,                  \* history: an interrupt, or a stop, not yet reported
    overwritten,           \* history: the id of a sleep that is over replaced the
                           \* one of the sleep that is not
    checks,                \* FLARE_CHECKs that failed
    waits, nint            \* bounds

Sleeps == 1..MaxSleeps

entity == <<version, stop, interrupted, current_waiter, current_sleep, tid, ids>>
sleeping == <<timer, adding, sleep_tid>>
interrupting == <<ipc, given, got>>
joining == <<jpc, joined>>
history == <<owed, overwritten, checks>>
bounds == <<waits, nint>>
vars == <<entity, pc, ready, sleeping, queued, interrupting, joining, history, bounds>>

\* An entity that was used before, to its last version but for the wrap.
Init ==
    /\ version = VerMod - 1
    /\ stop = FALSE /\ interrupted = FALSE
    /\ current_waiter = FALSE /\ current_sleep = 0
    /\ tid = 0 /\ ids = {} /\ pc = "pool" /\ ready = EmptyBag
    /\ timer = [s \in Sleeps |-> "none"]
    /\ adding = [s \in Sleeps |-> "none"]
    /\ sleep_tid = [s \in Sleeps |-> 0]
    /\ queued = FALSE
    /\ ipc = [i \in Interrupters |-> "idle"]
    /\ given = [i \in Interrupters |-> 0]
    /\ got = [i \in Interrupters |-> 0]
    /\ jpc = [j \in Joiners |-> "idle"]
    /\ joined = [j \in Joiners |-> 0]
    /\ owed = "none" /\ overwritten = FALSE /\ checks = {}
    /\ waits = 0 /\ nint = 0

At(label) == pc' = label

ready_to_run(id) == ready' = ready (+) SetToBag({id})

\* if resulting version is 0, change it to 1
NextVersion(v) == IF (v + 1) % VerMod = 0 THEN 1 ELSE (v + 1) % VerMod

----------------------------------------------------------------------------
(* The fiber *)

\* start_background, start_foreground: current_waiter and current_sleep are
\* not reset
Start ==
    /\ pc = "pool" /\ Cardinality(ids) < MaxLives
    /\ stop' = FALSE /\ interrupted' = FALSE
    /\ tid' = version /\ ids' = ids \cup {version}
    /\ ready_to_run(version)
    /\ At("ready")
    /\ owed' = "none"
    /\ checks' = checks \cup IF current_waiter THEN {"waiter"} ELSE {}
    /\ UNCHANGED <<version, current_waiter, current_sleep, sleeping, queued, interrupting,
                   joining, overwritten, bounds>>

\* A worker takes the fiber from a run queue and switches to it.
sched_to ==
    /\ BagIn(tid, ready) /\ pc \in {"ready", "asleep", "blocked"}
    /\ ready' = ready (-) SetToBag({tid})
    /\ At(CASE pc = "ready" -> "run" [] pc = "asleep" -> "slept" [] pc = "blocked" -> "take_waiter")
    /\ UNCHANGED <<entity, sleeping, queued, interrupting, joining, history, bounds>>

\* The worker runs ready_to_run_in_worker after it switched away.
yield ==
    /\ pc = "run"
    /\ ready_to_run(tid)
    /\ At("ready")
    /\ UNCHANGED <<entity, sleeping, queued, interrupting, joining, history, bounds>>

\* usleep switches away and leaves _add_sleep_event to the worker
usleep(s) ==
    /\ pc = "run"
    /\ adding[s] = "none" /\ (s > 1 => adding[s - 1] # "none")
    /\ adding' = [adding EXCEPT ![s] = "schedule"]
    /\ sleep_tid' = [sleep_tid EXCEPT ![s] = tid]
    /\ At("asleep")
    /\ UNCHANGED <<entity, ready, timer, queued, interrupting, joining, history, bounds>>

\* TimerThread::schedule, which fails once the thread is told to stop
AddSchedule(s) ==
    /\ adding[s] = "schedule"
    /\ \/ /\ timer' = [timer EXCEPT ![s] = "scheduled"]
          /\ adding' = [adding EXCEPT ![s] = "store"]
          /\ UNCHANGED ready
       \/ /\ ready_to_run(sleep_tid[s])
          /\ adding' = [adding EXCEPT ![s] = "done"]
          /\ UNCHANGED timer
    /\ UNCHANGED <<entity, pc, sleep_tid, queued, interrupting, joining, history, bounds>>

\* stores the id whether the fiber was interrupted or not
StoresAlways(s) == sleep_tid[s] = version

\* the condition under version_lock
MayStore(s) == sleep_tid[s] = version /\ ~interrupted

AddStore(s) ==
    /\ adding[s] = "store"
    /\ IF MayStore(s)
       THEN /\ current_sleep' = s
            /\ adding' = [adding EXCEPT ![s] = "done"]
            /\ overwritten' = (timer[s] # "scheduled" /\ current_sleep # 0)
       ELSE /\ adding' = [adding EXCEPT ![s] = "unschedule"]
            /\ UNCHANGED <<current_sleep, overwritten>>
    /\ UNCHANGED <<version, stop, interrupted, current_waiter, tid, ids, pc, ready, timer,
                   sleep_tid, queued, interrupting, joining, owed, checks, bounds>>

\* makes the fiber runnable whatever unschedule() returned
ReadyAnyway(s) == TRUE

\* unschedule() returned 0: the task was not run yet
ReadyIf(s) == timer[s] = "scheduled"

\* unschedule(sleep_id) and ready_to_run(id), by an interrupter or a worker
Unschedule(s, id) ==
    /\ timer' = [timer EXCEPT ![s] = IF @ = "scheduled" THEN "gone" ELSE @]
    /\ IF ReadyIf(s) THEN ready_to_run(id) ELSE UNCHANGED ready

AddUnschedule(s) ==
    /\ adding[s] = "unschedule"
    /\ Unschedule(s, sleep_tid[s])
    /\ adding' = [adding EXCEPT ![s] = "done"]
    /\ UNCHANGED <<entity, pc, sleep_tid, queued, interrupting, joining, history, bounds>>

\* ready_to_run_from_timer_thread reads the SleepArgs on the fiber's stack
TimerRuns(s) ==
    /\ timer[s] = "scheduled"
    /\ timer' = [timer EXCEPT ![s] = "gone"]
    /\ ready_to_run(sleep_tid[s])
    /\ UNCHANGED <<entity, pc, adding, sleep_tid, queued, interrupting, joining, history,
                   bounds>>

\* usleep goes on: no lock is held
Slept ==
    /\ pc = "slept"
    /\ current_sleep' = 0
    /\ overwritten' = FALSE
    /\ At("report")
    /\ UNCHANGED <<version, stop, interrupted, current_waiter, tid, ids, ready, sleeping,
                   queued, interrupting, joining, owed, checks, bounds>>

\* usleep, or waitable_event_wait, reports an interruption, as ESTOP if `stop' is
\* set and as EINTR otherwise, and forgets it
Reports ==
    /\ interrupted' = FALSE
    /\ owed' = IF interrupted THEN "none" ELSE owed

Report ==
    /\ pc = "report"
    /\ Reports
    /\ At("run")
    /\ UNCHANGED <<version, stop, current_waiter, current_sleep, tid, ids, ready, sleeping,
                   queued, interrupting, joining, overwritten, checks, bounds>>

\* waitable_event_wait publishes the waiter and switches away; the worker
\* queues it, or makes the fiber runnable again if it was interrupted
Wait ==
    /\ pc = "run" /\ waits < MaxWaits
    /\ waits' = waits + 1
    /\ current_waiter' = TRUE
    /\ At("enqueue")
    /\ UNCHANGED <<version, stop, interrupted, current_sleep, tid, ids, ready, sleeping, queued,
                   interrupting, joining, history, nint>>

Enqueue ==
    /\ pc = "enqueue"
    /\ queued' = ~interrupted
    /\ IF interrupted THEN ready_to_run(tid) ELSE UNCHANGED ready
    /\ At("blocked")
    /\ UNCHANGED <<entity, sleeping, interrupting, joining, history, bounds>>

\* somebody wakes the event
Wake ==
    /\ queued
    /\ queued' = FALSE
    /\ ready_to_run(tid)
    /\ UNCHANGED <<entity, pc, sleeping, interrupting, joining, history, bounds>>

\* waitable_event_wait spins until no interrupter has its waiter
TakeWaiter ==
    /\ pc = "take_waiter" /\ current_waiter
    /\ current_waiter' = FALSE
    /\ Reports
    /\ At("run")
    /\ UNCHANGED <<version, stop, current_sleep, tid, ids, ready, sleeping, queued, interrupting,
                   joining, overwritten, checks, bounds>>

\* task_runner after fn: the version is increased under version_lock
End ==
    /\ pc = "run"
    /\ version' = NextVersion(version)
    /\ At("wake_joiners")
    /\ UNCHANGED <<stop, interrupted, current_waiter, current_sleep, tid, ids, ready, sleeping,
                   queued, interrupting, joining, history, bounds>>

\* waitable_event_wake_except(version_butex, 0)
WakeJoiners ==
    /\ pc = "wake_joiners"
    /\ jpc' = [j \in Joiners |-> IF jpc[j] = "waiting" THEN "check" ELSE jpc[j]]
    /\ At("release")
    /\ UNCHANGED <<entity, ready, sleeping, queued, interrupting, joined, history, bounds>>

\* _release_last_context, by the worker that switched away
_release_last_context ==
    /\ pc = "release"
    /\ At("pool")
    /\ UNCHANGED <<entity, ready, sleeping, queued, interrupting, joining, history, bounds>>

----------------------------------------------------------------------------
(* fiber_stop and fiber_interrupt, with the id of the fiber or of one that *)
(* was in the entity before                                                *)

\* set_stopped, by fiber_stop
SetStopped(i, id) ==
    /\ ipc[i] = "idle" /\ nint < MaxInterrupts
    /\ nint' = nint + 1
    /\ stop' = (stop \/ id = version)
    /\ ipc' = [ipc EXCEPT ![i] = "stopped"]
    /\ given' = [given EXCEPT ![i] = id]
    /\ UNCHANGED <<version, interrupted, current_waiter, current_sleep, tid, ids, pc, ready,
                   sleeping, queued, got, joining, history, waits>>

\* the call returns
Returned(i) ==
    /\ ipc' = [ipc EXCEPT ![i] = "idle"]
    /\ given' = [given EXCEPT ![i] = 0]
    /\ got' = [got EXCEPT ![i] = 0]

\* given_ver == *m->version_butex
Matches(id) == id = version

\* fiber_interrupt, or the second half of fiber_stop: what
\* interrupt_and_consume_waiters does and what is left to do after it
Consume(i, id) ==
    /\ \/ ipc[i] = "stopped" /\ id = given[i] /\ UNCHANGED nint
       \/ ipc[i] = "idle" /\ nint < MaxInterrupts /\ nint' = nint + 1
    /\ IF Matches(id)
       THEN /\ interrupted' = TRUE
            /\ current_waiter' = FALSE /\ current_sleep' = 0
            /\ checks' = checks \cup IF current_waiter /\ current_sleep # 0 THEN {"sleepy"} ELSE {}
            /\ owed' = IF ipc[i] = "stopped" THEN "stop" ELSE IF owed = "stop" THEN owed ELSE "interrupt"
            /\ IF current_waiter \/ current_sleep # 0
               THEN /\ ipc' = [ipc EXCEPT ![i] = IF current_waiter THEN "erase" ELSE "unschedule"]
                    /\ given' = [given EXCEPT ![i] = id]
                    /\ got' = [got EXCEPT ![i] = current_sleep]
               ELSE Returned(i)
       ELSE Returned(i) /\ UNCHANGED <<interrupted, current_waiter, current_sleep, checks, owed>>
    /\ UNCHANGED <<version, stop, tid, ids, pc, ready, sleeping, queued, joining, overwritten,
                   waits>>

\* erase_from_event_because_of_interruption
Erase(i) ==
    /\ ipc[i] = "erase"
    /\ queued' = FALSE
    /\ IF queued THEN ready_to_run(given[i]) ELSE UNCHANGED ready
    /\ ipc' = [ipc EXCEPT ![i] = "set_back"]
    /\ UNCHANGED <<entity, pc, sleeping, given, got, joining, history, bounds>>

\* set_event_waiter, and the FATAL line when the fiber is gone
SetBack(i) ==
    /\ ipc[i] = "set_back"
    /\ IF Matches(given[i])
       THEN current_waiter' = TRUE /\ UNCHANGED checks
       ELSE checks' = checks \cup {"spin"} /\ UNCHANGED current_waiter
    /\ Returned(i)
    /\ UNCHANGED <<version, stop, interrupted, current_sleep, tid, ids, pc, ready, sleeping,
                   queued, joining, owed, overwritten, bounds>>

InterruptSleep(i) ==
    /\ ipc[i] = "unschedule"
    /\ Unschedule(got[i], given[i])
    /\ Returned(i)
    /\ UNCHANGED <<entity, pc, adding, sleep_tid, queued, joining, history, bounds>>

----------------------------------------------------------------------------
(* join *)

Join(j, id) ==
    /\ jpc[j] = "idle"
    /\ jpc' = [jpc EXCEPT ![j] = "check"]
    /\ joined' = [joined EXCEPT ![j] = id]
    /\ UNCHANGED <<entity, pc, ready, sleeping, queued, interrupting, history, bounds>>

\* waits while the version is the expected one, which waitable_event_wait
\* compares again under the lock of the event
JoinWait(j) ==
    /\ jpc[j] = "check" /\ version = joined[j]
    /\ jpc' = [jpc EXCEPT ![j] = "waiting"]
    /\ UNCHANGED <<entity, pc, ready, sleeping, queued, interrupting, joined, history, bounds>>

\* the wait of the joiner is itself interrupted, and tried again
JoinInterrupted(j) ==
    /\ jpc[j] = "waiting"
    /\ jpc' = [jpc EXCEPT ![j] = "check"]
    /\ UNCHANGED <<entity, pc, ready, sleeping, queued, interrupting, joined, history, bounds>>

JoinReturn(j) ==
    /\ jpc[j] = "check" /\ version # joined[j]
    /\ jpc' = [jpc EXCEPT ![j] = "returned"]
    /\ UNCHANGED <<entity, pc, ready, sleeping, queued, interrupting, joined, history, bounds>>

----------------------------------------------------------------------------
FiberStep ==
    \/ Start \/ sched_to \/ yield \/ Slept \/ Report \/ Wait \/ Enqueue \/ Wake
    \/ TakeWaiter \/ End \/ WakeJoiners \/ _release_last_context

SleepStep(s) ==
    usleep(s) \/ AddSchedule(s) \/ AddStore(s) \/ AddUnschedule(s) \/ TimerRuns(s)

InterruptStep(i) ==
    \/ \E id \in ids : SetStopped(i, id) \/ Consume(i, id)
    \/ Erase(i) \/ SetBack(i) \/ InterruptSleep(i)

JoinStep(j) ==
    \/ \E id \in ids : Join(j, id)
    \/ JoinWait(j) \/ JoinInterrupted(j) \/ JoinReturn(j)

Next ==
    \/ FiberStep
    \/ \E s \in Sleeps : SleepStep(s)
    \/ \E i \in Interrupters : InterruptStep(i)
    \/ \E j \in Joiners : JoinStep(j)

Spec == Init /\ [][Next]_vars

----------------------------------------------------------------------------
\* Each variable holds what its field may hold; an id, a version, is never 0.
TypeOK ==
    /\ version \in 1..VerMod - 1 /\ tid \in 0..VerMod - 1
    /\ ids \subseteq 1..VerMod - 1
    /\ {stop, interrupted, current_waiter, queued, overwritten} \subseteq BOOLEAN
    /\ current_sleep \in 0..MaxSleeps
    /\ pc \in {"pool", "ready", "run", "asleep", "slept", "report", "enqueue", "blocked",
               "take_waiter", "wake_joiners", "release"}
    /\ IsABag(ready)
    /\ timer \in [Sleeps -> {"none", "scheduled", "gone"}]
    /\ adding \in [Sleeps -> {"none", "schedule", "store", "unschedule", "done"}]
    /\ ipc \in [Interrupters -> {"idle", "stopped", "erase", "set_back", "unschedule"}]
    /\ jpc \in [Joiners -> {"idle", "check", "waiting", "returned"}]
    /\ owed \in {"none", "interrupt", "stop"}

\* A fiber is never in two run queues, nor in one while it runs or after it
\* ended: of the timer thread, the interrupters, the wakers and the workers
\* that add its sleeps exactly one makes it runnable, and none of them the
\* next fiber of the entity.
RunnableOnce ==
    /\ BagCardinality(ready) <= 1
    /\ \A id \in BagToSet(ready) : id = tid /\ pc \in {"ready", "asleep", "blocked"}

\* An interruption is remembered until a blocking call reports it, that of
\* fiber_stop with the flag that makes it report ESTOP; and a fiber
\* that was interrupted sleeps or waits on only while somebody is about to
\* wake it, or when the id of its sleep was replaced by the one of a sleep
\* that was over.
InterruptKept ==
    /\ owed # "none" /\ tid = version => interrupted /\ (owed = "stop" => stop)
    /\ interrupted /\ pc = "asleep" /\ tid = version /\ ready = EmptyBag =>
          \/ overwritten
          \/ \E s \in Sleeps : adding[s] \notin {"none", "done"}
          \/ \E i \in Interrupters : ipc[i] = "unschedule"
    /\ interrupted /\ pc = "blocked" /\ queued => \E i \in Interrupters : ipc[i] = "erase"

\* No joiner waits for a fiber that ended, but while its end is waking them,
\* and none returns before the end.
JoinersWoken ==
    \A j \in Joiners :
        /\ jpc[j] = "waiting" /\ joined[j] # version => pc = "wake_joiners"
        /\ jpc[j] = "returned" => joined[j] # version

\* set_event_waiter finds the fiber: it spins until its waiter is back; and
\* an entity is reused without a waiter.
WaiterGoesBack == checks \cap {"spin", "waiter"} = {}

\* "a fiber cannot wait on a butex and be sleepy at the same time"
\* (fiber_worker.cc:827)
SleepyOrWaiting == "sleepy" \notin checks
=============================================================================
