------------------------------ MODULE Scheduler ------------------------------
(***************************************************************************)
(* How runnable fibers find a worker: src/flare/fiber/internal,            *)
(* fiber_worker.{h,cc}, schedule_group.cc, parking_lot.h and               *)
(* remote_task_queue.h.                                                    *)
(*                                                                         *)
(* A worker pthread runs fibers.  A fiber made runnable by the worker goes *)
(* to the worker's own queue (_rq), one made runnable by any other pthread *)
(* to a random worker's remote queue (_remote_rq).  A worker that finds    *)
(* nothing in its own queue looks through the queues of all workers and    *)
(* then sleeps on a futex, its parking lot.  Making a fiber runnable is    *)
(* followed by signal_task, which bumps the counters of the lots until it  *)
(* has woken enough workers, unless the caller asked for NOSIGNAL.         *)
(*                                                                         *)
(* Fibers differ only in where they are queued, so a queue is its length.  *)
(* The own queue is the deque that WorkStealingQueue.tla refines: push,    *)
(* pop and steal are atomic.                                               *)
(***************************************************************************)
EXTENDS Integers, FiniteSets, FiniteSetsExt

CONSTANTS
    Workers,        \* worker pthreads, created or not
    Initial,        \* the workers started by schedule_group::init
    Producers,      \* other pthreads that make fibers runnable
    NLots,          \* PARKING_LOT_NUM
    RqCap,          \* capacity of _rq
    RemoteCap,      \* capacity of _remote_rq
    MinConcurrency, \* FLAGS_fiber_min_concurrency > 0
    Stops,          \* whether stop_and_join is called
    MaxTasks,       \* bound: fibers made runnable
    MaxTurns,       \* bound: yields, and NOSIGNAL starts by producers
    NoWorker        \* no worker: NULL

Lots == 0 .. NLots - 1
Threads == Workers \cup Producers

SchedulerAssumption ==
    /\ Initial \subseteq Workers /\ Initial # {}
    /\ Workers \cap Producers = {} /\ NoWorker \notin Workers
    /\ NLots \in Nat /\ NLots > 0
    /\ RqCap \in Nat /\ RqCap > 0
    /\ RemoteCap \in Nat /\ RemoteCap > 0
    /\ MinConcurrency \in BOOLEAN /\ Stops \in BOOLEAN
    /\ MaxTasks \in Nat /\ MaxTurns \in Nat

VARIABLES
    lotOf,      \* thread -> the lot its id hashes to
    pc,         \* thread -> where it is
    rq,         \* worker -> length of _rq
    nosignal,   \* worker -> _num_nosignal
    remote,     \* worker -> length of _remote_rq
    rnosignal,  \* worker -> _remote_num_nosignal
    target,     \* thread -> the worker it looks at or pushes to
    batch,      \* producer -> tls_task_group_nosignal
    groups,     \* the workers in _groups[0 .. _ngroup)
    closed,     \* lot -> _pending_signal & 1
    saved,      \* worker -> _last_pl_state, compared with its lot's _pending_signal
    toScan,     \* worker -> groups its steal_task has still to visit
    yielding,   \* worker -> the fiber that left it is still to be queued
    call,       \* thread -> its call of signal_task
    stop,       \* progress of stop_and_join
    tasks, turns

vars == <<lotOf, pc, rq, nosignal, remote, rnosignal, target, batch, groups, closed,
          saved, toScan, yielding, call, stop, tasks, turns>>
queues == <<rq, nosignal, remote, rnosignal, target, batch>>
counts == <<tasks, turns>>

\* A call of signal_task: workers still to wake, the next lot, the lots left,
\* and where its caller continues.
Call == [n : 0 .. 2, lot : Lots, left : 0 .. NLots, then : {"idle", "push", "push_nosignal", "run", "spawn", "main"}]

NoCall == [n |-> 0, lot |-> 0, left |-> 0, then |-> "idle"]

TypeOK ==
    /\ lotOf \in [Threads -> Lots]
    /\ \A w \in Workers : pc[w] \in {"absent", "new", "main", "asleep", "steal", "state", "ngroup",
                                     "scan",
                                     "scan_remote", "remained", "run", "spawn", "add", "wake", "exit"}
    /\ \A p \in Producers : pc[p] \in {"idle", "push", "push_nosignal", "add", "wake"}
    /\ rq \in [Workers -> 0 .. RqCap]
    /\ nosignal \in [Workers -> 0 .. MaxTasks]
    /\ remote \in [Workers -> 0 .. RemoteCap]
    /\ rnosignal \in [Workers -> 0 .. MaxTasks]
    /\ target \in [Threads -> Workers \cup {NoWorker}]
    /\ batch \in [Producers -> Workers \cup {NoWorker}]
    /\ groups \in SUBSET Workers
    /\ closed \in [Lots -> BOOLEAN]
    /\ saved \in [Workers -> [same : BOOLEAN, stopped : BOOLEAN]]
    /\ toScan \in [Workers -> SUBSET Workers]
    /\ yielding \in [Workers -> BOOLEAN]
    /\ call \in [Threads -> Call]
    /\ stop \in {"no", "closing", "done"}
    /\ tasks \in 0 .. MaxTasks /\ turns \in 0 .. MaxTurns

Init ==
    /\ lotOf \in [Threads -> Lots]
    /\ pc = [t \in Threads |-> IF t \in Producers THEN "idle"
                               ELSE IF t \in Initial THEN "new" ELSE "absent"]
    /\ rq = [w \in Workers |-> 0]
    /\ nosignal = [w \in Workers |-> 0]
    /\ remote = [w \in Workers |-> 0]
    /\ rnosignal = [w \in Workers |-> 0]
    /\ target = [t \in Threads |-> NoWorker]
    /\ batch = [p \in Producers |-> NoWorker]
    /\ groups = {}
    /\ closed = [l \in Lots |-> FALSE]
    /\ saved = [w \in Workers |-> [same |-> TRUE, stopped |-> FALSE]]
    /\ toScan = [w \in Workers |-> {}]
    /\ yielding = [w \in Workers |-> FALSE]
    /\ call = [t \in Threads |-> NoCall]
    /\ stop = "no"
    /\ tasks = 0 /\ turns = 0

\* Thread t enters signal_task(k), k > 0, and continues at `then'.
Signal(t, k, then) ==
    /\ pc' = [pc EXCEPT ![t] = "add"]
    /\ call' = [call EXCEPT ![t] = [n |-> Min({k, 2}), lot |-> lotOf[t],
                                    left |-> NLots, then |-> then]]

GoTo(t, label) == pc' = [pc EXCEPT ![t] = label] /\ UNCHANGED call

(***************************************************************************)
(* signal_task, and ParkingLot::signal, which adds to the counter and then *)
(* wakes one worker that sleeps on the lot.                                *)
(***************************************************************************)
AddSignal(t) ==
    /\ pc[t] = "add"
    /\ saved' = [w \in Workers |-> IF lotOf[w] = call[t].lot THEN [saved[w] EXCEPT !.same = FALSE]
                                                              ELSE saved[w]]
    /\ GoTo(t, "wake")
    /\ UNCHANGED <<lotOf, queues, groups, closed, toScan, yielding, stop, counts>>

Sleepers(l) == {w \in Workers : pc[w] = "asleep" /\ lotOf[w] = l}

\* The lot after this one, or the end of signal_task, where a worker is added
\* when too few were woken, fewer than fiber_concurrency run and
\* pthread_create succeeds.
NextLot(t, n, woken) ==
    LET c == call[t]
        absent == {w \in Workers : pc[w] = "absent"}
        awake == [u \in Threads |-> IF u \in woken THEN "steal" ELSE pc[u]]
    IN  IF n > 0 /\ c.left > 1
        THEN /\ pc' = [awake EXCEPT ![t] = "add"]
             /\ call' = [call EXCEPT ![t] = [c EXCEPT !.n = n, !.lot = (c.lot + 1) % NLots,
                                                      !.left = @ - 1]]
        ELSE /\ call' = [call EXCEPT ![t] = NoCall]
             /\ \/ /\ n > 0 /\ MinConcurrency
                   /\ \E w \in absent : pc' = [awake EXCEPT ![t] = c.then, ![w] = "new"]
                \/ pc' = [awake EXCEPT ![t] = c.then]

Wake(t) ==
    /\ pc[t] = "wake"
    /\ LET l == call[t].lot
       IN  \/ \E w \in Sleepers(l) : NextLot(t, call[t].n - 1, {w})
           \/ Sleepers(l) = {} /\ NextLot(t, call[t].n, {})
    /\ UNCHANGED <<lotOf, queues, groups, closed, saved, toScan, yielding, stop, counts>>

(***************************************************************************)
(* The worker's main task.                                                 *)
(***************************************************************************)

\* create_group and _add_group.
AddGroup(w) ==
    /\ pc[w] = "new"
    /\ \/ stop # "no" /\ GoTo(w, "exit") /\ UNCHANGED groups
       \/ stop = "no" /\ groups' = groups \cup {w} /\ Signal(w, 65536, "main")
    /\ UNCHANGED <<lotOf, queues, closed, saved, toScan, yielding, stop, counts>>

\* Mutant: the state is read when the worker parks, not before it looked.
WaitTaskFresh(w) ==
    /\ pc[w] = "main"
    /\ GoTo(w, IF closed[lotOf[w]] THEN "exit" ELSE "asleep")
    /\ UNCHANGED <<lotOf, queues, groups, closed, saved, toScan, yielding, stop, counts>>

\* Mutant: the stop bit is not looked at once the counter has moved on.
WaitTaskUnstopped(w) ==
    /\ pc[w] = "main"
    /\ GoTo(w, IF saved[w].same THEN "asleep" ELSE "steal")
    /\ UNCHANGED <<lotOf, queues, groups, closed, saved, toScan, yielding, stop, counts>>

\* wait_task up to and including the futex call: the kernel compares the
\* counter with the saved state and puts the worker to sleep in one step.
WaitTask(w) ==
    /\ pc[w] = "main"
    /\ GoTo(w, CASE saved[w].stopped -> "exit"
                 [] ~saved[w].stopped /\ saved[w].same /\ ~closed[lotOf[w]] -> "asleep"
                 [] OTHER -> "steal")
    /\ UNCHANGED <<lotOf, queues, groups, closed, saved, toScan, yielding, stop, counts>>

\* sched_to the fiber found (or the main task): the callback left by the fiber
\* that gave the worker up runs first.
SchedTo(w, label) ==
    IF yielding[w]
    THEN pc' = [pc EXCEPT ![w] = "remained"] /\ call' = [call EXCEPT ![w].then = label]
    ELSE GoTo(w, label)

\* steal_task begins with the worker's own remote queue.
PopRemote(w) ==
    /\ pc[w] = "steal"
    /\ \/ /\ remote[w] > 0
          /\ remote' = [remote EXCEPT ![w] = @ - 1]
          /\ SchedTo(w, "run")
       \/ remote[w] = 0 /\ GoTo(w, "state") /\ UNCHANGED remote
    /\ UNCHANGED <<lotOf, rq, nosignal, rnosignal, target, batch, groups, closed, saved, toScan,
                   yielding, stop, counts>>

GetState(w) ==
    /\ pc[w] = "state"
    /\ saved' = [saved EXCEPT ![w] = [same |-> TRUE, stopped |-> closed[lotOf[w]]]]
    /\ GoTo(w, "ngroup")
    /\ UNCHANGED <<lotOf, queues, groups, closed, toScan, yielding, stop, counts>>

\* Mutant: the group visited last is left out.
LoadGroupsShort(w) ==
    /\ pc[w] = "ngroup"
    /\ \E g \in groups : toScan' = [toScan EXCEPT ![w] = groups \ {g}]
    /\ GoTo(w, "scan")
    /\ UNCHANGED <<lotOf, queues, groups, closed, saved, yielding, stop, counts>>

\* schedule_group::steal_task: the offset is a prime larger than the number of
\* groups, so every group is visited once, in an arbitrary order.
LoadGroups(w) ==
    /\ pc[w] = "ngroup"
    /\ toScan' = [toScan EXCEPT ![w] = groups]
    /\ GoTo(w, "scan")
    /\ UNCHANGED <<lotOf, queues, groups, closed, saved, yielding, stop, counts>>

\* One iteration of the loop: the own queue of g, then its remote queue.
Scan(w) ==
    /\ pc[w] = "scan"
    /\ \/ \E g \in toScan[w] :
            /\ rq[g] > 0
            /\ rq' = [rq EXCEPT ![g] = @ - 1]
            /\ toScan' = [toScan EXCEPT ![w] = {}]
            /\ SchedTo(w, "run")
            /\ UNCHANGED target
       \/ \E g \in toScan[w] :
            /\ rq[g] = 0
            /\ target' = [target EXCEPT ![w] = g]
            /\ toScan' = [toScan EXCEPT ![w] = @ \ {g}]
            /\ GoTo(w, "scan_remote")
            /\ UNCHANGED rq
       \/ /\ toScan[w] = {}
          /\ SchedTo(w, "main")
          /\ UNCHANGED <<rq, toScan, target>>
    /\ UNCHANGED <<lotOf, nosignal, remote, rnosignal, batch, groups, closed, saved, yielding,
                   stop, counts>>

ScanRemote(w) ==
    /\ pc[w] = "scan_remote"
    /\ LET g == target[w]
       IN  \/ /\ remote[g] > 0
              /\ remote' = [remote EXCEPT ![g] = @ - 1]
              /\ toScan' = [toScan EXCEPT ![w] = {}]
              /\ SchedTo(w, "run")
           \/ remote[g] = 0 /\ GoTo(w, "scan") /\ UNCHANGED <<remote, toScan>>
    /\ target' = [target EXCEPT ![w] = NoWorker]
    /\ UNCHANGED <<lotOf, rq, nosignal, rnosignal, batch, groups, closed, saved, yielding,
                   stop, counts>>

(***************************************************************************)
(* What the fiber on a worker does.                                        *)
(***************************************************************************)

\* ready_to_run of a new fiber, NOSIGNAL or not.
Pushed(w, then) ==
    /\ rq' = [rq EXCEPT ![w] = @ + 1]
    /\ \/ nosignal' = [nosignal EXCEPT ![w] = @ + 1] /\ GoTo(w, then)
       \/ nosignal' = [nosignal EXCEPT ![w] = 0] /\ Signal(w, 1 + nosignal[w], then)

\* flush_nosignal_tasks, continuing at `then'.
Flush(w, then) ==
    /\ nosignal' = [nosignal EXCEPT ![w] = 0]
    /\ IF nosignal[w] > 0 THEN Signal(w, nosignal[w], then) ELSE GoTo(w, then)

\* start_background and push_rq, which flushes and retries while _rq is full.
Spawn(w) ==
    /\ \/ /\ pc[w] = "run" /\ tasks < MaxTasks
          /\ tasks' = tasks + 1
          /\ \/ rq[w] < RqCap /\ Pushed(w, "run")
             \/ rq[w] = RqCap /\ Flush(w, "spawn") /\ UNCHANGED rq
       \/ pc[w] = "spawn" /\ rq[w] < RqCap /\ Pushed(w, "run") /\ UNCHANGED tasks
    /\ UNCHANGED <<lotOf, remote, rnosignal, target, batch, groups, closed, saved, toScan, yielding,
                   stop, turns>>

\* fiber_flush.
FlushNosignal(w) ==
    /\ pc[w] = "run" /\ nosignal[w] > 0
    /\ Flush(w, "run")
    /\ UNCHANGED <<lotOf, rq, remote, rnosignal, target, batch, groups, closed, saved, toScan, yielding,
                   stop, counts>>

\* The fiber ends or blocks (ending_sched, sched), or yields: the next fiber
\* is the youngest of the own queue, or what steal_task finds.
Leave(w) ==
    /\ pc[w] = "run"
    /\ \/ UNCHANGED <<yielding, turns>> /\ yielding[w] = FALSE
       \/ turns < MaxTurns /\ turns' = turns + 1 /\ yielding' = [yielding EXCEPT ![w] = TRUE]
    /\ \/ /\ rq[w] > 0
          /\ rq' = [rq EXCEPT ![w] = @ - 1]
          /\ IF yielding'[w]
             THEN pc' = [pc EXCEPT ![w] = "remained"] /\ call' = [call EXCEPT ![w].then = "run"]
             ELSE GoTo(w, "run")
       \/ rq[w] = 0 /\ GoTo(w, "steal") /\ UNCHANGED rq
    /\ UNCHANGED <<lotOf, nosignal, remote, rnosignal, target, batch, groups, closed, saved, toScan,
                   stop, tasks>>

\* ready_to_run_in_worker, the callback fiber_yield left behind.
Remained(w) ==
    /\ pc[w] = "remained"
    /\ yielding' = [yielding EXCEPT ![w] = FALSE]
    /\ rq' = [rq EXCEPT ![w] = @ + 1]
    /\ nosignal' = [nosignal EXCEPT ![w] = 0]
    /\ Signal(w, 1 + nosignal[w], call[w].then)
    /\ UNCHANGED <<lotOf, remote, rnosignal, target, batch, groups, closed, saved, toScan, stop, counts>>

(***************************************************************************)
(* Other pthreads.                                                         *)
(***************************************************************************)

\* start_from_non_worker: fibers started with NOSIGNAL go to one worker until
\* the next fiber_flush.
Start(p) ==
    /\ pc[p] = "idle" /\ tasks < MaxTasks /\ groups # {}
    /\ \/ /\ \E g \in groups : target' = [target EXCEPT ![p] = g]
          /\ GoTo(p, "push")
          /\ UNCHANGED <<batch, turns>>
       \/ /\ turns < MaxTurns /\ turns' = turns + 1
          /\ \E g \in IF batch[p] = NoWorker THEN groups ELSE {batch[p]} :
               target' = [target EXCEPT ![p] = g] /\ batch' = [batch EXCEPT ![p] = g]
          /\ GoTo(p, "push_nosignal")
    /\ tasks' = tasks + 1
    /\ UNCHANGED <<lotOf, rq, nosignal, remote, rnosignal, groups, closed, saved, toScan, yielding,
                   stop>>

\* flush_nosignal_tasks_remote_locked, continuing at `then'.
FlushLocked(p, g, then) ==
    /\ rnosignal' = [rnosignal EXCEPT ![g] = 0]
    /\ IF rnosignal[g] > 0 THEN Signal(p, rnosignal[g], then) ELSE GoTo(p, then)

\* ready_to_run_remote under the lock of the remote queue.
PushRemote(p) ==
    /\ pc[p] \in {"push", "push_nosignal"}
    /\ LET g == target[p]
       IN  \/ /\ remote[g] < RemoteCap
              /\ remote' = [remote EXCEPT ![g] = @ + 1]
              /\ target' = [target EXCEPT ![p] = NoWorker]
              /\ IF pc[p] = "push"
                 THEN rnosignal' = [rnosignal EXCEPT ![g] = 0] /\ Signal(p, 1 + rnosignal[g], "idle")
                 ELSE rnosignal' = [rnosignal EXCEPT ![g] = @ + 1] /\ GoTo(p, "idle")
           \/ remote[g] = RemoteCap /\ FlushLocked(p, g, pc[p]) /\ UNCHANGED <<remote, target>>
    /\ UNCHANGED <<lotOf, rq, nosignal, batch, groups, closed, saved, toScan, yielding,
                   stop, counts>>

\* fiber_flush from another pthread: flush_nosignal_tasks_remote.
FlushRemote(p) ==
    /\ pc[p] = "idle" /\ batch[p] # NoWorker
    /\ FlushLocked(p, batch[p], "idle")
    /\ batch' = [batch EXCEPT ![p] = NoWorker]
    /\ UNCHANGED <<lotOf, rq, nosignal, remote, target, groups, closed, saved, toScan, yielding,
                   stop, counts>>

(***************************************************************************)
(* stop_and_join: forget the groups, then close the lots one by one.       *)
(***************************************************************************)
StopGroups ==
    /\ Stops /\ stop = "no"
    /\ stop' = "closing"
    /\ groups' = {}
    /\ UNCHANGED <<lotOf, pc, queues, closed, saved, toScan, yielding, call, counts>>

\* ParkingLot::stop: the bit is set, then all sleepers are woken.
CloseLot(l) ==
    /\ stop = "closing" /\ ~closed[l]
    /\ \A k \in Lots : k < l => closed[k] /\ Sleepers(k) = {}
    /\ closed' = [closed EXCEPT ![l] = TRUE]
    /\ UNCHANGED <<lotOf, pc, queues, groups, saved, toScan, yielding, call, stop, counts>>

WakeLot(l) ==
    /\ stop = "closing" /\ closed[l] /\ Sleepers(l) # {}
    /\ pc' = [t \in Threads |-> IF t \in Sleepers(l) THEN "steal" ELSE pc[t]]
    /\ UNCHANGED <<lotOf, queues, groups, closed, saved, toScan, yielding, call, stop, counts>>

\* pthread_join of every worker.
Joined ==
    /\ stop = "closing" /\ \A l \in Lots : closed[l]
    /\ \A w \in Workers : pc[w] \in {"absent", "exit"}
    /\ stop' = "done"
    /\ UNCHANGED <<lotOf, pc, queues, groups, closed, saved, toScan, yielding, call, counts>>

WorkerStep(w) ==
    \/ AddGroup(w) \/ WaitTask(w) \/ PopRemote(w) \/ GetState(w) \/ LoadGroups(w)
    \/ Scan(w) \/ ScanRemote(w) \/ Spawn(w) \/ FlushNosignal(w) \/ Leave(w) \/ Remained(w)

ProducerStep(p) == Start(p) \/ PushRemote(p) \/ FlushRemote(p)

Next ==
    \/ \E t \in Threads : AddSignal(t) \/ Wake(t)
    \/ \E w \in Workers : WorkerStep(w)
    \/ \E p \in Producers : ProducerStep(p)
    \/ StopGroups \/ Joined
    \/ \E l \in Lots : CloseLot(l) \/ WakeLot(l)

Spec == Init /\ [][Next]_vars

(***************************************************************************)
(* Fairness: the kernel runs every pthread, and a fiber does not keep its  *)
(* worker for ever.  Whether to start, yield or flush is up to the user.   *)
(***************************************************************************)
\* What a worker does between two fibers.
LooksForWork(w) ==
    \/ AddGroup(w) \/ WaitTask(w) \/ PopRemote(w) \/ GetState(w) \/ LoadGroups(w)
    \/ Scan(w) \/ ScanRemote(w) \/ Remained(w)

Progress ==
    /\ \A t \in Threads : WF_vars(AddSignal(t) \/ Wake(t))
    /\ \A w \in Workers :
         /\ WF_vars(LooksForWork(w))
         /\ WF_vars(Leave(w))
         /\ WF_vars(pc[w] = "spawn" /\ Spawn(w))
    /\ \A p \in Producers : WF_vars(PushRemote(p))
    /\ \A l \in Lots : WF_vars(CloseLot(l) \/ WakeLot(l))

FairSpec == Spec /\ Progress

-----------------------------------------------------------------------------
Created == {w \in Workers : pc[w] # "absent"}

\* The fibers in g's remote queue were all started with NOSIGNAL and a
\* producer has yet to call fiber_flush for them.
Unflushed(g) == remote[g] <= rnosignal[g] /\ \E p \in Producers : batch[p] = g

\* Worker w's queues hold nothing that a worker ought to run.
Drained(w) == rq[w] = 0 /\ (remote[w] > 0 => Unflushed(w))

\* Worker w is in the loop of push_rq with nobody to make room in its queue.
Spins(w) == pc[w] = "spawn" /\ rq[w] = RqCap

\* All workers are in the loop of push_rq: "May cause deadlock when all workers
\* are spinning here" (fiber_worker_inl.h).
AllSpin == \A w \in Created : Spins(w)

\* The workers may only all be asleep, or asleep but for some in the loop of
\* push_rq, when no runnable fiber is queued, NOSIGNAL ones that nobody has
\* flushed aside: the state saved before the queues are looked through
\* (fiber_worker.h, steal_task) makes the futex call of wait_task fail when a
\* signal came after the look, and push_rq signals for its full queue.  Only
\* when all workers are in that loop may fibers wait for ever.
NoTaskStranded ==
    /\ stop = "no"
    /\ \A w \in Created : pc[w] = "asleep" \/ Spins(w)
    /\ \A p \in Producers : pc[p] = "idle"
    => AllSpin \/ \A w \in Workers : Drained(w)

\* A worker does not fall asleep over its own queue.  The fibers it started
\* with NOSIGNAL need no signal because it runs them itself first
\* (ending_sched), and a fiber that yielded as the worker ran out of work is
\* queued after the look through the queues, but with a signal to the
\* worker's own lot (ready_to_run_in_worker).
OwnQueueFirst ==
    [][\A w \in Workers : stop = "no" /\ pc[w] = "main" /\ pc'[w] = "asleep" => rq[w] = 0]_vars

\* Every runnable fiber that was signalled or flushed is run in the end, and
\* ready_to_run_remote gets out of its loop: the full queue is signalled for,
\* so some worker empties it.  Nothing but the deadlock that push_rq warns of
\* is in the way: while one worker does not spin, the others get room.
FibersRun ==
    /\ \A w \in Workers : []<>(stop = "no" => Drained(w) \/ AllSpin)
    /\ \A w \in Workers : pc[w] = "spawn" ~> pc[w] # "spawn" \/ AllSpin \/ stop # "no"
    /\ \A p \in Producers :
         pc[p] \in {"push", "push_nosignal"} ~> pc[p] = "idle" \/ AllSpin \/ stop # "no"

\* Every worker leaves after stop_and_join, whatever state it had saved, but
\* for a worker that waits in push_rq for room in its own queue: with the
\* groups forgotten nobody steals from it any more, and push_rq does not look
\* whether the workers are stopped.
StopEnds ==
    stop = "closing" ~> [](\A w \in Workers : pc[w] \in {"absent", "exit"} \/ Spins(w))
=============================================================================
