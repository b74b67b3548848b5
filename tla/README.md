# Verification of flare's fiber runtime and RPC core

This directory holds TLA+ specifications of the concurrent core of flare
(`src/flare`), the TLC configurations that check them on small instances, and
proofs that TLAPS checks for every value of the constants. `PROJECT.json` lists
the components, the runs, the lines each definition models, the hazards the
properties are aimed at, and the theorems.

To check a run: `tlc -config handles.cfg MCHandles`. To check a proof:
`tlapm TokenProofs.tla`.

## The system

flare is a C++ RPC framework. From the bottom up:

- **Fibers** (`src/flare/fiber`): an M:N threading library. Worker pthreads run
  fibers from their run queues, steal from each other and park on futexes.
  Fibers block on *waitable events*, a futex in user space, on which mutexes and
  condition variables are built. One *timer thread* serves all timeouts. *Tokens*
  (`fiber_token_t`) are versioned ids that can be locked, receive errors and be
  joined; they identify RPCs. An *execution queue* is a multi-producer queue
  whose consumer is a fiber that lives only while there is work.
- **Sockets** (`src/flare/rpc/socket*`): a connection, addressed by a versioned
  id so that a stale id is harmless, with a wait-free write queue, failure
  notification, health check and revival. The event dispatcher starts the fiber
  that reads it.
- **RPC**: on the client a Controller runs an RPC under its token, with retries,
  backup requests, timeouts and cancellation; a ParallelChannel makes several
  at once; a stream sends messages through a window. On the server an Acceptor
  owns the connections, which Stop and Join take down. Load balancers, naming
  services and some twenty protocols complete it.
- **Utilities**: containers (among them DoublyBufferedData, which readers use
  without contention), memory pools, buffers, metrics, strings, files, time,
  logging.

The core is what everything else blocks on or writes through, has hardly any
locks, and is where tests reach least; the layers above it are modelled where
several threads meet in them.

### Inventory

| Part | Module | State |
|---|---|---|
| `fiber/internal/token.cc` | Token, TokenProofs | every operation on one token |
| `fiber/internal/work_stealing_queue.h` | WorkStealingQueue, TaskDeque, WorkStealingQueueProofs | complete |
| `fiber/internal/waitable_event.cc`, `interrupt` of `fiber_worker.cc` | WaitableEvent | wait, wake\*, requeue, timeout, interrupt |
| `fiber_worker*`, `schedule_group.cc`, `parking_lot.h`, `remote_task_queue.h` | Scheduler | all queueing, stealing, parking, stopping |
| `fiber_worker.cc`: a fiber's life | Fiber | start, sleep, wait, interrupt, stop, end, join |
| `mutex.cc`, `fiber_cond.cc` | FiberMutex, FiberMutexProofs | complete |
| `execution_queue*` | ExecutionQueue | complete, but for failed allocations |
| `timer_thread.*` | TimerThread, TimerThreadProofs | complete, but for gauges |
| `container/doubly_buffered_data.h` | DoublyBufferedData, DoublyBufferedDataProofs | complete |
| `rpc/socket_inl.h`, `rpc/socket.cc`, `rpc/details/health_check.cc`, references held by `rpc/socket_map.cc` | SocketRef, SocketRefProofs | references, failure, recycling, health check, revival |
| `rpc/socket.cc`: Write, connect, KeepWrite | SocketWrite | complete, but for Connect's inner errors |
| `rpc/input_messenger.cc`, `rpc/event_dispatcher.cc`, StartInputEvent and EOF of `rpc/socket*` | SocketInput, SocketInputProofs | complete, but for parsing |
| `rpc/acceptor.cc`, Start, Stop and Join of `rpc/server.cc` | Acceptor | one port, no methods |
| `rpc/controller.cc`, `rpc/channel.cc`, `rpc/retry_policy.cc` | Call, CallProofs | one RPC from CallMethod to its end |
| `rpc/parallel_channel.cc` | ParallelChannel | complete, but for mapping of requests |
| `rpc/stream.cc` | Stream | one direction of a stream, with its end |
| token lists, latch, fiber keys, SocketMap, SocketPool, pools | - | sequential under a mutex or owned by one thread |
| selective and partition channels, load balancers, naming services, circuit breaker | - | see Not modelled |
| protocols, builtin services, buffers, containers, strings, files, logging ... | - | sequential code, pure I/O or formatting: left out |

The `components` of `PROJECT.json` give the reasons part by part.

### Plan

The model covers what this code shares between threads in the parts named above. What
remains is to *prove more*: SocketWrite's single writer and the order on the wire,
`ResumedOnce` of WaitableEvent, `RunnableOnce` of Fiber, the window of Stream and the
rendezvous of ParallelChannel.

## How the modules are written

A module models one component: its fields are variables with the source's names,
each atomic access or critical section is one action, and a process is its
program counter `pc` plus the locals that outlive a step. Steps between two
shared accesses are merged into the access. An operation is split wherever the
code releases a lock or makes a second atomic access. Memory orders are taken to
give what their fences order, except in WorkStealingQueue, where relaxed and
acquire loads of `_top` may return old values, and in TimerThread, where the
unlocked look at a bucket's `_task_head` may miss tasks until the timer thread
has locked `_mutex` after a thread that put one there did. Bounds (`MaxOps`, `MaxLives`,
`MaxTasks` ...) are guards of the actions that begin something; they are named
as bounds where they are declared. Histories (what was posted, delivered,
exchanged, put on the wire) are marked as such and no guard reads them.

Modules lean on each other through what they promise: Scheduler takes a worker's
queue as the deque WorkStealingQueue implements; Call takes the token as Token
describes it, one holder and errors handled in order at an unlock; ParallelChannel
takes a sub call as something that ends once, as Call shows; Stream takes the
execution queue as a queue with one consumer; FiberMutex takes an event as a word
and a list of sleepers.

Definitions that precede another and differ from it in one point (for instance
`LockedForgetful` before `LockedVersion`) are mutants: plausible mistakes
against which the properties were tried. No specification uses them.

Some runs check several components that do not share state (MCHandles, MCSocket,
MCStructures, MCClient). Such an MC module extends components, among them those with proofs,
and instantiates others with variables of their own; a variable `part`, chosen at first, says which of
them takes steps; the others stay in one initial state. The state spaces
add up instead of multiplying, and a property of a part is checked in all its
behaviours. Where symmetry is used the parts share model values: a permutation is
applied to all of them, and the initial state of a part at rest is symmetric. Several related
invariants of a part are one property of the run there, as their definitions in the MC modules show.
Components that are extended together have no name in common, hence names such as `TokenNext`,
`QueueNext` or `ExecNext`.

### Token

One slot of the token pool through several lives. Variables: `first_ver`,
`locked_ver`, the lock `event` and `join_butex`, `pending_q`, and the queues of
the two events. Versions are `% VerMod` and the restart of the versions near the
end of `uint32_t` is modelled; ids of all lives stay in use (`tids`). Earlier lives of the slot,
whose ids nobody keeps, left `*event` at `FirstVersion`. `token::mutex`
sections are actions; what follows the unlock of the mutex is separate.

- **handles**: three threads, one operation each plus lives of the token,
  two lives. `FirstVersion` is the last version, so that the first create starts over at 1
  (`token.cc:329`). `IdsCurrent`: an id is good from its create until its token is destroyed and
  EINVAL ever after, whatever the versions. `MutualExclusion`: one holder, and its id is valid as long as it
  holds. `ErrorsInOrder`: errors posted to a locked token are delivered once and
  in order, none survive a life.
- **client** (weak fairness of every thread inside a call: holders unlock,
  the kernel runs threads): `CallsReturn`, no locker and no joiner sleeps for ever.
  `lock_and_reset_range`, `cancel` and an unlock after `about_to_destroy` are
  left out because of the deviations listed below, and interrupts because an
  endless supply of them starves a locker.

### WorkStealingQueue

Every memory access of push, pop and steal is a step. TaskDeque is what a worker
may rely on: an atomic deque with push, pop, steal. **structures** checks
`IsADeque`, that the first implements the second, with two thieves, two slots and
four tasks, so that indices run around the buffer; the proofs lift the bounds.

### WaitableEvent

A waiter is a structure on the waiter's stack. Wakers, the timer thread and
interrupters compete to erase it from its event's list; `requeue` moves it.

- **event**: a fiber and a pthread task, two events, wake, wake_all,
  wake_except, requeue, timers, two interrupts. `ResumedOnce`;
  `WaitersLive` (no one holds a waiter whose wait returned); `NothingLost`
  (neither a wakeup nor an interruption).
- **event_timer_lost** (violation): see Deviations. Weak fairness for everybody
  who is inside a call, as threads are scheduled.

### Scheduler

Queues are their lengths (fibers differ only in where they wait), the own queue
is the atomic deque that WorkStealingQueue implements. What a worker saved of its parking lot
is whether the lot has been signalled since and whether it was closed, which is what the futex compares
in one step; that 2^31 signals in between would go unnoticed is left out. `signal_task` may fail to
add a worker.

- **scheduler**: `NothingStranded`: all workers never sleep while a fiber that
  somebody should run is queued, and a worker does not look
  elsewhere or sleep before its own queue is empty. One worker, one that
  `signal_task` adds, one pthread, three fibers, two lots; queues of one slot, so that they are full and
  a worker that pushes spins (`fiber_worker_inl.h:73`) until the other makes room.
  `MaxTurns` bounds yields and starts with NOSIGNAL by the pthread, of which there is one.
- **progress**: one lot and no such turn, but a stop at any moment. `FibersRun`: every fiber that is
  signalled is run, and a start and a push to a full queue come to an end. `StopEnds`: after a stop every worker leaves.
  Both make an exception for workers that spin in `push_rq` (`Spins`), which the run reaches: if all workers there
  are spin (`AllSpin`) nobody empties a queue, and a worker that spins when the others leave never does
  (see Deviations). Fairness: the kernel runs every
  pthread, a fiber does not keep its worker for ever (WF of `Leave`). Starting,
  yielding and flushing are the user's choice and not fair.

### Fiber

One `fiber_entity` through its lives, told apart by the version in `version_butex`.
The fiber is ready, runs, sleeps, waits on an event or ends; a sleep is added by the
worker after it has switched away (`_add_sleep_event`), in three steps
(schedule, store the id, or take it back) that run beside the timer's callback and the fiber itself.
Interrupters take the waiter or the sleep's id under `version_lock` and act on it
after the unlock; a waiter they took is put back (`set_event_waiter`). Ids of
ended fibers stay in use.

- **handles**: three interrupters, a joiner, two lives, two sleeps, a wait and
  two interruptions. `RunnableOnce`: the fiber is in at most one run queue, and
  only under the id it has, no joiner sleeps past the end or returns before it, and the
  waiter is back before the fiber looks for it. `InterruptKept`: an interruption is
  reported by some blocking call, with the flag of `fiber_stop`, and does not leave the fiber asleep.
- **fiber_sleepy** (violation): see Deviations.

### FiberMutex

The mutex's word and event, the condition's sequence and event. A wait compares
the word in the step that queues the sleeper, which is what WaitableEvent's
`NothingLost` allows. `broadcast` wakes one and requeues the rest.

- **structures**: three fibers make four calls of lock, timedlock, wait, timedwait,
  signal and broadcast, with and without the mutex. `MutexSound`: one owner; the word
  is contended, or somebody is about to make it so or to wake a sleeper, while a fiber sleeps on
  the mutex; and a broadcast leaves nobody on the condition who waited before it.

### ExecutionQueue

Nodes are exchanged into `_head` and linked later; the consumer reverses what it
finds and waits at gaps. One slot through two lives; the counter of references
decides who pushes the stop task.

- **structures**: two threads, two fibers, three nodes, three calls.
  `ConsumerAlone` (with the CHECKs of the code); `TasksInOrder` (each task once,
  in exchange order among its priority, cancelled only when asked for; a normal
  task overtakes at most one urgent one); `QueueEmptied` (the stop task is the last,
  and when nobody is inside a call no task is left and a stopped
  queue is recycled; this stands for the liveness of the queue).

### TimerThread

- **timer**: two threads and callbacks schedule and unschedule two tasks in two
  buckets; structures start at the last versions before the wrap.
  `NoOversleep`, `RunsEarliest`, `TasksAccountedFor` (what unschedule answered stays
  true, structures are returned once, none leaks).
- **timer_stop** (violation): see Deviations. Weak fairness of the clock, the
  timer thread and threads inside calls.

### DoublyBufferedData

Two instances, the index of the foreground, and a mutex for each reading thread.
A reader locks its own mutex and only then loads the index; Modify changes the
background, flips, passes through every reader's mutex and changes the other.

- **structures**: two threads that come, read and go, two modifiers, three
  modifications. `DataSound`: no instance is changed while it is read,
  both agree when nobody modifies, and a thread never reads older data than before.

### SocketRef

`_versioned_ref` as version and count, `_recycle_flag`, the wait list. Users
address with ids of every life; a SocketMap, SocketPool or Acceptor owns the
socket; a health check waits for the users to go and revives it.

- **handles**: three users, two lives, three kinds of socket
  (the kinds differ in the operations their owner uses). `HoldersSafe` (who has a
  SocketUniquePtr has the socket it addressed, and the slot is recycled once); `RefsExact` (the
  count is that of the holders, the slot does not leak, every waiting token is told once);
  `ResetAlone` (a health check looks at the count in one step and closes and resets in a later one, and no user
  holds the socket then).
  These hold outside the windows described under Deviations and are
  stated with those exceptions.

### SocketWrite

`_write_head`, requests with their `next`, and for each process the requests it
took over. The bytes of a request are counted; the wire is the sequence of
requests its bytes belong to. A write takes any number of bytes or fails; the
connect succeeds, times out or fails; somebody else may fail the socket at any
time. Over SSL a write may fail after SSL took bytes, which it does not report; the history `swallowed`
counts them. `_unwritten_bytes` and `_overcrowded` have one writer, the process with
the right to write.

- **socket**: two writers, three requests of three kinds, batches of at
  most two, on a plain connection that exists and an SSL one that has yet to be made, and one fiber that
  keeps writing (there is never a second, which `OneWriter` is about). `OneWriter`, `WireInOrder`, `UnwrittenExact`
  (`_unwritten_bytes` is what is left of the requests, plus what SSL swallowed, and the socket is overcrowded
  accordingly), `ToldOnce` (every
  id told once, and nothing left when nobody is inside a call).

### SocketInput

The kernel's buffer with its edge-triggered event, `_nevent`, the reading fiber
with its `progress`, the messages it cut and kept or queued, `_ninprocess` and the
postponed EOF. The peer sends or hangs up and the Socket may be failed at any moment.

- **socket**: two reading fibers (the second can only start when the first is
  about to leave), four messages, client and server side. `InputRead`: one
  fiber reads at a time, and what has arrived is being read or announced, unless
  the Socket failed. `EofComesLast`: a client's Socket fails with EOF when the last message
  before it is processed, not earlier, and a Socket at its end stays open only for such a message.

### Acceptor

`_status`, the listening Socket, `_socket_map`, the accepting fiber, connections with
their additional reference, requests and progressive attachments, and the threads in Stop and
Join. The references of a connection are counted as SocketRef does.

- **socket**: two connections, one request each, two starts. `ServerStops`: after Stop
  every connection, those accepted meanwhile included, has lost its additional reference, so
  that Join waits for requests only; one with a FORCE_STOP attachment has failed, but for
  a late attachment (see Deviations); a joining thread does not sleep with nothing to wait
  for; and when Join has returned no connection, request or accepting fiber is left.

### Call

Whoever holds the token runs the Controller, and `pc` says what is next:
`IssueRPC`, `OnVersionedRPCReturned` with its ways out (ignore, backup request, retry,
end), `EndRPC`, done, destroy. Timers, cancellations, responses and failed
connections post to the token with the version of the RPC or of an attempt.

- **client**: three attempts; four kinds of call, over single, pooled and short connections,
  synchronous or not, with and without timeout and backup request, one of a client that is
  overcrowded. `OneCompletion` (each attempt's connection and selection are completed once,
  done runs once and inside CallMethod only where allowed, the CHECKs hold),
  `PooledIsIdle` (a connection in the pool awaits no response), `RightAnswer` (the RPC succeeds iff
  the answer that ended it was a success, with the body and attachment of that attempt, whatever
  stale answers came before), `RpcEnds` (an RPC with a timeout
  ends). Fairness: the holder of the token runs on, the timer thread runs due
  timers, posted errors are handled; servers may never answer.

### ParallelChannel

CallMethod's loop over the sub channels, each sub call's `OnSubDoneRun` in its atomic
steps, the parent token's `Run` on timeout or cancellation, and OnComplete.

- **client**: three sub calls with fail_limit 2, two with none, of two kinds of errors,
  synchronous and not. `RendezvousOnce` (one thread completes, after the last sub call and
  after `Run` left), `FailLimitDecides` (success iff fewer than fail_limit sub calls
  failed, whatever else was posted), `StopsAtLimit` (at the limit or with a timer the RPC
  ends). Fairness: CallMethod and whoever is in a handler runs on, a cancelled sub call
  ends, as `RpcEnds` shows; others may never end.

### Stream

`_produced`, `_remote_consumed`, the waiters under the congestion mutex, the fake
Socket with its writer's right, the receiving side's queue and its feedback.

- **client**: two writers, a window of two, messages of one and two bytes. `WindowExact`
  (the window counts what is under way and exceeds its size by less than a message;
  writers wait only while it is full), `WritersGoOn` (a waiting writer is told of room,
  unless the stream is closed). Fairness: writers inside calls, the receiver's consumer and the
  delivery of frames; closing is the user's choice.
- **stream_close** (violation): see Deviations. Same fairness.

## Bounds

A bound is enough when the case a property is about happens within it, which the
mutants show: for each property of each run, one plausible mistake in the code
makes TLC find a counterexample under the same configuration. Two lives of a
slot are what a stale id needs; three threads are a holder, a waiter and an
intruder; queues of capacity one or two are full and empty within a few steps;
versions start next to their wrap where a wrap matters (Token in **handles**, TimerThread, Fiber).
Symmetry is used in safety runs only, over processes, events or nodes that are interchangeable.
Deadlock checking is off everywhere: all runs are bounded and the system may be
at rest; that rest is not a deadlock is what the quiescence properties
(`QueueEmptied`, `NothingStranded`, `RefsExact`, `ToldOnce`, `InputRead`,
`MutexSound`, `ServerStops`) and liveness say.

## Proofs

A proof module extends its component. Each proves an inductive invariant (`IInv`),
which TLC checked on an instance before, and draws the properties from it. The
bounds on operations, lives, messages and retries are constants like the others, so
that what is proved holds without them.

| Theorem | States | For every |
|---|---|---|
| `TokenProofs!IdsStayCurrent`, `!Exclusive`, `!InOrder` | `[]IdsCurrent`, `[]MutualExclusion`, `[]ErrorsInOrder` | thread set, range, version width, first version, lives, under `VersionsSuffice` |
| `WorkStealingQueueProofs!Refinement` | `IsADeque` | capacity, thieves, tasks |
| `DoublyBufferedDataProofs!ReadersSafe` | `DataSound` | readers, modifiers, modifications |
| `FiberMutexProofs!MutexSafe` | `[]MutexSound` | fibers, calls |
| `SocketRefProofs!RefsSafe` | `[]HoldersSafe` | threads, checkers, lives, operations, kind of socket |
| `SocketRefProofs!RefsCounted` | `[]RefsExact` | the same |
| `SocketRefProofs!ResetsAlone` | `ResetAlone` | the same |
| `SocketInputProofs!InputIsRead`, `!EofIsLast` | `[]InputRead`, `[]EofComesLast` | fibers, messages |
| `CallProofs!CompletesOnce`, `!PoolIsIdle`, `!AnswerIsRight` | `[]OneCompletion`, `[]PooledIsIdle`, `[]RightAnswer` | retries, options |
| `TimerThreadProofs!NeverOversleeps`, `!RunsInOrder`, `!NothingLeaks` | `[]NoOversleep`, `RunsEarliest`, `[]TasksAccountedFor` | threads, buckets, structures, times, under `VersionsSuffice` |

**Token.** `TokenTypeOK` is inductive; the work is in version arithmetic (`WrapAdd`: a
version plus at most the range stays a version, given `VerMod > 2 * (MaxRange + 3)`)
and in the queues (`RemoveAtType`). Mutual exclusion needs more: that the id a thread
holds, waits with or is about to lock names the life the token is in or an earlier one.
`Core` says who may be busy with the slot while it is created, alive and destroyed
(`OneBusy`, `WhileCreating`, `WhileLive`, `WhileDead`), that every id ever handed out is below
the versions of lives to come (`IdsBelow`), and that a holder's id is a current one
(`HeldByCurrent`). `Queues` ties the wait queues to the program counters, `Errs` what was
delivered and what waits to what was posted. `Ids`, on top of these, says that the ids which are not retired
are those between `first_ver` and `locked_ver`, and gives `IdsStayCurrent`. `IdsBelow` is where the hypothesis comes
from: `VersionsSuffice == Start + MaxTokens * (MaxRange + 3) < VerMod`, where `Start` is 1 if the first create
starts over and `FirstVersion` if not. It is not a
convenience. When the versions of a slot start over, an id of an earlier life names a
version again, and a thread that kept it can lock a token that is not its own: with
`VerMod = 11` and four lives TLC finds it. In the code, 2^32 versions of one slot have to be used
up while somebody keeps an id. The hypothesis holds in the **client** run and in **handles**.

**WorkStealingQueue.** `IInv` has four parts. `Typed`. `OwnerOK`: what the owner
knows of `_top` and `_bottom` at each of its steps, in particular that at most `Capacity`
tasks are queued. `TasksOK`: the slots from `_top` to the owner's end hold distinct
tasks in pushing order that were not handed out. `ThievesOK`: a thief whose
`oldest` still equals `_top` has read the oldest task. The last is needed because a
steal is a read followed by a compare_exchange: it needs to be known that a slot
is not overwritten while `_top` has not moved, which is `DifferentSlots`, a
lemma on `%`. The refinement maps the queue to the sequence of slots from
`_top` to the owner's end; `steal` takes effect at its compare_exchange, `pop`
at its store of `_bottom` or its compare_exchange.

**DoublyBufferedData.** A reader inside the background instance can only be one that
loaded the index before the flip, so its wrapper is still to be walked: `Awaited`. `MutexesHeld` makes the
modifier the only one, and `Apart` says by how much the instances differ at each of its places.

**FiberMutex.** `Listed`: a fiber is in at most one of the two lists, once, and where its `pc` says.
`Owned`: the word is FREE iff nobody is between lock and unlock. `Awaited` is the second half of
`MutexSound` and preserved only because a fiber that contends writes CONTENDED, whatever it finds.
`Stamps`: the sequence a sleeper expects is not older than the last broadcast.

**SocketRef.** The invariant says which of its states the slot is in (`Phases`: pooled or on its
way there, being created, a socket; at most one process is recycling) and counts units: every
SocketUniquePtr, every wait-free Address that must take its unit back, the
additional reference, and a Revive about to add one. `Counted` says that `nref` is at least
that sum, and exactly it for a socket that is not health-checked. This is what makes a stale `Address` harmless:
who takes `nref` to 0 finds nobody left, and the compare_exchange that claims the slot fails if the
version moved. `RefsSafe` follows. Accounting for leaks needs a second sum (`Owed`): a SetFailed that is still to
release the additional reference has a unit of its own (`Backed`), whoever brought the count to 0 is about to
claim the slot (`Claimed`), and a token is in the list or notified (`Notices`). `ResetsAlone` needs what lasts between
the look at the count and the reset: `OneInCharge`, one process at a time checks or revives a failed socket, and
`StillAlone`, between the two no user gets a reference, because only the process in charge could make the socket
addressable again. Assumed is
`SocketRefAssumption`: finitely many processes, in disjoint roles.

**SocketInput.** `Events`: `_nevent` is at least what the only reader took for its progress, and is positive while one reads.
`Counted`: `_ninprocess` is the number of a client's messages not yet processed, plus one before the end of file.
`AfterEof`: after it nothing is read. `NoInputForgotten` is inductive with these.

**Call.** `IInv` says which answers can be on their way at each place of the Controller: `InSequence`
(attempts not yet made are as new, the unfinished one came before the current one), `OneBackup` (a backup request is asked for once), `Sources` (what comes
under the id of the RPC is a cancellation, a timeout or the backup timer, never a response), `Answers`
(what a response left in the Controller), `Runs` (who may run done).

**TimerThread.** `IInv` has two halves that hardly meet. `Structures` follows the Task structures: each is in
one place (`Places`); one in use belongs to a task, and its version tells whether that task waits, runs or was
unscheduled (`Owners`); every earlier task of it is over and has an older version (`Past`), where the
age of a version counts what was used up since the first (`Room` bounds it). This is what makes unschedule's
compare-and-swap hit its own task or none (`UnscheduleEffect`). `Clocks` follows the times. `Covered` is the
core of `NoOversleep`: for a bucket with tasks the thread that put its earliest task there has still to lock
`_mutex`, or `_nearest_run_time` is not later than it, or the timer thread is on its way to the bucket and
cannot miss it. The last holds because the fence of a bucket is unseen only while such a thread is
before its lock (`Untold`): a bucket that the unlocked look of consume_tasks may pass over is a
bucket whose task is still to be announced. `Sleeping` ties `_nsignals` and the expected value to
`_nearest_run_time` at the time of the wait. `RunsEarliest` follows from `Covered` and the comparison that
TimerLook makes. The hypothesis is `VersionsSuffice == 4 * MaxTasks + 4 <= VerMod`: a task uses up two versions, and two
more when version 0 is skipped. It is needed: once the versions of a structure have gone around, an
id that was kept names a later task, and unschedule removes that one; with 2^32 versions that takes more than
10^9 tasks in one structure. It holds in the **timer** run, whose versions start at the last two before
the wrap. For the proof this bounds all tasks, not those of one structure, which is more than is needed.

Assumptions on constants are the ASSUMEs of the modules, or named formulas that the
theorems take as a hypothesis and an ASSUME of a run's module evaluates (`SocketRefAssumption`).

Only model-checked: all liveness (fairness and ENABLED are beyond the
prover); the order of tasks and of requests on the wire in ExecutionQueue and SocketWrite, whose lists are
followed through `next` (what a recursive definition computes needs induction over data); the
window of Stream, a sum over a sequence, for the same reason; and the invariants of Fiber, WaitableEvent,
Scheduler, Acceptor and ParallelChannel, for which no proof has been written.

## Deviations

Where the code does something else than its comments or headers say. The first four
are runs that are expected to fail; the others are conditions in the
properties or operations left out of the runs, and each was seen as a
counterexample without them, unless marked (read).

1. **event_timer_lost**. `waitable_event.cc:620` "If the timer is triggered before
   queueing, cancel queueing": the callback returns without a trace when
   `container` is null, so the fiber is queued without a timeout.
2. **timer_stop**. `timer_thread.cc:438` "trigger pull_again and wakeup
   TimerThread": a stop between the check of `_stop` and the reset of
   `_nearest_run_time` (line 344) is overwritten, and pthread_join waits for ever.
3. **stream_close**. `stream.h:116` "Close |stream_id|, after this function is called:
   ... |StreamWait| wakes up immediately.": waiters are woken by `BeforeRecycle`
   (`stream.cc:101`), which waits for the reference that the synchronous StreamWait
   holds (line 674) while it joins its token.
4. **fiber_sleepy**. `fiber_worker.cc:827` "a fiber cannot wait on a butex and be
   sleepy at the same time.": the id of a sleep is stored (line 730) after its timer was
   scheduled, possibly when the fiber already waits on an event.
5. `token.h:62` "If the id is unlocked later rather than being destroyed, effect of
   this function is cancelled": after `about_to_destroy`, `unlock` finds
   `unlockable_ver` in the event instead of `contended_ver` (`token.cc:590`) and
   does not wake a second sleeping locker.
6. `token.cc:422`: after `lock_and_reset_range` the new `locked_ver` can equal the
   contended version a locker is about to sleep on; the unlock does not wake it.
7. `token.h:41` "Wait until `id' being destroyed.": `fiber_token_cancel`
   (`token.cc:497`) wakes no joiner.
8. `token.h:11` "without ABA issues": when versions restart at 1, `first_ver` is
   stored before `locked_ver` (`token.cc:335`), and in between an id of an ended
   life is accepted.
9. `waitable_event.cc:447` "`bw' is guaranteed to be valid inside this function":
   `event_wait_from_pthread` publishes its waiter before `container` is
   initialised (line 551), and an interrupt in between locks what the stack held.
10. `execution_queue_inl.h:513` counts on the slot being returned: `dereference`
    reads `_this_id` (line 487) after giving its reference back; if the slot has been
    started again, the FATAL "Invalid id" (line 529) is logged.
11. `socket_inl.h:85` "the slot will be returned when nref changes from 1->0 again":
    not if the last reference of a socket released without failing is that of an
    Address with a stale id (line 152), which takes the even version for a free slot.
12. `socket.cc:731`: Revive makes the socket addressable before it clears
    `_recycle_flag`; a SetFailed in between does not release the additional
    reference (`socket.cc:834`).
13. `socket_map.cc:300` "release extra ref": does nothing on a failed socket, and a
    Revive before the next line adds the reference again.
14. `health_check.cc:181` "no one is addressing the Socket(except here)": not when
    the SocketMap drops its reference while WaitAndReset counts it, nor when somebody uses
    AddressFailedAsWell between WaitAndReset's look at the count and the reset (`socket.cc:659`).
15. `socket_inl.h:153` `FLARE_CHECK_EQ(ver1, ver2)` fires when a Revive comes
    between the two reads.
16. `socket.h:271` "`on_reset' of `id_wait' is NOT called when Write() returns
    non-zero": FAIL_TO_WRITE (`socket.cc:1555`) tells the id and returns -1 (read).
17. `socket.cc:1476`: a writer that saw the socket healthy may get the right to
    write after a failed holder released its requests, and writes behind a
    half-written request if the file descriptor still works. `WireInOrder` is
    stated up to the failure (read).
18. `socket.cc:1408`: a pipelined_count of exactly MAX_PIPELINED_COUNT passes the
    check and does not fit its 15 bits (read).
19. `fiber_worker.cc:730` again: the late store may overwrite the id of the fiber's next
    sleep, and an interruption then does not cut that sleep short (the exception
    `overwritten` in `InterruptKept`).
20. `controller.h:438` "the underlying socket will be failed immediately when the
    socket becomes idle or server is stopped": not for an attachment that is created after
    StopAccept looked at the flag (`acceptor.cc:129`); Join waits until its writer is done
    (the history `late`).
21. `acceptor.cc:289` "Always add this socket into `_socket_map'": one that is recycled
    before AddressFailedAsWell is not added, and its BeforeRecycle may run after Join.
22. `acceptor.cc:78` "Close-idle-socket thread will be stopped inside destructor": the status is
    still not RUNNING then, and StopAccept returns early (read).
23. `channel.h` "Max duration of RPC over this Channel": CallMethod of an overcrowded client
    fails with ELIMIT before it sets a timer, and the retry of ELIMIT runs without one (the
    exception in `RpcEnds`).
24. `channel.h:57` "Send another request if RPC does not finish after so many
    milliseconds": with no retry left the backup timer ends the RPC with
    EBACKUPREQUEST (seen in Call).
25. `controller.cc:628`: the CHECK that only the current attempt is retried does not hold for a
    custom retry policy that retries ERPCTIMEDOUT or ECANCELED (read).
26. `stream.cc:584`: a Close that meets Connect before SetConnected leaves `on_connect` without a
    call (seen in Stream). `stream.cc:362`: a wait whose timer cannot be added is triggered and goes
    on to add itself to the list; `stream.cc:271`: the rollback of a write that the open Socket
    refuses (EOVERCROWDED) makes room and wakes nobody (both read).
27. `fiber_worker_inl.h:73`: push_rq sleeps and tries again without looking for a stop. A worker that
    pushes to its full queue when the other workers leave is never joined (`schedule_group.cc:227`), and when all workers
    push to full queues nothing runs any more (the exceptions in `FibersRun` and `StopEnds`).
28. `cord_buf.cc:1006`: when SSL_write fails for good after earlier pieces were written, or BIO_flush after all of them
    (line 1024), the bytes written are not reported and `_unwritten_bytes` is not lowered by them. WaitAndReset and Revive leave it
    as it is (only Create resets it, `socket.cc:618`), so a revived SSL socket is overcrowded too early (the history
    `swallowed`; its revival is read).

## Not modelled

- Load balancers and naming services: selection is arithmetic over a list that is
  read through DoublyBufferedData; Call takes its result as a choice.
  SelectiveChannel is a load balancer of channels under Call's retries,
  PartitionChannel fills a ParallelChannel.
- Circuit breaker and concurrency limiters: floating-point averages.
- SocketMap, SocketPool, object pools, token lists, fiber keys: tables and lists
  under one mutex or owned by one thread; what they hold of a Socket is in SocketRef.
- Protocols, HTTP, serialisers, buffers, containers, metrics, builtin services,
  strings, files, logging: sequential code without shared control, or pure
  I/O. They are most of the repository's lines, and no state machine says more about them than a test.
- Inside the modelled operations: failing allocations and failing fiber
  starts (the code logs them and runs the function in place); statistics and
  gauges; the contents of buffers; a timer that cannot be added by
  `Socket::Connect` or `Stream::Wait`; the client's FightAuthentication; Stop racing Start and two
  concurrent Joins of one Server; ListConnections letting go of its mutex every
  256 entries; weak memory beyond the loads named above; the assembly of
  context switches. A call of user code is one step that may do
  nothing or call back where the component allows it.
