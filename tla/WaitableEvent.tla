--------------------------- MODULE WaitableEvent ---------------------------
(***************************************************************************)
(* flare/fiber/internal/waitable_event.cc: the futex of fibers, on which   *)
(* every blocking call rests, with the part of fiber_worker::interrupt     *)
(* that wakes a waiter.                                                    *)
(*                                                                         *)
(* A waiter is a structure on the stack of the waiting fiber or pthread    *)
(* task: it must be in no list and in nobody's hands when the wait         *)
(* returns.  Wakers, the timer thread and interrupters compete to take it  *)
(* off the list.  A critical section under waiter_lock or version_lock is  *)
(* one step.                                                               *)
(***************************************************************************)
EXTENDS Integers, Sequences, FiniteSets, SequencesExt

CONSTANTS
    Fibers, Pthreads,     \* the waiting fibers and pthread tasks
    Wakers, Interrupters,
    Events, NoEvent,      \* NoEvent is a null waitable_event*
    Wild,                 \* a waitable_event* that points to no event
    Ops,                  \* the operations in use, of AllOps
    MaxWaits,             \* bound: waits
    MaxWakes,             \* bound: operations of each waker
    MaxInterrupts         \* bound: calls of each interrupter

Waiters == Fibers \cup Pthreads

AllOps == {"timed", "wake", "wake_all", "wake_except", "requeue"}

WaitableEventAssumption ==
    /\ {NoEvent, Wild} \cap Events = {} /\ NoEvent # Wild /\ Ops \subseteq AllOps
    /\ MaxWaits \in Nat /\ MaxWakes \in Nat /\ MaxInterrupts \in Nat

VARIABLES
    value, waiters,                \* of each event
    container, waiter_state,       \* of each waiter structure
    initial_event, expected_value,
    timer,                         \* the timer task of a timed wait
    current_waiter, interrupted,   \* of each fiber_entity
    ready,                         \* ready_to_run calls, or PTHREAD_SIGNALLED
    pc,                            \* where each waiter is
    kpc, hands,                    \* wakers: waiters taken and not yet readied
    epc, target, loaded,           \* erase_from_event: by whom, of whom, its b
    seen,                          \* history: in this wait, a waker "took" it, or met
                                   \* it in a list and "left" it or moved it
    result,                        \* what the last wait returned
    nwait, nwake, nint             \* bounds

event == <<value, waiters>>
waiter == <<container, waiter_state, initial_event, expected_value, timer>>
meta == <<current_waiter, interrupted>>
erase == <<epc, target, loaded>>
bounds == <<nwait, nwake, nint>>
vars == <<event, waiter, meta, ready, pc, kpc, hands, erase, seen, result, bounds>>

Init ==
    /\ value = [e \in Events |-> 0]
    /\ waiters = [e \in Events |-> <<>>]
    /\ container = [w \in Waiters |-> NoEvent]
    /\ waiter_state = [w \in Waiters |-> "ready"]
    /\ initial_event = [w \in Waiters |-> NoEvent]
    /\ expected_value = [w \in Waiters |-> 0]
    /\ timer = [w \in Waiters |-> "none"]
    /\ current_waiter = [w \in Waiters |-> FALSE]
    /\ interrupted = [w \in Waiters |-> FALSE]
    /\ ready = [w \in Waiters |-> 0]
    /\ pc = [w \in Waiters |-> "run"]
    /\ kpc = [k \in Wakers |-> "idle"]
    /\ hands = [k \in Wakers |-> <<>>]
    /\ epc = [p \in Waiters \cup Interrupters |-> "none"]
    /\ target = [p \in Waiters \cup Interrupters |-> p]
    /\ loaded = [p \in Waiters \cup Interrupters |-> NoEvent]
    /\ seen = [w \in Waiters |-> "no"]
    /\ result = [w \in Waiters |-> "none"]
    /\ nwait = 0
    /\ nwake = [k \in Wakers |-> 0]
    /\ nint = [i \in Interrupters |-> 0]

At(w, label) == pc' = [pc EXCEPT ![w] = label]

----------------------------------------------------------------------------
(* waitable_event_wait *)

\* The value matches, the waiter is set up and a fiber's timer scheduled.
\* A pthread task does not initialise `container', which holds what was on the
\* stack: a null pointer or a pointer to anything.
Wait(w, e, timed) ==
    /\ pc[w] = "run" /\ nwait < MaxWaits
    /\ nwait' = nwait + 1
    /\ initial_event' = [initial_event EXCEPT ![w] = e]
    /\ expected_value' = [expected_value EXCEPT ![w] = value[e]]
    /\ waiter_state' = [waiter_state EXCEPT ![w] = "ready"]
    /\ timer' = [timer EXCEPT ![w] = IF timed THEN "scheduled" ELSE "none"]
    /\ \E b \in IF w \in Fibers THEN {NoEvent} ELSE {NoEvent, Wild} :
          container' = [container EXCEPT ![w] = b]
    /\ ready' = [ready EXCEPT ![w] = 0]
    /\ seen' = [seen EXCEPT ![w] = "no"]
    /\ At(w, "publish")
    /\ UNCHANGED <<event, meta, kpc, hands, erase, result, nwake, nint>>

\* current_waiter.store(&bbw)
Publish(w) ==
    /\ pc[w] = "publish"
    /\ current_waiter' = [current_waiter EXCEPT ![w] = TRUE]
    /\ At(w, "enqueue")
    /\ UNCHANGED <<event, waiter, interrupted, ready, kpc, hands, erase, seen,
                   result, bounds>>

Append_(w, e) ==
    /\ waiters' = [waiters EXCEPT ![e] = Append(@, w)]
    /\ container' = [container EXCEPT ![w] = e]
    /\ At(w, "blocked")

\* queues without comparing the value under the lock
EnqueueUnmatched(w) ==
    /\ pc[w] = "enqueue" /\ w \in Fibers
    /\ IF waiter_state[w] = "ready" /\ ~interrupted[w]
       THEN Append_(w, initial_event[w])
       ELSE At(w, "unsleep") /\ UNCHANGED <<waiters, container>>
    /\ UNCHANGED <<value, waiter_state, initial_event, expected_value, timer, meta,
                   ready, kpc, hands, erase, seen, result, bounds>>

\* wait_for_event(), run by the worker after it switched away from the fiber
Enqueue(w) ==
    /\ pc[w] = "enqueue" /\ w \in Fibers
    /\ IF value[initial_event[w]] # expected_value[w]
       THEN /\ waiter_state' = [waiter_state EXCEPT ![w] = "unmatched"]
            /\ At(w, "unsleep")
            /\ UNCHANGED <<waiters, container>>
       ELSE /\ IF waiter_state[w] = "ready" /\ ~interrupted[w]
               THEN Append_(w, initial_event[w])
               ELSE At(w, "unsleep") /\ UNCHANGED <<waiters, container>>
            /\ UNCHANGED waiter_state
    /\ UNCHANGED <<value, initial_event, expected_value, timer, meta, ready, kpc,
                   hands, erase, seen, result, bounds>>

\* event_wait_from_pthread: the same for a pthread task
EnqueuePthread(w) ==
    /\ pc[w] = "enqueue" /\ w \in Pthreads
    /\ \/ /\ value[initial_event[w]] # expected_value[w]
          /\ waiter_state' = [waiter_state EXCEPT ![w] = "unmatched"]
          /\ At(w, "take_waiter")
          /\ UNCHANGED <<waiters, container, interrupted>>
       \/ /\ value[initial_event[w]] = expected_value[w] /\ interrupted[w]
          /\ interrupted' = [interrupted EXCEPT ![w] = FALSE]
          /\ waiter_state' = [waiter_state EXCEPT ![w] = "interrupted"]
          /\ At(w, "take_waiter")
          /\ UNCHANGED <<waiters, container>>
       \/ /\ value[initial_event[w]] = expected_value[w] /\ ~interrupted[w]
          /\ Append_(w, initial_event[w])
          /\ UNCHANGED <<waiter_state, interrupted>>
    /\ UNCHANGED <<value, initial_event, expected_value, timer, current_waiter, ready,
                   kpc, hands, erase, seen, result, bounds>>

\* unsleep_if_necessary: a timer task that is running cannot be removed
Unsleep(w) == timer' = [timer EXCEPT ![w] = IF @ = "running" THEN @ ELSE "none"]

\* wait_for_event() did not queue the fiber and makes it runnable again
ReadyAgain(w) ==
    /\ pc[w] = "unsleep"
    /\ Unsleep(w)
    /\ ready' = [ready EXCEPT ![w] = @ + 1]
    /\ At(w, "blocked")
    /\ UNCHANGED <<event, container, waiter_state, initial_event, expected_value, meta,
                   kpc, hands, erase, seen, result, bounds>>

\* the fiber runs again, or the pthread sees `sig'
Resume(w) ==
    /\ pc[w] = "blocked" /\ ready[w] > 0
    /\ IF w \in Fibers THEN ready' = [ready EXCEPT ![w] = @ - 1] ELSE UNCHANGED ready
    /\ At(w, IF w \in Fibers THEN "wait_timer" ELSE "take_waiter")
    /\ UNCHANGED <<event, waiter, meta, kpc, hands, erase, seen, result, bounds>>

\* returns while the timer's callback may still use the waiter
WaitTimerNot(w) ==
    /\ pc[w] = "wait_timer"
    /\ At(w, "take_waiter")
    /\ Unsleep(w)
    /\ UNCHANGED <<event, container, waiter_state, initial_event, expected_value, meta,
                   ready, kpc, hands, erase, seen, result, bounds>>

\* spin until the timer's callback is done with the waiter
WaitTimer(w) ==
    /\ pc[w] = "wait_timer" /\ timer[w] # "running"
    /\ At(w, "take_waiter")
    /\ Unsleep(w)
    /\ UNCHANGED <<event, container, waiter_state, initial_event, expected_value, meta,
                   ready, kpc, hands, erase, seen, result, bounds>>

\* The waiter structure is gone from the stack.
Unwound(w) ==
    /\ container' = [container EXCEPT ![w] = NoEvent]
    /\ waiter_state' = [waiter_state EXCEPT ![w] = "ready"]
    /\ initial_event' = [initial_event EXCEPT ![w] = NoEvent]
    /\ expected_value' = [expected_value EXCEPT ![w] = 0]
    /\ timer' = [timer EXCEPT ![w] = "none"]

\* spin until no interrupter uses the waiter, then return
TakeWaiter(w) ==
    /\ pc[w] = "take_waiter" /\ current_waiter[w]
    /\ current_waiter' = [current_waiter EXCEPT ![w] = FALSE]
    /\ interrupted' = [interrupted EXCEPT ![w] = FALSE]
    /\ result' = [result EXCEPT ![w] =
          IF waiter_state[w] \in {"timedout", "unmatched"} THEN waiter_state[w]
          ELSE IF interrupted[w] \/ (w \in Pthreads /\ waiter_state[w] = "interrupted")
               THEN "interrupted" ELSE "ok"]
    /\ At(w, "run")
    /\ Unwound(w)
    /\ UNCHANGED <<event, ready, kpc, hands, erase, seen, bounds>>

----------------------------------------------------------------------------
(* erase_from_event, called by the timer thread for a fiber, by a pthread  *)
(* whose futex timed out and by an interrupter                             *)

\* the timer thread starts erase_from_event_and_wakeup
TimerFires(w) ==
    /\ w \in Fibers /\ timer[w] = "scheduled"
    /\ timer' = [timer EXCEPT ![w] = "running"]
    /\ epc' = [epc EXCEPT ![w] = "load"]
    /\ UNCHANGED <<event, container, waiter_state, initial_event, expected_value, meta,
                   ready, pc, kpc, hands, target, loaded, seen, result, bounds>>

\* futex_wait returns ETIMEDOUT and `sig' is not set
PthreadTimesOut(w) ==
    /\ w \in Pthreads /\ timer[w] = "scheduled" /\ pc[w] = "blocked" /\ ready[w] = 0
    /\ timer' = [timer EXCEPT ![w] = "none"]
    /\ epc' = [epc EXCEPT ![w] = "load"]
    /\ At(w, "timing_out")
    /\ UNCHANGED <<event, container, waiter_state, initial_event, expected_value, meta,
                   ready, kpc, hands, target, loaded, seen, result, bounds>>

\* How a call of erase_from_event ends.  An interrupter has to set
\* current_waiter back; a pthread that erased itself, or that was signalled
\* meanwhile, returns, else it waits on for the signal.
Erased(p, erased) ==
    LET w == target[p]
    IN  /\ loaded' = [loaded EXCEPT ![p] = NoEvent]
        /\ epc' = [epc EXCEPT ![p] = IF p \in Interrupters THEN "set_back" ELSE "none"]
        /\ timer' = [timer EXCEPT ![w] = IF p \in Fibers THEN "done" ELSE @]
        /\ pc' = IF p \notin Pthreads THEN pc
                 ELSE [pc EXCEPT ![w] = IF erased \/ ready[w] > 0
                                        THEN "take_waiter" ELSE "blocked"]
        /\ waiter_state' =
              [waiter_state EXCEPT ![w] =
                 IF p \in Pthreads THEN (IF erased \/ ready[w] > 0 THEN "timedout" ELSE @)
                 ELSE IF ~erased \/ w \in Pthreads THEN @
                 ELSE IF p \in Interrupters THEN "interrupted" ELSE "timedout"]
        /\ ready' = [ready EXCEPT ![w] = IF erased /\ p \notin Pthreads THEN @ + 1 ELSE @]

EraseLoad(p) ==
    LET w == target[p]
    IN  /\ epc[p] = "load"
        /\ IF container[w] = NoEvent
           THEN Erased(p, FALSE)
           ELSE /\ loaded' = [loaded EXCEPT ![p] = container[w]]
                /\ epc' = [epc EXCEPT ![p] = "lock"]
                /\ UNCHANGED <<timer, pc, waiter_state, ready>>
        /\ UNCHANGED <<event, container, initial_event, expected_value, meta, kpc, hands,
                       target, seen, result, bounds>>

Remove_(w) ==
    /\ waiters' = [e \in Events |-> SelectSeq(waiters[e], LAMBDA x : x # w)]
    /\ container' = [container EXCEPT ![w] = NoEvent]

\* removes without looking at `container' again under the lock
EraseLockUnchecked(p) ==
    LET w == target[p]
    IN  /\ epc[p] = "lock"
        /\ Remove_(w) /\ Erased(p, TRUE)
        /\ UNCHANGED <<value, initial_event, expected_value, meta, kpc, hands, target,
                       seen, result, bounds>>

\* Under the waiter_lock of the loaded container.  A wild pointer holds no lock:
\* the process dies.
EraseLock(p) ==
    LET w == target[p]
    IN  /\ epc[p] = "lock" /\ loaded[p] # Wild
        /\ IF container[w] = loaded[p]
           THEN Remove_(w) /\ Erased(p, TRUE)
           ELSE /\ epc' = [epc EXCEPT ![p] = "load"]
                /\ UNCHANGED <<waiters, container, timer, pc, waiter_state, ready, loaded>>
        /\ UNCHANGED <<value, initial_event, expected_value, meta, kpc, hands, target,
                       seen, result, bounds>>

\* interrupt(): consumes current_waiter; only who gets it erases the waiter
Interrupt(i, w) ==
    /\ epc[i] = "none" /\ nint[i] < MaxInterrupts
    /\ nint' = [nint EXCEPT ![i] = @ + 1]
    /\ interrupted' = [interrupted EXCEPT ![w] = TRUE]
    /\ current_waiter' = [current_waiter EXCEPT ![w] = FALSE]
    /\ target' = [target EXCEPT ![i] = IF current_waiter[w] THEN w ELSE i]
    /\ epc' = [epc EXCEPT ![i] = IF current_waiter[w] THEN "load" ELSE "none"]
    /\ UNCHANGED <<event, waiter, ready, pc, kpc, hands, loaded, seen, result, nwait,
                   nwake>>

\* set_event_waiter
SetBack(i) ==
    /\ epc[i] = "set_back"
    /\ current_waiter' = [current_waiter EXCEPT ![target[i]] = TRUE]
    /\ epc' = [epc EXCEPT ![i] = "none"]
    /\ target' = [target EXCEPT ![i] = i]
    /\ UNCHANGED <<event, waiter, interrupted, ready, pc, kpc, hands, loaded, seen,
                   result, bounds>>

----------------------------------------------------------------------------
(* Wakers change the value and wake *)

SetValue(k, e) ==
    /\ kpc[k] = "idle" /\ nwake[k] < MaxWakes
    /\ nwake' = [nwake EXCEPT ![k] = @ + 1]
    /\ value' = [value EXCEPT ![e] = 1 - @]
    /\ kpc' = [kpc EXCEPT ![k] = e]
    /\ UNCHANGED <<waiters, waiter, meta, ready, pc, hands, erase, seen, result, nwait,
                   nint>>

\* the critical section of a wake: `taken' leave the list of e, `moved' go to m
Take(k, taken, kept, e, m, moved) ==
    /\ waiters' = [x \in Events |-> IF x = e THEN kept
                                    ELSE IF x = m THEN waiters[m] \o moved
                                    ELSE waiters[x]]
    /\ container' = [w \in Waiters |-> IF w \in Range(taken) THEN NoEvent
                                       ELSE IF w \in Range(moved) THEN m
                                       ELSE container[w]]
    /\ seen' = [w \in Waiters |-> IF w \in Range(taken) THEN "took"
                                  ELSE IF w \in Range(kept) \cup Range(moved) THEN "left"
                                  ELSE seen[w]]
    /\ hands' = [hands EXCEPT ![k] = taken]
    /\ kpc' = [kpc EXCEPT ![k] = "idle"]
    /\ UNCHANGED <<value, waiter_state, initial_event, expected_value, timer, meta, ready,
                   pc, erase, result, bounds>>

FirstOf(s) == IF s = <<>> THEN <<>> ELSE <<Head(s)>>
RestOf(s) == IF s = <<>> THEN <<>> ELSE Tail(s)
PthreadsOf(s) == SelectSeq(s, LAMBDA w : w \in Pthreads)
FibersOf(s) == SelectSeq(s, LAMBDA w : w \in Fibers)

Waking(k, e, op) == kpc[k] = e /\ op \in Ops /\ hands[k] = <<>>

Wake(k, e) ==
    /\ Waking(k, e, "wake")
    /\ LET s == waiters[e]
       IN  Take(k, FirstOf(s), RestOf(s), e, NoEvent, <<>>)

\* pthreads first, then the fibers from the last to the second, the first last
WakeAll(k, e) ==
    /\ Waking(k, e, "wake_all")
    /\ LET f == FibersOf(waiters[e])
       IN  Take(k, PthreadsOf(waiters[e]) \o Reverse(RestOf(f)) \o FirstOf(f),
                <<>>, e, NoEvent, <<>>)

WakeExcept(k, e, excluded) ==
    /\ Waking(k, e, "wake_except")
    /\ LET f == FibersOf(waiters[e])
           out == SelectSeq(f, LAMBDA w : w # excluded)
           in == SelectSeq(f, LAMBDA w : w = excluded)
       IN  Take(k, PthreadsOf(waiters[e]) \o Reverse(out), in, e, NoEvent, <<>>)

Requeue(k, e, m) ==
    /\ Waking(k, e, "requeue") /\ e # m
    /\ LET s == waiters[e]
       IN  Take(k, FirstOf(s), <<>>, e, m, RestOf(s))

\* outside the lock: unsleep_if_necessary and ready_to_run, or wakeup_pthread
Ready(k) ==
    /\ hands[k] # <<>>
    /\ LET w == Head(hands[k])
       IN  /\ ready' = [ready EXCEPT ![w] = @ + 1]
           /\ IF w \in Fibers THEN Unsleep(w) ELSE UNCHANGED timer
    /\ hands' = [hands EXCEPT ![k] = Tail(@)]
    /\ UNCHANGED <<event, container, waiter_state, initial_event, expected_value, meta, pc,
                   kpc, erase, seen, result, bounds>>

----------------------------------------------------------------------------
WaitStep(w) ==
    \/ Publish(w) \/ Enqueue(w) \/ EnqueuePthread(w) \/ ReadyAgain(w) \/ Resume(w)
    \/ WaitTimer(w) \/ TakeWaiter(w)

TimerStep(w) == TimerFires(w) \/ PthreadTimesOut(w) \/ EraseLoad(w) \/ EraseLock(w)

InterruptStep(i) == EraseLoad(i) \/ EraseLock(i) \/ SetBack(i)

WakeStep(k) ==
    \/ Ready(k)
    \/ \E e \in Events :
          \/ Wake(k, e) \/ WakeAll(k, e)
          \/ \E w \in Fibers : WakeExcept(k, e, w)
          \/ \E m \in Events : Requeue(k, e, m)

Next ==
    \/ \E w \in Waiters :
          \/ \E e \in Events, timed \in {"timed" \in Ops, FALSE} : Wait(w, e, timed)
          \/ WaitStep(w) \/ TimerStep(w)
          \/ \E i \in Interrupters : Interrupt(i, w)
    \/ \E i \in Interrupters : InterruptStep(i)
    \/ \E k \in Wakers : WakeStep(k) \/ \E e \in Events : SetValue(k, e)

Spec == Init /\ [][Next]_vars

\* Runnable fibers, the timer thread, interrupters and wakers get to run.
Fairness ==
    /\ \A w \in Waiters : WF_vars(WaitStep(w)) /\ WF_vars(TimerStep(w))
    /\ \A i \in Interrupters : WF_vars(InterruptStep(i))
    /\ \A k \in Wakers : WF_vars(WakeStep(k))

FairSpec == Spec /\ Fairness

----------------------------------------------------------------------------
TypeOK ==
    /\ value \in [Events -> {0, 1}]
    /\ waiters \in [Events -> Seq(Waiters)]
    /\ container \in [Waiters -> Events \cup {NoEvent, Wild}]
    /\ waiter_state \in [Waiters -> {"ready", "timedout", "unmatched", "interrupted"}]
    /\ initial_event \in [Waiters -> Events \cup {NoEvent}]
    /\ expected_value \in [Waiters -> {0, 1}]
    /\ timer \in [Waiters -> {"none", "scheduled", "running", "done"}]
    /\ current_waiter \in [Waiters -> BOOLEAN] /\ interrupted \in [Waiters -> BOOLEAN]
    /\ ready \in [Waiters -> 0..1]
    /\ pc \in [Waiters -> {"run", "publish", "enqueue", "unsleep", "blocked", "wait_timer",
                           "take_waiter", "timing_out"}]
    /\ kpc \in [Wakers -> Events \cup {"idle"}]
    /\ hands \in [Wakers -> Seq(Waiters)]
    /\ epc \in [Waiters \cup Interrupters -> {"none", "load", "lock", "set_back"}]
    /\ target \in [Waiters \cup Interrupters -> Waiters \cup Interrupters]
    /\ loaded \in [Waiters \cup Interrupters -> Events \cup {NoEvent, Wild}]
    /\ seen \in [Waiters -> {"no", "took", "left"}]
    /\ result \in [Waiters -> {"none", "ok", "timedout", "unmatched", "interrupted"}]

Queued(w) == \E e \in Events : w \in Range(waiters[e])
InHands(w) == \E k \in Wakers : w \in Range(hands[k])
BeingErased(w) == \E p \in Waiters \cup Interrupters : epc[p] # "none" /\ target[p] = w

\* When waitable_event_wait() has returned, its on-stack waiter is in no list and
\* in the hands of no waker, timer callback or interrupter.
NoDanglingWaiter ==
    \A w \in Waiters : pc[w] = "run" => ~Queued(w) /\ ~InHands(w) /\ ~BeingErased(w)

\* A suspended fiber is made runnable once: whoever takes it off the list is
\* alone, and nobody schedules a fiber that is queued or running.
ResumedOnce ==
    \A w \in Waiters :
        /\ ready[w] + Cardinality({k \in Wakers : w \in Range(hands[k])}) <= 1
        /\ ready[w] = 1 => ~Queued(w)
        /\ w \in Fibers /\ ready[w] = 1 => pc[w] = "blocked"

\* No lost wakeup: a waiter that sleeps on a value that changed is about to be
\* woken by who changed it, unless a waker has met it in the list and left it
\* there, as wake, wake_except and requeue may.  A wait returns 0 only if a
\* waker chose it, and a fiber that a waker chose never reports a timeout: no
\* wakeup is spent on a waiter that has given up.
NoLostWakeup ==
    /\ \A e \in Events : \A w \in Range(waiters[e]) :
          seen[w] = "no" /\ expected_value[w] # value[e] => \E k \in Wakers : kpc[k] = e
    /\ \A w \in Fibers : pc[w] = "run" =>
          /\ result[w] = "ok" => seen[w] = "took"
          /\ result[w] \in {"timedout", "unmatched"} => seen[w] # "took"

\* No lost interruption: an interrupted fiber is not left queued.
NoLostInterrupt ==
    \A w \in Waiters :
        interrupted[w] /\ Queued(w) => \E i \in Interrupters : epc[i] # "none" /\ target[i] = w

\* A wait with a timeout returns.
TimedWaitReturns ==
    \A w \in Waiters : (pc[w] # "run" /\ timer[w] = "scheduled") ~> pc[w] = "run"
============================================================================
