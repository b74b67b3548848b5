----------------------------- MODULE FiberMutex -----------------------------
(***************************************************************************)
(* fiber_mutex_t and fiber_cond_t (src/flare/fiber/internal/mutex.cc and   *)
(* fiber_cond.cc): a lock in one word of an event and a condition variable *)
(* whose broadcast moves its waiters to the lock's event.                  *)
(*                                                                         *)
(* An event is its list of sleeping fibers; going to sleep compares the    *)
(* word under the list's lock and waking takes the head, as WaitableEvent  *)
(* shows, so each is one step here.                                        *)
(***************************************************************************)
EXTENDS Naturals, Sequences, FiniteSets, SequencesExt

CONSTANTS
    Fibers,
    MaxCalls        \* bound: calls of lock, signal and broadcast

FREE == 0
LOCKED == 1         \* FIBER_MUTEX_LOCKED
CONTENDED == 257    \* FIBER_MUTEX_CONTENDED

VARIABLES
    whole,          \* the mutex's word
    mutex_waiters,  \* sleepers on its event
    seq,            \* the condition's word
    cond_waiters,   \* sleepers on its event
    bound,          \* the condition's m is set
    fpc,            \* fiber -> where it is
    timed,          \* fiber -> it is inside timedlock
    expected_seq,   \* fiber -> the seq fiber_cond_wait read
    told,           \* history: the seq of the latest broadcast that is over
    calls           \* bound: calls so far

muvars == <<whole, mutex_waiters, seq, cond_waiters, bound, fpc, timed, expected_seq, told, calls>>

Places == {"idle",                          \* outside
           "contend", "wait", "asleep",     \* mutex_lock_contended
           "inside",                        \* owns the mutex
           "wake", "cond_wake",             \* unlock, waking one
           "cond_wait", "cond_asleep",      \* fiber_cond_wait
           "signal", "broadcast",           \* of the condition, from outside
           "signal_inside", "broadcast_inside"}

MutexTypeOK ==
    /\ whole \in {FREE, LOCKED, CONTENDED} /\ seq \in Nat /\ bound \in BOOLEAN
    /\ mutex_waiters \in Seq(Fibers) /\ cond_waiters \in Seq(Fibers)
    /\ fpc \in [Fibers -> Places] /\ timed \in [Fibers -> BOOLEAN]
    /\ expected_seq \in [Fibers -> Nat] /\ told \in Nat /\ calls \in Nat

MutexInit ==
    /\ whole = FREE /\ mutex_waiters = <<>> /\ seq = 0 /\ cond_waiters = <<>> /\ bound = FALSE
    /\ fpc = [f \in Fibers |-> "idle"] /\ timed = [f \in Fibers |-> FALSE]
    /\ expected_seq = [f \in Fibers |-> 0] /\ told = 0 /\ calls = 0

FiberAt(f, l) == fpc' = [fpc EXCEPT ![f] = l]
Call == calls < MaxCalls /\ calls' = calls + 1

-----------------------------------------------------------------------------
(* fiber_mutex_lock, timedlock and trylock *)

\* The exchange of the low byte: the lock, or the contended path.
LockMutex(f) ==
    /\ fpc[f] = "idle" /\ Call
    /\ \/ whole = FREE /\ whole' = LOCKED /\ FiberAt(f, "inside") /\ timed' = timed
       \/ /\ whole # FREE /\ whole' = whole /\ FiberAt(f, "contend")
          /\ \E t \in BOOLEAN : timed' = [timed EXCEPT ![f] = t]
    /\ UNCHANGED <<mutex_waiters, seq, cond_waiters, bound, expected_seq, told>>

\* Mutant: the fast path's value.
TakesLocked == LOCKED

\* What lock_contended puts in the word.
Exchanged == CONTENDED

LockContended(f) ==
    /\ fpc[f] = "contend"
    /\ whole' = Exchanged
    /\ FiberAt(f, IF whole = FREE THEN "inside" ELSE "wait")
    /\ UNCHANGED <<mutex_waiters, seq, cond_waiters, bound, timed, expected_seq, told, calls>>

\* waitable_event_wait on the word, expecting CONTENDED.
Sleep(f) ==
    /\ fpc[f] = "wait"
    /\ IF whole = CONTENDED
       THEN mutex_waiters' = Append(mutex_waiters, f) /\ FiberAt(f, "asleep")
       ELSE mutex_waiters' = mutex_waiters /\ FiberAt(f, "contend")
    /\ UNCHANGED <<whole, seq, cond_waiters, bound, timed, expected_seq, told, calls>>

\* erase_from_event: fiber f is taken off the list it sleeps in.
Without(list, f) == {RemoveAt(list, i) : i \in {j \in 1 .. Len(list) : list[j] = f}}

\* The time of fiber_mutex_timedlock is over: ETIMEDOUT.
LockTimedOut(f) ==
    /\ fpc[f] = "asleep" /\ timed[f]
    /\ mutex_waiters' \in Without(mutex_waiters, f)
    /\ FiberAt(f, "idle")
    /\ UNCHANGED <<whole, seq, cond_waiters, bound, timed, expected_seq, told, calls>>

-----------------------------------------------------------------------------
(* fiber_mutex_unlock *)

\* The word is free; if it was CONTENDED, one sleeper is to be woken.
Release(f, alone, others) ==
    /\ fpc[f] = "inside"
    /\ whole' = FREE
    /\ FiberAt(f, IF whole = LOCKED THEN alone ELSE others)
    /\ timed' = [timed EXCEPT ![f] = FALSE]

UnlockMutex(f) ==
    /\ Release(f, "idle", "wake")
    /\ UNCHANGED <<mutex_waiters, seq, cond_waiters, bound, expected_seq, told, calls>>

\* Where a fiber goes on that leaves the list it sleeps in.
Resumed == "contend"

WakeOne(f) ==
    /\ fpc[f] \in {"wake", "cond_wake"}
    /\ LET next == IF fpc[f] = "wake" THEN "idle" ELSE "cond_wait" IN
       IF mutex_waiters = <<>> THEN FiberAt(f, next) /\ mutex_waiters' = mutex_waiters
       ELSE /\ fpc' = [fpc EXCEPT ![f] = next, ![Head(mutex_waiters)] = Resumed]
            /\ mutex_waiters' = Tail(mutex_waiters)
    /\ UNCHANGED <<whole, seq, cond_waiters, bound, timed, expected_seq, told, calls>>

-----------------------------------------------------------------------------
(* fiber_cond_t *)

\* fiber_cond_wait as far as its unlock.
CondWait(f) ==
    /\ expected_seq' = [expected_seq EXCEPT ![f] = seq]
    /\ bound' = TRUE
    /\ Release(f, "cond_wait", "cond_wake")
    /\ UNCHANGED <<mutex_waiters, seq, cond_waiters, told, calls>>

CondSleep(f) ==
    /\ fpc[f] = "cond_wait"
    /\ IF seq = expected_seq[f]
       THEN cond_waiters' = Append(cond_waiters, f) /\ FiberAt(f, "cond_asleep")
       ELSE cond_waiters' = cond_waiters /\ FiberAt(f, "contend")
    /\ UNCHANGED <<whole, mutex_waiters, seq, bound, timed, expected_seq, told, calls>>

\* fiber_interrupt, or the time of fiber_cond_timedwait is over, in whichever
\* list the fiber sleeps: it tries to lock again.
WaitInterrupted(f) ==
    /\ fpc[f] \in {"asleep", "cond_asleep"}
    /\ \/ cond_waiters' \in Without(cond_waiters, f) /\ mutex_waiters' = mutex_waiters
       \/ mutex_waiters' \in Without(mutex_waiters, f) /\ cond_waiters' = cond_waiters
    /\ FiberAt(f, "contend")
    /\ UNCHANGED <<whole, seq, bound, timed, expected_seq, told, calls>>

\* The sleepers waitable_event_requeue moves to the mutex's event.
Moved == IF cond_waiters = <<>> THEN <<>> ELSE Tail(cond_waiters)

\* Signal and broadcast are called with or without the mutex.
From(f, outside, within) ==
    \/ fpc[f] = "idle" /\ FiberAt(f, outside)
    \/ fpc[f] = "inside" /\ FiberAt(f, within)

Back(f) == IF fpc[f] \in {"signal_inside", "broadcast_inside"} THEN "inside" ELSE "idle"

Signal(f) ==
    /\ Call /\ From(f, "signal", "signal_inside")
    /\ seq' = seq + 1
    /\ UNCHANGED <<whole, mutex_waiters, cond_waiters, bound, timed, expected_seq, told>>

SignalWakes(f) ==
    /\ fpc[f] \in {"signal", "signal_inside"}
    /\ IF cond_waiters = <<>> THEN FiberAt(f, Back(f)) /\ cond_waiters' = cond_waiters
       ELSE /\ fpc' = [fpc EXCEPT ![f] = Back(f), ![Head(cond_waiters)] = Resumed]
            /\ cond_waiters' = Tail(cond_waiters)
    /\ UNCHANGED <<whole, mutex_waiters, seq, bound, timed, expected_seq, told, calls>>

\* Nobody ever waited if the condition has no mutex yet.
Broadcast(f) ==
    /\ bound /\ Call /\ From(f, "broadcast", "broadcast_inside")
    /\ seq' = seq + 1 /\ expected_seq' = [expected_seq EXCEPT ![f] = seq + 1]
    /\ UNCHANGED <<whole, mutex_waiters, cond_waiters, bound, timed, told>>

\* waitable_event_requeue wakes the first sleeper and moves the others.
Requeue(f) ==
    /\ fpc[f] \in {"broadcast", "broadcast_inside"}
    /\ mutex_waiters' = mutex_waiters \o Moved /\ cond_waiters' = <<>>
    /\ fpc' = [g \in Fibers |-> IF g = f THEN Back(f)
                              ELSE IF g \in ToSet(cond_waiters) \ ToSet(Moved) THEN Resumed ELSE fpc[g]]
    /\ told' = IF expected_seq[f] > told THEN expected_seq[f] ELSE told
    /\ UNCHANGED <<whole, seq, bound, timed, expected_seq, calls>>

-----------------------------------------------------------------------------
MutexNext ==
    \E f \in Fibers :
        \/ LockMutex(f) \/ LockContended(f) \/ Sleep(f) \/ LockTimedOut(f)
        \/ UnlockMutex(f) \/ WakeOne(f)
        \/ CondWait(f) \/ CondSleep(f) \/ WaitInterrupted(f)
        \/ Signal(f) \/ SignalWakes(f) \/ Broadcast(f) \/ Requeue(f)

MutexSpec == MutexInit /\ [][MutexNext]_muvars

-----------------------------------------------------------------------------
(* Properties *)

Owners == {f \in Fibers : fpc[f] \in {"inside", "signal_inside", "broadcast_inside"}}

\* The mutex has at most one owner, and its word says so, whichever of the
\* fast and the contended path was taken.
OneOwner == Cardinality(Owners) <= 1 /\ (whole = FREE <=> Owners = {})

\* A fiber asleep on the mutex, whether it came there by lock or was moved
\* by a broadcast, will be woken: the owner's unlock will see CONTENDED, or
\* a fiber is about to wake one, or an awake fiber is about to make the word
\* CONTENDED (mutex_lock_contended, fiber_mutex_unlock, waitable_event_requeue).
\* And a broadcast that is over left nobody on the condition's event who
\* called fiber_cond_wait before it.
NoFiberStranded ==
    /\ mutex_waiters # <<>> =>
          \/ whole = CONTENDED
          \/ \E f \in Fibers : fpc[f] \in {"wake", "cond_wake", "contend"}
    /\ \A f \in ToSet(cond_waiters) : expected_seq[f] >= told

\* One owner at a time, and no fiber asleep on the mutex or on the condition
\* is forgotten (fiber_mutex_t, fiber_cond_t).
MutexSound == MutexTypeOK /\ OneOwner /\ NoFiberStranded
=============================================================================
