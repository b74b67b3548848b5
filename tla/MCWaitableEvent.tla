-------------------------- MODULE MCWaitableEvent --------------------------
(***************************************************************************)
(* WaitableEvent on a small instance: a fiber and a pthread task wait      *)
(* twice on two events, with and without a timeout, and a waker and an     *)
(* interrupter make two calls each.                                        *)
(***************************************************************************)
EXTENDS WaitableEvent, TLC

ASSUME WaitableEventAssumption

Symmetry == Permutations(Events)

\* Nobody keeps a waiter's structure beyond the wait.
WaitersLive == TypeOK /\ NoDanglingWaiter

\* Neither a change of the value nor an interruption is missed by a waiter.
NothingLost == NoLostWakeup /\ NoLostInterrupt
============================================================================
