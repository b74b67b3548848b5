----------------------------- MODULE TaskDeque -----------------------------
(***************************************************************************)
(* What flare/fiber/internal/work_stealing_queue.h promises its worker and *)
(* the workers that steal from it: a deque of tasks whose operations are   *)
(* atomic.  The tasks are the numbers 1, 2, ... in the order of pushing.   *)
(***************************************************************************)
EXTENDS Integers, Sequences

CONSTANTS Capacity, MaxPush

VARIABLES
    deque,     \* the queued tasks, oldest first
    npush,     \* the number of tasks pushed
    taken,     \* the tasks handed out
    popped     \* what the last pop() returned; 0 for false

vars == <<deque, npush, taken, popped>>

Init == deque = <<>> /\ npush = 0 /\ taken = {} /\ popped = 0

Push ==
    /\ npush < MaxPush /\ Len(deque) < Capacity
    /\ npush' = npush + 1
    /\ deque' = Append(deque, npush')
    /\ UNCHANGED <<taken, popped>>

Pop ==
    /\ deque # <<>>
    /\ deque' = SubSeq(deque, 1, Len(deque) - 1)
    /\ popped' = deque[Len(deque)]
    /\ taken' = taken \cup {popped'}
    /\ popped' \notin taken
    /\ UNCHANGED npush

\* pop() returns false only when there is nothing to pop
PopNothing ==
    /\ deque = <<>>
    /\ popped' = 0
    /\ UNCHANGED <<deque, npush, taken>>

Steal ==
    /\ deque # <<>>
    /\ deque' = Tail(deque)
    /\ taken' = taken \cup {Head(deque)}
    /\ Head(deque) \notin taken
    /\ UNCHANGED <<npush, popped>>

Next == Push \/ Pop \/ PopNothing \/ Steal

Spec == Init /\ [][Next]_vars
============================================================================
