------------------------- MODULE WorkStealingQueue -------------------------
(***************************************************************************)
(* flare/fiber/internal/work_stealing_queue.h: the run queue of a worker.  *)
(* The owner pushes and pops at the bottom, thieves steal at the top, and  *)
(* no one takes a lock.                                                    *)
(*                                                                         *)
(* One step is one access to shared memory.  The seq_cst fences of pop()   *)
(* and steal() order the accesses around them; the owner's loads of _top   *)
(* outside them (acquire in push, relaxed in pop's fast check) may return  *)
(* any older value of _top, which only grows.  The indices are 64 bits     *)
(* wide, too wide to wrap around; MaxPush bounds them here.                *)
(***************************************************************************)
EXTENDS Integers, FiniteSets

CONSTANTS
    Capacity,   \* _capacity, a power of 2
    Thieves,    \* the workers that call steal()
    MaxPush     \* bound: how many tasks are pushed

ASSUME QueueAssumption == Capacity \in Nat \ {0} /\ MaxPush \in Nat

VARIABLES
    bottom, top, buffer,   \* _bottom, _top, _buffer
    opc, newb,             \* the owner: where it is, and pop's newb
    tpc, oldest, val,      \* each thief: where it is, its t and its *val
    npush, taken, popped   \* history: tasks pushed, handed out, last pop's

owner == <<opc, newb>>
thieves == <<tpc, oldest, val>>
qvars == <<bottom, top, buffer, owner, thieves, npush, taken, popped>>

QueueInit ==
    /\ bottom = 1 /\ top = 1
    /\ buffer = [i \in 0..(Capacity - 1) |-> 0]
    /\ opc = "idle" /\ newb = 0
    /\ tpc = [p \in Thieves |-> "idle"]
    /\ oldest = [p \in Thieves |-> 0]
    /\ val = [p \in Thieves |-> 0]
    /\ npush = 0 /\ taken = {} /\ popped = 0

Slot(i) == i % Capacity     \* i & (_capacity - 1)

Full == bottom >= top + Capacity

\* push() up to the write of the slot; an older _top could only make it
\* return false, which changes nothing
Push ==
    /\ opc = "idle" /\ npush < MaxPush /\ ~Full
    /\ npush' = npush + 1
    /\ buffer' = [buffer EXCEPT ![Slot(bottom)] = npush']
    /\ opc' = "push_store"
    /\ UNCHANGED <<bottom, top, newb, thieves, taken, popped>>

PushStore ==
    /\ opc = "push_store"
    /\ bottom' = bottom + 1
    /\ opc' = "idle"
    /\ UNCHANGED <<top, buffer, newb, thieves, npush, taken, popped>>

\* pop(): the fast check, made with a possibly old _top, fails
PopNothing ==
    /\ opc = "idle" /\ top >= bottom
    /\ popped' = 0
    /\ UNCHANGED <<bottom, top, buffer, owner, thieves, npush, taken>>

\* pop(): the fast check passes and _bottom is stored
Pop ==
    /\ opc = "idle" /\ \E top0 \in 1..top : top0 < bottom
    /\ newb' = bottom - 1
    /\ bottom' = newb'
    /\ opc' = "pop_top"
    /\ UNCHANGED <<top, buffer, thieves, npush, taken, popped>>

\* the last task is returned without competing with steal()
PopTopNoCompete ==
    /\ opc = "pop_top"
    /\ IF top > newb
       THEN opc' = "pop_restore" /\ popped' = 0 /\ UNCHANGED taken
       ELSE /\ opc' = "idle"
            /\ popped' = buffer[Slot(newb)]
            /\ taken' = taken \cup {popped'}
    /\ UNCHANGED <<bottom, top, buffer, newb, thieves, npush>>

\* pop(): the load of _top after the fence
PopTop ==
    /\ opc = "pop_top"
    /\ \/ top > newb /\ opc' = "pop_restore" /\ popped' = 0 /\ UNCHANGED taken
       \/ /\ top < newb /\ opc' = "idle"
          /\ popped' = buffer[Slot(newb)]
          /\ taken' = taken \cup {popped'}
       \/ top = newb /\ opc' = "pop_cas" /\ UNCHANGED <<popped, taken>>
    /\ UNCHANGED <<bottom, top, buffer, newb, thieves, npush>>

\* pop() competes with steal() for the last task: top was newb
PopCas ==
    /\ opc = "pop_cas"
    /\ opc' = "pop_restore"
    /\ IF top = newb
       THEN /\ top' = top + 1
            /\ popped' = buffer[Slot(newb)]
            /\ taken' = taken \cup {popped'}
       ELSE popped' = 0 /\ UNCHANGED <<top, taken>>
    /\ UNCHANGED <<bottom, buffer, newb, thieves, npush>>

\* _bottom.store(b)
PopRestore ==
    /\ opc = "pop_restore"
    /\ bottom' = newb + 1
    /\ opc' = "idle"
    /\ UNCHANGED <<top, buffer, newb, thieves, npush, taken, popped>>

At(p, label) == tpc' = [tpc EXCEPT ![p] = label]

\* steal(): the first load of _top
Steal(p) ==
    /\ tpc[p] = "idle"
    /\ oldest' = [oldest EXCEPT ![p] = top]
    /\ At(p, "check")
    /\ UNCHANGED <<bottom, top, buffer, owner, val, npush, taken, popped>>

\* steal(): the load of _bottom before the loop, and the one in it
StealCheck(p) ==
    /\ tpc[p] \in {"check", "loop"}
    /\ At(p, IF oldest[p] >= bottom THEN "idle"
             ELSE IF tpc[p] = "check" THEN "loop" ELSE "read")
    /\ UNCHANGED <<bottom, top, buffer, owner, oldest, val, npush, taken, popped>>

StealRead(p) ==
    /\ tpc[p] = "read"
    /\ val' = [val EXCEPT ![p] = buffer[Slot(oldest[p])]]
    /\ At(p, "cas")
    /\ UNCHANGED <<bottom, top, buffer, owner, oldest, npush, taken, popped>>

\* steal(): compare_exchange_strong, which loads _top into t when it fails
StealCas(p) ==
    /\ tpc[p] = "cas"
    /\ IF top = oldest[p]
       THEN /\ top' = top + 1
            /\ taken' = taken \cup {val[p]}
            /\ At(p, "idle")
            /\ UNCHANGED oldest
       ELSE /\ oldest' = [oldest EXCEPT ![p] = top]
            /\ At(p, "loop")
            /\ UNCHANGED <<top, taken>>
    /\ UNCHANGED <<bottom, buffer, owner, val, npush, popped>>

OwnerStep == Push \/ PushStore \/ PopNothing \/ Pop \/ PopTop \/ PopCas \/ PopRestore

ThiefStep(p) == Steal(p) \/ StealCheck(p) \/ StealRead(p) \/ StealCas(p)

QueueNext == OwnerStep \/ \E p \in Thieves : ThiefStep(p)

QueueSpec == QueueInit /\ [][QueueNext]_qvars

----------------------------------------------------------------------------
QueueTypeOK ==
    /\ bottom \in 0..(MaxPush + 1) /\ top \in 1..(MaxPush + 1)
    /\ buffer \in [0..(Capacity - 1) -> 0..MaxPush]
    /\ opc \in {"idle", "push_store", "pop_top", "pop_cas", "pop_restore"}
    /\ newb \in 0..MaxPush
    /\ tpc \in [Thieves -> {"idle", "check", "loop", "read", "cas"}]
    /\ oldest \in [Thieves -> 0..(MaxPush + 1)]
    /\ val \in [Thieves -> 0..MaxPush]
    /\ npush \in 0..MaxPush /\ taken \subseteq 0..MaxPush /\ popped \in 0..MaxPush

\* The tasks in the queue: a task pop() reserved by storing _bottom is in it
\* until pop() knows that no thief took it.
End == IF opc \in {"pop_top", "pop_cas", "pop_restore"} THEN newb + 1 ELSE bottom

Deque == [i \in 1..(End - top) |-> buffer[Slot(top + i - 1)]]

Count == IF opc = "push_store" THEN npush - 1 ELSE npush

Abstract == INSTANCE TaskDeque WITH deque <- Deque, npush <- Count

\* The lock-free push, pop and steal implement the atomic deque: a task is
\* handed out once, the owner gets the newest and a thief the oldest, nothing
\* is lost, and pop() fails only when the deque is empty.
IsADeque == Abstract!Spec
============================================================================
