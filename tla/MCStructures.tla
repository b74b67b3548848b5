---------------------------- MODULE MCStructures ----------------------------
(***************************************************************************)
(* Structures that fibers share, on small instances: ExecutionQueue over   *)
(* two lives, FiberMutex, DoublyBufferedData, and WorkStealingQueue at the *)
(* grain of memory accesses.  One of them, "part", takes steps in a        *)
(* behaviour: the others stay as they are at first, and the state spaces   *)
(* add up.                                                                 *)
(***************************************************************************)
EXTENDS ExecutionQueue, FiberMutex, DoublyBufferedData, WorkStealingQueue, TLC

Normal == [high |-> FALSE, inplace |-> FALSE]
Urgent == [high |-> TRUE, inplace |-> FALSE]
InPlace == [high |-> FALSE, inplace |-> TRUE]

AllKinds == {Normal, Urgent, InPlace}

VARIABLE part

ASSUME ExecutionQueueAssumption

all == <<part, evars, muvars, dvars, qvars>>

IsExecution == part = "execution"

StructuresInit ==
    /\ part \in {"execution", "mutex", "data", "queue"}
    /\ ExecInit /\ MutexInit /\ DataInit /\ QueueInit

StructuresNext ==
    \/ IsExecution /\ ExecNext /\ UNCHANGED <<part, muvars, dvars, qvars>>
    \/ part = "mutex" /\ MutexNext /\ UNCHANGED <<part, evars, dvars, qvars>>
    \/ part = "data" /\ DataNext /\ UNCHANGED <<part, evars, muvars, qvars>>
    \/ part = "queue" /\ QueueNext /\ UNCHANGED <<part, evars, muvars, dvars>>

StructuresSpec == StructuresInit /\ [][StructuresNext]_all

\* Readers and Thieves have the values of Submitters, Modifiers those of Runners
\* and Fibers those of Nodes.
Symmetry == Permutations(Submitters) \cup Permutations(Runners) \cup Permutations(Nodes)

-----------------------------------------------------------------------------
\* ExecutionQueue: one consumer at a time, and no FLARE_CHECK fails.
ConsumerAlone == IsExecution => ExecTypeOK /\ SingleConsumer /\ ChecksHold

\* ExecutionQueue: tasks of one priority start in the order of their pushes,
\* a task of high priority is overtaken by one other at most, and a task is
\* cancelled only through its own handle.
TasksInOrder == IsExecution => InOrder /\ HighFirst

\* ExecutionQueue: the stop task is the last, and nothing is left behind when
\* nobody is inside.
QueueEmptied == IsExecution => StopIsLast /\ NothingLeft
=============================================================================
