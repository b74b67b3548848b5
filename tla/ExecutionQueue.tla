--------------------------- MODULE ExecutionQueue ---------------------------
(***************************************************************************)
(* execution_queue.{h,cc} and execution_queue_inl.h of                     *)
(* src/flare/fiber/internal: a wait-free multi-producer queue whose        *)
(* consumer is started by the producer that finds the queue empty and ends *)
(* when no task is left.                                                   *)
(*                                                                         *)
(* A producer exchanges _head with its node and then links the node to the *)
(* one it replaced, so the list hangs from _head with the youngest node    *)
(* first and a gap at every node that is not linked yet; the consumer      *)
(* reverses what it finds (_more_tasks).  One slot of the resource pool is *)
(* modelled through several lives: an id is the version of its life, the   *)
(* slot's counter holds the version and the number of references.          *)
(*                                                                         *)
(* Processes: Threads call execute, stop and cancel, and run tasks in      *)
(* place; Fibers run _execute_tasks.  tasks is a history variable: the     *)
(* tasks in the order of their exchanges of _head.                         *)
(***************************************************************************)
EXTENDS Integers, Sequences, FiniteSets

CONSTANTS
    Submitters, Runners,
    Nodes,          \* TaskNode objects
    NULL, UNCONNECTED,
    Kinds,          \* of tasks a thread may submit: see TaskKinds
    EarlyReturn,    \* the user's function may return before the iterator ends
    MaxQueueLives,  \* bound: execution_queue_start calls
    MaxSubmits      \* bound: calls of the threads

TaskKinds == [high : BOOLEAN, inplace : BOOLEAN]
ExecProcs == Submitters \cup Runners
Ptr == Nodes \cup {NULL}

ExecutionQueueAssumption ==
    /\ Submitters \cap Runners = {}
    /\ Kinds \subseteq TaskKinds
    /\ NULL \notin Nodes /\ UNCONNECTED \notin Nodes /\ NULL # UNCONNECTED
    /\ EarlyReturn \in BOOLEAN
    /\ MaxQueueLives \in Nat /\ MaxSubmits \in Nat

VARIABLES
    head,       \* _head
    node,       \* the nodes
    ever, ref,  \* _versioned_ref
    stopped,    \* _stopped
    hp,         \* _high_priority_tasks
    thisId,     \* version of _this_id
    join,       \* *_join_butex
    slot,       \* "free" or "used" in the resource pool
    epc,        \* process -> where it is
    earg,       \* thread -> what its call works on
    x,          \* process -> variables of the consumer
    eops,       \* calls made
    tasks,      \* history: the tasks pushed
    failed      \* a FLARE_CHECK failed

queue == <<head, hp>>
life == <<ever, ref, stopped, thisId, join, slot>>
evars == <<head, node, ever, ref, stopped, hp, thisId, join, slot, epc, earg, x, eops, tasks, failed>>

Status == {"UNEXECUTED", "EXECUTING", "EXECUTED"}
Node == [next : Ptr \cup {UNCONNECTED}, status : Status, iterated : BOOLEAN, high : BOOLEAN,
         stop : BOOLEAN, inplace : BOOLEAN, used : BOOLEAN, task : Nat]
Task == [node : Nodes, high : BOOLEAN, stop : BOOLEAN, id : Nat, over : Nat, asked : BOOLEAN,
         state : {"pending", "running", "done", "cancelled"}]
Consumer == [head : Ptr, tail : Ptr, cur : Ptr, high : BOOLEAN, n : Nat, broke : BOOLEAN,
             destroy : BOOLEAN, inplace : BOOLEAN, new : Ptr, p : Ptr, rev : Ptr]
Arg == [id : Nat, ver : Nat, node : Ptr]

FreeNode == [next |-> UNCONNECTED, status |-> "UNEXECUTED", iterated |-> FALSE, high |-> FALSE,
             stop |-> FALSE, inplace |-> FALSE, used |-> FALSE, task |-> 0]
NoConsumer == [head |-> NULL, tail |-> NULL, cur |-> NULL, high |-> FALSE, n |-> 0, broke |-> FALSE,
               destroy |-> FALSE, inplace |-> FALSE, new |-> NULL, p |-> NULL, rev |-> NULL]
NoArg == [id |-> 0, ver |-> 0, node |-> NULL]

ExecTypeOK ==
    /\ head \in Ptr
    /\ node \in [Nodes -> Node]
    /\ ever \in Nat /\ ref \in Nat /\ thisId \in Nat /\ join \in Nat
    /\ stopped \in BOOLEAN /\ failed \in BOOLEAN
    /\ hp \in Nat
    /\ slot \in {"free", "used"}
    /\ earg \in [Submitters -> Arg]
    /\ x \in [ExecProcs -> Consumer]
    /\ eops \in 0 .. MaxSubmits
    /\ tasks \in Seq(Task)

ExecInit ==
    /\ head = NULL /\ node = [n \in Nodes |-> FreeNode]
    /\ ever = 0 /\ ref = 0 /\ stopped = FALSE /\ hp = 0 /\ thisId = 0 /\ join = 0
    /\ slot = "free"
    /\ epc = [p \in ExecProcs |-> "idle"]
    /\ earg = [t \in Submitters |-> NoArg]
    /\ x = [p \in ExecProcs |-> NoConsumer]
    /\ eops = 0
    /\ tasks = <<>>
    /\ failed = FALSE

GoTo(p, label) == epc' = [epc EXCEPT ![p] = label]
Check(cond) == failed' = (failed \/ ~cond)

(***************************************************************************)
(* The life of the queue: create, address, stop, dereference.              *)
(***************************************************************************)
CreateQueue ==
    /\ slot = "free" /\ ever < 2 * MaxQueueLives
    /\ Check(head = NULL /\ hp = 0)
    /\ slot' = "used" /\ stopped' = FALSE
    /\ thisId' = ever /\ ref' = ref + 1
    /\ UNCHANGED <<queue, node, ever, join, epc, earg, x, eops, tasks>>

\* The ids handed out so far.
Ids == {2 * k : k \in 0 .. thisId \div 2} \cap (IF slot = "free" /\ ever = 0 THEN {} ELSE Nat)

\* address(id) of execution_queue_execute and execution_queue_stop.
AddressQueue(t, label) ==
    /\ epc[t] = "idle" /\ eops < MaxSubmits
    /\ \E id \in Ids :
         /\ earg' = [earg EXCEPT ![t] = [id |-> id, ver |-> ever, node |-> NULL]]
         /\ GoTo(t, IF ever = id THEN label ELSE "undo")
    /\ ref' = ref + 1
    /\ eops' = eops + 1
    /\ UNCHANGED <<queue, node, ever, stopped, thisId, join, slot, x, tasks, failed>>

\* Mutant: whoever drops the last reference leaves the closing to others.
ClosesNever == FALSE

\* The last reference to a stopped life is dropped.
Closes == ref = 1 /\ ever % 2 = 1

\* address() with another version: give the reference back.
UndoAddress(t) ==
    /\ epc[t] = "undo"
    /\ ref' = ref - 1
    /\ GoTo(t, IF Closes THEN "undo_cas" ELSE "idle")
    /\ earg' = [earg EXCEPT ![t] = IF Closes THEN [@ EXCEPT !.ver = ever] ELSE NoArg]
    /\ Check(/\ ref >= 1
             /\ ref = 1 => earg[t].ver = ever \/ (ever % 2 = 1 /\ earg[t].ver + 1 = ever))
    /\ UNCHANGED <<queue, node, ever, stopped, thisId, join, slot, x, eops, tasks>>

UndoAddressCas(t) ==
    /\ epc[t] = "undo_cas"
    /\ IF ever = earg[t].ver /\ ref = 0
       THEN ever' = ever + 1 /\ GoTo(t, "recycle") /\ UNCHANGED earg
       ELSE GoTo(t, "idle") /\ earg' = [earg EXCEPT ![t] = NoArg] /\ UNCHANGED ever
    /\ UNCHANGED <<queue, node, ref, stopped, thisId, join, slot, x, eops, tasks, failed>>

\* stop(): the version is raised, then _stopped set, then the reference that
\* create() took given back.
Stop(t) ==
    /\ epc[t] = "stop"
    /\ IF ever # thisId THEN GoTo(t, "deref") /\ UNCHANGED ever
       ELSE ever' = ever + 1 /\ GoTo(t, "set_stopped")
    /\ UNCHANGED <<queue, node, ref, stopped, thisId, join, slot, earg, x, eops, tasks, failed>>

SetStopped(t) ==
    /\ epc[t] = "set_stopped"
    /\ stopped' = TRUE
    /\ GoTo(t, "release")
    /\ UNCHANGED <<queue, node, ever, ref, thisId, join, slot, earg, x, eops, tasks, failed>>

\* dereference(): _release_additional_reference of stop(), then the scoped
\* pointer of the caller.  The last reference closes the life; _this_id is
\* read after the reference is gone.
DereferenceQueue(t) ==
    /\ epc[t] \in {"release", "deref"}
    /\ ref' = ref - 1
    /\ Check(ref >= 1)
    /\ GoTo(t, IF ref = 1 THEN "read_id" ELSE IF epc[t] = "release" THEN "deref" ELSE "idle")
    /\ earg' = [earg EXCEPT ![t] = IF ref = 1 THEN [@ EXCEPT !.ver = ever] ELSE NoArg]
    /\ UNCHANGED <<queue, node, ever, stopped, thisId, join, slot, x, eops, tasks>>

ReadId(t) ==
    /\ epc[t] = "read_id"
    /\ LET known == earg[t].ver \in {thisId, thisId + 1}
       IN  /\ GoTo(t, IF known THEN "cas" ELSE "idle")
           /\ earg' = [earg EXCEPT ![t] = IF known THEN [@ EXCEPT !.id = thisId] ELSE NoArg]
    /\ UNCHANGED <<queue, node, life, x, eops, tasks, failed>>

DereferenceCas(t) ==
    /\ epc[t] = "cas"
    /\ IF ever = earg[t].ver /\ ref = 0
       THEN ever' = earg[t].id + 2 /\ GoTo(t, "recycle") /\ UNCHANGED earg
       ELSE GoTo(t, "idle") /\ earg' = [earg EXCEPT ![t] = NoArg] /\ UNCHANGED ever
    /\ UNCHANGED <<queue, node, ref, stopped, thisId, join, slot, x, eops, tasks, failed>>

(***************************************************************************)
(* Producers: execute, and _on_recycle, which pushes the stop task.        *)
(***************************************************************************)
FreeNodes == {n \in Nodes : ~node[n].used}

\* execute() up to start_execute: a high priority task is counted first.
Allocate(t) ==
    /\ epc[t] = "execute"
    /\ \/ stopped /\ GoTo(t, "deref") /\ UNCHANGED <<node, earg, hp>>
       \/ /\ ~stopped
          /\ \E n \in FreeNodes, k \in Kinds :
               /\ node' = [node EXCEPT ![n] = [FreeNode EXCEPT !.used = TRUE, !.high = k.high,
                                                               !.inplace = k.inplace]]
               /\ earg' = [earg EXCEPT ![t].node = n]
               /\ hp' = hp + (IF k.high THEN 1 ELSE 0)
          /\ GoTo(t, "push")
    /\ UNCHANGED <<head, life, x, eops, tasks, failed>>

Recycle(t) ==
    /\ epc[t] = "recycle"
    /\ \E n \in FreeNodes :
         /\ node' = [node EXCEPT ![n] = [FreeNode EXCEPT !.used = TRUE, !.stop = TRUE]]
         /\ earg' = [earg EXCEPT ![t].node = n]
    /\ GoTo(t, "push")
    /\ UNCHANGED <<queue, life, x, eops, tasks, failed>>

\* Where the producer goes after the push: the stop task is pushed by someone
\* who has no reference left.
AfterPush(n) == IF node[n].stop THEN "idle" ELSE "deref"

\* The exchange of _head in start_execute; the task's place in the order of
\* execution is decided here.
PushTask(t) ==
    /\ epc[t] = "push"
    /\ LET n == earg[t].node
       IN  /\ head' = n
           /\ tasks' = Append(tasks, [node |-> n, high |-> node[n].high, stop |-> node[n].stop,
                                      id |-> thisId, over |-> 0, asked |-> FALSE, state |-> "pending"])
           /\ IF head # NULL
              THEN /\ x' = [x EXCEPT ![t].p = head]
                   /\ GoTo(t, "link")
                   /\ node' = [node EXCEPT ![n].task = Len(tasks) + 1]
              ELSE /\ UNCHANGED x
                   /\ GoTo(t, IF node[n].inplace THEN "begin" ELSE "start")
                   /\ node' = [node EXCEPT ![n].task = Len(tasks) + 1, ![n].next = NULL]
    /\ UNCHANGED <<life, hp, earg, eops, failed>>

Link(t) ==
    /\ epc[t] = "link"
    /\ node' = [node EXCEPT ![earg[t].node].next = x[t].p]
    /\ x' = [x EXCEPT ![t] = NoConsumer]
    /\ GoTo(t, AfterPush(earg[t].node))
    /\ UNCHANGED <<queue, life, earg, eops, tasks, failed>>

\* fiber_start_background(_execute_tasks, node), or the executor's submit.
Start(t) ==
    /\ epc[t] = "start"
    /\ \E f \in Runners :
         /\ epc[f] = "idle"
         /\ epc' = [epc EXCEPT ![f] = "loop", ![t] = AfterPush(earg[t].node)]
         /\ x' = [x EXCEPT ![f] = [NoConsumer EXCEPT !.head = earg[t].node], ![t] = NoConsumer]
    /\ UNCHANGED <<queue, node, life, earg, eops, tasks, failed>>

\* The in-place call of _execute in start_execute.
BeginCall(t) ==
    /\ epc[t] = "begin"
    /\ LET n == earg[t].node
       IN  x' = [x EXCEPT ![t] = [NoConsumer EXCEPT !.head = n, !.cur = n, !.high = node[n].high,
                                                    !.inplace = TRUE]]
    /\ GoTo(t, "next")
    /\ UNCHANGED <<queue, node, life, earg, eops, tasks, failed>>

(***************************************************************************)
(* The consumer: _execute_tasks, _execute and the iterator.                *)
(***************************************************************************)
\* return_task_node of the nodes in S, which ends their versions.
Returned(nd, S) == [n \in Nodes |-> IF n \in S THEN FreeNode ELSE nd[n]]
Returnable(S) == \A n \in S : node[n].stop \/ (node[n].iterated /\ node[n].status # "UNEXECUTED")

\* The top of the loop: drop the node that was iterated last, look at the
\* number of high priority tasks, and either run the stop task or iterate.
Loop(f) ==
    /\ epc[f] = "loop"
    /\ LET old == x[f].head
           h == IF node[old].iterated THEN node[old].next ELSE old
           drop == IF node[old].iterated THEN {old} ELSE {}
       IN  /\ Check(h # NULL /\ Returnable(drop) /\ (h # NULL /\ node[h].stop => node[h].next = NULL))
           /\ IF node[h].stop
              THEN /\ node' = [Returned(node, drop) EXCEPT ![h].iterated = TRUE, ![h].status = "EXECUTED"]
                   /\ x' = [x EXCEPT ![f].head = h, ![f].high = (hp > 0), ![f].n = 1, ![f].destroy = TRUE]
                   /\ tasks' = [tasks EXCEPT ![node[h].task].state = "done"]
                   /\ GoTo(f, "count")
              ELSE /\ node' = Returned(node, drop)
                   /\ x' = [x EXCEPT ![f].head = h, ![f].cur = h, ![f].high = (hp > 0), ![f].n = 0,
                                     ![f].broke = FALSE]
                   /\ GoTo(f, "next")
                   /\ UNCHANGED tasks
    /\ UNCHANGED <<queue, life, earg, eops>>

\* should_break_for_high_priority_tasks.
ShouldBreak(f) == ~x[f].high /\ hp > 0

\* TaskIteratorBase::operator++ up to the look at the counter.
NextTask(f) ==
    /\ epc[f] = "next"
    /\ LET c == x[f].cur
           d == IF node[c].iterated THEN node[c].next ELSE c
       IN  /\ x' = [x EXCEPT ![f].cur = d, ![f].broke = ShouldBreak(f)]
           /\ GoTo(f, IF ShouldBreak(f) THEN "end" ELSE "seek")
    /\ UNCHANGED <<queue, node, life, earg, eops, tasks, failed>>

\* A normal task starts: it overtakes the high priority tasks that wait.
Started(k) ==
    [i \in 1 .. Len(tasks) |->
        IF i = k THEN [tasks[i] EXCEPT !.state = "running"]
        ELSE IF tasks[i].high /\ ~tasks[k].high /\ tasks[i].state = "pending"
        THEN [tasks[i] EXCEPT !.over = @ + 1] ELSE tasks[i]]

\* One round of the loop of operator++, with peek_to_execute.
Seek(f) ==
    /\ epc[f] = "seek"
    /\ LET c == x[f].cur
       IN  \/ /\ c # NULL => node[c].stop
              /\ GoTo(f, "end")
              /\ UNCHANGED <<x, node, tasks>>
           \/ /\ c # NULL /\ ~node[c].stop
              /\ node[c].high = x[f].high /\ ~node[c].iterated /\ node[c].status = "UNEXECUTED"
              /\ node' = [node EXCEPT ![c].status = "EXECUTING", ![c].iterated = TRUE]
              /\ x' = [x EXCEPT ![f].n = @ + 1]
              /\ tasks' = Started(node[c].task)
              /\ GoTo(f, "user")
           \/ /\ c # NULL /\ ~node[c].stop
              /\ node[c].high = x[f].high /\ (node[c].iterated \/ node[c].status # "UNEXECUTED")
              /\ node' = [node EXCEPT ![c].iterated = TRUE]
              /\ x' = [x EXCEPT ![f].n = @ + (IF node[c].iterated THEN 0 ELSE 1), ![f].cur = node[c].next]
              /\ UNCHANGED <<epc, tasks>>
           \/ /\ c # NULL /\ ~node[c].stop /\ node[c].high # x[f].high
              /\ x' = [x EXCEPT ![f].cur = node[c].next]
              /\ UNCHANGED <<epc, node, tasks>>
    /\ UNCHANGED <<queue, life, earg, eops, failed>>

\* The user's function: it has run the task and goes on, or returns.
User(f) ==
    /\ epc[f] = "user"
    /\ \/ GoTo(f, "next")
       \/ EarlyReturn /\ GoTo(f, "end")
    /\ tasks' = [tasks EXCEPT ![node[x[f].cur].task].state = "done"]
    /\ UNCHANGED <<queue, node, life, earg, x, eops, failed>>

\* The nodes from h up to c in the consumer's list.
Before(h, c) ==
    LET chain[n \in Ptr] == IF n \in {c, NULL} THEN {} ELSE {n} \cup chain[node[n].next]
    IN  chain[h]

\* ~TaskIteratorBase.
EndTasks(f) ==
    /\ epc[f] = "end"
    /\ LET it == x[f]
           over == {n \in Before(it.head, it.cur) : node[n].iterated /\ node[n].high = it.high}
           last == {n \in {it.cur} \ {NULL} :
                       it.broke /\ node[n].high = it.high /\ node[n].iterated}
       IN  node' = [n \in Nodes |-> IF n \in over \cup last
                                    THEN [node[n] EXCEPT !.status = "EXECUTED"] ELSE node[n]]
    /\ GoTo(f, "count")
    /\ UNCHANGED <<queue, life, earg, x, eops, tasks, failed>>

\* The high priority tasks among those that were executed.
ExecutedHigh(f) == IF x[f].high THEN x[f].n ELSE 0

\* The number of high priority tasks is brought up to date.
CountTasks(f) ==
    /\ epc[f] = "count"
    /\ hp' = hp - ExecutedHigh(f)
    /\ GoTo(f, IF x[f].inplace THEN "more" ELSE "release_nodes")
    /\ x' = IF x[f].inplace THEN [x EXCEPT ![f].tail = x[f].head] ELSE x
    /\ UNCHANGED <<head, node, life, earg, eops, tasks, failed>>

Stays(n) == node[n].next = NULL \/ ~node[n].iterated

\* "Release TaskNode until uniterated task or last task"; cur_tail is looked
\* for once.
ReleaseNodes(f) ==
    /\ epc[f] = "release_nodes"
    /\ LET first[n \in Nodes] == IF Stays(n) THEN n ELSE first[node[n].next]
           last[n \in Nodes] == IF node[n].next = NULL THEN n ELSE last[node[n].next]
           h == first[x[f].head]
           drop == Before(x[f].head, h)
       IN  /\ Check(Returnable(drop))
           /\ node' = Returned(node, drop)
           /\ x' = [x EXCEPT ![f].head = h, ![f].tail = IF @ = NULL THEN last[h] ELSE @]
    /\ GoTo(f, "more")
    /\ UNCHANGED <<queue, life, earg, eops, tasks>>

\* Where the consumer goes when there is more to do.
Again(f) == IF x[f].inplace THEN "start" ELSE "loop"

\* What _more_tasks requires of the list it is given.
EndsAtTail(f) == node[x[f].tail].next = NULL

\* The consumer is done: its last node goes back and it leaves.
Finish(f) ==
    LET h == x[f].head
    IN  /\ Check(EndsAtTail(f) /\ x[f].tail = h /\ node[h].iterated /\ Returnable({h}))
        /\ node' = Returned(node, {h})
        /\ x' = [x EXCEPT ![f] = NoConsumer]
        /\ GoTo(f, IF x[f].inplace THEN "deref" ELSE IF x[f].destroy THEN "destroy" ELSE "idle")

\* Mutant: _head is emptied although tasks are left to iterate.
DesiredNull(f) == NULL

\* What _more_tasks puts into _head when nothing was added.
Desired(f) == IF node[x[f].head].iterated THEN NULL ELSE x[f].tail

\* _more_tasks: give up the queue if nothing was added, or find what was.
MoreTasks(f) ==
    /\ epc[f] = "more"
    /\ \/ /\ head = x[f].tail /\ node[x[f].head].iterated
          /\ head' = Desired(f)
          /\ Finish(f)
       \/ /\ head = x[f].tail /\ ~node[x[f].head].iterated
          /\ head' = Desired(f)
          /\ GoTo(f, Again(f))
          /\ Check(EndsAtTail(f)) /\ UNCHANGED <<node, x>>
       \/ /\ head # x[f].tail
          /\ x' = [x EXCEPT ![f].new = head, ![f].p = head, ![f].rev = NULL]
          /\ GoTo(f, "reverse")
          /\ Check(EndsAtTail(f)) /\ UNCHANGED <<head, node>>
    /\ UNCHANGED <<hp, life, earg, eops, tasks>>

\* One round of the reversal, which waits for a producer that has not linked
\* its node; the last one links the old list to the new one.
ReverseNodes(f) ==
    /\ epc[f] = "reverse"
    /\ LET p == x[f].p
           saved == node[p].next
       IN  /\ saved # UNCONNECTED
           /\ Check(saved # NULL)
           /\ IF saved = x[f].tail
              THEN /\ node' = [node EXCEPT ![p].next = x[f].rev, ![saved].next = p]
                   /\ x' = [x EXCEPT ![f].tail = x[f].new, ![f].new = NULL, ![f].p = NULL, ![f].rev = NULL]
                   /\ GoTo(f, Again(f))
              ELSE /\ node' = [node EXCEPT ![p].next = x[f].rev]
                   /\ x' = [x EXCEPT ![f].p = saved, ![f].rev = p]
                   /\ UNCHANGED epc
    /\ UNCHANGED <<queue, life, earg, eops, tasks>>

\* The end of _execute_tasks for the stop task: joiners may go on, then the
\* slot goes back to the pool.
Destroy(f) ==
    /\ epc[f] = "destroy"
    /\ Check(head = NULL /\ stopped)
    /\ join' = join + 2
    /\ GoTo(f, "return_slot")
    /\ UNCHANGED <<queue, node, ever, ref, stopped, thisId, slot, earg, x, eops, tasks>>

ReturnSlot(f) ==
    /\ epc[f] = "return_slot"
    /\ slot' = "free"
    /\ GoTo(f, "idle")
    /\ UNCHANGED <<queue, node, ever, ref, stopped, thisId, join, earg, x, eops, tasks, failed>>

\* Mutant: a handle is not told from one of an earlier use of its node.
AnyUse(n, k) == TRUE

\* The version of the handle is the node's: it is still used for task k.
SameUse(n, k) == node[n].task = k

\* execution_queue_cancel through the handle of task k.
Cancel(t) ==
    /\ epc[t] = "idle" /\ eops < MaxSubmits
    /\ \E k \in 1 .. Len(tasks) :
         LET n == tasks[k].node
             hit == SameUse(n, k) /\ node[n].status = "UNEXECUTED"
         IN  /\ ~tasks[k].stop /\ ~tasks[k].asked
             /\ node' = IF hit THEN [node EXCEPT ![n].status = "EXECUTED"] ELSE node
             /\ tasks' = [i \in DOMAIN tasks |->
                            [tasks[i] EXCEPT !.asked = @ \/ i = k,
                                             !.state = IF hit /\ node[n].task = i THEN "cancelled" ELSE @]]
    /\ eops' = eops + 1
    /\ UNCHANGED <<queue, life, epc, earg, x, failed>>

LifeStep(t) == \/ UndoAddress(t) \/ UndoAddressCas(t) \/ Stop(t) \/ SetStopped(t) \/ DereferenceQueue(t) \/ ReadId(t)
               \/ DereferenceCas(t)
ProducerStep(t) == Allocate(t) \/ Recycle(t) \/ PushTask(t) \/ Link(t) \/ Start(t) \/ BeginCall(t)
ConsumerStep(f) ==
    \/ Loop(f) \/ NextTask(f) \/ Seek(f) \/ User(f) \/ EndTasks(f) \/ CountTasks(f) \/ ReleaseNodes(f)
    \/ MoreTasks(f) \/ ReverseNodes(f) \/ Destroy(f) \/ ReturnSlot(f)

ExecNext ==
    \/ CreateQueue
    \/ \E t \in Submitters : \/ AddressQueue(t, "execute") \/ AddressQueue(t, "stop") \/ Cancel(t)
                             \/ LifeStep(t) \/ ProducerStep(t)
    \/ \E p \in ExecProcs : ConsumerStep(p)

ExecSpec == ExecInit /\ [][ExecNext]_evars

-----------------------------------------------------------------------------
Index == 1 .. Len(tasks)
Consuming == {p \in ExecProcs : epc[p] \in {"begin", "loop", "next", "seek", "user", "end", "count",
                                       "release_nodes", "more", "reverse"}}
                \cup {t \in Submitters : epc[t] = "start"}

\* One consumer at a time: the user's function needs no lock.
SingleConsumer == Cardinality(Consuming) <= 1

\* Tasks of one priority are started in the order in which they were pushed:
\* none is started, or dropped, before an older one unless that was cancelled.
\* "[Thread safe and ABA free] Cancel": a task is only ever cancelled through
\* its own handle, whatever its node was used for before.
InOrder ==
    /\ \A i, j \in Index :
          i < j /\ tasks[i].high = tasks[j].high /\ tasks[j].state \in {"running", "done"}
          => tasks[i].state # "pending"
    /\ \A i \in Index : tasks[i].state = "cancelled" => tasks[i].asked

\* "the next high_priority_task would be delayed for at most one task".
HighFirst == \A i \in Index : tasks[i].over <= 1

\* execution_queue_stop: "The executor will call |execute| with ... being true
\* exactly once when all the pending tasks have been executed", and
\* execution_queue_join: "Wait until the the stop task ... has been executed",
\* so the join event leaves a life's version behind only then.
StopIsLast ==
    /\ \A i, j \in Index :
          tasks[j].stop /\ i # j /\ tasks[i].id = tasks[j].id
          => i < j /\ (tasks[j].state = "done" => tasks[i].state \in {"done", "cancelled"})
    /\ \A k \in 0 .. (join \div 2) - 1 :
          \E j \in Index : tasks[j].id = 2 * k /\ tasks[j].stop /\ tasks[j].state = "done"

\* No FLARE_CHECK fails: the lists end where they
\* should, the counter of high priority tasks and _head are clean when the
\* slot is used again, nodes go back executed.
ChecksHold == ~failed

\* Nothing is left behind: when no thread is inside a call and no consumer
\* runs, every task that was pushed was run or cancelled, _head is empty, and a
\* queue that was stopped was returned and its joiners let go.
NothingLeft ==
    (\A p \in ExecProcs : epc[p] = "idle")
    => /\ head = NULL /\ hp = 0
       /\ \A i \in Index : tasks[i].state \in {"done", "cancelled"}
       /\ slot = "used" => ever = thisId
       /\ slot = "free" => join = ever
=============================================================================
