----------------------------- MODULE TimerThread -----------------------------
(***************************************************************************)
(* src/flare/fiber/internal/timer_thread.{h,cc}: one pthread that runs     *)
(* callbacks at given times.                                               *)
(*                                                                         *)
(* schedule() puts a task into the bucket its pthread hashes to and, when  *)
(* the task is the earliest of the bucket, compares its time with          *)
(* _nearest_run_time and announces it by raising _nsignals, the futex the  *)
(* timer thread sleeps on.  The timer thread clears _nearest_run_time,     *)
(* moves the buckets' tasks to its heap, runs what is due and sleeps until *)
(* the earliest task of the heap.                                          *)
(*                                                                         *)
(* A Task structure is used again and again; a task's id is the structure  *)
(* and the version it had.  tasks is a history variable: one record for    *)
(* every call of schedule().                                               *)
(***************************************************************************)
EXTENDS Integers, Sequences, FiniteSets

CONSTANTS
    Threads,    \* pthreads that call schedule
    Self,       \* the timer thread among them: callbacks call schedule too
    NBuckets,
    Slots,      \* Task structures
    NoSlot,
    VerMod,     \* versions of a structure, 2^32 in the code; even
    FirstVer,   \* of every structure: 2 in a new process, any even number after many tasks
    Stops,      \* whether stop_and_join is called
    MaxTime,    \* bound: the clock
    MaxTasks,   \* bound: calls of schedule
    Asked       \* bound: the tasks (by number) that the user may unschedule

ASSUME TimerAssumption ==
    /\ NoSlot \notin Slots /\ Self \in Threads
    /\ NBuckets \in Nat /\ NBuckets > 0
    /\ VerMod \in Nat /\ VerMod > 2 /\ VerMod % 2 = 0
    /\ FirstVer \in 0 .. VerMod - 1 /\ FirstVer % 2 = 0
    /\ Stops \in BOOLEAN
    /\ MaxTime \in Nat /\ MaxTasks \in Nat /\ Asked \subseteq 1 .. MaxTasks

Buckets == 0 .. NBuckets - 1
Times == 1 .. MaxTime
Never == MaxTime + 1        \* std::numeric_limits<int64_t>::max()

VARIABLES
    now,        \* the clock
    slot,       \* structure -> [ver, time, id, free, task]
    bucket,     \* bucket -> [tasks, nearest, fence]
    \* fence: has a thread that put a task here locked _mutex, and the timer thread after it?
    bucketOf,   \* thread -> the bucket its id hashes to
    nearest,    \* _nearest_run_time
    nsignals,   \* _nsignals
    stop,       \* _stop
    heap,       \* the timer thread's heap
    pc,         \* thread -> where it is in schedule()
    cur,        \* thread -> the task it announces, 0 if none
    timer,      \* the timer thread: [pc, i, task, next, expected]
    stopper,    \* where the caller of stop_and_join is
    tasks       \* history of the tasks

vars == <<now, slot, bucket, bucketOf, nearest, nsignals, stop, heap, pc, cur, timer, stopper, tasks>>

Slot == [ver : 0 .. VerMod - 1, time : 0 .. MaxTime, id : 0 .. VerMod - 1, free : BOOLEAN, task : Nat]
\* What unschedule returns; NotAsked before its first call.
NotAsked == -2
Answers == -2 .. 1

\* Version 0 could make an id INVALID_TASK_ID.
Task == [slot : Slots, ver : 1 .. VerMod - 1, time : Times, returned : BOOLEAN,
         state : {"scheduled", "running", "done", "removed"}, told : Answers]
TimerPC == {"check", "clear", "pull", "look", "run", "running", "prepare", "wait", "asleep", "ended"}

TypeOK ==
    /\ now \in 0 .. MaxTime
    /\ slot \in [Slots -> Slot]
    /\ bucket \in [Buckets -> [tasks : SUBSET Slots, nearest : 0 .. Never,
                              fence : {"none", "locked", "seen"}]]
    /\ bucketOf \in [Threads -> Buckets]
    /\ nearest \in 0 .. Never
    /\ nsignals \in Nat /\ stop \in BOOLEAN
    /\ heap \in SUBSET Slots
    /\ pc \in [Threads -> {"idle", "push", "announce", "wake"}]
    /\ cur \in [Threads -> 0 .. MaxTasks]
    /\ timer \in [pc : TimerPC, i : Buckets, task : Slots \cup {NoSlot}, next : 0 .. Never,
                  expected : Nat]
    /\ stopper \in {"no", "announce", "wake", "join", "done"}
    /\ tasks \in Seq(Task)

Empty == [tasks |-> {}, nearest |-> Never, fence |-> "none"]

Init ==
    /\ now = 0
    /\ slot = [s \in Slots |-> [ver |-> FirstVer, time |-> 0, id |-> 0, free |-> TRUE, task |-> 0]]
    /\ bucket = [b \in Buckets |-> Empty]
    /\ bucketOf \in [Threads -> Buckets]
    /\ nearest = Never /\ nsignals = 0 /\ stop = FALSE
    /\ heap = {}
    /\ pc = [t \in Threads |-> "idle"] /\ cur = [t \in Threads |-> 0]
    /\ timer = [pc |-> "check", i |-> 0, task |-> NoSlot, next |-> Never, expected |-> 0]
    /\ stopper = "no"
    /\ tasks = <<>>

Tick ==
    /\ now < MaxTime
    /\ now' = now + 1
    /\ UNCHANGED <<slot, bucket, bucketOf, nearest, nsignals, stop, heap, pc, cur, timer, stopper, tasks>>

(***************************************************************************)
(* schedule and unschedule.                                                *)
(***************************************************************************)

\* schedule is entered unless _stop.
Schedule(t) ==
    /\ pc[t] = "idle" /\ ~stop /\ Len(tasks) < MaxTasks
    /\ t = Self => timer.pc = "running"
    /\ pc' = [pc EXCEPT ![t] = "push"]
    /\ UNCHANGED <<now, slot, bucket, bucketOf, nearest, nsignals, stop, heap, cur, timer, stopper, tasks>>

\* get_resource fails: INVALID_TASK_ID is returned.  The bound on the tasks counts as no memory.
NoResource(t) ==
    /\ pc[t] = "push"
    /\ Len(tasks) = MaxTasks \/ (\A s \in Slots : ~slot[s].free)
    /\ pc' = [pc EXCEPT ![t] = "idle"]
    /\ UNCHANGED <<now, slot, bucket, bucketOf, nearest, nsignals, stop, heap, cur, timer, stopper, tasks>>

\* Version 0 is skipped, so that no id is INVALID_TASK_ID.
UsedVersion(v) == IF v = 0 THEN 2 ELSE v

\* Bucket::schedule.
BucketSchedule(t) ==
    /\ pc[t] = "push" /\ Len(tasks) < MaxTasks
    /\ \E s \in Slots, time \in Times :
         LET v == UsedVersion(slot[s].ver)
             b == bucketOf[t]
             earlier == time < bucket[b].nearest
         IN  /\ slot[s].free
             /\ slot' = [slot EXCEPT ![s] = [ver |-> v, time |-> time, id |-> v, free |-> FALSE,
                                             task |-> Len(tasks) + 1]]
             /\ bucket' = [bucket EXCEPT ![b].tasks = @ \cup {s},
                                         ![b].nearest = IF earlier THEN time ELSE @]
             /\ pc' = [pc EXCEPT ![t] = IF earlier THEN "announce" ELSE "idle"]
             /\ cur' = [cur EXCEPT ![t] = IF earlier THEN Len(tasks) + 1 ELSE 0]
             /\ tasks' = Append(tasks, [slot |-> s, ver |-> v, time |-> time, returned |-> ~earlier,
                                        state |-> "scheduled", told |-> NotAsked])
    /\ UNCHANGED <<now, bucketOf, nearest, nsignals, stop, heap, timer, stopper>>

\* Thread t, whose task is in its bucket, locks _mutex.
Fence(t) ==
    LET s == tasks[cur[t]].slot
        b == bucketOf[t]
    IN  IF s \in bucket[b].tasks /\ slot[s].task = cur[t] /\ bucket[b].fence = "none"
        THEN [bucket EXCEPT ![b].fence = "locked"] ELSE bucket

\* schedule, under _mutex.  The id goes to the user when schedule returns.
Announce(t) ==
    LET time == tasks[cur[t]].time
        earlier == time < nearest
    IN  /\ pc[t] = "announce"
        /\ nearest' = IF earlier THEN time ELSE nearest
        /\ nsignals' = IF earlier THEN nsignals + 1 ELSE nsignals
        /\ bucket' = Fence(t)
        /\ pc' = [pc EXCEPT ![t] = IF earlier THEN "wake" ELSE "idle"]
        /\ tasks' = [tasks EXCEPT ![cur[t]].returned = ~earlier]
        /\ cur' = [cur EXCEPT ![t] = IF earlier THEN @ ELSE 0]
        /\ UNCHANGED <<now, slot, bucketOf, stop, heap, timer, stopper>>

\* The timer thread returns from futex_wait_private.
Resume == [timer EXCEPT !.pc = "check", !.next = Never, !.expected = 0]

\* futex_wake_private on _nsignals.
Woken == IF timer.pc = "asleep" THEN Resume ELSE timer

Wake(t) ==
    /\ pc[t] = "wake"
    /\ timer' = Woken
    /\ pc' = [pc EXCEPT ![t] = "idle"]
    /\ tasks' = [tasks EXCEPT ![cur[t]].returned = TRUE]
    /\ cur' = [cur EXCEPT ![t] = 0]
    /\ UNCHANGED <<now, slot, bucket, bucketOf, nearest, nsignals, stop, heap, stopper>>

\* unschedule: one compare-and-swap on the version.  Another task may live in
\* the structure by now: the history marks the task that is really removed.
Unschedule(k) ==
    LET s == tasks[k].slot
        v == tasks[k].ver
        cas == slot[s].ver = v
        answer == IF cas THEN 0 ELSE IF slot[s].ver = (v + 1) % VerMod THEN 1 ELSE -1
        told == [tasks EXCEPT ![k].told = answer]
    IN  /\ k \in Asked /\ tasks[k].returned
        /\ slot' = IF cas THEN [slot EXCEPT ![s].ver = (v + 2) % VerMod] ELSE slot
        /\ tasks' = IF cas THEN [told EXCEPT ![slot[s].task].state = "removed"] ELSE told
        /\ UNCHANGED <<now, bucket, bucketOf, nearest, nsignals, stop, heap, pc, cur, timer, stopper>>

(***************************************************************************)
(* The timer thread.                                                       *)
(***************************************************************************)
\* while (!_stop)
TimerCheck ==
    /\ timer.pc = "check"
    /\ timer' = [timer EXCEPT !.pc = IF stop THEN "ended" ELSE "clear"]
    /\ UNCHANGED <<now, slot, bucket, bucketOf, nearest, nsignals, stop, heap, pc, cur, stopper, tasks>>

\* The timer thread locks _mutex and so sees what was put into buckets before others did.
Fenced == [b \in Buckets |-> IF bucket[b].fence = "locked" THEN [bucket[b] EXCEPT !.fence = "seen"] ELSE bucket[b]]

TimerClear ==
    /\ timer.pc = "clear"
    /\ nearest' = Never
    /\ bucket' = Fenced
    /\ timer' = [timer EXCEPT !.pc = "pull"]
    /\ UNCHANGED <<now, slot, bucketOf, nsignals, stop, heap, pc, cur, stopper, tasks>>

\* return_resource; the fields other than the version are written before they are read again.
Freed(v) == [ver |-> v, time |-> 0, id |-> 0, free |-> TRUE, task |-> 0]

\* Mutant: an unscheduled task is not recognised.
NeverUnscheduled(s) == FALSE

Unscheduled(s) == slot[s].ver # slot[s].id

\* consume_tasks, and try_delete for each task of the list.  The first look at
\* _task_head is made without the mutex: it may miss what no fence has shown.
TimerPull ==
    /\ timer.pc = "pull"
    /\ LET b == timer.i
           gone == {s \in bucket[b].tasks : Unscheduled(s)}
       IN  \/ /\ bucket' = [bucket EXCEPT ![b] = Empty]
              /\ slot' = [s \in Slots |-> IF s \in gone THEN Freed(slot[s].ver) ELSE slot[s]]
              /\ heap' = heap \cup (bucket[b].tasks \ gone)
           \/ bucket[b].fence # "seen" /\ UNCHANGED <<bucket, slot, heap>>
    /\ timer' = [timer EXCEPT !.i = (@ + 1) % NBuckets, !.pc = IF timer.i + 1 = NBuckets THEN "look" ELSE "pull"]
    /\ UNCHANGED <<now, bucketOf, nearest, nsignals, stop, pc, cur, stopper, tasks>>

\* Mutant: _nearest_run_time is not looked at.
NoPullAgain(time) == FALSE

\* Somebody announced a task earlier than time.
PullAgain(time) == time > nearest

\* The tasks that may be at the top of the heap.
Earliest == {s \in heap : \A r \in heap : slot[s].time <= slot[r].time}

\* The loop over the heap: stop at a task that is not due, pull again when an
\* earlier task was announced, else take the task off the heap.
TimerLook ==
    /\ timer.pc = "look"
    /\ \/ /\ \A s \in Earliest : now < slot[s].time
          /\ timer' = [timer EXCEPT !.pc = "prepare"]
          /\ UNCHANGED heap
       \/ \E s \in Earliest :
            /\ now >= slot[s].time
            /\ IF PullAgain(slot[s].time)
               THEN /\ timer' = [timer EXCEPT !.pc = "check"]
                    /\ UNCHANGED heap
               ELSE /\ timer' = [timer EXCEPT !.pc = "run", !.task = s]
                    /\ heap' = heap \ {s}
    /\ UNCHANGED <<now, slot, bucket, bucketOf, nearest, nsignals, stop, pc, cur, stopper, tasks>>

\* run_and_delete, up to fn(arg).
TimerRun ==
    LET s == timer.task
    IN  /\ timer.pc = "run"
        /\ IF Unscheduled(s)
           THEN /\ slot' = [slot EXCEPT ![s] = Freed(@.ver)]
                /\ timer' = [timer EXCEPT !.pc = "look", !.task = NoSlot]
                /\ UNCHANGED tasks
           ELSE /\ slot' = [slot EXCEPT ![s].ver = (slot[s].id + 1) % VerMod]
                /\ tasks' = [tasks EXCEPT ![slot[s].task].state = "running"]
                /\ timer' = [timer EXCEPT !.pc = "running"]
        /\ UNCHANGED <<now, bucket, bucketOf, nearest, nsignals, stop, heap, pc, cur, stopper>>

\* run_and_delete, after fn(arg).
TimerFinish ==
    LET s == timer.task
    IN  /\ timer.pc = "running" /\ pc[Self] = "idle"
        /\ slot' = [slot EXCEPT ![s] = Freed((@.id + 2) % VerMod)]
        /\ tasks' = [tasks EXCEPT ![slot[s].task].state = "done"]
        /\ timer' = [timer EXCEPT !.pc = "look", !.task = NoSlot]
        /\ UNCHANGED <<now, bucket, bucketOf, nearest, nsignals, stop, heap, pc, cur, stopper>>

\* Choose how long to sleep, under _mutex.
TimerPrepare ==
    /\ timer.pc = "prepare"
    /\ \E next \in IF heap = {} THEN {Never} ELSE {slot[s].time : s \in Earliest} :
         IF PullAgain(next)
         THEN /\ timer' = [timer EXCEPT !.pc = "check"]
              /\ UNCHANGED nearest
         ELSE /\ timer' = [timer EXCEPT !.pc = "wait", !.next = next, !.expected = nsignals]
              /\ nearest' = next
    /\ UNCHANGED <<now, slot, bucket, bucketOf, nsignals, stop, heap, pc, cur, stopper, tasks>>

\* futex_wait_private: returns at once when _nsignals changed or the time is past.
TimerWait ==
    /\ timer.pc = "wait"
    /\ timer' = IF nsignals = timer.expected /\ now < timer.next
                THEN [timer EXCEPT !.pc = "asleep"]
                ELSE Resume
    /\ UNCHANGED <<now, slot, bucket, bucketOf, nearest, nsignals, stop, heap, pc, cur, stopper, tasks>>

TimerTimeout ==
    /\ timer.pc = "asleep" /\ now >= timer.next
    /\ timer' = Resume
    /\ UNCHANGED <<now, slot, bucket, bucketOf, nearest, nsignals, stop, heap, pc, cur, stopper, tasks>>

(***************************************************************************)
(* stop_and_join.                                                          *)
(***************************************************************************)
Stop ==
    /\ Stops /\ stopper = "no"
    /\ stop' = TRUE
    /\ stopper' = "announce"
    /\ UNCHANGED <<now, slot, bucket, bucketOf, nearest, nsignals, heap, pc, cur, timer, tasks>>

StopAnnounce ==
    /\ stopper = "announce"
    /\ nearest' = 0 /\ nsignals' = nsignals + 1
    /\ stopper' = "wake"
    /\ UNCHANGED <<now, slot, bucket, bucketOf, stop, heap, pc, cur, timer, tasks>>

StopWake ==
    /\ stopper = "wake"
    /\ timer' = Woken
    /\ stopper' = "join"
    /\ UNCHANGED <<now, slot, bucket, bucketOf, nearest, nsignals, stop, heap, pc, cur, tasks>>

StopJoin ==
    /\ stopper = "join" /\ timer.pc = "ended"
    /\ stopper' = "done"
    /\ UNCHANGED <<now, slot, bucket, bucketOf, nearest, nsignals, stop, heap, pc, cur, timer, tasks>>

\* Called by a task: no wakeup, no join.
StopInTask ==
    /\ Stops /\ stopper = "no" /\ timer.pc = "running" /\ pc[Self] = "idle"
    /\ stop' = TRUE
    /\ nearest' = 0 /\ nsignals' = nsignals + 1
    /\ stopper' = "done"
    /\ UNCHANGED <<now, slot, bucket, bucketOf, heap, pc, cur, timer, tasks>>

Timer ==
    TimerCheck \/ TimerClear \/ TimerPull \/ TimerLook \/ TimerRun \/ TimerFinish \/ TimerPrepare
    \/ TimerWait \/ TimerTimeout

Next ==
    \/ Tick \/ Timer
    \/ \E t \in Threads : Schedule(t) \/ BucketSchedule(t) \/ NoResource(t) \/ Announce(t) \/ Wake(t)
    \/ \E k \in 1 .. Len(tasks) : Unschedule(k)
    \/ Stop \/ StopAnnounce \/ StopWake \/ StopJoin \/ StopInTask

Spec == Init /\ [][Next]_vars

\* Time passes, the operating system runs every pthread, a callback returns.
Fairness ==
    /\ WF_vars(Tick) /\ WF_vars(Timer)
    /\ \A t \in Threads : WF_vars(BucketSchedule(t) \/ NoResource(t) \/ Announce(t) \/ Wake(t))
    /\ WF_vars(StopAnnounce \/ StopWake \/ StopJoin)

FairSpec == Spec /\ Fairness

(***************************************************************************)
(* Properties.                                                             *)
(***************************************************************************)
\* A task that is in a bucket and that the timer thread was not told of.
Announcing(b, time) == \E t \in Threads : pc[t] = "announce" /\ bucketOf[t] = b /\ tasks[cur[t]].time <= time

\* The timer thread never oversleeps: while it sleeps, or is about to, every task in a bucket that is
\* due before it wakes up is about to be announced by a thread inside schedule, and if _nsignals has
\* already changed somebody is about to wake it.
NoOversleep ==
    timer.pc \in {"wait", "asleep"} =>
        /\ nsignals = timer.expected =>
             \A b \in Buckets : \A s \in bucket[b].tasks :
                 slot[s].time < timer.next => Announcing(b, slot[s].time)
        /\ nsignals # timer.expected /\ timer.pc = "asleep" =>
             stopper = "wake" \/ \E t \in Threads : pc[t] = "wake"

\* When the timer thread takes a task to run it, no task in the buckets is earlier, unless the thread
\* that has to announce it is still inside schedule.
RunsEarliest ==
    [][timer'.pc = "run" /\ timer.pc # "run" =>
         \A b \in Buckets : \A s \in bucket[b].tasks :
             slot[s].time < slot[timer'.task].time => Announcing(b, slot[s].time)]_vars

\* What unschedule answers is true for ever: a task it removed never runs, a task it says is running was
\* started, and a task it says does not exist will not run any more.
AnswersTrue ==
    \A k \in 1 .. Len(tasks) :
        /\ tasks[k].told = 0 => tasks[k].state = "removed"
        /\ tasks[k].told = 1 => tasks[k].state \in {"running", "done"}
        /\ tasks[k].told = -1 => tasks[k].state \in {"done", "removed"}

\* A Task structure is in exactly one place: free, in one bucket, in the heap or being run.  None leaks
\* and none is returned to the pool twice or while it is in use.  The check of try_delete, and the branch
\* of run_and_delete that is called impossible: a task that waits has its own version or the version
\* unschedule gives it.
SlotsAccounted ==
    \A s \in Slots :
        /\ Cardinality({b \in Buckets : s \in bucket[b].tasks}) + (IF s \in heap THEN 1 ELSE 0)
             + (IF timer.task = s THEN 1 ELSE 0) = IF slot[s].free THEN 0 ELSE 1
        /\ ~slot[s].free /\ timer.task # s => slot[s].ver \in {slot[s].id, (slot[s].id + 2) % VerMod}

\* What schedule and unschedule say of a task stays true, and each structure
\* is somewhere and goes back to the pool once.
TasksAccountedFor == TypeOK /\ SlotsAccounted /\ AnswersTrue

\* stop_and_join returns.
StopReturns == (stopper = "announce") ~> (stopper = "done")
=============================================================================
