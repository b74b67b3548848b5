-------------------------- MODULE TimerThreadProofs --------------------------
(***************************************************************************)
(* Proofs about TimerThread, for any number of threads, buckets, Task      *)
(* structures and times.                                                   *)
(*                                                                         *)
(* The inductive invariant has two halves that hardly meet.  One follows   *)
(* the structures: each is in one place, belongs to the task that was put  *)
(* into it last, and its version tells how far that task got; the tasks    *)
(* before it are over and have smaller versions.  The other follows the    *)
(* times: a bucket with tasks is announced, about to be announced, or      *)
(* about to be pulled by a timer thread that cannot miss it.               *)
(***************************************************************************)
EXTENDS TimerThread, FiniteSetTheorems, TLAPS

(* A task uses up at most four versions of its structure: two, and two more *)
(* when version 0 is skipped.  With fewer tasks than that no version comes  *)
(* back; after 2^32 / 4 tasks an id could be mistaken for a later one.      *)
VersionsSuffice == 4 * MaxTasks + 4 <= VerMod

(* The versions used up since the first *)
Age(v) == IF v >= FirstVer THEN v - FirstVer ELSE v + VerMod - FirstVer

(* The version the task in s has, or the next one may have *)
Base(s) == IF slot[s].free THEN slot[s].ver ELSE slot[s].id

(* Every structure is in one place *)
Places ==
    /\ \A b, c \in Buckets : \A s \in bucket[b].tasks : s \in bucket[c].tasks => b = c
    /\ \A b \in Buckets : \A s \in bucket[b].tasks : ~slot[s].free /\ s \notin heap /\ timer.task # s
    /\ \A s \in heap : ~slot[s].free /\ timer.task # s
    /\ timer.task \in Slots <=> timer.pc \in {"run", "running"}
    /\ timer.task \in Slots => ~slot[timer.task].free
    /\ \A s \in Slots : ~slot[s].free =>
          s \in heap \/ timer.task = s \/ \E b \in Buckets : s \in bucket[b].tasks

(* Task k is in structure s, and is as far as the version says *)
Lives(s, k) ==
    /\ k \in 1 .. Len(tasks)
    /\ tasks[k].slot = s /\ tasks[k].ver = slot[s].id /\ tasks[k].time = slot[s].time
    /\ IF timer.task = s /\ timer.pc = "running"
       THEN slot[s].ver = (slot[s].id + 1) % VerMod /\ tasks[k].state = "running"
       ELSE \/ slot[s].ver = slot[s].id /\ tasks[k].state = "scheduled"
            \/ slot[s].ver = (slot[s].id + 2) % VerMod /\ tasks[k].state = "removed"

Owners == \A s \in Slots : ~slot[s].free => Lives(s, slot[s].task)

Room ==
    \A s \in Slots : IF slot[s].free THEN Age(slot[s].ver) <= 4 * Len(tasks)
                                     ELSE Age(slot[s].id) + 2 <= 4 * Len(tasks)

(* A task that is no longer in its structure is over *)
Past ==
    \A k \in 1 .. Len(tasks) :
        \/ ~slot[tasks[k].slot].free /\ slot[tasks[k].slot].task = k
        \/ /\ Age(tasks[k].ver) + 2 <= Age(Base(tasks[k].slot))
           /\ tasks[k].state \in {"done", "removed"}

(* The thread that put the earliest task into b has not told anybody *)
Untold(b) ==
    \E t \in Threads :
        /\ pc[t] = "announce" /\ bucketOf[t] = b /\ tasks[cur[t]].time <= bucket[b].nearest
        /\ tasks[cur[t]].slot \in bucket[b].tasks /\ slot[tasks[cur[t]].slot].task = cur[t]

(* The timer thread is about to pull b, and cannot miss what is in it *)
Pulling(b) == timer.pc = "pull" /\ timer.i <= b /\ bucket[b].fence = "seen"

Covered ==
    \A b \in Buckets :
        /\ bucket[b].tasks = {} => bucket[b].nearest = Never
        /\ \A s \in bucket[b].tasks : bucket[b].nearest <= slot[s].time
        /\ bucket[b].tasks # {} =>
              /\ bucket[b].fence = "none" => Untold(b)
              /\ Announcing(b, bucket[b].nearest) \/ nearest <= bucket[b].nearest \/ Pulling(b)

(* Who announces a task knows which *)
Callers ==
    /\ \A t \in Threads : pc[t] \in {"announce", "wake"} => cur[t] \in 1 .. Len(tasks)
    /\ timer.pc # "pull" => timer.i = 0

Sleeping ==
    timer.pc \in {"wait", "asleep"} =>
        /\ nsignals >= timer.expected
        /\ nsignals = timer.expected => nearest = timer.next
        /\ nsignals # timer.expected /\ timer.pc = "asleep" =>
              stopper = "wake" \/ \E t \in Threads : pc[t] = "wake"

Typed == TypeOK /\ Len(tasks) <= MaxTasks

(* The structures, and the times *)
Structures == Places /\ Owners /\ Room /\ Past /\ AnswersTrue
Clocks == Covered /\ Callers /\ Sleeping

IInv == Typed /\ Structures /\ Clocks

-----------------------------------------------------------------------------
(* Versions *)

Versions == 0 .. VerMod - 1

LEMMA NextVersion ==
    ASSUME NEW v \in Versions
    PROVE  /\ Age(v) \in Nat /\ Age(v) < VerMod
           /\ (v + 1) % VerMod \in Versions /\ (v + 2) % VerMod \in Versions
           /\ Age(v) + 2 < VerMod => /\ Age((v + 1) % VerMod) = Age(v) + 1
                                     /\ Age((v + 2) % VerMod) = Age(v) + 2
<1>1. VerMod \in Nat /\ VerMod > 2 /\ FirstVer \in Nat /\ FirstVer < VerMod
  BY TimerAssumption
<1>2. /\ (v + 1) % VerMod = IF v + 1 < VerMod THEN v + 1 ELSE v + 1 - VerMod
      /\ (v + 2) % VerMod = IF v + 2 < VerMod THEN v + 2 ELSE v + 2 - VerMod
  BY <1>1 DEF Versions
<1> QED  BY <1>1, <1>2 DEF Age, Versions

LEMMA SameAge ==
    ASSUME NEW v \in Versions, NEW w \in Versions, Age(v) = Age(w)
    PROVE  v = w
  BY TimerAssumption DEF Age, Versions

(* The version of a new task *)
LEMMA NewVersion ==
    ASSUME NEW v \in Versions, Age(v) + 2 < VerMod
    PROVE  /\ UsedVersion(v) \in 1 .. VerMod - 1
           /\ Age(v) <= Age(UsedVersion(v)) /\ Age(UsedVersion(v)) <= Age(v) + 2
  BY TimerAssumption DEF Age, Versions, UsedVersion

LEMMA NextBucket ==
    ASSUME NEW i \in Buckets
    PROVE  /\ (i + 1) % NBuckets \in Buckets
           /\ i + 1 = NBuckets => (i + 1) % NBuckets = 0
           /\ i + 1 # NBuckets => (i + 1) % NBuckets = i + 1
  BY TimerAssumption DEF Buckets

-----------------------------------------------------------------------------
(* The history of the tasks *)

LEMMA TaskChanged ==
    ASSUME tasks \in Seq(Task), NEW k \in 1 .. Len(tasks), NEW e \in Task, tasks' = [tasks EXCEPT ![k] = e]
    PROVE  /\ tasks' \in Seq(Task) /\ Len(tasks') = Len(tasks) /\ tasks'[k] = e
           /\ \A j \in 1 .. Len(tasks) : j # k => tasks'[j] = tasks[j]
  OBVIOUS

LEMMA TaskAdded ==
    ASSUME tasks \in Seq(Task), NEW e \in Task, tasks' = Append(tasks, e)
    PROVE  /\ tasks' \in Seq(Task) /\ Len(tasks') = Len(tasks) + 1 /\ tasks'[Len(tasks) + 1] = e
           /\ \A j \in 1 .. Len(tasks) : tasks'[j] = tasks[j]
  OBVIOUS

(* What a step may leave as it is: the structures and who is in them, *)
KeepsTasks ==
    /\ Len(tasks') = Len(tasks)
    /\ \A k \in 1 .. Len(tasks) :
          /\ tasks'[k].slot = tasks[k].slot /\ tasks'[k].ver = tasks[k].ver /\ tasks'[k].time = tasks[k].time
          /\ tasks'[k].state = tasks[k].state /\ tasks'[k].told = tasks[k].told

KeepsStructures ==
    /\ slot' = slot /\ heap' = heap /\ KeepsTasks
    /\ \A b \in Buckets : bucket'[b].tasks = bucket[b].tasks
    /\ timer'.task = timer.task
    /\ timer'.pc \in {"run", "running"} <=> timer.pc \in {"run", "running"}
    /\ timer'.pc = "running" <=> timer.pc = "running"

LEMMA StructuresKept ==
    ASSUME Typed, Structures, KeepsStructures
    PROVE  Structures'
<1>1. Places'
  BY Zenon DEF Structures, Places, KeepsStructures
<1>2. Owners'
  <2> SUFFICES ASSUME NEW s \in Slots, ~slot[s].free
               PROVE  Lives(s, slot[s].task)'
    BY Zenon DEF Owners, KeepsStructures
  <2>1. Lives(s, slot[s].task)
    BY Zenon DEF Structures, Owners
  <2>2. KeepsTasks /\ slot' = slot /\ slot[s].task \in 1 .. Len(tasks)
    BY <2>1, Zenon DEF Lives, KeepsStructures
  <2>3. timer'.task = s /\ timer'.pc = "running" <=> timer.task = s /\ timer.pc = "running"
    BY Zenon DEF KeepsStructures
  <2> QED  BY <2>1, <2>2, <2>3 DEF Lives, KeepsTasks
<1>3. Room'
  BY Zenon DEF Structures, Room, KeepsStructures, KeepsTasks
<1>4. Past'
  BY Zenon DEF Structures, Past, Base, KeepsStructures, KeepsTasks
<1>5. AnswersTrue'
  BY Zenon DEF Structures, AnswersTrue, KeepsStructures, KeepsTasks
<1> QED  BY <1>1, <1>2, <1>3, <1>4, <1>5, Zenon DEF Structures

(* or the buckets, those who announce what is in them, and a pull. *)
KeepsBuckets ==
    /\ bucket' = bucket /\ bucketOf' = bucketOf
    /\ \A b \in Buckets : \A s \in bucket[b].tasks : slot'[s].time = slot[s].time /\ slot'[s].task = slot[s].task
    /\ \A t \in Threads : pc[t] = "announce" =>
          /\ pc'[t] = "announce" /\ cur'[t] = cur[t]
          /\ tasks'[cur[t]].time = tasks[cur[t]].time /\ tasks'[cur[t]].slot = tasks[cur[t]].slot
    /\ timer.pc = "pull" => timer'.pc = "pull" /\ timer'.i = timer.i

LEMMA CoveredKept ==
    ASSUME Typed, Typed', Covered, KeepsBuckets, nearest' <= nearest
    PROVE  Covered'
<1> SUFFICES ASSUME NEW b \in Buckets
             PROVE  /\ bucket[b].tasks = {} => bucket[b].nearest = Never
                    /\ \A s \in bucket[b].tasks : bucket[b].nearest <= slot'[s].time
                    /\ bucket[b].tasks # {} =>
                          /\ bucket[b].fence = "none" => Untold(b)'
                          /\ \/ Announcing(b, bucket[b].nearest)'
                             \/ nearest' <= bucket[b].nearest
                             \/ Pulling(b)'
  BY Zenon DEF Covered, KeepsBuckets
<1>1. bucket[b].nearest \in Nat /\ nearest \in Nat /\ nearest' \in Nat
  BY DEF Typed, TypeOK, Never
<1>2. ASSUME Untold(b) PROVE Untold(b)'
  <2>1. PICK t \in Threads :
            /\ pc[t] = "announce" /\ bucketOf[t] = b /\ tasks[cur[t]].time <= bucket[b].nearest
            /\ tasks[cur[t]].slot \in bucket[b].tasks /\ slot[tasks[cur[t]].slot].task = cur[t]
    BY <1>2, Zenon DEF Untold
  <2>2. /\ pc'[t] = "announce" /\ bucketOf'[t] = b /\ tasks'[cur'[t]].time <= bucket'[b].nearest
        /\ tasks'[cur'[t]].slot \in bucket'[b].tasks /\ slot'[tasks'[cur'[t]].slot].task = cur'[t]
    BY <2>1 DEF KeepsBuckets
  <2> QED  BY <2>2, Zenon DEF Untold
<1>3. Announcing(b, bucket[b].nearest) => Announcing(b, bucket[b].nearest)'
  BY Zenon DEF Announcing, KeepsBuckets
<1>4. Pulling(b) => Pulling(b)'
  BY Zenon DEF Pulling, KeepsBuckets
<1>5. nearest <= bucket[b].nearest => nearest' <= bucket[b].nearest
  BY <1>1
<1> QED  BY <1>2, <1>3, <1>4, <1>5, Zenon DEF Covered, KeepsBuckets

LEMMA AllKept ==
    ASSUME IInv, Typed', KeepsStructures, KeepsBuckets, nearest' <= nearest, Callers', Sleeping'
    PROVE  IInv'
<1>1. Structures'
  BY StructuresKept, Zenon DEF IInv
<1>2. Covered'
  BY CoveredKept, Zenon DEF IInv, Clocks
<1> QED  BY <1>1, <1>2, Zenon DEF IInv, Clocks

(* The timer thread's variables *)
TimerRecord == [pc : TimerPC, i : Buckets, task : Slots \cup {NoSlot}, next : 0 .. Never, expected : Nat]

LEMMA Resumed ==
    ASSUME Typed
    PROVE  /\ Resume \in TimerRecord /\ Resume.pc = "check"
           /\ Resume.task = timer.task /\ Resume.i = timer.i
<1>1. Never \in 0 .. Never /\ 0 \in Nat
  BY TimerAssumption DEF Never
<1>2. timer \in TimerRecord
  BY Zenon DEF Typed, TypeOK, TimerRecord
<1> QED  BY <1>1, <1>2, Zenon DEF Resume, TimerRecord, TimerPC

LEMMA TimerTyped ==
    ASSUME Typed, timer' \in TimerRecord,
           UNCHANGED <<now, slot, bucket, bucketOf, nearest, nsignals, stop, heap, pc, cur, tasks>>,
           stopper' \in {"no", "announce", "wake", "join", "done"}
    PROVE  Typed'
  BY Zenon DEF Typed, TypeOK, TimerRecord

-----------------------------------------------------------------------------
(* The steps that move no structure and touch no bucket *)

LEMMA TickStep ==
    ASSUME IInv, Tick
    PROVE  IInv'
<1> USE DEF IInv, Clocks
<1>1. Typed'
  BY TimerAssumption DEF Tick, Typed, TypeOK, TimerPC, Never
<1>2. KeepsStructures
  BY DEF Tick, KeepsStructures, KeepsTasks, Typed, TypeOK
<1>3. KeepsBuckets /\ nearest' <= nearest
  BY DEF Tick, KeepsBuckets, Typed, TypeOK, Never
<1>4. Callers'
  BY DEF Tick, Callers, Typed, TypeOK
<1>5. Sleeping'
  BY DEF Tick, Sleeping, Typed, TypeOK
<1> QED  BY <1>1, <1>2, <1>3, <1>4, <1>5, AllKept, Zenon

LEMMA ScheduleStep ==
    ASSUME IInv, NEW t \in Threads, Schedule(t)
    PROVE  IInv'
<1> USE DEF IInv, Clocks
<1>1. Typed'
  BY TimerAssumption DEF Schedule, Typed, TypeOK, TimerPC, Never
<1>2. KeepsStructures
  BY DEF Schedule, KeepsStructures, KeepsTasks, Typed, TypeOK
<1>3. KeepsBuckets /\ nearest' <= nearest
  BY DEF Schedule, KeepsBuckets, Typed, TypeOK, Never
<1>4. Callers'
  BY DEF Schedule, Callers, Typed, TypeOK
<1>5. Sleeping'
  BY DEF Schedule, Sleeping, Typed, TypeOK
<1> QED  BY <1>1, <1>2, <1>3, <1>4, <1>5, AllKept, Zenon

LEMMA NoResourceStep ==
    ASSUME IInv, NEW t \in Threads, NoResource(t)
    PROVE  IInv'
<1> USE DEF IInv, Clocks
<1>1. Typed'
  BY TimerAssumption DEF NoResource, Typed, TypeOK, TimerPC, Never
<1>2. KeepsStructures
  BY DEF NoResource, KeepsStructures, KeepsTasks, Typed, TypeOK
<1>3. KeepsBuckets /\ nearest' <= nearest
  BY DEF NoResource, KeepsBuckets, Typed, TypeOK, Never
<1>4. Callers'
  BY DEF NoResource, Callers, Typed, TypeOK
<1>5. Sleeping'
  BY DEF NoResource, Sleeping, Typed, TypeOK
<1> QED  BY <1>1, <1>2, <1>3, <1>4, <1>5, AllKept, Zenon

LEMMA TimerCheckStep ==
    ASSUME IInv, TimerCheck
    PROVE  IInv'
<1> USE DEF IInv, Clocks
<1>1. Typed'
  BY TimerAssumption, Zenon DEF TimerCheck, Typed, TypeOK, TimerPC, Never
<1>2. KeepsStructures
  BY DEF TimerCheck, KeepsStructures, KeepsTasks, Typed, TypeOK
<1>3. KeepsBuckets /\ nearest' <= nearest
  BY DEF TimerCheck, KeepsBuckets, Typed, TypeOK, Never
<1>4. Callers'
  BY DEF TimerCheck, Callers, Typed, TypeOK
<1>5. Sleeping'
  BY DEF TimerCheck, Sleeping, Typed, TypeOK
<1> QED  BY <1>1, <1>2, <1>3, <1>4, <1>5, AllKept, Zenon

LEMMA TimerPrepareStep ==
    ASSUME IInv, TimerPrepare
    PROVE  IInv'
<1> USE DEF IInv, Clocks
<1>a. PICK next \in 0 .. Never :
        IF PullAgain(next)
        THEN timer' = [timer EXCEPT !.pc = "check"] /\ UNCHANGED nearest
        ELSE timer' = [timer EXCEPT !.pc = "wait", !.next = next, !.expected = nsignals] /\ nearest' = next
  <2>1. PICK n \in IF heap = {} THEN {Never} ELSE {slot[s].time : s \in Earliest} :
        IF PullAgain(n)
        THEN timer' = [timer EXCEPT !.pc = "check"] /\ UNCHANGED nearest
        ELSE timer' = [timer EXCEPT !.pc = "wait", !.next = n, !.expected = nsignals] /\ nearest' = n
    BY Zenon DEF TimerPrepare
  <2>2. Never \in 0 .. Never /\ \A s \in Slots : slot[s].time \in 0 .. Never
    BY TimerAssumption, SMTT(30) DEF Never, Typed, TypeOK, Slot
  <2>3. Earliest \subseteq Slots
    BY Zenon DEF Earliest, Typed, TypeOK
  <2>4. n \in 0 .. Never
    BY <2>1, <2>2, <2>3, Zenon
  <2> QED  BY <2>1, <2>4, Zenon
<1>b. /\ timer.pc = "prepare" /\ nsignals \in Nat /\ nearest \in 0 .. Never
      /\ UNCHANGED <<now, slot, bucket, bucketOf, nsignals, stop, heap, pc, cur, stopper, tasks>>
  BY Zenon DEF TimerPrepare, Typed, TypeOK
<1>c. timer \in TimerRecord
  BY Zenon DEF TimerRecord, Typed, TypeOK
<1>d. /\ timer' \in TimerRecord /\ timer'.task = timer.task /\ timer'.i = timer.i /\ nearest' \in 0 .. Never
      /\ nearest' <= nearest
      /\ \/ timer'.pc = "check"
         \/ timer'.pc = "wait" /\ timer'.expected = nsignals' /\ nearest' = timer'.next
  <2>1. CASE PullAgain(next)
    BY <1>a, <1>b, <1>c, <2>1 DEF TimerRecord, TimerPC, Never
  <2>2. CASE ~PullAgain(next)
    <3>1. next <= nearest
      BY <1>a, <1>b, <2>2, TimerAssumption DEF PullAgain, Never
    <3>2. timer' = [timer EXCEPT !.pc = "wait", !.next = next, !.expected = nsignals] /\ nearest' = next
      BY <1>a, <2>2, Zenon
    <3>3. /\ timer' \in TimerRecord /\ timer'.task = timer.task /\ timer'.i = timer.i
          /\ timer'.pc = "wait" /\ timer'.expected = nsignals /\ timer'.next = next
      BY <1>a, <1>b, <1>c, <3>2, Zenon DEF TimerRecord, TimerPC
    <3> QED  BY <1>a, <1>b, <3>1, <3>2, <3>3, Zenon
  <2> QED  BY <2>1, <2>2, Zenon
<1>1. Typed'
  BY <1>b, <1>d, Zenon DEF Typed, TypeOK, TimerRecord
<1>2. KeepsStructures
  BY <1>b, <1>d DEF KeepsStructures, KeepsTasks
<1>3. KeepsBuckets /\ nearest' <= nearest
  BY <1>b, <1>d DEF KeepsBuckets
<1>4. Callers'
  BY <1>b, <1>d DEF Callers
<1>5. Sleeping'
  BY <1>b, <1>d DEF Sleeping
<1> QED  BY <1>1, <1>2, <1>3, <1>4, <1>5, AllKept, Zenon

LEMMA TimerWaitStep ==
    ASSUME IInv, TimerWait
    PROVE  IInv'
<1> USE DEF IInv, Clocks
<1>a. timer' = Resume \/ (timer' = [timer EXCEPT !.pc = "asleep"] /\ nsignals = timer.expected)
  BY DEF TimerWait
<1>b. timer' \in TimerRecord
  BY <1>a, Resumed, Zenon DEF TimerRecord, TimerPC, Typed, TypeOK
<1>1. Typed'
  BY <1>b, TimerTyped, Zenon DEF TimerWait, Typed, TypeOK
<1>2. KeepsStructures
  BY DEF TimerWait, Resume, KeepsStructures, KeepsTasks, Typed, TypeOK
<1>3. KeepsBuckets /\ nearest' <= nearest
  BY DEF TimerWait, Resume, KeepsBuckets, Typed, TypeOK, Never
<1>4. Callers'
  BY DEF TimerWait, Resume, Callers, Typed, TypeOK
<1>5. Sleeping'
  BY DEF TimerWait, Resume, Sleeping, Typed, TypeOK
<1> QED  BY <1>1, <1>2, <1>3, <1>4, <1>5, AllKept, Zenon

LEMMA TimerTimeoutStep ==
    ASSUME IInv, TimerTimeout
    PROVE  IInv'
<1> USE DEF IInv, Clocks
<1>1. Typed'
  BY Resumed, TimerTyped, Zenon DEF TimerTimeout, Typed, TypeOK
<1>2. KeepsStructures
  BY DEF TimerTimeout, Resume, KeepsStructures, KeepsTasks, Typed, TypeOK
<1>3. KeepsBuckets /\ nearest' <= nearest
  BY DEF TimerTimeout, Resume, KeepsBuckets, Typed, TypeOK, Never
<1>4. Callers'
  BY DEF TimerTimeout, Resume, Callers, Typed, TypeOK
<1>5. Sleeping'
  BY DEF TimerTimeout, Resume, Sleeping, Typed, TypeOK
<1> QED  BY <1>1, <1>2, <1>3, <1>4, <1>5, AllKept, Zenon

LEMMA StopStep ==
    ASSUME IInv, Stop
    PROVE  IInv'
<1> USE DEF IInv, Clocks
<1>1. Typed'
  BY TimerAssumption DEF Stop, Typed, TypeOK, TimerPC, Never
<1>2. KeepsStructures
  BY DEF Stop, KeepsStructures, KeepsTasks, Typed, TypeOK
<1>3. KeepsBuckets /\ nearest' <= nearest
  BY DEF Stop, KeepsBuckets, Typed, TypeOK, Never
<1>4. Callers'
  BY DEF Stop, Callers, Typed, TypeOK
<1>5. Sleeping'
  BY DEF Stop, Sleeping, Typed, TypeOK
<1> QED  BY <1>1, <1>2, <1>3, <1>4, <1>5, AllKept, Zenon

LEMMA StopAnnounceStep ==
    ASSUME IInv, StopAnnounce
    PROVE  IInv'
<1> USE DEF IInv, Clocks
<1>1. Typed'
  BY TimerAssumption DEF StopAnnounce, Typed, TypeOK, TimerPC, Never
<1>2. KeepsStructures
  BY DEF StopAnnounce, KeepsStructures, KeepsTasks, Typed, TypeOK
<1>3. KeepsBuckets /\ nearest' <= nearest
  BY DEF StopAnnounce, KeepsBuckets, Typed, TypeOK, Never
<1>4. Callers'
  BY DEF StopAnnounce, Callers, Typed, TypeOK
<1>5. Sleeping'
  BY DEF StopAnnounce, Sleeping, Typed, TypeOK
<1> QED  BY <1>1, <1>2, <1>3, <1>4, <1>5, AllKept, Zenon

LEMMA StopWakeStep ==
    ASSUME IInv, StopWake
    PROVE  IInv'
<1> USE DEF IInv, Clocks
<1>a. timer' \in TimerRecord
  BY Resumed, Zenon DEF StopWake, Woken, TimerRecord, Typed, TypeOK
<1>1. Typed'
  BY <1>a, TimerTyped DEF StopWake
<1>2. KeepsStructures
  BY DEF StopWake, Woken, Resume, KeepsStructures, KeepsTasks, Typed, TypeOK
<1>3. KeepsBuckets /\ nearest' <= nearest
  BY DEF StopWake, Woken, Resume, KeepsBuckets, Typed, TypeOK, Never
<1>4. Callers'
  BY DEF StopWake, Woken, Resume, Callers, Typed, TypeOK
<1>5. Sleeping'
  BY DEF StopWake, Woken, Resume, Sleeping, Typed, TypeOK
<1> QED  BY <1>1, <1>2, <1>3, <1>4, <1>5, AllKept, Zenon

LEMMA StopJoinStep ==
    ASSUME IInv, StopJoin
    PROVE  IInv'
<1> USE DEF IInv, Clocks
<1>1. Typed'
  BY TimerAssumption DEF StopJoin, Typed, TypeOK, TimerPC, Never
<1>2. KeepsStructures
  BY DEF StopJoin, KeepsStructures, KeepsTasks, Typed, TypeOK
<1>3. KeepsBuckets /\ nearest' <= nearest
  BY DEF StopJoin, KeepsBuckets, Typed, TypeOK, Never
<1>4. Callers'
  BY DEF StopJoin, Callers, Typed, TypeOK
<1>5. Sleeping'
  BY DEF StopJoin, Sleeping, Typed, TypeOK
<1> QED  BY <1>1, <1>2, <1>3, <1>4, <1>5, AllKept, Zenon

LEMMA StopInTaskStep ==
    ASSUME IInv, StopInTask
    PROVE  IInv'
<1> USE DEF IInv, Clocks
<1>1. Typed'
  BY TimerAssumption DEF StopInTask, Typed, TypeOK, TimerPC, Never
<1>2. KeepsStructures
  BY DEF StopInTask, KeepsStructures, KeepsTasks, Typed, TypeOK
<1>3. KeepsBuckets /\ nearest' <= nearest
  BY DEF StopInTask, KeepsBuckets, Typed, TypeOK, Never
<1>4. Callers'
  BY DEF StopInTask, Callers, Typed, TypeOK
<1>5. Sleeping'
  BY DEF StopInTask, Sleeping, Typed, TypeOK
<1> QED  BY <1>1, <1>2, <1>3, <1>4, <1>5, AllKept, Zenon

-----------------------------------------------------------------------------
(* schedule() returns *)

LEMMA ReturnedChanged ==
    ASSUME Typed, NEW k \in 1 .. Len(tasks), NEW r \in BOOLEAN, tasks' = [tasks EXCEPT ![k].returned = r]
    PROVE  tasks' \in Seq(Task) /\ KeepsTasks
<1> DEFINE e == [tasks[k] EXCEPT !.returned = r]
<1>1. tasks \in Seq(Task) /\ tasks[k] \in Task
  BY DEF Typed, TypeOK
<1>2. /\ e \in Task /\ e.slot = tasks[k].slot /\ e.ver = tasks[k].ver /\ e.time = tasks[k].time
      /\ e.state = tasks[k].state /\ e.told = tasks[k].told
  BY <1>1 DEF Task
<1>3. tasks' = [tasks EXCEPT ![k] = e]
  BY <1>1
<1> HIDE DEF e
<1>4. /\ tasks' \in Seq(Task) /\ Len(tasks') = Len(tasks) /\ tasks'[k] = e
      /\ \A j \in 1 .. Len(tasks) : j # k => tasks'[j] = tasks[j]
  BY <1>1, <1>2, <1>3, TaskChanged, SMTT(30)
<1> QED  BY <1>2, <1>4, Zenon DEF KeepsTasks

LEMMA WakeStep ==
    ASSUME IInv, NEW t \in Threads, Wake(t)
    PROVE  IInv'
<1> USE DEF IInv, Clocks
<1>a. cur[t] \in 1 .. Len(tasks) /\ pc[t] = "wake"
  BY Zenon DEF Wake, Callers
<1>b. tasks' \in Seq(Task) /\ KeepsTasks
  BY <1>a, ReturnedChanged, Zenon DEF Wake
<1>c. timer' \in TimerRecord /\ timer'.task = timer.task /\ timer'.i = timer.i
  BY Resumed, Zenon DEF Wake, Woken, TimerRecord, Typed, TypeOK
<1>d. timer' = timer \/ (timer.pc = "asleep" /\ timer'.pc = "check")
  BY Resumed, Zenon DEF Wake, Woken
<1>e. timer.pc = "asleep" => timer'.pc = "check"
  BY Resumed, Zenon DEF Wake, Woken
<1>f. /\ pc' = [pc EXCEPT ![t] = "idle"] /\ cur' = [cur EXCEPT ![t] = 0]
      /\ pc \in [Threads -> {"idle", "push", "announce", "wake"}] /\ cur \in [Threads -> 0 .. MaxTasks]
      /\ UNCHANGED <<now, slot, bucket, bucketOf, nearest, nsignals, stop, heap, stopper>>
  BY Zenon DEF Wake, Typed, TypeOK
<1>g. /\ pc' \in [Threads -> {"idle", "push", "announce", "wake"}] /\ cur' \in [Threads -> 0 .. MaxTasks]
      /\ \A u \in Threads : u # t => pc'[u] = pc[u] /\ cur'[u] = cur[u]
      /\ pc'[t] = "idle"
  <2>1. 0 \in 0 .. MaxTasks
    BY TimerAssumption
  <2> QED  BY <1>f, <2>1, Zenon
<1>1. Typed'
  <2>1. Len(tasks') <= MaxTasks
    BY <1>b, Zenon DEF Typed, KeepsTasks
  <2> QED  BY <1>b, <1>c, <1>f, <1>g, <2>1, Zenon DEF Typed, TypeOK, TimerRecord
<1>2. KeepsStructures
  BY <1>b, <1>c, <1>d, <1>f DEF KeepsStructures
<1>3. KeepsBuckets
  <2>1. \A u \in Threads : pc[u] = "announce" => cur[u] \in 1 .. Len(tasks) /\ u # t
    BY <1>a, Zenon DEF Callers
  <2>2. timer.pc = "pull" => timer'.pc = "pull" /\ timer'.i = timer.i
    BY <1>c, <1>d
  <2> QED  BY <1>b, <1>f, <1>g, <2>1, <2>2, Zenon DEF KeepsBuckets, KeepsTasks
<1>4. nearest' <= nearest
  BY <1>f DEF Typed, TypeOK, Never
<1>5. Callers'
  BY <1>b, <1>c, <1>d, <1>g, Zenon DEF Callers, KeepsTasks
<1>6. Sleeping'
  BY <1>d, <1>e, <1>f, <1>g DEF Sleeping
<1> QED  BY <1>1, <1>2, <1>3, <1>4, <1>5, <1>6, AllKept, Zenon

LEMMA AnnounceStep ==
    ASSUME IInv, NEW t \in Threads, Announce(t)
    PROVE  IInv'
<1> DEFINE k == cur[t]
           earlier == tasks[k].time < nearest
           home == bucketOf[t]
<1> USE DEF IInv, Clocks
<1>a. k \in 1 .. Len(tasks) /\ pc[t] = "announce" /\ home \in Buckets
  BY Zenon DEF Announce, Callers, Typed, TypeOK
<1>b. tasks' \in Seq(Task) /\ KeepsTasks
  BY <1>a, ReturnedChanged, Zenon DEF Announce
<1>c. tasks[k].time \in Nat /\ tasks[k].time <= MaxTime /\ nearest \in 0 .. Never /\ nsignals \in Nat
  <2>1. tasks \in Seq(Task) /\ nearest \in 0 .. Never /\ nsignals \in Nat
    BY Zenon DEF Typed, TypeOK
  <2>2. tasks[k] \in Task
    BY <1>a, <2>1
  <2> QED  BY <2>1, <2>2, TimerAssumption DEF Task, Times
<1>d. /\ UNCHANGED <<now, slot, bucketOf, stop, heap, timer, stopper>>
      /\ pc' = [pc EXCEPT ![t] = IF earlier THEN "wake" ELSE "idle"]
      /\ cur' = [cur EXCEPT ![t] = IF earlier THEN @ ELSE 0]
      /\ nearest' = (IF earlier THEN tasks[k].time ELSE nearest)
      /\ nsignals' = (IF earlier THEN nsignals + 1 ELSE nsignals)
      /\ bucket' = Fence(t)
  BY Zenon DEF Announce
<1>e. /\ nearest' \in 0 .. Never /\ nearest' <= nearest /\ nearest' <= tasks[k].time
      /\ nsignals' \in Nat /\ nsignals' >= nsignals
      /\ nsignals' # nsignals => earlier
      /\ nsignals' = nsignals => nearest' = nearest
  BY <1>c, <1>d, TimerAssumption DEF Never
<1>f. pc \in [Threads -> {"idle", "push", "announce", "wake"}] /\ cur \in [Threads -> 0 .. MaxTasks]
  BY Zenon DEF Typed, TypeOK
<1>g. /\ pc' \in [Threads -> {"idle", "push", "announce", "wake"}] /\ cur' \in [Threads -> 0 .. MaxTasks]
      /\ \A u \in Threads : u # t => pc'[u] = pc[u] /\ cur'[u] = cur[u]
      /\ pc'[t] # "announce" /\ (earlier => pc'[t] = "wake" /\ cur'[t] = k) /\ (~earlier => pc'[t] = "idle")
  <2>1. 0 \in 0 .. MaxTasks
    BY TimerAssumption
  <2> QED  BY <1>d, <1>f, <2>1
<1> HIDE DEF k, earlier, home
<1>h. /\ bucket' \in [Buckets -> [tasks : SUBSET Slots, nearest : 0 .. Never, fence : {"none", "locked", "seen"}]]
      /\ \A b \in Buckets : /\ bucket'[b].tasks = bucket[b].tasks /\ bucket'[b].nearest = bucket[b].nearest
                            /\ bucket'[b].fence = "none" => bucket[b].fence = "none"
                            /\ bucket[b].fence = "seen" => bucket'[b].fence = "seen"
      /\ ~(/\ tasks[k].slot \in bucket[home].tasks /\ slot[tasks[k].slot].task = k
           /\ bucket'[home].fence = "none")
  <2>1. bucket \in [Buckets -> [tasks : SUBSET Slots, nearest : 0 .. Never, fence : {"none", "locked", "seen"}]]
    BY Zenon DEF Typed, TypeOK
  <2>2. CASE tasks[k].slot \in bucket[home].tasks /\ slot[tasks[k].slot].task = k /\ bucket[home].fence = "none"
    <3>1. bucket' = [bucket EXCEPT ![home].fence = "locked"]
      BY <1>d, <2>2, Zenon DEF Fence, k, home
    <3> QED  BY <1>a, <2>1, <2>2, <3>1
  <2>3. CASE ~(tasks[k].slot \in bucket[home].tasks /\ slot[tasks[k].slot].task = k /\ bucket[home].fence = "none")
    <3>1. bucket' = bucket
      BY <1>d, <2>3, Zenon DEF Fence, k, home
    <3> QED  BY <2>1, <2>3, <3>1, Zenon
  <2> QED  BY <2>2, <2>3, Zenon
<1>i. \A u \in Threads : pc[u] = "announce" /\ u # t =>
          /\ pc'[u] = "announce" /\ cur'[u] = cur[u] /\ bucketOf'[u] = bucketOf[u]
          /\ tasks'[cur[u]].time = tasks[cur[u]].time /\ tasks'[cur[u]].slot = tasks[cur[u]].slot
  BY <1>b, <1>d, <1>g, Zenon DEF Callers, KeepsTasks
<1>1. Typed'
  <2>1. Len(tasks') <= MaxTasks
    BY <1>b, Zenon DEF Typed, KeepsTasks
  <2> QED  BY <1>b, <1>d, <1>e, <1>g, <1>h, <2>1, Zenon DEF Typed, TypeOK
<1>2. Structures'
  <2>1. KeepsStructures
    BY <1>b, <1>d, <1>h, Zenon DEF KeepsStructures
  <2> QED  BY <2>1, StructuresKept, Zenon
<1>3. Covered'
  <2> SUFFICES ASSUME NEW b \in Buckets
               PROVE  /\ bucket[b].tasks = {} => bucket[b].nearest = Never
                      /\ \A s \in bucket[b].tasks : bucket[b].nearest <= slot[s].time
                      /\ bucket[b].tasks # {} =>
                            /\ bucket'[b].fence = "none" => Untold(b)'
                            /\ \/ Announcing(b, bucket[b].nearest)'
                               \/ nearest' <= bucket[b].nearest
                               \/ Pulling(b)'
    BY <1>d, <1>h, Zenon DEF Covered
  <2>1. bucket[b].nearest \in Nat
    BY DEF Typed, TypeOK, Never
  <2>2. ASSUME bucket'[b].fence = "none", Untold(b) PROVE Untold(b)'
    <3>1. PICK u \in Threads :
              /\ pc[u] = "announce" /\ bucketOf[u] = b /\ tasks[cur[u]].time <= bucket[b].nearest
              /\ tasks[cur[u]].slot \in bucket[b].tasks /\ slot[tasks[cur[u]].slot].task = cur[u]
      BY <2>2, Zenon DEF Untold
    <3>2. u # t
      BY <1>h, <2>2, <3>1, Zenon DEF k, home
    <3>3. /\ pc'[u] = "announce" /\ bucketOf'[u] = b /\ tasks'[cur'[u]].time <= bucket'[b].nearest
          /\ tasks'[cur'[u]].slot \in bucket'[b].tasks /\ slot'[tasks'[cur'[u]].slot].task = cur'[u]
      BY <1>d, <1>h, <1>i, <3>1, <3>2
    <3> QED  BY <3>3, Zenon DEF Untold
  <2>3. ASSUME Announcing(b, bucket[b].nearest)
        PROVE  Announcing(b, bucket[b].nearest)' \/ nearest' <= bucket[b].nearest
    <3>1. PICK u \in Threads : pc[u] = "announce" /\ bucketOf[u] = b /\ tasks[cur[u]].time <= bucket[b].nearest
      BY <2>3, Zenon DEF Announcing
    <3>2. CASE u = t
      BY <1>c, <1>e, <2>1, <3>1, <3>2 DEF k
    <3>3. CASE u # t
      <4>1. pc'[u] = "announce" /\ bucketOf'[u] = b /\ tasks'[cur'[u]].time <= bucket'[b].nearest
        BY <1>h, <1>i, <3>1, <3>3
      <4> QED  BY <4>1, Zenon DEF Announcing
    <3> QED  BY <3>2, <3>3, Zenon
  <2>4. nearest <= bucket[b].nearest => nearest' <= bucket[b].nearest
    BY <1>c, <1>e, <2>1
  <2>5. Pulling(b) => Pulling(b)'
    BY <1>d, <1>h, Zenon DEF Pulling
  <2> QED  BY <1>h, <2>2, <2>3, <2>4, <2>5, Zenon DEF Covered
<1>4. Callers'
  BY <1>a, <1>b, <1>d, <1>g, Zenon DEF Callers, KeepsTasks
<1>5. Sleeping'
  <2>1. timer.pc \in {"wait", "asleep"} => timer.expected \in Nat
    BY DEF Typed, TypeOK
  <2>2. CASE nsignals' = nsignals
    <3>1. \A u \in Threads : pc[u] = "wake" => pc'[u] = "wake"
      BY <1>a, <1>g, Zenon
    <3> QED  BY <1>d, <1>e, <2>2, <3>1, Zenon DEF Sleeping
  <2>3. CASE nsignals' # nsignals
    <3>1. pc'[t] = "wake"
      BY <1>e, <1>g, <2>3, Zenon
    <3>2. timer.pc \in {"wait", "asleep"} => nsignals' >= timer.expected /\ nsignals' # timer.expected
      BY <1>c, <1>e, <2>1, <2>3 DEF Sleeping
    <3> QED  BY <1>d, <3>1, <3>2, Zenon DEF Sleeping
  <2> QED  BY <2>2, <2>3, Zenon
<1> QED  BY <1>1, <1>2, <1>3, <1>4, <1>5, Zenon

-----------------------------------------------------------------------------
(* The versions of a structure *)

LEMMA Ages ==
    ASSUME VersionsSuffice, Typed, Room, NEW s \in Slots
    PROVE  /\ slot[s].ver \in Versions /\ slot[s].id \in Versions /\ Base(s) \in Versions
           /\ Age(Base(s)) \in Nat /\ Age(Base(s)) + 2 < VerMod /\ Age(Base(s)) <= 4 * Len(tasks)
           /\ ~slot[s].free => /\ Age(slot[s].id) + 2 <= 4 * Len(tasks)
                               /\ Age((slot[s].id + 1) % VerMod) = Age(slot[s].id) + 1
                               /\ Age((slot[s].id + 2) % VerMod) = Age(slot[s].id) + 2
<1>1. slot[s] \in Slot /\ Len(tasks) \in Nat /\ Len(tasks) <= MaxTasks
  BY DEF Typed, TypeOK
<1>2. slot[s].ver \in Versions /\ slot[s].id \in Versions /\ slot[s].free \in BOOLEAN
  BY <1>1, Zenon DEF Slot, Versions
<1>3. Base(s) \in Versions
  BY <1>2, Zenon DEF Base
<1>4. /\ Age(Base(s)) \in Nat /\ Age(slot[s].id) \in Nat
      /\ Age(slot[s].id) + 2 < VerMod => /\ Age((slot[s].id + 1) % VerMod) = Age(slot[s].id) + 1
                                         /\ Age((slot[s].id + 2) % VerMod) = Age(slot[s].id) + 2
  BY <1>2, <1>3, NextVersion, Zenon
<1>5. VerMod \in Nat /\ MaxTasks \in Nat /\ 4 * MaxTasks + 4 <= VerMod
  BY TimerAssumption, Zenon DEF VersionsSuffice
<1>6. CASE slot[s].free
  <2>1. Base(s) = slot[s].ver /\ Age(slot[s].ver) <= 4 * Len(tasks)
    BY <1>6, Zenon DEF Base, Room
  <2> QED  BY <1>1, <1>2, <1>3, <1>4, <1>5, <1>6, <2>1
<1>7. CASE ~slot[s].free
  <2>1. Base(s) = slot[s].id /\ Age(slot[s].id) + 2 <= 4 * Len(tasks)
    BY <1>7, Zenon DEF Base, Room
  <2> QED  BY <1>1, <1>2, <1>3, <1>4, <1>5, <1>7, <2>1
<1> QED  BY <1>6, <1>7, Zenon

(* A structure that is in use has the version of its task or one of the next two *)
LEMMA InUse ==
    ASSUME VersionsSuffice, Typed, Owners, Room, NEW s \in Slots, ~slot[s].free
    PROVE  /\ Lives(s, slot[s].task)
           /\ Age(slot[s].ver) \in Age(slot[s].id) .. Age(slot[s].id) + 2
           /\ slot[s].ver = slot[s].id <=> tasks[slot[s].task].state = "scheduled"
           /\ slot[s].ver = (slot[s].id + 1) % VerMod <=> tasks[slot[s].task].state = "running"
           /\ slot[s].ver = (slot[s].id + 2) % VerMod <=> tasks[slot[s].task].state = "removed"
           /\ timer.task = s /\ timer.pc = "running" <=> tasks[slot[s].task].state = "running"
           /\ tasks[slot[s].task].state \in {"scheduled", "running", "removed"}
<1>1. Lives(s, slot[s].task)
  BY Zenon DEF Owners
<1>2. /\ Age(slot[s].id) \in Nat
      /\ Age((slot[s].id + 1) % VerMod) = Age(slot[s].id) + 1
      /\ Age((slot[s].id + 2) % VerMod) = Age(slot[s].id) + 2
  BY Ages, Zenon DEF Base
<1>3. /\ slot[s].id # (slot[s].id + 1) % VerMod /\ slot[s].id # (slot[s].id + 2) % VerMod
      /\ (slot[s].id + 1) % VerMod # (slot[s].id + 2) % VerMod
  BY <1>2
<1>4. \/ /\ timer.task = s /\ timer.pc = "running"
         /\ slot[s].ver = (slot[s].id + 1) % VerMod /\ tasks[slot[s].task].state = "running"
      \/ /\ ~(timer.task = s /\ timer.pc = "running")
         /\ slot[s].ver = slot[s].id /\ tasks[slot[s].task].state = "scheduled"
      \/ /\ ~(timer.task = s /\ timer.pc = "running")
         /\ slot[s].ver = (slot[s].id + 2) % VerMod /\ tasks[slot[s].task].state = "removed"
  BY <1>1, Zenon DEF Lives
<1>5. Age(slot[s].ver) \in Age(slot[s].id) .. Age(slot[s].id) + 2
  BY <1>2, <1>4
<1> QED  BY <1>1, <1>3, <1>4, <1>5, Zenon

-----------------------------------------------------------------------------
(* unschedule *)

(* It removes the task it is asked to remove or none, and what it answers is so *)
LEMMA UnscheduleEffect ==
    ASSUME VersionsSuffice, IInv, NEW k \in 1 .. Len(tasks), Unschedule(k)
    PROVE  \/ /\ ~slot[tasks[k].slot].free /\ slot[tasks[k].slot].task = k
              /\ tasks[k].state = "scheduled" /\ tasks[k].ver = slot[tasks[k].slot].id
              /\ slot' = [slot EXCEPT ![tasks[k].slot].ver = (tasks[k].ver + 2) % VerMod]
              /\ tasks' = [tasks EXCEPT ![k] = [tasks[k] EXCEPT !.told = 0, !.state = "removed"]]
           \/ /\ slot' = slot
              /\ \/ /\ tasks' = [tasks EXCEPT ![k] = [tasks[k] EXCEPT !.told = 1]]
                    /\ tasks[k].state = "running"
                 \/ /\ tasks' = [tasks EXCEPT ![k] = [tasks[k] EXCEPT !.told = -1]]
                    /\ tasks[k].state \in {"done", "removed"}
<1> DEFINE s == tasks[k].slot
           v == tasks[k].ver
<1>1. tasks \in Seq(Task) /\ tasks[k] \in Task
  BY DEF IInv, Typed, TypeOK
<1>2. s \in Slots /\ v \in Versions
  BY <1>1, TimerAssumption DEF Task, Versions
<1>3. /\ slot' = IF slot[s].ver = v THEN [slot EXCEPT ![s].ver = (v + 2) % VerMod] ELSE slot
      /\ slot[s].ver = v => tasks' = [[tasks EXCEPT ![k].told = 0] EXCEPT ![slot[s].task].state = "removed"]
      /\ slot[s].ver # v /\ slot[s].ver = (v + 1) % VerMod => tasks' = [tasks EXCEPT ![k].told = 1]
      /\ slot[s].ver # v /\ slot[s].ver # (v + 1) % VerMod => tasks' = [tasks EXCEPT ![k].told = -1]
  BY Zenon DEF Unschedule
<1>4. Typed /\ Owners /\ Room /\ Past
  BY Zenon DEF IInv, Structures
<1>5. CASE ~slot[s].free /\ slot[s].task = k
  <2>1. /\ v = slot[s].id
        /\ slot[s].ver = v <=> tasks[k].state = "scheduled"
        /\ slot[s].ver = (v + 1) % VerMod <=> tasks[k].state = "running"
        /\ slot[s].ver = (v + 2) % VerMod <=> tasks[k].state = "removed"
        /\ tasks[k].state \in {"scheduled", "running", "removed"}
    <3>1. /\ Lives(s, k)
          /\ slot[s].ver = slot[s].id <=> tasks[k].state = "scheduled"
          /\ slot[s].ver = (slot[s].id + 1) % VerMod <=> tasks[k].state = "running"
          /\ slot[s].ver = (slot[s].id + 2) % VerMod <=> tasks[k].state = "removed"
          /\ tasks[k].state \in {"scheduled", "running", "removed"}
      <4>1. /\ Lives(s, slot[s].task)
            /\ slot[s].ver = slot[s].id <=> tasks[slot[s].task].state = "scheduled"
            /\ slot[s].ver = (slot[s].id + 1) % VerMod <=> tasks[slot[s].task].state = "running"
            /\ slot[s].ver = (slot[s].id + 2) % VerMod <=> tasks[slot[s].task].state = "removed"
            /\ tasks[slot[s].task].state \in {"scheduled", "running", "removed"}
        BY <1>2, <1>4, <1>5, InUse, Zenon
      <4>2. slot[s].task = k
        BY <1>5
      <4> HIDE DEF s
      <4> QED  BY <4>1, <4>2, Zenon
    <3>2. v = slot[s].id
      BY <3>1, Zenon DEF Lives
    <3> HIDE DEF v
    <3> QED  BY <3>1, <3>2, Zenon
  <2>2. CASE slot[s].ver = v
    <3>1. tasks' = [tasks EXCEPT ![k] = [tasks[k] EXCEPT !.told = 0, !.state = "removed"]]
      BY <1>1, <1>3, <1>5, <2>2, Zenon DEF Task
    <3> QED  BY <1>3, <1>5, <2>1, <2>2, <3>1, Zenon
  <2>3. CASE slot[s].ver # v /\ slot[s].ver = (v + 1) % VerMod
    <3>1. tasks' = [tasks EXCEPT ![k] = [tasks[k] EXCEPT !.told = 1]]
      BY <1>1, <1>3, <2>3
    <3> QED  BY <1>3, <2>1, <2>3, <3>1, Zenon
  <2>4. CASE slot[s].ver # v /\ slot[s].ver # (v + 1) % VerMod
    <3>1. tasks' = [tasks EXCEPT ![k] = [tasks[k] EXCEPT !.told = -1]]
      BY <1>1, <1>3, <2>4
    <3> QED  BY <1>3, <2>1, <2>4, <3>1, Zenon
  <2> QED  BY <2>2, <2>3, <2>4, Zenon
<1>6. CASE ~(~slot[s].free /\ slot[s].task = k)
  <2>1. Age(v) + 2 <= Age(Base(s)) /\ tasks[k].state \in {"done", "removed"}
    BY <1>4, <1>6, Zenon DEF Past
  <2>2. Age(v) \in Nat /\ (Age(v) + 2 < VerMod => Age((v + 1) % VerMod) = Age(v) + 1)
    BY <1>2, NextVersion, Zenon
  <2>3. Age(Base(s)) \in Nat /\ Age(Base(s)) + 2 < VerMod /\ slot[s].ver \in Versions
    BY <1>2, <1>4, Ages, Zenon
  <2>4. Age(slot[s].ver) \in Nat /\ Age(slot[s].ver) >= Age(Base(s))
    <3>1. CASE slot[s].free
      BY <2>3, <3>1 DEF Base
    <3>2. CASE ~slot[s].free
      <4>1. Age(slot[s].ver) \in Age(slot[s].id) .. Age(slot[s].id) + 2
        BY <1>2, <1>4, <3>2, InUse, Zenon
      <4>2. Base(s) = slot[s].id
        BY <3>2, Zenon DEF Base
      <4> QED  BY <2>3, <4>1, <4>2
    <3> QED  BY <3>1, <3>2, Zenon
  <2>5. slot[s].ver # v /\ slot[s].ver # (v + 1) % VerMod
    <3> DEFINE w == (v + 1) % VerMod
    <3>1. Age(v) + 2 < VerMod
      BY <2>1, <2>2, <2>3, TimerAssumption
    <3>2. Age(slot[s].ver) > Age(v) /\ Age(slot[s].ver) > Age(v) + 1
      BY <2>1, <2>2, <2>3, <2>4
    <3>3. Age(w) = Age(v) + 1
      BY <2>2, <3>1, Zenon
    <3> HIDE DEF w, v, s
    <3>4. slot[s].ver # v /\ slot[s].ver # w
      BY <2>2, <2>4, <3>2, <3>3, SMTT(30)
    <3> QED  BY <3>4 DEF w, v, s
  <2>6. tasks' = [tasks EXCEPT ![k] = [tasks[k] EXCEPT !.told = -1]]
    BY <1>1, <1>3, <2>5
  <2> QED  BY <1>3, <2>1, <2>5, <2>6, Zenon
<1> QED  BY <1>5, <1>6, Zenon

LEMMA UnscheduleStep ==
    ASSUME VersionsSuffice, IInv, NEW k \in 1 .. Len(tasks), Unschedule(k)
    PROVE  IInv'
<1> DEFINE s == tasks[k].slot
           removes == /\ ~slot[s].free /\ slot[s].task = k
                      /\ tasks[k].state = "scheduled" /\ tasks[k].ver = slot[s].id
                      /\ slot' = [slot EXCEPT ![s].ver = (tasks[k].ver + 2) % VerMod]
                      /\ tasks' = [tasks EXCEPT ![k] = [tasks[k] EXCEPT !.told = 0, !.state = "removed"]]
<1>a. UNCHANGED <<now, bucket, bucketOf, nearest, nsignals, stop, heap, pc, cur, timer, stopper>>
  BY Zenon DEF Unschedule
<1>b. /\ Typed /\ Places /\ Owners /\ Room /\ Past /\ AnswersTrue /\ Covered /\ Callers /\ Sleeping
      /\ tasks \in Seq(Task) /\ slot \in [Slots -> Slot]
  BY Zenon DEF IInv, Structures, Clocks, Typed, TypeOK
<1>c. tasks[k] \in Task /\ s \in Slots /\ tasks[k].ver \in Versions
  <2>1. tasks[k] \in Task
    BY <1>b
  <2> QED  BY <2>1, TimerAssumption DEF Task, Versions
<1>d. /\ slot' \in [Slots -> Slot]
      /\ \A r \in Slots : /\ slot'[r].free = slot[r].free /\ slot'[r].task = slot[r].task
                          /\ slot'[r].id = slot[r].id /\ slot'[r].time = slot[r].time
                          /\ slot'[r].ver # slot[r].ver =>
                                removes /\ r = s /\ slot'[r].ver = (slot[r].id + 2) % VerMod
  <2>1. CASE removes
    <3>1. (tasks[k].ver + 2) % VerMod \in Versions
      BY <1>c, NextVersion, Zenon
    <3>2. slot[s] \in Slot
      BY <1>b, <1>c
    <3> DEFINE e == [slot[s] EXCEPT !.ver = (tasks[k].ver + 2) % VerMod]
    <3>3. /\ e \in Slot /\ e.ver = (slot[s].id + 2) % VerMod
          /\ e.free = slot[s].free /\ e.task = slot[s].task /\ e.id = slot[s].id /\ e.time = slot[s].time
      BY <2>1, <3>1, <3>2 DEF Slot, Versions
    <3>4. slot' = [slot EXCEPT ![s] = e]
      BY <2>1
    <3> HIDE DEF e, s, removes
    <3> QED  BY <1>b, <1>c, <2>1, <3>3, <3>4
  <2>2. CASE slot' = slot
    BY <1>b, <2>2, Zenon
  <2> QED  BY <2>1, <2>2, UnscheduleEffect, Zenon
<1>e. \E e \in Task :
         /\ tasks' = [tasks EXCEPT ![k] = e]
         /\ e.slot = tasks[k].slot /\ e.ver = tasks[k].ver /\ e.time = tasks[k].time
         /\ \/ removes /\ e.state = "removed" /\ e.told = 0
            \/ ~removes /\ e.state = tasks[k].state /\ e.state = "running" /\ e.told = 1
            \/ ~removes /\ e.state = tasks[k].state /\ e.state \in {"done", "removed"} /\ e.told = -1
  <2>1. CASE removes
    <3> DEFINE e == [tasks[k] EXCEPT !.told = 0, !.state = "removed"]
    <3>1. /\ e \in Task /\ e.slot = tasks[k].slot /\ e.ver = tasks[k].ver /\ e.time = tasks[k].time
          /\ e.state = "removed" /\ e.told = 0
      <4>1. 0 \in Answers /\ 1 \in Answers
        BY DEF Answers
      <4> QED  BY <1>c, <4>1, Zenon DEF Task
    <3>2. tasks' = [tasks EXCEPT ![k] = e]
      BY <2>1, Zenon
    <3> HIDE DEF e, removes
    <3> QED  BY <2>1, <3>1, <3>2, Zenon
  <2>2. CASE tasks' = [tasks EXCEPT ![k] = [tasks[k] EXCEPT !.told = 1]] /\ tasks[k].state = "running"
    <3> DEFINE e == [tasks[k] EXCEPT !.told = 1]
    <3>1. /\ e \in Task /\ e.slot = tasks[k].slot /\ e.ver = tasks[k].ver /\ e.time = tasks[k].time
          /\ e.state = tasks[k].state /\ e.told = 1
      BY <1>c DEF Task, Answers
    <3>2. ~removes /\ tasks' = [tasks EXCEPT ![k] = e]
      BY <2>2, Zenon
    <3> HIDE DEF e, removes
    <3> QED  BY <2>2, <3>1, <3>2, Zenon
  <2>3. CASE tasks' = [tasks EXCEPT ![k] = [tasks[k] EXCEPT !.told = -1]] /\ tasks[k].state \in {"done", "removed"}
    <3> DEFINE e == [tasks[k] EXCEPT !.told = -1]
    <3>1. /\ e \in Task /\ e.slot = tasks[k].slot /\ e.ver = tasks[k].ver /\ e.time = tasks[k].time
          /\ e.state = tasks[k].state /\ e.told = -1
      <4>1. -1 \in Answers
        BY DEF Answers
      <4> QED  BY <1>c, <4>1 DEF Task
    <3>2. ~removes /\ tasks' = [tasks EXCEPT ![k] = e]
      BY <2>3, Zenon
    <3> HIDE DEF e, removes
    <3> QED  BY <2>3, <3>1, <3>2, Zenon
  <2> QED  BY <2>1, <2>2, <2>3, UnscheduleEffect, Zenon
<1>f. removes => /\ ~slot[s].free /\ slot[s].task = k /\ tasks[k].state = "scheduled"
                 /\ slot'[s].ver = (slot[s].id + 2) % VerMod
  BY <1>b, <1>c DEF Slot
<1> HIDE DEF removes, s
<1>g. /\ tasks' \in Seq(Task) /\ Len(tasks') = Len(tasks)
      /\ \A j \in 1 .. Len(tasks) :
            /\ tasks'[j].slot = tasks[j].slot /\ tasks'[j].ver = tasks[j].ver /\ tasks'[j].time = tasks[j].time
            /\ j # k => tasks'[j] = tasks[j]
            /\ ~(removes /\ j = k) => tasks'[j].state = tasks[j].state
      /\ removes => tasks'[k].state = "removed"
      /\ \/ tasks'[k].told = 0 /\ tasks'[k].state = "removed"
         \/ tasks'[k].told = 1 /\ tasks'[k].state = "running"
         \/ tasks'[k].told = -1 /\ tasks'[k].state \in {"done", "removed"}
  <2>1. PICK e \in Task :
         /\ tasks' = [tasks EXCEPT ![k] = e]
         /\ e.slot = tasks[k].slot /\ e.ver = tasks[k].ver /\ e.time = tasks[k].time
         /\ \/ removes /\ e.state = "removed" /\ e.told = 0
            \/ ~removes /\ e.state = tasks[k].state /\ e.state = "running" /\ e.told = 1
            \/ ~removes /\ e.state = tasks[k].state /\ e.state \in {"done", "removed"} /\ e.told = -1
    BY <1>e, Zenon
  <2>2. /\ tasks' \in Seq(Task) /\ Len(tasks') = Len(tasks) /\ tasks'[k] = e
        /\ \A j \in 1 .. Len(tasks) : j # k => tasks'[j] = tasks[j]
    BY <1>b, <2>1, TaskChanged, Zenon
  <2> QED  BY <2>1, <2>2, Zenon
<1>1. Typed'
  BY <1>a, <1>b, <1>d, <1>g, Zenon DEF Typed, TypeOK
<1>2. Places'
  BY <1>a, <1>b, <1>d, Zenon DEF Places, Typed, TypeOK
<1>3. Owners'
  <2> SUFFICES ASSUME NEW r \in Slots, ~slot[r].free
               PROVE  Lives(r, slot[r].task)'
    BY <1>d, Zenon DEF Owners
  <2>1. Lives(r, slot[r].task) /\ slot[r].task \in 1 .. Len(tasks)
    BY <1>b, Zenon DEF Owners, Lives
  <2>2. CASE removes /\ r = s
    <3>1. ~(timer.task = s /\ timer.pc = "running")
      BY <1>f, <2>1, <2>2 DEF Lives
    <3>2. slot'[r].task = k /\ slot'[r].id = slot[r].id /\ slot'[r].time = slot[r].time
      BY <1>d, <1>f, <2>2, Zenon
    <3>3. slot'[r].ver = (slot'[r].id + 2) % VerMod /\ tasks'[k].state = "removed"
      BY <1>f, <1>g, <2>2, <3>2, Zenon
    <3>4. tasks[k].slot = r /\ tasks[k].ver = slot[r].id /\ tasks[k].time = slot[r].time
      BY <1>f, <2>1, <2>2, Zenon DEF Lives
    <3>5. k \in 1 .. Len(tasks') /\ tasks'[k].slot = r /\ tasks'[k].ver = slot'[r].id /\ tasks'[k].time = slot'[r].time
      BY <1>g, <3>2, <3>4, Zenon
    <3>6. ~(timer'.task = r /\ timer'.pc = "running")
      BY <1>a, <2>2, <3>1, Zenon
    <3> QED  BY <3>2, <3>3, <3>5, <3>6, Zenon DEF Lives
  <2>3. CASE ~(removes /\ r = s)
    <3>1. slot'[r].ver = slot[r].ver
      BY <1>d, <2>3, Zenon
    <3>2. ~(removes /\ slot[r].task = k)
      BY <1>f, <2>1, <2>3, Zenon DEF Lives, s
    <3> QED  BY <1>a, <1>d, <1>g, <2>1, <3>1, <3>2, ZenonT(30) DEF Lives
  <2> QED  BY <2>2, <2>3, Zenon
<1>h. \A j \in 1 .. Len(tasks) : tasks[j].slot \in Slots
  <2>1. \A j \in 1 .. Len(tasks) : tasks[j] \in Task
    BY <1>b
  <2> QED  BY <2>1, Zenon DEF Task
<1>4. \A r \in Slots : (IF slot'[r].free THEN slot'[r].ver ELSE slot'[r].id) = Base(r)
  BY <1>d, <1>f, Zenon DEF Base
<1>5. Room'
  <2>1. \A r \in Slots : slot[r].free => slot'[r].ver = slot[r].ver
    BY <1>d, <1>f, Zenon
  <2> QED  BY <1>b, <1>d, <1>g, <2>1, Zenon DEF Room
<1>6. Past'
  <2> SUFFICES ASSUME NEW j \in 1 .. Len(tasks)
               PROVE  \/ ~slot'[tasks[j].slot].free /\ slot'[tasks[j].slot].task = j
                      \/ /\ Age(tasks[j].ver) + 2 <= Age(Base(tasks[j].slot))
                         /\ tasks'[j].state \in {"done", "removed"}
    <3>1. \A j \in 1 .. Len(tasks) :
              (IF slot'[tasks'[j].slot].free THEN slot'[tasks'[j].slot].ver ELSE slot'[tasks'[j].slot].id)
              = Base(tasks[j].slot)
      BY <1>4, <1>g, <1>h, Zenon
    <3>2. \A j \in 1 .. Len(tasks) : Base(tasks[j].slot)' = Base(tasks[j].slot)
      BY <3>1 DEF Base
    <3> QED  BY <1>g, <3>2, Zenon DEF Past
  <2>1. tasks[j].slot \in Slots
    BY <1>h, Zenon
  <2>2. CASE removes /\ j = k
    BY <1>d, <1>f, <2>1, <2>2, Zenon DEF s
  <2>3. CASE ~(removes /\ j = k)
    BY <1>b, <1>d, <1>g, <2>1, <2>3, Zenon DEF Past
  <2> QED  BY <2>2, <2>3, Zenon
<1>7. AnswersTrue'
  <2> SUFFICES ASSUME NEW j \in 1 .. Len(tasks)
               PROVE  /\ tasks'[j].told = 0 => tasks'[j].state = "removed"
                      /\ tasks'[j].told = 1 => tasks'[j].state \in {"running", "done"}
                      /\ tasks'[j].told = -1 => tasks'[j].state \in {"done", "removed"}
    BY <1>g, Zenon DEF AnswersTrue
  <2>1. CASE j = k
    BY <1>g, <2>1
  <2>2. CASE j # k
    BY <1>b, <1>g, <2>2, Zenon DEF AnswersTrue
  <2> QED  BY <2>1, <2>2, Zenon
<1>8. Covered'
  <2>1. \A u \in Threads : pc[u] = "announce" => cur[u] \in 1 .. Len(tasks)
    BY <1>b, Zenon DEF Callers
  <2>2. \A b \in Buckets : \A r \in bucket[b].tasks : r \in Slots
    BY <1>b DEF Typed, TypeOK
  <2>3. KeepsBuckets
    BY <1>a, <1>d, <1>g, <2>1, <2>2, Zenon DEF KeepsBuckets
  <2>4. nearest' <= nearest
    BY <1>a, <1>b DEF Typed, TypeOK, Never
  <2> QED  BY <1>1, <1>b, <2>3, <2>4, CoveredKept, Zenon
<1>9. Callers' /\ Sleeping'
  BY <1>a, <1>b, <1>g, Zenon DEF Callers, Sleeping
<1> QED  BY <1>1, <1>2, <1>3, <1>5, <1>6, <1>7, <1>8, <1>9, Zenon DEF IInv, Structures, Clocks

-----------------------------------------------------------------------------
(* The timer thread empties the buckets *)

LEMMA TimerClearStep ==
    ASSUME IInv, TimerClear
    PROVE  IInv'
<1> USE DEF IInv, Clocks
<1>a. /\ UNCHANGED <<now, slot, bucketOf, nsignals, stop, heap, pc, cur, stopper, tasks>>
      /\ timer.pc = "clear" /\ nearest' = Never /\ bucket' = Fenced /\ timer' = [timer EXCEPT !.pc = "pull"]
  BY Zenon DEF TimerClear
<1>b. timer \in TimerRecord /\ timer.i = 0
  BY <1>a, Zenon DEF Callers, Typed, TypeOK, TimerRecord
<1>c. /\ timer' \in TimerRecord /\ timer'.pc = "pull" /\ timer'.i = 0 /\ timer'.task = timer.task
  BY <1>a, <1>b DEF TimerRecord, TimerPC
<1>d. /\ bucket' \in [Buckets -> [tasks : SUBSET Slots, nearest : 0 .. Never, fence : {"none", "locked", "seen"}]]
      /\ \A b \in Buckets : /\ bucket'[b].tasks = bucket[b].tasks /\ bucket'[b].nearest = bucket[b].nearest
                            /\ bucket'[b].fence = "none" <=> bucket[b].fence = "none"
                            /\ bucket'[b].fence # "none" => bucket'[b].fence = "seen"
  <2>1. bucket \in [Buckets -> [tasks : SUBSET Slots, nearest : 0 .. Never, fence : {"none", "locked", "seen"}]]
    BY Zenon DEF Typed, TypeOK
  <2>2. ASSUME NEW b \in Buckets
        PROVE  /\ Fenced[b] \in [tasks : SUBSET Slots, nearest : 0 .. Never, fence : {"none", "locked", "seen"}]
               /\ Fenced[b].tasks = bucket[b].tasks /\ Fenced[b].nearest = bucket[b].nearest
               /\ Fenced[b].fence = "none" <=> bucket[b].fence = "none"
               /\ Fenced[b].fence # "none" => Fenced[b].fence = "seen"
    <3>1. bucket[b] \in [tasks : SUBSET Slots, nearest : 0 .. Never, fence : {"none", "locked", "seen"}]
      BY <2>1
    <3> DEFINE e == [bucket[b] EXCEPT !.fence = "seen"]
    <3>2. /\ e \in [tasks : SUBSET Slots, nearest : 0 .. Never, fence : {"none", "locked", "seen"}]
          /\ e.tasks = bucket[b].tasks /\ e.nearest = bucket[b].nearest /\ e.fence = "seen"
      BY <3>1
    <3>3. Fenced[b] = IF bucket[b].fence = "locked" THEN e ELSE bucket[b]
      BY Zenon DEF Fenced
    <3> HIDE DEF e
    <3>4. bucket[b].fence \in {"none", "locked", "seen"}
      BY <3>1
    <3> QED  BY <3>1, <3>2, <3>3, <3>4
  <2>3. Fenced = [b \in Buckets |-> Fenced[b]]
    BY Zenon DEF Fenced
  <2>4. Fenced \in [Buckets -> [tasks : SUBSET Slots, nearest : 0 .. Never, fence : {"none", "locked", "seen"}]]
    BY <2>2, <2>3
  <2> QED  BY <1>a, <2>2, <2>4, Zenon
<1>1. Typed'
  <2>1. Never \in 0 .. Never
    BY TimerAssumption DEF Never
  <2> QED  BY <1>a, <1>c, <1>d, <2>1, Zenon DEF Typed, TypeOK, TimerRecord
<1>2. Structures'
  <2>1. KeepsTasks
    BY <1>a, Zenon DEF KeepsTasks
  <2>2. KeepsStructures
    BY <1>a, <1>c, <1>d, <2>1 DEF KeepsStructures
  <2> QED  BY <2>2, StructuresKept, Zenon
<1>3. Covered'
  <2> SUFFICES ASSUME NEW b \in Buckets
               PROVE  /\ bucket[b].tasks = {} => bucket[b].nearest = Never
                      /\ \A s \in bucket[b].tasks : bucket[b].nearest <= slot[s].time
                      /\ bucket[b].tasks # {} =>
                            /\ bucket[b].fence = "none" => Untold(b)'
                            /\ Announcing(b, bucket[b].nearest)' \/ Pulling(b)'
    BY <1>a, <1>d, Zenon DEF Covered
  <2>1. Untold(b) => Untold(b)'
    BY <1>a, <1>d, Zenon DEF Untold
  <2>2. Untold(b)' => Announcing(b, bucket[b].nearest)'
    BY Zenon DEF Untold, Announcing
  <2>3. bucket[b].fence # "none" => Pulling(b)'
    <3>1. timer'.i <= b
      BY <1>c DEF Buckets
    <3> QED  BY <1>c, <1>d, <3>1, Zenon DEF Pulling
  <2> QED  BY <2>1, <2>2, <2>3, Zenon DEF Covered
<1>4. Callers' /\ Sleeping'
  BY <1>a, <1>c DEF Callers, Sleeping
<1> QED  BY <1>1, <1>2, <1>3, <1>4, Zenon

(* The structures in G go back to the pool: their tasks were removed or have run *)
Frees(G) ==
    /\ slot' = [s \in Slots |-> IF s \in G THEN Freed((slot[s].id + 2) % VerMod) ELSE slot[s]]
    /\ Len(tasks') = Len(tasks)
    /\ \A k \in 1 .. Len(tasks) :
          /\ tasks'[k].slot = tasks[k].slot /\ tasks'[k].ver = tasks[k].ver /\ tasks'[k].time = tasks[k].time
          /\ IF tasks[k].slot \in G THEN tasks'[k].state \in {"done", "removed"}
                                    ELSE tasks'[k].state = tasks[k].state
    /\ \A r \in Slots \ G :
          timer'.task = r /\ timer'.pc = "running" <=> timer.task = r /\ timer.pc = "running"

LEMMA Freeing ==
    ASSUME VersionsSuffice, Typed, Owners, Room, Past, NEW G \in SUBSET Slots,
           \A s \in G : ~slot[s].free, Frees(G)
    PROVE  slot' \in [Slots -> Slot] /\ Owners' /\ Room' /\ Past'
<1>a. /\ \A s \in G : slot'[s] = Freed((slot[s].id + 2) % VerMod)
      /\ \A s \in Slots \ G : slot'[s] = slot[s]
  BY Zenon DEF Frees
<1>b. \A s \in G : /\ slot'[s].free /\ slot'[s].ver = (slot[s].id + 2) % VerMod
                   /\ slot[s].id \in Versions /\ Age(slot[s].id) \in Nat
                   /\ Age(slot'[s].ver) = Age(slot[s].id) + 2
                   /\ Age(slot[s].id) + 2 <= 4 * Len(tasks)
  <2> TAKE s \in G
  <2>1. s \in Slots /\ ~slot[s].free
    BY Zenon
  <2>2. slot'[s].free /\ slot'[s].ver = (slot[s].id + 2) % VerMod
    <3>1. slot'[s] = Freed((slot[s].id + 2) % VerMod)
      BY <1>a, Zenon
    <3>2. Freed((slot[s].id + 2) % VerMod).free /\ Freed((slot[s].id + 2) % VerMod).ver = (slot[s].id + 2) % VerMod
      BY DEF Freed
    <3> QED  BY <3>1, <3>2, Zenon
  <2>3. /\ slot[s].id \in Versions /\ Age(slot[s].id) + 2 <= 4 * Len(tasks)
        /\ Age((slot[s].id + 2) % VerMod) = Age(slot[s].id) + 2
    BY <2>1, Ages, Zenon
  <2>4. Age(slot[s].id) \in Nat
    BY <2>3, NextVersion, Zenon
  <2> QED  BY <2>2, <2>3, <2>4, Zenon
<1>c. \A k \in 1 .. Len(tasks) : tasks[k].slot \in Slots
  <2>1. \A j \in 1 .. Len(tasks) : tasks[j] \in Task
    BY DEF Typed, TypeOK
  <2> QED  BY <2>1, Zenon DEF Task
<1>1. slot' \in [Slots -> Slot]
  <2>1. ASSUME NEW s \in G PROVE Freed((slot[s].id + 2) % VerMod) \in Slot
    <3>1. (slot[s].id + 2) % VerMod \in Versions /\ 0 \in Versions /\ 0 \in 0 .. MaxTime /\ 0 \in Nat
      <4>1. (slot[s].id + 2) % VerMod \in Versions
        BY <1>b, NextVersion, Zenon
      <4>2. 0 \in Versions /\ 0 \in 0 .. MaxTime /\ 0 \in Nat
        BY TimerAssumption DEF Versions
      <4> QED  BY <4>1, <4>2, Zenon
    <3> QED  BY <3>1 DEF Freed, Slot, Versions
  <2>2. slot \in [Slots -> Slot]
    BY Zenon DEF Typed, TypeOK
  <2> QED  BY <2>1, <2>2 DEF Frees
<1>2. Owners'
  <2> SUFFICES ASSUME NEW s \in Slots, ~slot'[s].free
               PROVE  Lives(s, slot[s].task)'
    BY Zenon DEF Owners
  <2>1. s \notin G /\ slot'[s] = slot[s]
    BY <1>a, <1>b, Zenon
  <2>2. Lives(s, slot[s].task) /\ slot[s].task \in 1 .. Len(tasks) /\ tasks[slot[s].task].slot = s
    BY <2>1, Zenon DEF Owners, Lives
  <2>3. timer'.task = s /\ timer'.pc = "running" <=> timer.task = s /\ timer.pc = "running"
    BY <2>1, Zenon DEF Frees
  <2>4. /\ tasks'[slot[s].task].slot = s /\ tasks'[slot[s].task].ver = tasks[slot[s].task].ver
        /\ tasks'[slot[s].task].time = tasks[slot[s].task].time
        /\ tasks'[slot[s].task].state = tasks[slot[s].task].state
        /\ Len(tasks') = Len(tasks)
    BY <2>1, <2>2, Zenon DEF Frees
  <2> QED  BY <2>1, <2>2, <2>3, <2>4, Zenon DEF Lives
<1>3. Room'
  <2> SUFFICES ASSUME NEW s \in Slots
               PROVE  IF slot'[s].free THEN Age(slot'[s].ver) <= 4 * Len(tasks)
                                       ELSE Age(slot'[s].id) + 2 <= 4 * Len(tasks)
    BY Zenon DEF Room, Frees
  <2>1. CASE s \in G
    BY <1>b, <2>1
  <2>2. CASE s \notin G
    BY <1>a, <2>2, Zenon DEF Room
  <2> QED  BY <2>1, <2>2, Zenon
<1>4. Past'
  <2> SUFFICES ASSUME NEW k \in 1 .. Len(tasks)
               PROVE  \/ ~slot'[tasks[k].slot].free /\ slot'[tasks[k].slot].task = k
                      \/ /\ Age(tasks[k].ver) + 2 <= Age(IF slot'[tasks[k].slot].free THEN slot'[tasks[k].slot].ver
                                                         ELSE slot'[tasks[k].slot].id)
                         /\ tasks'[k].state \in {"done", "removed"}
    BY Zenon DEF Past, Base, Frees
  <2> DEFINE s == tasks[k].slot
  <2>1. s \in Slots
    BY <1>c, Zenon
  <2>2. CASE s \notin G
    BY <1>a, <2>1, <2>2, Zenon DEF Past, Base, Frees
  <2>3. CASE s \in G
    <3>1. ~slot[s].free /\ tasks'[k].state \in {"done", "removed"}
      BY <2>3, Zenon DEF Frees
    <3>2. tasks[k].ver = slot[s].id \/ Age(tasks[k].ver) + 2 <= Age(slot[s].id)
      <4>1. CASE slot[s].task = k
        BY <2>1, <3>1, <4>1, Zenon DEF Owners, Lives
      <4>2. CASE slot[s].task # k
        BY <3>1, <4>2, Zenon DEF Past, Base
      <4> QED  BY <4>1, <4>2, Zenon
    <3>3. /\ slot'[s].free /\ Age(slot'[s].ver) = Age(slot[s].id) + 2 /\ Age(slot[s].id) \in Nat
      BY <1>b, <2>3, Zenon
    <3>4. Age(tasks[k].ver) \in Nat
      <4>1. tasks[k] \in Task
        BY DEF Typed, TypeOK
      <4>2. tasks[k].ver \in Versions
        BY <4>1, TimerAssumption DEF Task, Versions
      <4> QED  BY <4>2, NextVersion, Zenon
    <3>5. Age(tasks[k].ver) + 2 <= Age(slot'[s].ver)
      BY <3>2, <3>3, <3>4
    <3> QED  BY <3>1, <3>3, <3>5, Zenon
  <2> QED  BY <2>2, <2>3, Zenon
<1> QED  BY <1>1, <1>2, <1>3, <1>4, Zenon

(* Of the tasks in a structure that was unscheduled and is not being run all are over *)
LEMMA GoneIsOver ==
    ASSUME VersionsSuffice, Typed, Owners, Room, Past,
           NEW s \in Slots, ~slot[s].free, Unscheduled(s), ~(timer.task = s /\ timer.pc = "running")
    PROVE  /\ slot[s].ver = (slot[s].id + 2) % VerMod
           /\ \A k \in 1 .. Len(tasks) : tasks[k].slot = s => tasks[k].state \in {"done", "removed"}
<1>1. slot[s].ver = (slot[s].id + 2) % VerMod /\ tasks[slot[s].task].state = "removed"
  BY InUse, Zenon DEF Unscheduled
<1>2. ASSUME NEW k \in 1 .. Len(tasks), tasks[k].slot = s
      PROVE  tasks[k].state \in {"done", "removed"}
  <2>1. CASE slot[s].task = k
    BY <1>1, <2>1, Zenon
  <2>2. CASE slot[s].task # k
    BY <1>2, <2>2, Zenon DEF Past
  <2> QED  BY <2>1, <2>2, Zenon
<1> QED  BY <1>1, <1>2, Zenon

LEMMA TimerPullStep ==
    ASSUME VersionsSuffice, IInv, TimerPull
    PROVE  IInv'
<1> DEFINE i == timer.i
           G == {s \in bucket[i].tasks : Unscheduled(s)}
<1>a. /\ UNCHANGED <<now, bucketOf, nearest, nsignals, stop, pc, cur, stopper, tasks>> /\ timer.pc = "pull"
      /\ timer' = [timer EXCEPT !.i = (@ + 1) % NBuckets, !.pc = IF timer.i + 1 = NBuckets THEN "look" ELSE "pull"]
      /\ \/ /\ bucket' = [bucket EXCEPT ![i] = Empty]
            /\ slot' = [s \in Slots |-> IF s \in G THEN Freed(slot[s].ver) ELSE slot[s]]
            /\ heap' = heap \cup (bucket[i].tasks \ G)
         \/ bucket[i].fence # "seen" /\ UNCHANGED <<bucket, slot, heap>>
  BY Zenon DEF TimerPull
<1>b. /\ Typed /\ Places /\ Owners /\ Room /\ Past /\ AnswersTrue /\ Covered /\ Callers /\ Sleeping
      /\ timer \in TimerRecord /\ heap \in SUBSET Slots
      /\ bucket \in [Buckets -> [tasks : SUBSET Slots, nearest : 0 .. Never, fence : {"none", "locked", "seen"}]]
  BY Zenon DEF IInv, Structures, Clocks, Typed, TypeOK, TimerRecord
<1>c. i \in Buckets /\ (i + 1) % NBuckets \in Buckets
  <2>1. i \in Buckets
    BY <1>b DEF TimerRecord
  <2> QED  BY <2>1, NextBucket, Zenon
<1>d. /\ timer' \in TimerRecord /\ timer'.task = timer.task /\ timer'.i = (i + 1) % NBuckets
      /\ timer'.pc = IF i + 1 = NBuckets THEN "look" ELSE "pull"
  BY <1>a, <1>b, <1>c, Zenon DEF TimerRecord, TimerPC
<1>e. Callers'
  <2>1. timer'.pc # "pull" => timer'.i = 0
    BY <1>c, <1>d, NextBucket
  <2> QED  BY <1>a, <1>b, <2>1, Zenon DEF Callers
<1>f. timer'.pc \in {"look", "pull"}
  BY <1>d
<1>g. Sleeping'
  BY <1>f DEF Sleeping
<1>h. \A b \in Buckets : b # i /\ i <= b => timer'.pc = "pull" /\ timer'.i <= b
  BY <1>c, <1>d, NextBucket, TimerAssumption DEF Buckets
<1>i. bucket[i].tasks \in SUBSET Slots
  BY <1>b, <1>c
<1>j. timer.task \notin Slots
  BY <1>a, <1>b DEF Places
<1>k. \A b \in Buckets : \A s \in bucket[b].tasks : s \in Slots
  BY <1>b
<1> HIDE DEF G, i
<1>1. CASE bucket[i].fence # "seen" /\ UNCHANGED <<bucket, slot, heap>>
  <2>1. Typed'
    BY <1>1, <1>a, <1>b, <1>d, Zenon DEF Typed, TypeOK, TimerRecord
  <2>2. Structures'
    <3>1. KeepsTasks
      BY <1>a, Zenon DEF KeepsTasks
    <3>2. KeepsStructures
      BY <1>1, <1>a, <1>d, <1>f, <3>1 DEF KeepsStructures
    <3> QED  BY <1>b, <3>2, StructuresKept, Zenon DEF Structures
  <2>3. Covered'
    <3> SUFFICES ASSUME NEW b \in Buckets
                 PROVE  /\ Untold(b) => Untold(b)'
                        /\ Announcing(b, bucket[b].nearest) => Announcing(b, bucket[b].nearest)'
                        /\ Pulling(b) => Pulling(b)'
      BY <1>1, <1>a, <1>b, Zenon DEF Covered
    <3>1. Pulling(b) => Pulling(b)'
      BY <1>1, <1>h, Zenon DEF Pulling, i
    <3>2. /\ Untold(b) => Untold(b)'
          /\ Announcing(b, bucket[b].nearest) => Announcing(b, bucket[b].nearest)'
      BY <1>1, <1>a, Zenon DEF Untold, Announcing
    <3> QED  BY <3>1, <3>2, Zenon
  <2> QED  BY <1>e, <1>g, <2>1, <2>2, <2>3, Zenon DEF IInv, Clocks
<1>2. CASE /\ bucket' = [bucket EXCEPT ![i] = Empty]
           /\ slot' = [s \in Slots |-> IF s \in G THEN Freed(slot[s].ver) ELSE slot[s]]
           /\ heap' = heap \cup (bucket[i].tasks \ G)
  <2>1. /\ G \in SUBSET Slots /\ G \subseteq bucket[i].tasks
        /\ \A s \in G : s \in Slots /\ ~slot[s].free /\ Unscheduled(s) /\ timer.task # s
    BY <1>b, <1>c, <1>i, <1>j, Zenon DEF G, Places
  <2>2. /\ \A s \in G : slot[s].ver = (slot[s].id + 2) % VerMod
        /\ \A k \in 1 .. Len(tasks) : tasks[k].slot \in G => tasks[k].state \in {"done", "removed"}
    BY <1>b, <2>1, GoneIsOver, Zenon
  <2>3. Frees(G)
    <3>1. slot' = [s \in Slots |-> IF s \in G THEN Freed((slot[s].id + 2) % VerMod) ELSE slot[s]]
      BY <1>2, <2>2
    <3>2. \A r \in Slots \ G : timer'.task # r /\ timer.task # r
      BY <1>d, <1>j, Zenon
    <3> QED  BY <1>a, <2>2, <3>1, <3>2, Zenon DEF Frees
  <2>4. slot' \in [Slots -> Slot] /\ Owners' /\ Room' /\ Past'
    BY <1>b, <2>1, <2>3, Freeing, Zenon
  <2>5. /\ bucket' \in [Buckets -> [tasks : SUBSET Slots, nearest : 0 .. Never, fence : {"none", "locked", "seen"}]]
        /\ bucket'[i].tasks = {} /\ bucket'[i].nearest = Never
        /\ \A b \in Buckets : b # i => bucket'[b] = bucket[b]
    <3>1. Never \in 0 .. Never
      BY TimerAssumption DEF Never
    <3>2. /\ Empty \in [tasks : SUBSET Slots, nearest : 0 .. Never, fence : {"none", "locked", "seen"}]
          /\ Empty.tasks = {} /\ Empty.nearest = Never
      BY <3>1 DEF Empty
    <3> QED  BY <1>2, <1>b, <1>c, <3>2
  <2>6. /\ \A s \in G : slot'[s].free
        /\ \A s \in Slots : s \notin G => slot'[s] = slot[s]
    BY <1>2, <2>1 DEF Freed
  <2>7. heap' \in SUBSET Slots
    BY <1>2, <1>b, <1>i, Zenon
  <2>8. Typed'
    BY <1>a, <1>b, <1>d, <2>4, <2>5, <2>7, Zenon DEF Typed, TypeOK, TimerRecord
  <2>9. Places'
    <3>1. ASSUME NEW b \in Buckets, NEW s \in bucket'[b].tasks
          PROVE  /\ b # i /\ s \in bucket[b].tasks /\ s \in Slots /\ s \notin bucket[i].tasks /\ slot'[s] = slot[s]
                 /\ s \notin heap'
      <4>1. b # i /\ s \in bucket[b].tasks /\ s \in Slots
        BY <1>k, <2>5, Zenon
      <4>2. s \notin bucket[i].tasks /\ s \notin heap
        BY <1>b, <1>c, <4>1, Zenon DEF Places
      <4> QED  BY <1>2, <2>1, <2>6, <4>1, <4>2, Zenon
    <3>2. ASSUME NEW s \in heap' PROVE ~slot'[s].free /\ s \in Slots
      <4>1. s \notin G /\ s \in Slots /\ ~slot[s].free
        BY <1>2, <1>b, <1>c, <1>i, <2>1, <2>7, Zenon DEF Places
      <4> QED  BY <2>6, <4>1, Zenon
    <3>3. ASSUME NEW s \in Slots, ~slot'[s].free
          PROVE  s \in heap' \/ \E b \in Buckets : s \in bucket'[b].tasks
      <4>1. s \notin G /\ ~slot[s].free /\ timer.task # s
        BY <1>j, <2>6, <3>3, Zenon
      <4>2. s \in heap \/ \E b \in Buckets : s \in bucket[b].tasks
        BY <1>b, <4>1, Zenon DEF Places
      <4> QED  BY <1>2, <2>5, <4>1, <4>2, Zenon
    <3>4. timer'.task \notin Slots /\ timer'.pc \notin {"run", "running"}
      BY <1>d, <1>f, <1>j
    <3>5. \A b, c \in Buckets : \A s \in bucket'[b].tasks : s \in bucket'[c].tasks => b = c
      BY <1>b, <3>1, Zenon DEF Places
    <3>6. \A b \in Buckets : \A s \in bucket'[b].tasks : ~slot'[s].free /\ s \notin heap' /\ timer'.task # s
      <4> TAKE b \in Buckets
      <4> TAKE s \in bucket'[b].tasks
      <4>1. s \in bucket[b].tasks /\ s \in Slots /\ slot'[s] = slot[s] /\ s \notin heap'
        BY <3>1, Zenon
      <4>2. ~slot[s].free
        BY <1>b, <4>1, Zenon DEF Places
      <4>3. timer'.task # s
        BY <3>4, <4>1, Zenon
      <4> QED  BY <4>1, <4>2, <4>3, Zenon
    <3>7. \A s \in heap' : ~slot'[s].free /\ timer'.task # s
      BY <3>2, <3>4, Zenon
    <3> QED  BY <3>3, <3>4, <3>5, <3>6, <3>7, Zenon DEF Places
  <2>10. AnswersTrue'
    BY <1>a, <1>b, Zenon DEF AnswersTrue
  <2>11. Covered'
    <3> SUFFICES ASSUME NEW b \in Buckets
                 PROVE  /\ bucket'[b].tasks = {} => bucket'[b].nearest = Never
                        /\ \A s \in bucket'[b].tasks : bucket'[b].nearest <= slot'[s].time
                        /\ bucket'[b].tasks # {} =>
                              /\ bucket'[b].fence = "none" => Untold(b)'
                              /\ \/ Announcing(b, bucket[b].nearest)'
                                 \/ nearest' <= bucket'[b].nearest
                                 \/ Pulling(b)'
      BY Zenon DEF Covered
    <3>1. CASE b = i
      BY <2>5, <3>1, Zenon
    <3>2. CASE b # i
      <4>1. bucket'[b] = bucket[b] /\ \A s \in bucket[b].tasks : slot'[s] = slot[s]
        <5>1. bucket'[b] = bucket[b]
          BY <2>5, <3>2, Zenon
        <5>2. \A s \in bucket[b].tasks : s \in Slots /\ s \notin G
          BY <1>b, <1>c, <1>k, <2>1, <3>2, Zenon DEF Places
        <5> QED  BY <2>6, <5>1, <5>2, Zenon
      <4>2. Untold(b) => Untold(b)'
        BY <1>a, <4>1, Zenon DEF Untold
      <4>3. Announcing(b, bucket[b].nearest) => Announcing(b, bucket[b].nearest)'
        BY <1>a, <4>1, Zenon DEF Announcing
      <4>4. Pulling(b) => Pulling(b)'
        BY <1>h, <3>2, <4>1, Zenon DEF Pulling, i
      <4>5. nearest' = nearest
        BY <1>a
      <4> QED  BY <1>b, <4>1, <4>2, <4>3, <4>4, <4>5, Zenon DEF Covered
    <3> QED  BY <3>1, <3>2, Zenon
  <2> QED  BY <1>e, <1>g, <2>4, <2>8, <2>9, <2>10, <2>11, Zenon DEF IInv, Structures, Clocks
<1> QED  BY <1>1, <1>2, <1>a, Zenon

-----------------------------------------------------------------------------
(* The timer thread runs tasks *)

LEMMA TimerLookStep ==
    ASSUME IInv, TimerLook
    PROVE  IInv'
<1> USE DEF IInv, Clocks
<1>a. /\ UNCHANGED <<now, slot, bucket, bucketOf, nearest, nsignals, stop, pc, cur, stopper, tasks>>
      /\ timer.pc = "look"
      /\ \/ timer' = [timer EXCEPT !.pc = "prepare"] /\ heap' = heap
         \/ timer' = [timer EXCEPT !.pc = "check"] /\ heap' = heap
         \/ \E s \in heap : timer' = [timer EXCEPT !.pc = "run", !.task = s] /\ heap' = heap \ {s}
  BY Zenon DEF TimerLook, Earliest
<1>b. timer \in TimerRecord /\ heap \in SUBSET Slots /\ timer.i = 0
  BY <1>a, Zenon DEF Typed, TypeOK, TimerRecord, Callers
<1>c. KeepsTasks /\ nearest' <= nearest
  <2>1. KeepsTasks
    BY <1>a, Zenon DEF KeepsTasks
  <2>2. nearest \in 0 .. Never /\ nearest' = nearest
    BY <1>a, Zenon DEF Typed, TypeOK
  <2>3. nearest' <= nearest
    BY ONLY <2>2, TimerAssumption DEF Never
  <2> QED  BY <2>1, <2>3, Zenon
<1>1. ASSUME NEW p \in {"prepare", "check"}, timer' = [timer EXCEPT !.pc = p], heap' = heap
      PROVE  IInv'
  <2>1. timer' \in TimerRecord /\ timer'.pc = p /\ timer'.task = timer.task /\ timer'.i = timer.i
    BY <1>1, <1>b DEF TimerRecord, TimerPC
  <2>2. Typed'
    BY <1>1, <1>a, <2>1, Zenon DEF Typed, TypeOK, TimerRecord
  <2>3. KeepsStructures
    BY <1>1, <1>a, <1>c, <2>1, Zenon DEF KeepsStructures
  <2>4. KeepsBuckets
    BY <1>a, Zenon DEF KeepsBuckets
  <2>5. Callers' /\ Sleeping'
    BY <1>1, <1>a, <1>b, <2>1, Zenon DEF Callers, Sleeping
  <2> QED  BY <1>c, <2>2, <2>3, <2>4, <2>5, AllKept, Zenon
<1>2. ASSUME NEW s \in heap, timer' = [timer EXCEPT !.pc = "run", !.task = s], heap' = heap \ {s}
      PROVE  IInv'
  <2>1. s \in Slots
    BY <1>b, <1>2, Zenon
  <2>2. timer' \in TimerRecord /\ timer'.pc = "run" /\ timer'.task = s /\ timer'.i = timer.i
    BY <1>2, <1>b, <2>1, Zenon DEF TimerRecord, TimerPC
  <2>3. heap' \in SUBSET Slots /\ timer.task \notin Slots
    <3>1. timer.pc \notin {"run", "running"}
      BY <1>a, Zenon
    <3> QED  BY <1>2, <1>b, <3>1, Zenon DEF Structures, Places
  <2>4. Typed'
    BY <1>a, <2>2, <2>3, Zenon DEF Typed, TypeOK, TimerRecord
  <2>5. Places'
    <3>1. Places /\ s # timer.task
      BY <2>1, <2>3, Zenon DEF Structures
    <3>2. \A b \in Buckets : \A r \in bucket[b].tasks : ~slot[r].free /\ r \notin heap' /\ r # s
      BY <1>2, <3>1, Zenon DEF Places
    <3>3. \A r \in heap' : ~slot[r].free /\ r # s
      BY <1>2, <3>1, Zenon DEF Places
    <3>4. ~slot[s].free /\ timer'.pc \in {"run", "running"} /\ timer'.task \in Slots
      BY <1>2, <2>1, <2>2, <3>1 DEF Places
    <3>5. \A r \in Slots : ~slot[r].free => r \in heap' \/ r = s \/ \E b \in Buckets : r \in bucket[b].tasks
      BY <1>2, <2>3, <3>1, Zenon DEF Places
    <3>6. \A b, c \in Buckets : \A r \in bucket[b].tasks : r \in bucket[c].tasks => b = c
      BY <3>1, Zenon DEF Places
    <3> QED  BY <1>a, <2>2, <3>2, <3>3, <3>4, <3>5, <3>6, Zenon DEF Places
  <2>6. Owners'
    <3> SUFFICES ASSUME NEW r \in Slots, ~slot[r].free
                 PROVE  Lives(r, slot[r].task)'
      BY <1>a, Zenon DEF Owners
    <3>1. Lives(r, slot[r].task)
      BY Zenon DEF Structures, Owners
    <3>2. timer'.pc # "running" /\ timer.pc # "running"
      BY <1>a, <2>2, Zenon
    <3> QED  BY <1>a, <3>1, <3>2, Zenon DEF Lives
  <2>7. Room' /\ AnswersTrue' /\ Past'
    BY <1>a, Zenon DEF Structures, Room, AnswersTrue, Past, Base
  <2>8. Covered'
    <3>1. KeepsBuckets
      BY <1>a, Zenon DEF KeepsBuckets
    <3> QED  BY <1>c, <2>4, <3>1, CoveredKept, Zenon
  <2>9. Callers' /\ Sleeping'
    BY <1>a, <1>b, <2>2, Zenon DEF Callers, Sleeping
  <2> QED  BY <2>4, <2>5, <2>6, <2>7, <2>8, <2>9, Zenon DEF Structures
<1> QED  BY <1>1, <1>2, <1>a, Zenon

(* The timer thread is done with the structure it runs *)
LEMMA RunEnds ==
    ASSUME VersionsSuffice, IInv, NEW s \in Slots, timer.task = s, timer.pc \in {"run", "running"},
           timer' = [timer EXCEPT !.pc = "look", !.task = NoSlot],
           UNCHANGED <<now, bucket, bucketOf, nearest, nsignals, stop, heap, pc, cur, stopper>>,
           tasks' \in Seq(Task), Frees({s}), AnswersTrue'
    PROVE  IInv'
<1>a. /\ Typed /\ Places /\ Owners /\ Room /\ Past /\ AnswersTrue /\ Covered /\ Callers /\ Sleeping
      /\ timer \in TimerRecord
  BY Zenon DEF IInv, Structures, Clocks, Typed, TypeOK, TimerRecord
<1>b. /\ timer' \in TimerRecord /\ timer'.pc = "look" /\ timer'.task = NoSlot /\ timer'.i = timer.i
      /\ NoSlot \notin Slots
  BY <1>a, TimerAssumption, Zenon DEF TimerRecord, TimerPC
<1>c. timer.i = 0
  BY <1>a DEF Callers
<1>d. ~slot[s].free
  BY <1>a, Zenon DEF Places
<1>e. slot' \in [Slots -> Slot] /\ Owners' /\ Room' /\ Past'
  BY <1>a, <1>d, Freeing
<1>f. slot'[s].free /\ \A r \in Slots : r # s => slot'[r] = slot[r]
  BY DEF Frees, Freed
<1>g. \A b \in Buckets : \A r \in bucket[b].tasks : r \in Slots /\ r # s
  BY <1>a DEF Typed, TypeOK, Places
<1>h. \A r \in heap : r \in Slots /\ r # s
  BY <1>a DEF Typed, TypeOK, Places
<1>i. Len(tasks') = Len(tasks) /\ \A k \in 1 .. Len(tasks) :
          tasks'[k].slot = tasks[k].slot /\ tasks'[k].time = tasks[k].time
  BY Zenon DEF Frees
<1>1. Typed'
  BY <1>a, <1>b, <1>e, <1>i, Zenon DEF Typed, TypeOK, TimerRecord
<1>2. Places'
  <2>1. \A b, c \in Buckets : \A r \in bucket[b].tasks : r \in bucket[c].tasks => b = c
    BY <1>a, Zenon DEF Places
  <2>2. \A b \in Buckets : \A r \in bucket[b].tasks : ~slot'[r].free /\ r \notin heap /\ NoSlot # r
    <3> TAKE b \in Buckets
    <3> TAKE r \in bucket[b].tasks
    <3>1. r \in Slots /\ slot'[r] = slot[r]
      BY <1>f, <1>g, Zenon
    <3>2. ~slot[r].free /\ r \notin heap
      BY <1>a, Zenon DEF Places
    <3> QED  BY <1>b, <3>1, <3>2, Zenon
  <2>3. \A r \in heap : ~slot'[r].free /\ NoSlot # r
    BY <1>a, <1>b, <1>f, <1>h, Zenon DEF Places
  <2>4. \A r \in Slots : ~slot'[r].free => r \in heap \/ \E b \in Buckets : r \in bucket[b].tasks
    BY <1>a, <1>f, Zenon DEF Places
  <2>5. timer'.task \notin Slots /\ timer'.pc \notin {"run", "running"}
    BY <1>b
  <2>6. bucket' = bucket /\ heap' = heap /\ timer'.task = NoSlot
    BY <1>b
  <2> QED  BY <2>1, <2>2, <2>3, <2>4, <2>5, <2>6 DEF Places
<1>3. Covered'
  <2>1. \A t \in Threads : pc[t] = "announce" => cur[t] \in 1 .. Len(tasks)
    BY <1>a, Zenon DEF Callers
  <2>2. timer.pc # "pull"
    OBVIOUS
  <2>3. KeepsBuckets
    BY <1>f, <1>g, <1>i, <2>1, <2>2, Zenon DEF KeepsBuckets
  <2>4. nearest' <= nearest
    BY <1>a DEF Typed, TypeOK, Never
  <2> QED  BY <1>1, <1>a, <2>3, <2>4, CoveredKept, Zenon
<1>4. Callers' /\ Sleeping'
  BY <1>a, <1>b, <1>c, <1>i DEF Callers, Sleeping
<1> QED  BY <1>1, <1>2, <1>3, <1>4, <1>e, Zenon DEF IInv, Structures, Clocks

LEMMA TimerRunStep ==
    ASSUME VersionsSuffice, IInv, TimerRun
    PROVE  IInv'
<1> DEFINE s == timer.task
           k == slot[s].task
<1>a. /\ UNCHANGED <<now, bucket, bucketOf, nearest, nsignals, stop, heap, pc, cur, stopper>>
      /\ timer.pc = "run"
      /\ \/ /\ Unscheduled(s)
            /\ slot' = [slot EXCEPT ![s] = Freed(@.ver)]
            /\ timer' = [timer EXCEPT !.pc = "look", !.task = NoSlot]
            /\ tasks' = tasks
         \/ /\ ~Unscheduled(s)
            /\ slot' = [slot EXCEPT ![s].ver = (slot[s].id + 1) % VerMod]
            /\ tasks' = [tasks EXCEPT ![k].state = "running"]
            /\ timer' = [timer EXCEPT !.pc = "running"]
  BY Zenon DEF TimerRun
<1>b. /\ Typed /\ Places /\ Owners /\ Room /\ Past /\ AnswersTrue /\ Covered /\ Callers /\ Sleeping
      /\ timer \in TimerRecord /\ slot \in [Slots -> Slot] /\ tasks \in Seq(Task)
  BY Zenon DEF IInv, Structures, Clocks, Typed, TypeOK, TimerRecord
<1>c. s \in Slots /\ ~slot[s].free
  BY <1>a, <1>b DEF Places
<1>d. Lives(s, k) /\ k \in 1 .. Len(tasks) /\ tasks[k].slot = s
  BY <1>b, <1>c, Zenon DEF Owners, Lives
<1>e. /\ ~(timer.task = s /\ timer.pc = "running")
      /\ ~Unscheduled(s) <=> tasks[k].state = "scheduled"
  <2>1. ~(timer.task = s /\ timer.pc = "running")
    BY <1>a
  <2>2. slot[s].ver = slot[s].id <=> tasks[k].state = "scheduled"
    BY <1>b, <1>c, InUse, Zenon
  <2> QED  BY <2>1, <2>2, Zenon DEF Unscheduled
<1> HIDE DEF k
<1>1. CASE /\ Unscheduled(s)
           /\ slot' = [slot EXCEPT ![s] = Freed(@.ver)]
           /\ timer' = [timer EXCEPT !.pc = "look", !.task = NoSlot]
           /\ tasks' = tasks
  <2>1. /\ slot[s].ver = (slot[s].id + 2) % VerMod
        /\ \A j \in 1 .. Len(tasks) : tasks[j].slot = s => tasks[j].state \in {"done", "removed"}
    BY <1>1, <1>b, <1>c, <1>e, GoneIsOver, Zenon
  <2> HIDE DEF s
  <2>2. slot' = [r \in Slots |-> IF r \in {s} THEN Freed((slot[r].id + 2) % VerMod) ELSE slot[r]]
    BY <1>1, <1>b, <1>c, <2>1, Zenon
  <2>3. \A r \in Slots \ {s} :
            timer'.task = r /\ timer'.pc = "running" <=> timer.task = r /\ timer.pc = "running"
    BY <1>1, <1>a, <1>b DEF TimerRecord
  <2>4. Frees({s})
    BY <1>1, <2>1, <2>2, <2>3, Zenon DEF Frees
  <2>5. AnswersTrue'
    BY <1>1, <1>b, Zenon DEF AnswersTrue
  <2>6. timer.task = s /\ timer.pc \in {"run", "running"} /\ tasks' \in Seq(Task)
    BY <1>1, <1>a, <1>b DEF s
  <2> QED  BY <1>1, <1>a, <1>c, <2>4, <2>5, <2>6, RunEnds, Zenon
<1>2. CASE /\ ~Unscheduled(s)
           /\ slot' = [slot EXCEPT ![s].ver = (slot[s].id + 1) % VerMod]
           /\ tasks' = [tasks EXCEPT ![k].state = "running"]
           /\ timer' = [timer EXCEPT !.pc = "running"]
  <2>1. /\ timer' \in TimerRecord /\ timer'.pc = "running" /\ timer'.task = s /\ timer'.i = 0
    <3>1. timer.i = 0
      BY <1>a, <1>b DEF Callers
    <3> QED  BY <1>2, <1>b, <3>1 DEF TimerRecord, TimerPC
  <2>2. timer.task = s
    OBVIOUS
  <2> HIDE DEF s
  <2>3. /\ slot' \in [Slots -> Slot]
        /\ \A r \in Slots : /\ slot'[r].free = slot[r].free /\ slot'[r].task = slot[r].task
                            /\ slot'[r].id = slot[r].id /\ slot'[r].time = slot[r].time
                            /\ r # s => slot'[r] = slot[r]
        /\ slot'[s].ver = (slot[s].id + 1) % VerMod
    <3> DEFINE e == [slot[s] EXCEPT !.ver = (slot[s].id + 1) % VerMod]
    <3>1. slot[s] \in Slot
      BY <1>b, <1>c
    <3>2. slot[s].id \in Versions
      BY <3>1 DEF Slot, Versions
    <3>3. (slot[s].id + 1) % VerMod \in Versions
      BY <3>2, NextVersion, Zenon
    <3>4. /\ e \in Slot /\ e.free = slot[s].free /\ e.task = slot[s].task /\ e.id = slot[s].id
          /\ e.time = slot[s].time /\ e.ver = (slot[s].id + 1) % VerMod
      BY <3>1, <3>3 DEF Slot, Versions
    <3>5. slot' = [slot EXCEPT ![s] = e]
      BY <1>2
    <3> HIDE DEF e
    <3> QED  BY <1>b, <1>c, <3>4, <3>5
  <2>4. /\ tasks' \in Seq(Task) /\ Len(tasks') = Len(tasks)
        /\ \A j \in 1 .. Len(tasks) :
              /\ tasks'[j].slot = tasks[j].slot /\ tasks'[j].ver = tasks[j].ver /\ tasks'[j].time = tasks[j].time
              /\ tasks'[j].told = tasks[j].told
              /\ j # k => tasks'[j] = tasks[j]
        /\ tasks'[k].state = "running"
    <3> DEFINE e == [tasks[k] EXCEPT !.state = "running"]
    <3>1. tasks[k] \in Task
      BY <1>b, <1>d
    <3>2. /\ e \in Task /\ e.slot = tasks[k].slot /\ e.ver = tasks[k].ver /\ e.time = tasks[k].time
          /\ e.told = tasks[k].told /\ e.state = "running"
      BY <3>1 DEF Task
    <3>3. tasks' = [tasks EXCEPT ![k] = e]
      BY <1>2
    <3> HIDE DEF e
    <3>4. /\ tasks' \in Seq(Task) /\ Len(tasks') = Len(tasks) /\ tasks'[k] = e
          /\ \A j \in 1 .. Len(tasks) : j # k => tasks'[j] = tasks[j]
      BY <1>b, <1>d, <3>2, <3>3, TaskChanged, Zenon
    <3> QED  BY <3>2, <3>4, Zenon
  <2>5. Typed'
    BY <1>a, <1>b, <2>1, <2>3, <2>4, Zenon DEF Typed, TypeOK, TimerRecord
  <2>6. Places'
    <3>1. bucket' = bucket /\ heap' = heap /\ timer'.task = timer.task /\ timer'.task \in Slots
      BY <1>a, <1>c, <2>1, <2>2, Zenon
    <3>2. timer'.pc \in {"run", "running"}
      BY <2>1
    <3>3. \A b \in Buckets : \A r \in bucket[b].tasks : r \in Slots
      BY <1>b DEF Typed, TypeOK
    <3>4. \A r \in heap : r \in Slots
      BY <1>b DEF Typed, TypeOK
    <3> QED  BY <1>b, <2>3, <3>1, <3>2, <3>3, <3>4, Zenon DEF Places
  <2>7. Owners'
    <3> SUFFICES ASSUME NEW r \in Slots, ~slot[r].free
                 PROVE  Lives(r, slot[r].task)'
      BY <2>3, Zenon DEF Owners
    <3>1. Lives(r, slot[r].task) /\ slot[r].task \in 1 .. Len(tasks) /\ tasks[slot[r].task].slot = r
      BY <1>b, Zenon DEF Owners, Lives
    <3>2. CASE r = s
      <4>1. slot'[r].task = k
        BY <2>3, <3>2, Zenon DEF k
      <4>2. /\ k \in 1 .. Len(tasks') /\ tasks'[k].slot = r /\ tasks'[k].ver = slot'[r].id
            /\ tasks'[k].time = slot'[r].time
        BY <1>d, <2>3, <2>4, <3>2, Zenon DEF Lives
      <4>3. slot'[r].ver = (slot'[r].id + 1) % VerMod /\ tasks'[k].state = "running"
        BY <2>3, <2>4, <3>2, Zenon
      <4> QED  BY <2>1, <3>2, <4>1, <4>2, <4>3, Zenon DEF Lives
    <3>3. CASE r # s
      <4>1. slot[r].task # k
        BY <1>d, <3>1, <3>3, Zenon
      <4>2. timer'.task # r /\ timer.task # r
        BY <2>1, <2>2, <3>3, Zenon
      <4>3. slot'[r] = slot[r] /\ tasks'[slot[r].task] = tasks[slot[r].task] /\ Len(tasks') = Len(tasks)
        BY <2>3, <2>4, <3>1, <3>3, <4>1, Zenon
      <4> QED  BY <3>1, <4>2, <4>3, Zenon DEF Lives
    <3> QED  BY <3>2, <3>3, Zenon
  <2>8. Room'
    <3>1. \A r \in Slots : slot[r].free => slot'[r].ver = slot[r].ver
      BY <1>c, <2>3, Zenon
    <3> QED  BY <1>b, <2>3, <2>4, <3>1, Zenon DEF Room
  <2>9. Past'
    <3> SUFFICES ASSUME NEW j \in 1 .. Len(tasks)
                 PROVE  \/ ~slot'[tasks[j].slot].free /\ slot'[tasks[j].slot].task = j
                        \/ /\ Age(tasks[j].ver) + 2 <= Age(IF slot'[tasks[j].slot].free THEN slot'[tasks[j].slot].ver
                                                           ELSE slot'[tasks[j].slot].id)
                           /\ tasks'[j].state \in {"done", "removed"}
      BY <2>4 DEF Past, Base
    <3>1. tasks[j].slot \in Slots
      <4>1. tasks[j] \in Task
        BY <1>b
      <4> QED  BY <4>1, Zenon DEF Task
    <3>2. CASE j = k
      BY <1>c, <1>d, <2>3, <3>2, Zenon DEF k
    <3>3. CASE j # k
      <4>1. tasks'[j] = tasks[j]
        BY <2>4, <3>3, Zenon
      <4>2. slot[tasks[j].slot].free => slot'[tasks[j].slot].ver = slot[tasks[j].slot].ver
        BY <1>c, <2>3, <3>1, Zenon
      <4> QED  BY <1>b, <2>3, <3>1, <4>1, <4>2, Zenon DEF Past, Base
    <3> QED  BY <3>2, <3>3, Zenon
  <2>10. AnswersTrue'
    <3> SUFFICES ASSUME NEW j \in 1 .. Len(tasks)
                 PROVE  /\ tasks'[j].told = 0 => tasks'[j].state = "removed"
                        /\ tasks'[j].told = 1 => tasks'[j].state \in {"running", "done"}
                        /\ tasks'[j].told = -1 => tasks'[j].state \in {"done", "removed"}
      BY <2>4, Zenon DEF AnswersTrue
    <3>1. CASE j = k
      <4>1. tasks[k].state = "scheduled"
        BY <1>2, <1>e, Zenon DEF s
      <4> QED  BY <1>b, <1>d, <2>4, <3>1, <4>1 DEF AnswersTrue
    <3>2. CASE j # k
      BY <1>b, <2>4, <3>2, Zenon DEF AnswersTrue
    <3> QED  BY <3>1, <3>2, Zenon
  <2>11. Covered'
    <3>1. \A t \in Threads : pc[t] = "announce" => cur[t] \in 1 .. Len(tasks)
      BY <1>b, Zenon DEF Callers
    <3>2. \A b \in Buckets : \A r \in bucket[b].tasks : r \in Slots
      BY <1>b DEF Typed, TypeOK
    <3>3. timer.pc # "pull"
      BY <1>a
    <3>4. KeepsBuckets
      BY <1>a, <2>3, <2>4, <3>1, <3>2, <3>3, Zenon DEF KeepsBuckets
    <3>5. nearest' <= nearest
      BY <1>a, <1>b DEF Typed, TypeOK, Never
    <3> QED  BY <1>b, <2>5, <3>4, <3>5, CoveredKept, Zenon
  <2>12. Callers' /\ Sleeping'
    BY <1>a, <1>b, <2>1, <2>4 DEF Callers, Sleeping
  <2> QED  BY <2>5, <2>6, <2>7, <2>8, <2>9, <2>10, <2>11, <2>12, Zenon DEF IInv, Structures, Clocks
<1> QED  BY <1>1, <1>2, <1>a, Zenon

LEMMA TimerFinishStep ==
    ASSUME VersionsSuffice, IInv, TimerFinish
    PROVE  IInv'
<1> DEFINE s == timer.task
           k == slot[s].task
<1>a. /\ UNCHANGED <<now, bucket, bucketOf, nearest, nsignals, stop, heap, pc, cur, stopper>>
      /\ timer.pc = "running"
      /\ slot' = [slot EXCEPT ![s] = Freed((@.id + 2) % VerMod)]
      /\ tasks' = [tasks EXCEPT ![k].state = "done"]
      /\ timer' = [timer EXCEPT !.pc = "look", !.task = NoSlot]
  BY Zenon DEF TimerFinish
<1>b. /\ Typed /\ Places /\ Owners /\ Room /\ Past /\ AnswersTrue
      /\ timer \in TimerRecord /\ slot \in [Slots -> Slot] /\ tasks \in Seq(Task)
  BY Zenon DEF IInv, Structures, Typed, TypeOK, TimerRecord
<1>c. s \in Slots /\ ~slot[s].free
  BY <1>a, <1>b DEF Places
<1>d. Lives(s, k) /\ k \in 1 .. Len(tasks) /\ tasks[k].slot = s
  BY <1>b, <1>c, Zenon DEF Owners, Lives
<1>e. tasks[k].state = "running" /\ timer.task = s
  BY <1>a, <1>d, Zenon DEF Lives
<1> HIDE DEF k, s
<1>1. /\ tasks' \in Seq(Task) /\ Len(tasks') = Len(tasks)
      /\ \A j \in 1 .. Len(tasks) :
            /\ tasks'[j].slot = tasks[j].slot /\ tasks'[j].ver = tasks[j].ver /\ tasks'[j].time = tasks[j].time
            /\ tasks'[j].told = tasks[j].told
            /\ j # k => tasks'[j] = tasks[j]
      /\ tasks'[k].state = "done"
  <2> DEFINE e == [tasks[k] EXCEPT !.state = "done"]
  <2>1. tasks[k] \in Task
    BY <1>b, <1>d
  <2>2. /\ e \in Task /\ e.slot = tasks[k].slot /\ e.ver = tasks[k].ver /\ e.time = tasks[k].time
        /\ e.told = tasks[k].told /\ e.state = "done"
    BY <2>1 DEF Task
  <2>3. tasks' = [tasks EXCEPT ![k] = e]
    BY <1>a
  <2> HIDE DEF e
  <2>4. /\ tasks' \in Seq(Task) /\ Len(tasks') = Len(tasks) /\ tasks'[k] = e
        /\ \A j \in 1 .. Len(tasks) : j # k => tasks'[j] = tasks[j]
    BY <1>b, <1>d, <2>2, <2>3, TaskChanged, Zenon
  <2> QED  BY <2>2, <2>4, Zenon
<1>2. Frees({s})
  <2>1. slot' = [r \in Slots |-> IF r \in {s} THEN Freed((slot[r].id + 2) % VerMod) ELSE slot[r]]
    BY <1>a, <1>b, <1>c, Zenon
  <2>2. \A r \in Slots \ {s} :
            timer'.task = r /\ timer'.pc = "running" <=> timer.task = r /\ timer.pc = "running"
    <3>1. timer'.pc = "look"
      BY <1>a, <1>b DEF TimerRecord
    <3> QED  BY <1>e, <3>1
  <2>3. \A j \in 1 .. Len(tasks) :
            IF tasks[j].slot \in {s} THEN tasks'[j].state \in {"done", "removed"}
                                     ELSE tasks'[j].state = tasks[j].state
    <3> TAKE j \in 1 .. Len(tasks)
    <3>1. CASE j = k
      BY <1>1, <1>d, <3>1, Zenon
    <3>2. CASE j # k
      <4>1. tasks[j].slot = s => tasks[j].state \in {"done", "removed"}
        BY <1>b, <3>2, Zenon DEF Past, k
      <4> QED  BY <1>1, <3>2, <4>1, Zenon
    <3> QED  BY <3>1, <3>2, Zenon
  <2> QED  BY <1>1, <2>1, <2>2, <2>3, Zenon DEF Frees
<1>3. AnswersTrue'
  <2> SUFFICES ASSUME NEW j \in 1 .. Len(tasks)
               PROVE  /\ tasks'[j].told = 0 => tasks'[j].state = "removed"
                      /\ tasks'[j].told = 1 => tasks'[j].state \in {"running", "done"}
                      /\ tasks'[j].told = -1 => tasks'[j].state \in {"done", "removed"}
    BY <1>1, Zenon DEF AnswersTrue
  <2>1. CASE j = k
    BY <1>1, <1>b, <1>d, <1>e, <2>1 DEF AnswersTrue
  <2>2. CASE j # k
    BY <1>1, <1>b, <2>2, Zenon DEF AnswersTrue
  <2> QED  BY <2>1, <2>2, Zenon
<1>4. timer.pc \in {"run", "running"} /\ timer.task = s
  BY <1>a, <1>e
<1> QED  BY <1>1, <1>2, <1>3, <1>4, <1>a, <1>c, RunEnds, Zenon

-----------------------------------------------------------------------------
(* schedule() puts a task into a bucket *)

LEMMA BucketScheduleStep ==
    ASSUME VersionsSuffice, IInv, NEW t \in Threads, BucketSchedule(t)
    PROVE  IInv'
<1> DEFINE b == bucketOf[t]
           n == Len(tasks) + 1
<1>a. /\ UNCHANGED <<now, bucketOf, nearest, nsignals, stop, heap, timer, stopper>>
      /\ pc[t] = "push" /\ Len(tasks) < MaxTasks
  BY Zenon DEF BucketSchedule
<1>b. /\ Typed /\ Places /\ Owners /\ Room /\ Past /\ AnswersTrue /\ Covered /\ Callers /\ Sleeping
      /\ slot \in [Slots -> Slot] /\ tasks \in Seq(Task)
      /\ bucket \in [Buckets -> [tasks : SUBSET Slots, nearest : 0 .. Never, fence : {"none", "locked", "seen"}]]
      /\ pc \in [Threads -> {"idle", "push", "announce", "wake"}] /\ cur \in [Threads -> 0 .. MaxTasks]
      /\ b \in Buckets
  BY Zenon DEF IInv, Structures, Clocks, Typed, TypeOK
<1>c. n \in 1 .. MaxTasks /\ n \in Nat /\ Len(tasks) \in Nat
  BY <1>a, <1>b, TimerAssumption
<1>d. PICK s \in Slots, time \in Times :
         /\ slot[s].free
         /\ slot' = [slot EXCEPT ![s] = [ver |-> UsedVersion(slot[s].ver), time |-> time,
                                         id |-> UsedVersion(slot[s].ver), free |-> FALSE, task |-> n]]
         /\ bucket' = [bucket EXCEPT ![b].tasks = @ \cup {s},
                                     ![b].nearest = IF time < bucket[b].nearest THEN time ELSE @]
         /\ pc' = [pc EXCEPT ![t] = IF time < bucket[b].nearest THEN "announce" ELSE "idle"]
         /\ cur' = [cur EXCEPT ![t] = IF time < bucket[b].nearest THEN n ELSE 0]
         /\ tasks' = Append(tasks, [slot |-> s, ver |-> UsedVersion(slot[s].ver), time |-> time,
                                    returned |-> ~(time < bucket[b].nearest),
                                    state |-> "scheduled", told |-> NotAsked])
  BY Zenon DEF BucketSchedule
<1> DEFINE v == UsedVersion(slot[s].ver)
           earlier == time < bucket[b].nearest
<1>e. /\ v \in 1 .. VerMod - 1 /\ v \in Versions /\ Age(v) \in Nat
      /\ Age(slot[s].ver) \in Nat
      /\ Age(slot[s].ver) <= Age(v) /\ Age(v) + 2 <= 4 * n
  <2>1. /\ slot[s].ver \in Versions /\ Age(slot[s].ver) + 2 < VerMod /\ Age(slot[s].ver) \in Nat
        /\ Age(slot[s].ver) <= 4 * Len(tasks)
    BY <1>b, <1>d, Ages, Zenon DEF Base
  <2>2. v \in 1 .. VerMod - 1 /\ Age(slot[s].ver) <= Age(v) /\ Age(v) <= Age(slot[s].ver) + 2
    BY <2>1, NewVersion, Zenon
  <2>3. v \in Versions
    BY <2>2, TimerAssumption DEF Versions
  <2>4. Age(v) \in Nat
    BY <2>3, NextVersion, Zenon
  <2> HIDE DEF v
  <2> QED  BY <1>c, <2>1, <2>2, <2>3, <2>4
<1>f. time \in Nat /\ time > 0 /\ time <= MaxTime /\ time < Never /\ bucket[b].nearest \in 0 .. Never
  BY <1>b, TimerAssumption DEF Times, Never
<1> HIDE DEF v, b
<1>g. /\ slot' \in [Slots -> Slot]
      /\ slot'[s].ver = v /\ slot'[s].id = v /\ slot'[s].time = time /\ ~slot'[s].free /\ slot'[s].task = n
      /\ \A r \in Slots : r # s => slot'[r] = slot[r]
  <2> DEFINE e == [ver |-> v, time |-> time, id |-> v, free |-> FALSE, task |-> n]
  <2>1. /\ e \in Slot /\ e.ver = v /\ e.id = v /\ e.time = time /\ ~e.free /\ e.task = n
    <3>1. time \in 0 .. MaxTime /\ v \in 0 .. VerMod - 1 /\ n \in Nat
      BY <1>c, <1>e, <1>f DEF Versions, Times
    <3> HIDE DEF n
    <3> QED  BY <3>1 DEF Slot
  <2>2. slot' = [slot EXCEPT ![s] = e]
    BY <1>d DEF v, b
  <2> HIDE DEF e, n
  <2> QED  BY <1>b, <2>1, <2>2
<1>h. /\ tasks' \in Seq(Task) /\ Len(tasks') = n
      /\ tasks'[n].slot = s /\ tasks'[n].ver = v /\ tasks'[n].time = time
      /\ tasks'[n].state = "scheduled" /\ tasks'[n].told = -2
      /\ \A j \in 1 .. Len(tasks) : tasks'[j] = tasks[j]
  <2> DEFINE e == [slot |-> s, ver |-> v, time |-> time, returned |-> ~earlier, state |-> "scheduled",
                   told |-> NotAsked]
  <2>1. /\ e \in Task /\ e.slot = s /\ e.ver = v /\ e.time = time /\ e.state = "scheduled" /\ e.told = -2
    <3>1. NotAsked \in Answers /\ NotAsked = -2 /\ (~earlier) \in BOOLEAN
      BY DEF Answers, NotAsked
    <3> HIDE DEF earlier
    <3> QED  BY <1>e, <3>1 DEF Task
  <2>2. tasks' = Append(tasks, e)
    BY <1>d, Zenon DEF v, b
  <2> HIDE DEF e
  <2> QED  BY <1>b, <2>1, <2>2, TaskAdded, Zenon
<1>i. /\ bucket' \in [Buckets -> [tasks : SUBSET Slots, nearest : 0 .. Never, fence : {"none", "locked", "seen"}]]
      /\ bucket'[b].tasks = bucket[b].tasks \cup {s} /\ bucket'[b].fence = bucket[b].fence
      /\ bucket'[b].nearest = IF earlier THEN time ELSE bucket[b].nearest
      /\ \A c \in Buckets : c # b => bucket'[c] = bucket[c]
  <2> DEFINE m == IF earlier THEN time ELSE bucket[b].nearest
             e == [bucket[b] EXCEPT !.tasks = @ \cup {s}, !.nearest = m]
  <2>1. bucket[b] \in [tasks : SUBSET Slots, nearest : 0 .. Never, fence : {"none", "locked", "seen"}]
    BY <1>b DEF b
  <2>2. m \in 0 .. Never
    BY <1>f, TimerAssumption DEF Never
  <2>3. bucket' = [bucket EXCEPT ![b] = e]
    BY <1>d, <2>1, Zenon DEF b
  <2> HIDE DEF m
  <2>4. /\ e \in [tasks : SUBSET Slots, nearest : 0 .. Never, fence : {"none", "locked", "seen"}]
        /\ e.tasks = bucket[b].tasks \cup {s} /\ e.fence = bucket[b].fence /\ e.nearest = m
    BY <2>1, <2>2, Zenon
  <2> HIDE DEF e
  <2>5. b \in Buckets
    BY <1>b DEF b
  <2>6. /\ bucket' \in [Buckets -> [tasks : SUBSET Slots, nearest : 0 .. Never, fence : {"none", "locked", "seen"}]]
        /\ bucket'[b] = e /\ \A c \in Buckets : c # b => bucket'[c] = bucket[c]
    BY <1>b, <2>3, <2>4, <2>5
  <2> QED  BY <2>4, <2>6, Zenon DEF m
<1>j. /\ pc' \in [Threads -> {"idle", "push", "announce", "wake"}] /\ cur' \in [Threads -> 0 .. MaxTasks]
      /\ earlier => pc'[t] = "announce" /\ cur'[t] = n
      /\ ~earlier => pc'[t] = "idle"
      /\ \A u \in Threads : u # t => pc'[u] = pc[u] /\ cur'[u] = cur[u]
  <2>1. 0 \in 0 .. MaxTasks /\ n \in 0 .. MaxTasks
    BY <1>c, TimerAssumption
  <2>2. /\ pc' = [pc EXCEPT ![t] = IF earlier THEN "announce" ELSE "idle"]
        /\ cur' = [cur EXCEPT ![t] = IF earlier THEN n ELSE 0]
    BY <1>d, Zenon DEF b
  <2> HIDE DEF earlier, n
  <2> QED  BY <1>b, <2>1, <2>2
<1>k. s \notin heap /\ timer.task # s /\ \A c \in Buckets : s \notin bucket[c].tasks
  BY <1>b, <1>d, Zenon DEF Places
<1>l. \A c \in Buckets : \A r \in bucket[c].tasks : r \in Slots /\ r # s
  BY <1>b, <1>k
<1>m. b \in Buckets
  BY <1>b DEF b
<1>n. \A j \in 1 .. n : j \in 1 .. Len(tasks) \/ j = n
  BY <1>c
<1>o. n \in 1 .. n /\ \A j \in 1 .. Len(tasks) : j \in 1 .. n
  BY <1>c
<1>1. Typed'
  <2>1. Len(tasks') <= MaxTasks
    BY <1>c, <1>h
  <2> QED  BY <1>a, <1>b, <1>g, <1>h, <1>i, <1>j, <2>1, Zenon DEF Typed, TypeOK
<1> HIDE DEF n, earlier
<1>2. Places'
  <2>1. ASSUME NEW c \in Buckets, NEW r \in bucket'[c].tasks
        PROVE  /\ r = s => c = b
               /\ r # s => r \in bucket[c].tasks /\ r \in Slots /\ slot'[r] = slot[r]
    <3>1. r = s => c = b
      BY <1>i, <1>k, Zenon
    <3>2. r # s => r \in bucket[c].tasks
      BY <1>i, Zenon
    <3> QED  BY <1>g, <1>l, <3>1, <3>2, Zenon
  <2>2. \A c \in Buckets : \A r \in bucket[c].tasks : r \in bucket'[c].tasks
    BY <1>i, Zenon
  <2>3. \A c, d \in Buckets : \A r \in bucket'[c].tasks : r \in bucket'[d].tasks => c = d
    <3> SUFFICES ASSUME NEW c \in Buckets, NEW d \in Buckets,
                        NEW r \in bucket'[c].tasks, r \in bucket'[d].tasks
                 PROVE  c = d
      BY Zenon
    <3>1. CASE r = s
      BY <2>1, <3>1, Zenon
    <3>2. CASE r # s
      <4>1. r \in bucket[c].tasks /\ r \in bucket[d].tasks
        BY <2>1, <3>2, Zenon
      <4> QED  BY <1>b, <4>1, Zenon DEF Places
    <3> QED  BY <3>1, <3>2, Zenon
  <2>4. \A c \in Buckets : \A r \in bucket'[c].tasks : ~slot'[r].free /\ r \notin heap /\ timer.task # r
    <3> TAKE c \in Buckets
    <3> TAKE r \in bucket'[c].tasks
    <3>1. CASE r = s
      BY <1>g, <1>k, <3>1, Zenon
    <3>2. CASE r # s
      <4>1. r \in bucket[c].tasks /\ slot'[r] = slot[r]
        BY <2>1, <3>2, Zenon
      <4>2. ~slot[r].free /\ r \notin heap /\ timer.task # r
        BY <1>b, <4>1, Zenon DEF Places
      <4> QED  BY <4>1, <4>2, Zenon
    <3> QED  BY <3>1, <3>2, Zenon
  <2>5. \A r \in heap : ~slot'[r].free /\ timer.task # r
    <3>1. heap \in SUBSET Slots
      BY <1>b, Zenon DEF Typed, TypeOK
    <3> QED  BY <1>b, <1>g, <1>k, <3>1, Zenon DEF Places
  <2>6. timer.task \in Slots => ~slot'[timer.task].free
    BY <1>b, <1>g, <1>k, Zenon DEF Places
  <2>7. \A r \in Slots : ~slot'[r].free =>
            r \in heap \/ timer.task = r \/ \E c \in Buckets : r \in bucket'[c].tasks
    <3> TAKE r \in Slots
    <3>1. CASE r = s
      BY <1>i, <1>m, <3>1, Zenon
    <3>2. CASE r # s
      BY <1>b, <1>g, <2>2, <3>2, Zenon DEF Places
    <3> QED  BY <3>1, <3>2, Zenon
  <2>8. timer.task \in Slots <=> timer.pc \in {"run", "running"}
    BY <1>b, Zenon DEF Places
  <2>9. heap' = heap /\ timer' = timer
    BY <1>a
  <2> QED  BY <2>3, <2>4, <2>5, <2>6, <2>7, <2>8, <2>9, Zenon DEF Places
<1>3. Owners'
  <2> SUFFICES ASSUME NEW r \in Slots, ~slot'[r].free
               PROVE  Lives(r, slot[r].task)'
    BY Zenon DEF Owners
  <2>1. CASE r = s
    <3>1. timer'.task # r
      BY <1>a, <1>k, <2>1, Zenon
    <3> QED  BY <1>g, <1>h, <1>o, <2>1, <3>1, Zenon DEF Lives
  <2>2. CASE r # s
    <3>1. slot'[r] = slot[r] /\ timer' = timer
      BY <1>a, <1>g, <2>2, Zenon
    <3>2. Lives(r, slot[r].task) /\ slot[r].task \in 1 .. Len(tasks)
      BY <1>b, <3>1, Zenon DEF Owners, Lives
    <3>3. tasks'[slot[r].task] = tasks[slot[r].task] /\ slot[r].task \in 1 .. Len(tasks')
      BY <1>h, <1>o, <3>2, Zenon
    <3> QED  BY <3>1, <3>2, <3>3, Zenon DEF Lives
  <2> QED  BY <2>1, <2>2, Zenon
<1>4. Room'
  <2> SUFFICES ASSUME NEW r \in Slots
               PROVE  IF slot'[r].free THEN Age(slot'[r].ver) <= 4 * n ELSE Age(slot'[r].id) + 2 <= 4 * n
    BY <1>h, Zenon DEF Room
  <2>1. CASE r = s
    BY <1>e, <1>g, <2>1, Zenon
  <2>2. CASE r # s
    <3>1. slot'[r] = slot[r] /\ slot[r].ver \in Versions /\ slot[r].id \in Versions
      BY <1>b, <1>g, <2>2, Ages, Zenon
    <3>2. Age(slot[r].ver) \in Nat /\ Age(slot[r].id) \in Nat
      BY <3>1, NextVersion, Zenon
    <3>3. IF slot[r].free THEN Age(slot[r].ver) <= 4 * Len(tasks) ELSE Age(slot[r].id) + 2 <= 4 * Len(tasks)
      BY <1>b, Zenon DEF Room
    <3> QED  BY <1>c, <3>1, <3>2, <3>3 DEF n
  <2> QED  BY <2>1, <2>2, Zenon
<1>5. Past'
  <2> SUFFICES ASSUME NEW j \in 1 .. n
               PROVE  \/ ~slot'[tasks'[j].slot].free /\ slot'[tasks'[j].slot].task = j
                      \/ /\ Age(tasks'[j].ver) + 2 <= Age(IF slot'[tasks'[j].slot].free THEN slot'[tasks'[j].slot].ver
                                                          ELSE slot'[tasks'[j].slot].id)
                         /\ tasks'[j].state \in {"done", "removed"}
    BY <1>h DEF Past, Base
  <2>1. CASE j = n
    BY <1>g, <1>h, <2>1, Zenon
  <2>2. CASE j \in 1 .. Len(tasks)
    <3>1. tasks'[j] = tasks[j] /\ tasks[j] \in Task
      BY <1>b, <1>h, <2>2
    <3>2. tasks[j].slot \in Slots /\ tasks[j].ver \in Versions
      BY <3>1, TimerAssumption DEF Task, Versions
    <3>3. CASE tasks[j].slot = s
      <4>1. Age(tasks[j].ver) + 2 <= Age(slot[s].ver) /\ tasks[j].state \in {"done", "removed"}
        BY <1>b, <1>d, <2>2, <3>3, Zenon DEF Past, Base
      <4>2. Age(tasks[j].ver) \in Nat
        BY <3>2, NextVersion, Zenon
      <4>3. Age(tasks[j].ver) + 2 <= Age(v)
        BY <1>e, <4>1, <4>2
      <4> QED  BY <1>g, <3>1, <3>3, <4>1, <4>3, Zenon
    <3>4. CASE tasks[j].slot # s
      <4>1. slot'[tasks[j].slot] = slot[tasks[j].slot]
        BY <1>g, <3>2, <3>4, Zenon
      <4> QED  BY <1>b, <2>2, <3>1, <4>1, Zenon DEF Past, Base
    <3> QED  BY <3>3, <3>4, Zenon
  <2> QED  BY <1>n, <2>1, <2>2, Zenon
<1>6. AnswersTrue'
  <2> SUFFICES ASSUME NEW j \in 1 .. n
               PROVE  /\ tasks'[j].told = 0 => tasks'[j].state = "removed"
                      /\ tasks'[j].told = 1 => tasks'[j].state \in {"running", "done"}
                      /\ tasks'[j].told = -1 => tasks'[j].state \in {"done", "removed"}
    BY <1>h, Zenon DEF AnswersTrue
  <2>1. CASE j = n
    BY <1>h, <2>1
  <2>2. CASE j \in 1 .. Len(tasks)
    BY <1>b, <1>h, <2>2, Zenon DEF AnswersTrue
  <2> QED  BY <1>n, <2>1, <2>2, Zenon
<1>7. Covered'
  <2> SUFFICES ASSUME NEW c \in Buckets
               PROVE  /\ bucket'[c].tasks = {} => bucket'[c].nearest = Never
                      /\ \A r \in bucket'[c].tasks : bucket'[c].nearest <= slot'[r].time
                      /\ bucket'[c].tasks # {} =>
                            /\ bucket'[c].fence = "none" => Untold(c)'
                            /\ \/ Announcing(c, bucket[c].nearest)'
                               \/ nearest' <= bucket'[c].nearest
                               \/ Pulling(c)'
    BY Zenon DEF Covered
  <2>1. \A u \in Threads : pc[u] = "announce" =>
            /\ u # t /\ pc'[u] = "announce" /\ cur'[u] = cur[u] /\ bucketOf'[u] = bucketOf[u]
            /\ tasks'[cur[u]] = tasks[cur[u]]
    <3> TAKE u \in Threads
    <3>1. pc[u] = "announce" => u # t /\ cur[u] \in 1 .. Len(tasks)
      BY <1>a, <1>b, Zenon DEF Callers
    <3> QED  BY <1>a, <1>h, <1>j, <3>1, Zenon
  <2>2. ASSUME bucket'[c].nearest = bucket[c].nearest, bucket'[c].fence = bucket[c].fence,
               bucket[c].tasks \subseteq bucket'[c].tasks
        PROVE  /\ Untold(c) => Untold(c)'
               /\ Announcing(c, bucket[c].nearest) => Announcing(c, bucket[c].nearest)'
               /\ Pulling(c) => Pulling(c)'
               /\ nearest <= bucket[c].nearest => nearest' <= bucket'[c].nearest
    <3>1. ASSUME Untold(c) PROVE Untold(c)'
      <4>1. PICK u \in Threads :
                /\ pc[u] = "announce" /\ bucketOf[u] = c /\ tasks[cur[u]].time <= bucket[c].nearest
                /\ tasks[cur[u]].slot \in bucket[c].tasks /\ slot[tasks[cur[u]].slot].task = cur[u]
        BY <3>1, Zenon DEF Untold
      <4>2. slot'[tasks[cur[u]].slot] = slot[tasks[cur[u]].slot]
        BY <1>g, <1>l, <4>1, Zenon
      <4>3. /\ pc'[u] = "announce" /\ bucketOf'[u] = c /\ tasks'[cur'[u]].time <= bucket'[c].nearest
            /\ tasks'[cur'[u]].slot \in bucket'[c].tasks /\ slot'[tasks'[cur'[u]].slot].task = cur'[u]
        BY <2>1, <2>2, <4>1, <4>2
      <4> QED  BY <4>3, Zenon DEF Untold
    <3>2. Announcing(c, bucket[c].nearest) => Announcing(c, bucket[c].nearest)'
      BY <2>1, <2>2, Zenon DEF Announcing
    <3>3. Pulling(c) => Pulling(c)'
      BY <1>a, <2>2, Zenon DEF Pulling
    <3>4. nearest <= bucket[c].nearest => nearest' <= bucket'[c].nearest
      BY <1>a, <2>2
    <3> QED  BY <3>1, <3>2, <3>3, <3>4, Zenon
  <2>3. CASE c # b
    <3>1. bucket'[c] = bucket[c] /\ \A r \in bucket[c].tasks : slot'[r] = slot[r]
      BY <1>g, <1>i, <1>l, <2>3, Zenon
    <3> QED  BY <1>b, <2>2, <3>1, Zenon DEF Covered
  <2>4. CASE c = b /\ ~earlier
    <3>1. /\ bucket'[c].nearest = bucket[c].nearest /\ bucket'[c].fence = bucket[c].fence
          /\ bucket'[c].tasks = bucket[c].tasks \cup {s} /\ bucket[c].nearest <= time
      <4>1. bucket[b].nearest <= time
        BY <1>f, <2>4 DEF earlier, Never
      <4> QED  BY <1>i, <2>4, <4>1, Zenon
    <3>2. bucket[c].tasks # {}
      <4>1. bucket[c].nearest # Never
        BY <1>f, <2>4, <3>1 DEF Never
      <4> QED  BY <1>b, <4>1, Zenon DEF Covered
    <3>3. \A r \in bucket'[c].tasks : bucket'[c].nearest <= slot'[r].time
      <4> TAKE r \in bucket'[c].tasks
      <4>1. CASE r = s
        BY <1>g, <3>1, <4>1, Zenon
      <4>2. CASE r # s
        BY <1>b, <1>g, <1>l, <3>1, <4>2, Zenon DEF Covered
      <4> QED  BY <4>1, <4>2, Zenon
    <3> QED  BY <1>b, <2>2, <3>1, <3>2, <3>3, Zenon DEF Covered
  <2>5. CASE c = b /\ earlier
    <3>1. /\ bucket'[c].nearest = time /\ bucket'[c].fence = bucket[c].fence
          /\ bucket'[c].tasks = bucket[c].tasks \cup {s}
      BY <1>i, <2>5, Zenon
    <3>2. /\ pc'[t] = "announce" /\ cur'[t] = n /\ bucketOf'[t] = c
          /\ tasks'[n].time <= bucket'[c].nearest
          /\ tasks'[n].slot \in bucket'[c].tasks /\ slot'[tasks'[n].slot].task = n
      <4>1. time <= time
        BY <1>f
      <4> QED  BY <1>a, <1>g, <1>h, <1>j, <2>5, <3>1, <4>1, Zenon DEF b
    <3>3. Untold(c)' /\ Announcing(c, bucket[c].nearest)'
      BY <3>2, Zenon DEF Untold, Announcing
    <3>4. \A r \in bucket'[c].tasks : bucket'[c].nearest <= slot'[r].time
      <4> TAKE r \in bucket'[c].tasks
      <4>1. CASE r = s
        BY <1>f, <1>g, <3>1, <4>1
      <4>2. CASE r # s
        <5>1. r \in bucket[c].tasks /\ slot'[r] = slot[r] /\ r \in Slots
          BY <1>g, <1>l, <3>1, <4>2, Zenon
        <5>2. bucket[c].nearest <= slot[r].time
          BY <1>b, <5>1, Zenon DEF Covered
        <5>3. slot[r].time \in Nat
          <6>1. slot[r] \in Slot
            BY <1>b, <5>1
          <6> QED  BY <6>1 DEF Slot
        <5> QED  BY <1>f, <2>5, <3>1, <5>1, <5>2, <5>3 DEF earlier, Never
      <4> QED  BY <4>1, <4>2, Zenon
    <3>5. bucket'[c].tasks # {}
      BY <3>1, Zenon
    <3> QED  BY <3>3, <3>4, <3>5, Zenon
  <2> QED  BY <2>3, <2>4, <2>5, Zenon
<1>8. Callers'
  <2> SUFFICES \A u \in Threads : pc'[u] \in {"announce", "wake"} => cur'[u] \in 1 .. Len(tasks')
    BY <1>a, <1>b, Zenon DEF Callers
  <2> TAKE u \in Threads
  <2>1. CASE u = t
    BY <1>h, <1>j, <1>o, <2>1
  <2>2. CASE u # t
    BY <1>b, <1>h, <1>j, <1>o, <2>2, Zenon DEF Callers
  <2> QED  BY <2>1, <2>2, Zenon
<1>9. Sleeping'
  <2>1. \A u \in Threads : pc[u] = "wake" => pc'[u] = "wake"
    BY <1>a, <1>j
  <2> QED  BY <1>a, <1>b, <2>1, Zenon DEF Sleeping
<1> QED  BY <1>1, <1>2, <1>3, <1>4, <1>5, <1>6, <1>7, <1>8, <1>9, Zenon DEF IInv, Structures, Clocks

-----------------------------------------------------------------------------
(* The invariant *)

LEMMA InitHolds ==
    ASSUME Init
    PROVE  IInv
<1> USE DEF Init
<1>1. Typed
  <2>1. /\ 0 \in Buckets /\ Never \in 0 .. Never /\ 0 \in Nat /\ 0 \in 0 .. MaxTime /\ 0 \in 0 .. MaxTasks
        /\ FirstVer \in 0 .. VerMod - 1 /\ 0 \in 0 .. VerMod - 1
    BY TimerAssumption DEF Buckets, Never
  <2>2. slot \in [Slots -> Slot]
    BY <2>1 DEF Slot
  <2>3. bucket \in [Buckets -> [tasks : SUBSET Slots, nearest : 0 .. Never, fence : {"none", "locked", "seen"}]]
    BY <2>1 DEF Empty
  <2>4. timer \in [pc : TimerPC, i : Buckets, task : Slots \cup {NoSlot}, next : 0 .. Never, expected : Nat]
    BY <2>1 DEF TimerPC
  <2>5. pc \in [Threads -> {"idle", "push", "announce", "wake"}] /\ cur \in [Threads -> 0 .. MaxTasks]
    BY <2>1
  <2>6. tasks \in Seq(Task) /\ Len(tasks) <= MaxTasks
    BY TimerAssumption
  <2> QED  BY <2>1, <2>2, <2>3, <2>4, <2>5, <2>6, Zenon DEF Typed, TypeOK
<1>2. /\ \A s \in Slots : slot[s].free /\ slot[s].ver = FirstVer
      /\ \A b \in Buckets : bucket[b].tasks = {} /\ bucket[b].nearest = Never
      /\ timer.task = NoSlot /\ timer.pc = "check" /\ timer.i = 0
      /\ Len(tasks) = 0 /\ NoSlot \notin Slots
      /\ \A t \in Threads : pc[t] = "idle"
  BY TimerAssumption DEF Empty
<1>3. Places
  BY <1>2 DEF Places
<1>4. Owners /\ Past /\ AnswersTrue
  BY <1>2 DEF Owners, Past, AnswersTrue
<1>5. Room
  <2>1. Age(FirstVer) = 0
    BY TimerAssumption, SMTT(30) DEF Age
  <2> QED  BY <1>2, <2>1 DEF Room
<1>6. Covered /\ Callers /\ Sleeping
  BY <1>2 DEF Covered, Callers, Sleeping
<1> QED  BY <1>1, <1>3, <1>4, <1>5, <1>6, Zenon DEF IInv, Structures, Clocks

LEMMA StutterStep ==
    ASSUME IInv, UNCHANGED vars
    PROVE  IInv'
<1>1. KeepsTasks
  BY DEF KeepsTasks, vars
<1>2. KeepsStructures
  BY <1>1 DEF KeepsStructures, vars
<1>3. KeepsBuckets
  BY DEF KeepsBuckets, vars
<1>4. Typed' /\ Callers' /\ Sleeping'
  BY DEF vars, IInv, Clocks, Typed, TypeOK, Callers, Sleeping
<1>5. nearest' <= nearest
  BY DEF vars, IInv, Typed, TypeOK, Never
<1> QED  BY <1>2, <1>3, <1>4, <1>5, AllKept, Zenon

LEMMA StepHolds ==
    ASSUME VersionsSuffice, IInv, [Next]_vars
    PROVE  IInv'
<1>1. CASE UNCHANGED vars
  BY <1>1, StutterStep, Zenon
<1>2. CASE Tick
  BY <1>2, TickStep, Zenon
<1>3. ASSUME NEW t \in Threads, Schedule(t) \/ BucketSchedule(t) \/ NoResource(t) \/ Announce(t) \/ Wake(t)
      PROVE  IInv'
  BY <1>3, ScheduleStep, BucketScheduleStep, NoResourceStep, AnnounceStep, WakeStep, Zenon
<1>4. ASSUME NEW k \in 1 .. Len(tasks), Unschedule(k)
      PROVE  IInv'
  BY <1>4, UnscheduleStep, Zenon
<1>5. CASE TimerCheck \/ TimerClear \/ TimerPull \/ TimerLook
  BY <1>5, TimerCheckStep, TimerClearStep, TimerPullStep, TimerLookStep, Zenon
<1>6. CASE TimerRun \/ TimerFinish \/ TimerPrepare \/ TimerWait \/ TimerTimeout
  BY <1>6, TimerRunStep, TimerFinishStep, TimerPrepareStep, TimerWaitStep, TimerTimeoutStep, Zenon
<1>7. CASE Stop \/ StopAnnounce \/ StopWake \/ StopJoin \/ StopInTask
  BY <1>7, StopStep, StopAnnounceStep, StopWakeStep, StopJoinStep, StopInTaskStep, Zenon
<1> QED  BY <1>1, <1>2, <1>3, <1>4, <1>5, <1>6, <1>7, Zenon DEF Next, Timer

(* The invariant holds for ever: each structure is in one place and follows *)
(* its task, and no bucket with tasks is forgotten by the timer thread.     *)
THEOREM Invariance ==
    ASSUME VersionsSuffice
    PROVE  Spec => []IInv
<1>1. Init => IInv
  BY InitHolds, Zenon
<1>2. IInv /\ [Next]_vars => IInv'
  BY StepHolds, Zenon
<1> QED  BY <1>1, <1>2, PTL DEF Spec

-----------------------------------------------------------------------------
(* What it says of the tasks *)

LEMMA OnePlace ==
    ASSUME Typed, Places, NEW s \in Slots
    PROVE  Cardinality({b \in Buckets : s \in bucket[b].tasks}) + (IF s \in heap THEN 1 ELSE 0)
             + (IF timer.task = s THEN 1 ELSE 0) = IF slot[s].free THEN 0 ELSE 1
<1> DEFINE B == {b \in Buckets : s \in bucket[b].tasks}
<1>1. CASE \E b \in Buckets : s \in bucket[b].tasks
  <2>1. PICK b \in Buckets : s \in bucket[b].tasks
    BY <1>1
  <2>2. B = {b}
    BY <2>1, Zenon DEF Places
  <2>3. ~slot[s].free /\ s \notin heap /\ timer.task # s
    BY <2>1, Zenon DEF Places
  <2>4. Cardinality(B) = 1
    BY <2>2, FS_Singleton, Zenon
  <2> QED  BY <2>3, <2>4
<1>2. CASE ~(\E b \in Buckets : s \in bucket[b].tasks)
  <2>1. B = {}
    BY <1>2, Zenon
  <2>2. Cardinality(B) = 0
    BY <2>1, FS_EmptySet, Zenon
  <2>3. s \in heap => ~slot[s].free /\ timer.task # s
    BY Zenon DEF Places
  <2>4. timer.task = s => ~slot[s].free
    BY Zenon DEF Places
  <2>5. ~slot[s].free => s \in heap \/ timer.task = s
    BY <1>2, Zenon DEF Places
  <2> HIDE DEF B
  <2>6. Cardinality(B) + (IF s \in heap THEN 1 ELSE 0) + (IF timer.task = s THEN 1 ELSE 0)
          = IF slot[s].free THEN 0 ELSE 1
    BY <2>2, <2>3, <2>4, <2>5
  <2> QED  BY <2>6 DEF B
<1> QED  BY <1>1, <1>2, Zenon

LEMMA Accounted ==
    ASSUME IInv
    PROVE  TasksAccountedFor
<1>1. Typed /\ TypeOK /\ Places /\ Owners /\ AnswersTrue
  BY Zenon DEF IInv, Structures, Typed
<1>2. ASSUME NEW s \in Slots, ~slot[s].free, timer.task # s
      PROVE  slot[s].ver \in {slot[s].id, (slot[s].id + 2) % VerMod}
  <2>1. Lives(s, slot[s].task)
    BY <1>1, <1>2, Zenon DEF Owners
  <2> QED  BY <1>2, <2>1, Zenon DEF Lives
<1>3. SlotsAccounted
  BY <1>1, <1>2, OnePlace, Zenon DEF SlotsAccounted
<1> QED  BY <1>1, <1>3, Zenon DEF TasksAccountedFor

(* For any number of threads, buckets and structures: what unschedule() says *)
(* of a task stays true, no structure is leaked, used by two tasks or freed  *)
(* while it waits, and a waiting task has its own version or the version of  *)
(* an unscheduled one, as try_delete and run_and_delete assume.              *)
THEOREM NothingLeaks ==
    ASSUME VersionsSuffice
    PROVE  Spec => []TasksAccountedFor
<1>1. IInv => TasksAccountedFor
  BY Accounted, Zenon
<1> QED  BY <1>1, Invariance, PTL

-----------------------------------------------------------------------------
(* and of the times *)

(* An earlier task than the timer thread knows of is about to be announced *)
LEMMA EarlierIsAnnounced ==
    ASSUME IInv, NEW b \in Buckets, NEW s \in bucket[b].tasks, slot[s].time < nearest, timer.pc # "pull"
    PROVE  Announcing(b, slot[s].time)
<1>1. Typed /\ Covered /\ Callers
  BY Zenon DEF IInv, Clocks
<1>2. bucket[b].nearest \in Nat /\ nearest \in Nat /\ slot[s].time \in Nat
  <2>1. nearest \in 0 .. Never /\ slot \in [Slots -> Slot]
        /\ bucket \in [Buckets -> [tasks : SUBSET Slots, nearest : 0 .. Never, fence : {"none", "locked", "seen"}]]
    BY <1>1, Zenon DEF Typed, TypeOK
  <2>2. bucket[b].tasks \in SUBSET Slots /\ bucket[b].nearest \in 0 .. Never
    BY <2>1
  <2>3. slot[s] \in Slot
    BY <2>1, <2>2
  <2>4. slot[s].time \in 0 .. MaxTime
    BY <2>3, Zenon DEF Slot
  <2> QED  BY <2>1, <2>2, <2>4, TimerAssumption DEF Never
<1>3. bucket[b].nearest <= slot[s].time /\ bucket[b].tasks # {}
  BY <1>1, Zenon DEF Covered
<1>4. ~(nearest <= bucket[b].nearest)
  BY <1>2, <1>3
<1>5. Announcing(b, bucket[b].nearest)
  BY <1>1, <1>3, <1>4, Zenon DEF Covered, Pulling
<1>6. PICK t \in Threads : pc[t] = "announce" /\ bucketOf[t] = b /\ tasks[cur[t]].time <= bucket[b].nearest
  BY <1>5, Zenon DEF Announcing
<1>7. tasks[cur[t]].time \in Nat
  <2>1. cur[t] \in 1 .. Len(tasks) /\ tasks \in Seq(Task)
    BY <1>1, <1>6, Zenon DEF Callers, Typed, TypeOK
  <2>2. tasks[cur[t]] \in Task
    BY <2>1
  <2>3. tasks[cur[t]].time \in 1 .. MaxTime
    BY <2>2, Zenon DEF Task, Times
  <2> QED  BY <2>3, TimerAssumption
<1>8. tasks[cur[t]].time <= slot[s].time
  BY <1>2, <1>3, <1>6, <1>7
<1> QED  BY <1>6, <1>8, Zenon DEF Announcing

LEMMA Awake ==
    ASSUME IInv
    PROVE  NoOversleep
<1> SUFFICES ASSUME timer.pc \in {"wait", "asleep"}
             PROVE  /\ nsignals = timer.expected =>
                          \A b \in Buckets : \A s \in bucket[b].tasks :
                              slot[s].time < timer.next => Announcing(b, slot[s].time)
                    /\ nsignals # timer.expected /\ timer.pc = "asleep" =>
                          stopper = "wake" \/ \E t \in Threads : pc[t] = "wake"
  BY Zenon DEF NoOversleep
<1>1. timer.pc # "pull"
  OBVIOUS
<1>2. nsignals = timer.expected => nearest = timer.next
  BY Zenon DEF IInv, Clocks, Sleeping
<1>3. nsignals # timer.expected /\ timer.pc = "asleep" => stopper = "wake" \/ \E t \in Threads : pc[t] = "wake"
  BY Zenon DEF IInv, Clocks, Sleeping
<1> QED  BY <1>1, <1>2, <1>3, EarlierIsAnnounced, Zenon

(* The timer thread never oversleeps, for any number of threads and buckets: *)
(* a task due before it wakes up is being announced, or it is being woken.   *)
THEOREM NeverOversleeps ==
    ASSUME VersionsSuffice
    PROVE  Spec => []NoOversleep
<1>1. IInv => NoOversleep
  BY Awake, Zenon
<1> QED  BY <1>1, Invariance, PTL

(* Only TimerLook takes a task to run it *)
LEMMA OnlyLookTakes ==
    ASSUME Typed, [Next]_vars, timer'.pc = "run", timer.pc # "run"
    PROVE  TimerLook
<1>0. timer \in TimerRecord
  BY Zenon DEF Typed, TypeOK, TimerRecord
<1>1. timer' # timer
  OBVIOUS
<1>3. timer' # Resume
  BY <1>0, Zenon DEF Resume, TimerRecord
<1>4. ~TimerCheck
  BY <1>0 DEF TimerCheck, TimerRecord
<1>5. ~TimerClear
  BY <1>0 DEF TimerClear, TimerRecord
<1>6. ~TimerPull
  <2>1. TimerPull => timer' = [timer EXCEPT !.i = (@ + 1) % NBuckets, !.pc = IF timer.i + 1 = NBuckets THEN "look" ELSE "pull"]
    BY Zenon DEF TimerPull
  <2> QED  BY <1>0, <2>1, Zenon DEF TimerRecord
<1>7. ~TimerRun
  BY <1>0 DEF TimerRun, TimerRecord
<1>8. ~TimerFinish
  <2>1. TimerFinish => timer' = [timer EXCEPT !.pc = "look", !.task = NoSlot]
    BY Zenon DEF TimerFinish
  <2> QED  BY <1>0, <2>1, Zenon DEF TimerRecord
<1>9. ~TimerPrepare
  <2>1. TimerPrepare => \/ timer' = [timer EXCEPT !.pc = "check"]
                        \/ \E next \in IF heap = {} THEN {Never} ELSE {slot[s].time : s \in Earliest} :
                               timer' = [timer EXCEPT !.pc = "wait", !.next = next, !.expected = nsignals]
    BY Zenon DEF TimerPrepare
  <2> QED  BY <1>0, <2>1, Zenon DEF TimerRecord
<1>10. ~TimerWait /\ ~TimerTimeout
  <2>1. TimerWait \/ TimerTimeout => timer' = [timer EXCEPT !.pc = "asleep"] \/ timer' = Resume
    BY Zenon DEF TimerWait, TimerTimeout
  <2> QED  BY <1>0, <1>3, <2>1 DEF TimerRecord
<1>11. ~UNCHANGED vars /\ ~Tick
  BY <1>1 DEF vars, Tick
<1>12. \A t \in Threads : ~Schedule(t) /\ ~BucketSchedule(t) /\ ~NoResource(t) /\ ~Announce(t) /\ ~Wake(t)
  BY <1>1, <1>3, Zenon DEF Schedule, BucketSchedule, NoResource, Announce, Wake, Woken
<1>13. \A k \in 1 .. Len(tasks) : ~Unschedule(k)
  BY <1>1, Zenon DEF Unschedule
<1>14. ~(Stop \/ StopAnnounce \/ StopWake \/ StopJoin \/ StopInTask)
  BY <1>1, <1>3, Zenon DEF Stop, StopAnnounce, StopWake, StopJoin, StopInTask, Woken
<1> QED  BY <1>4, <1>5, <1>6, <1>7, <1>8, <1>9, <1>10, <1>11, <1>12, <1>13, <1>14, Zenon DEF Next, Timer

LEMMA TakesEarliest ==
    ASSUME IInv, [Next]_vars, timer'.pc = "run", timer.pc # "run",
           NEW b \in Buckets, NEW r \in bucket[b].tasks, slot[r].time < slot[timer'.task].time
    PROVE  Announcing(b, slot[r].time)
<1>1. Typed
  BY Zenon DEF IInv
<1>2. TimerLook
  BY <1>1, OnlyLookTakes, Zenon
<1>3. timer \in TimerRecord /\ heap \in SUBSET Slots /\ timer.pc # "pull"
      /\ nearest \in 0 .. Never /\ slot \in [Slots -> Slot]
      /\ bucket \in [Buckets -> [tasks : SUBSET Slots, nearest : 0 .. Never, fence : {"none", "locked", "seen"}]]
  <2>1. timer.pc # "pull"
    BY <1>2, Zenon DEF TimerLook
  <2> QED  BY <1>1, <2>1, Zenon DEF Typed, TypeOK, TimerRecord
<1>4. timer' # [timer EXCEPT !.pc = "prepare"] /\ timer' # [timer EXCEPT !.pc = "check"]
  BY <1>3 DEF TimerRecord
<1>5. PICK s \in heap : ~PullAgain(slot[s].time) /\ timer' = [timer EXCEPT !.pc = "run", !.task = s]
  BY <1>2, <1>4, Zenon DEF TimerLook, Earliest
<1>6. timer'.task = s /\ s \in Slots
  BY <1>3, <1>5 DEF TimerRecord
<1>7. slot[s].time \in Nat /\ slot[r].time \in Nat /\ nearest \in Nat
  <2>1. bucket[b].tasks \in SUBSET Slots
    BY <1>3
  <2>2. slot[s] \in Slot /\ slot[r] \in Slot
    BY <1>3, <1>6, <2>1
  <2>3. slot[s].time \in 0 .. MaxTime /\ slot[r].time \in 0 .. MaxTime
    BY <2>2, Zenon DEF Slot
  <2> QED  BY <1>3, <2>3, TimerAssumption DEF Never
<1>8. slot[r].time < nearest
  BY <1>5, <1>6, <1>7 DEF PullAgain
<1> QED  BY <1>3, <1>8, EarlierIsAnnounced, Zenon

(* The timer thread takes a task only when no earlier one is in the buckets, *)
(* but for one whose schedule() has not announced it yet.                    *)
THEOREM RunsInOrder ==
    ASSUME VersionsSuffice
    PROVE  Spec => RunsEarliest
<1> DEFINE Takes == timer'.pc = "run" /\ timer.pc # "run" =>
                        \A b \in Buckets : \A s \in bucket[b].tasks :
                            slot[s].time < slot[timer'.task].time => Announcing(b, slot[s].time)
<1>1. IInv /\ [Next]_vars => [Takes]_vars
  BY TakesEarliest, Zenon
<1>2. RunsEarliest <=> [][Takes]_vars
  BY Zenon DEF RunsEarliest
<1> QED  BY <1>1, <1>2, Invariance, PTL DEF Spec
==============================================================================
