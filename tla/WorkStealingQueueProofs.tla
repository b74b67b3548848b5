---------------------- MODULE WorkStealingQueueProofs ----------------------
(***************************************************************************)
(* That the lock-free run queue implements the atomic deque, for every     *)
(* capacity, any number of thieves and any number of tasks.                *)
(***************************************************************************)
EXTENDS WorkStealingQueue, SequenceTheorems, TLAPS

\* Two indices less than Capacity apart use different slots of _buffer.
LEMMA DifferentSlots ==
    ASSUME NEW i \in Nat, NEW j \in Nat, i < j, j < i + Capacity
    PROVE  Slot(i) # Slot(j)
<1> DEFINE q == i \div Capacity
           r == j \div Capacity
<1>1. /\ q \in Int /\ r \in Int
      /\ i = Capacity * q + (i % Capacity)
      /\ j = Capacity * r + (j % Capacity)
      BY QueueAssumption
<1>2. SUFFICES ASSUME i % Capacity = j % Capacity PROVE FALSE
      BY DEF Slot
<1> HIDE DEF q, r
<1>3. j - i = Capacity * (r - q)
      BY <1>1, <1>2, QueueAssumption
<1>4. CASE r <= q
      BY <1>1, <1>3, <1>4, QueueAssumption
<1>5. CASE r >= q + 1
      BY <1>1, <1>3, <1>5, QueueAssumption
<1> QED BY <1>1, <1>4, <1>5

Typed ==
    /\ bottom \in Nat /\ top \in Nat /\ top > 0 /\ npush \in 0..MaxPush /\ newb \in Nat
    /\ buffer \in [0..(Capacity - 1) -> Nat]
    /\ opc \in {"idle", "push_store", "pop_top", "pop_cas", "pop_restore"}
    /\ tpc \in [Thieves -> {"idle", "check", "loop", "read", "cas"}]
    /\ oldest \in [Thieves -> Nat]
    /\ val \in [Thieves -> Nat]
    /\ taken \subseteq Nat

\* the owner: what it knows of _top and _bottom where it is
OwnerOK ==
    /\ top <= End /\ End <= top + Capacity
    /\ opc = "push_store" =>
          bottom < top + Capacity /\ buffer[Slot(bottom)] = npush /\ npush > 0
    /\ opc \in {"pop_top", "pop_cas", "pop_restore"} => bottom = newb
    /\ opc = "pop_cas" => top >= newb
    /\ opc = "pop_restore" => top = newb + 1

\* the queued tasks are in the order of pushing, and were not handed out
TasksOK ==
    /\ \A i \in top..(End - 1) : buffer[Slot(i)] \in 1..Count /\ buffer[Slot(i)] \notin taken
    /\ \A i, j \in top..(End - 1) : i < j => buffer[Slot(i)] < buffer[Slot(j)]
    /\ taken \subseteq 1..Count

\* a thief whose t is still _top has read the oldest task
ThievesOK ==
    \A p \in Thieves :
        /\ oldest[p] <= top
        /\ tpc[p] \in {"read", "cas"} /\ oldest[p] = top => top < End
        /\ tpc[p] = "cas" /\ oldest[p] = top => val[p] = buffer[Slot(top)]

\* The inductive invariant.
IInv == Typed /\ OwnerOK /\ TasksOK /\ ThievesOK

LEMMA SlotType == \A i \in Nat : Slot(i) \in 0..(Capacity - 1)
BY QueueAssumption DEF Slot

LEMMA InitIInv == QueueInit => IInv
BY QueueAssumption DEF QueueInit, IInv, Typed, OwnerOK, TasksOK, ThievesOK, End, Count

LEMMA NextTyped == Typed /\ [QueueNext]_qvars => Typed'
<1> SUFFICES ASSUME Typed, [QueueNext]_qvars PROVE Typed'
    OBVIOUS
<1> USE DEF Typed, owner, thieves
<1>1. CASE Push
  <2> USE <1>1 DEF Push
  <2>1. npush' \in 0..MaxPush /\ npush' \in Nat BY QueueAssumption
  <2>2. buffer' \in [0..(Capacity - 1) -> Nat] BY <2>1, Zenon
  <2> QED BY <2>1, <2>2
<1>2. CASE PushStore BY <1>2 DEF PushStore
<1>3. CASE PopNothing BY <1>3 DEF PopNothing
<1>4. CASE Pop
  <2>1. newb' \in Nat /\ bottom' = newb' BY <1>4 DEF Pop
  <2> QED BY <1>4, <2>1 DEF Pop
<1>5. ASSUME popped' = buffer[Slot(newb)], taken' = taken \cup {popped'}
      PROVE  taken' \subseteq Nat
  <2>1. buffer[Slot(newb)] \in Nat BY SlotType, Zenon
  <2> QED BY <1>5, <2>1, Zenon
<1>6. CASE PopTop
  <2>1. taken' \subseteq Nat BY <1>5, <1>6, Zenon DEF PopTop
  <2>2. opc' \in {"idle", "push_store", "pop_top", "pop_cas", "pop_restore"} BY <1>6 DEF PopTop
  <2> QED BY <1>6, <2>1, <2>2 DEF PopTop
<1>7. CASE PopCas
  <2>1. taken' \subseteq Nat BY <1>5, <1>7, Zenon DEF PopCas
  <2>2. top' \in Nat /\ top' > 0 BY <1>7 DEF PopCas
  <2> QED BY <1>7, <2>1, <2>2 DEF PopCas
<1>8. CASE PopRestore BY <1>8 DEF PopRestore
<1>9. ASSUME NEW p \in Thieves, ThiefStep(p) PROVE Typed'
  <2> USE DEF At
  <2>1. CASE Steal(p) BY <2>1 DEF Steal
  <2>2. CASE StealCheck(p) BY <2>2 DEF StealCheck
  <2>3. CASE StealRead(p)
    <3>1. buffer[Slot(oldest[p])] \in Nat BY SlotType
    <3> QED BY <2>3, <3>1 DEF StealRead
  <2>4. CASE StealCas(p)
    <3>1. CASE top = oldest[p]
      <4>1. val[p] \in Nat /\ taken' = taken \cup {val[p]} BY <2>4, <3>1 DEF StealCas
      <4>2. taken' \subseteq Nat BY <4>1, Zenon
      <4>3. top' = top + 1 /\ UNCHANGED <<bottom, buffer, opc, newb, oldest, val, npush>>
            /\ tpc' = [tpc EXCEPT ![p] = "idle"]
            BY <2>4, <3>1 DEF StealCas
      <4>4. top' \in Nat /\ top' > 0 BY <4>3
      <4> QED BY <4>2, <4>3, <4>4
    <3>2. CASE top # oldest[p] BY <2>4, <3>2, Zenon DEF StealCas
    <3> QED BY <3>1, <3>2, Zenon
  <2> QED BY <1>9, <2>1, <2>2, <2>3, <2>4, Zenon DEF ThiefStep
<1>10. CASE UNCHANGED qvars BY <1>10 DEF qvars
<1> HIDE DEF Typed
<1> QED BY <1>1, <1>2, <1>3, <1>4, <1>6, <1>7, <1>8, <1>9, <1>10 DEF QueueNext, OwnerStep

LEMMA NextIInv == IInv /\ [QueueNext]_qvars => IInv'
<1> SUFFICES ASSUME IInv, [QueueNext]_qvars PROVE OwnerOK' /\ TasksOK' /\ ThievesOK'
    BY NextTyped DEF IInv
<1> USE DEF IInv, owner, thieves
<1>1. CASE Push
  <2>1. /\ End = bottom /\ End' = bottom /\ Count = npush /\ Count' = npush
        /\ opc' = "push_store" /\ bottom < top + Capacity
        /\ npush' = npush + 1 /\ buffer' = [buffer EXCEPT ![Slot(bottom)] = npush']
        /\ UNCHANGED <<bottom, top, newb, tpc, oldest, val, taken>>
        BY <1>1, QueueAssumption DEF Push, Full, End, Count, Typed
  <2>2. \A i \in top..(bottom - 1) : buffer'[Slot(i)] = buffer[Slot(i)]
    <3> TAKE i \in top..(bottom - 1)
    <3>1. i \in Nat /\ bottom \in Nat /\ i < bottom /\ bottom < i + Capacity
          BY <2>1, QueueAssumption DEF Typed
    <3>2. Slot(i) # Slot(bottom) BY <3>1, DifferentSlots
    <3>3. Slot(i) \in 0..(Capacity - 1) BY <3>1, SlotType
    <3> QED BY <2>1, <3>2, <3>3 DEF Typed
  <2>3. Slot(bottom) \in 0..(Capacity - 1) BY SlotType, Zenon DEF Typed
  <2>4. buffer'[Slot(bottom)] = npush' BY <2>1, <2>3 DEF Typed
  <2>5. OwnerOK' BY <2>1, <2>4 DEF OwnerOK, Typed
  <2>6. TasksOK' BY <2>1, <2>2 DEF TasksOK
  <2>7. ThievesOK'
    <3>1. top < bottom => top \in top..(bottom - 1) BY DEF Typed
    <3> QED BY <2>1, <2>2, <3>1 DEF ThievesOK
  <2> QED BY <2>5, <2>6, <2>7
<1>2. CASE PushStore
  <2>1. /\ End = bottom /\ End' = bottom + 1 /\ Count = npush - 1 /\ Count' = npush
        /\ opc' = "idle" /\ opc = "push_store" /\ bottom' = bottom + 1
        /\ UNCHANGED <<top, buffer, newb, tpc, oldest, val, taken, npush>>
        BY <1>2 DEF PushStore, End, Count
  <2>2. OwnerOK' BY <2>1, QueueAssumption DEF OwnerOK, Typed
  <2>3. TasksOK'
    <3>1. /\ bottom \in Int /\ top \in Int /\ npush \in Int /\ npush > 0
          /\ buffer[Slot(bottom)] = npush
          BY <2>1 DEF OwnerOK, Typed
    <3>2. \A i \in top..bottom : i \in top..(End - 1) \/ i = bottom BY <2>1, <3>1
    <3>3. npush \notin taken BY <2>1, <3>1 DEF TasksOK
    <3>4. \A i \in top..bottom : buffer[Slot(i)] \in 1..npush /\ buffer[Slot(i)] \notin taken
          BY <2>1, <3>1, <3>2, <3>3 DEF TasksOK
    <3>5. \A i \in top..(bottom - 1) : buffer[Slot(i)] < buffer[Slot(bottom)]
          BY <2>1, <3>1 DEF TasksOK
    <3>6. \A i, j \in top..bottom : i < j => buffer[Slot(i)] < buffer[Slot(j)]
      <4> TAKE i, j \in top..bottom
      <4>1. CASE j = bottom BY <3>1, <3>5, <4>1
      <4>2. CASE j # bottom BY <2>1, <3>1, <4>2 DEF TasksOK
      <4> QED BY <4>1, <4>2
    <3>7. taken \subseteq 1..npush BY <2>1, <3>1 DEF TasksOK
    <3>8. top'..(End' - 1) = top..bottom BY <2>1, <3>1
    <3> QED BY <2>1, <3>4, <3>6, <3>7, <3>8, Zenon DEF TasksOK
  <2>4. ThievesOK' BY <2>1 DEF ThievesOK, Typed
  <2> QED BY <2>2, <2>3, <2>4
<1>3. CASE PopNothing
  <2>1. UNCHANGED <<bottom, top, buffer, opc, newb, tpc, oldest, val, npush, taken, End, Count>>
        BY <1>3 DEF PopNothing, End, Count
  <2> QED BY <2>1 DEF OwnerOK, TasksOK, ThievesOK
<1>4. CASE Pop
  <2>1. /\ End = bottom /\ End' = bottom /\ Count' = Count
        /\ opc' = "pop_top" /\ newb' = bottom - 1 /\ bottom' = newb'
        /\ UNCHANGED <<top, buffer, tpc, oldest, val, taken, npush>>
        BY <1>4 DEF Pop, End, Count, Typed
  <2> QED BY <2>1 DEF OwnerOK, TasksOK, ThievesOK, Typed
<1>5. CASE PopTop
  <2>1. CASE top < newb
    <3>1. /\ End = newb + 1 /\ End' = newb /\ bottom' = newb /\ Count' = Count
          /\ opc' = "idle" /\ popped' = buffer[Slot(newb)] /\ taken' = taken \cup {popped'}
          /\ UNCHANGED <<top, buffer, newb, tpc, oldest, val, npush>>
          BY <1>5, <2>1 DEF PopTop, End, Count, Typed, OwnerOK
    <3>2. top \in Int /\ newb \in Int BY DEF Typed
    <3>3. newb \in top..newb BY <2>1, <3>2
    <3>4. top..(End - 1) = top..newb /\ top'..(End' - 1) = top..(newb - 1) BY <3>1, <3>2
    <3>5. popped' \in 1..Count BY <3>1, <3>3, <3>4 DEF TasksOK
    <3>6. \A i \in top..(newb - 1) : i \in top..newb /\ i < newb BY <3>2
    <3>7. \A i \in top..(newb - 1) : buffer[Slot(i)] < popped'
          BY <3>1, <3>3, <3>4, <3>6 DEF TasksOK
    <3>8. \A i \in top..(newb - 1) : buffer[Slot(i)] \in 1..Count
          BY <3>4, <3>6, Zenon DEF TasksOK
    <3>9. Count \in Int BY DEF Count, Typed
    <3>10. \A i \in top..(newb - 1) : buffer[Slot(i)] # popped'
          BY <3>5, <3>7, <3>8, <3>9
    <3>11. OwnerOK' BY <2>1, <3>1, <3>2, QueueAssumption DEF OwnerOK, Typed
    <3>12. TasksOK' BY <3>1, <3>4, <3>5, <3>6, <3>10, Zenon DEF TasksOK
    <3>13. ThievesOK' BY <2>1, <3>1, <3>2 DEF ThievesOK, Typed
    <3> QED BY <3>11, <3>12, <3>13
  <2>2. CASE top >= newb
    <3>1. /\ End' = End /\ Count' = Count /\ bottom = newb
          /\ opc' = IF top > newb THEN "pop_restore" ELSE "pop_cas"
          /\ UNCHANGED <<bottom, top, buffer, newb, tpc, oldest, val, npush, taken>>
          BY <1>5, <2>2 DEF PopTop, End, Count, Typed, OwnerOK
    <3>2. OwnerOK'
      <4>1. End = newb + 1 BY <1>5 DEF PopTop, End
      <4>2. top <= newb + 1 /\ newb + 1 <= top + Capacity BY <4>1 DEF OwnerOK
      <4>3. top > newb => top = newb + 1 BY <4>2 DEF Typed
      <4> QED BY <2>2, <3>1, <4>1, <4>2, <4>3 DEF OwnerOK
    <3> QED BY <3>1, <3>2 DEF TasksOK, ThievesOK
  <2> QED BY <2>1, <2>2 DEF Typed
<1>6. CASE PopCas
  <2>1. /\ End = newb + 1 /\ End' = newb + 1 /\ Count' = Count /\ bottom = newb
        /\ opc = "pop_cas" /\ opc' = "pop_restore"
        /\ UNCHANGED <<bottom, buffer, newb, tpc, oldest, val, npush>>
        BY <1>6 DEF PopCas, End, Count, OwnerOK
  <2>2. CASE top = newb
    <3>1. top' = newb + 1 /\ popped' = buffer[Slot(newb)] /\ taken' = taken \cup {popped'}
          BY <1>6, <2>2 DEF PopCas
    <3>2. newb \in top..(End - 1) BY <2>1, <2>2 DEF Typed
    <3>3. popped' \in 1..Count BY <3>1, <3>2 DEF TasksOK
    <3>4. top'..(End' - 1) = {} BY <2>1, <3>1 DEF Typed
    <3>5. OwnerOK' BY <2>1, <3>1, QueueAssumption DEF OwnerOK, Typed
    <3>6. TasksOK' BY <2>1, <3>1, <3>3, <3>4, Zenon DEF TasksOK
    <3>7. ThievesOK' BY <2>1, <2>2, <3>1 DEF ThievesOK, Typed
    <3> QED BY <3>5, <3>6, <3>7
  <2>3. CASE top # newb
    <3>1. UNCHANGED <<top, taken>> BY <1>6, <2>3 DEF PopCas
    <3>2. OwnerOK' BY <2>1, <2>3, <3>1 DEF OwnerOK, Typed
    <3> QED BY <2>1, <3>1, <3>2 DEF TasksOK, ThievesOK
  <2> QED BY <2>2, <2>3
<1>7. CASE PopRestore
  <2>1. /\ End = newb + 1 /\ End' = newb + 1 /\ Count' = Count /\ bottom' = newb + 1
        /\ opc' = "idle"
        /\ UNCHANGED <<top, buffer, newb, tpc, oldest, val, npush, taken>>
        BY <1>7 DEF PopRestore, End, Count
  <2>2. OwnerOK' BY <2>1 DEF OwnerOK
  <2> QED BY <2>1, <2>2 DEF TasksOK, ThievesOK
<1>8. ASSUME NEW p \in Thieves, Steal(p) \/ StealCheck(p) \/ StealRead(p)
      PROVE  OwnerOK' /\ TasksOK' /\ ThievesOK'
  <2>1. UNCHANGED <<bottom, top, buffer, opc, newb, npush, taken, End, Count>>
        BY <1>8 DEF Steal, StealCheck, StealRead, End, Count
  <2>2. OwnerOK' /\ TasksOK' BY <2>1 DEF OwnerOK, TasksOK
  <2>3. bottom <= End BY DEF End, OwnerOK, Typed
  <2>4. End \in Int BY DEF End, Typed
  <2>5. ASSUME Steal(p) PROVE ThievesOK'
        BY <2>1, <2>5 DEF Steal, At, ThievesOK, Typed
  <2>6. ASSUME StealCheck(p) PROVE ThievesOK'
        BY <2>1, <2>3, <2>4, <2>6 DEF StealCheck, At, ThievesOK, Typed
  <2>7. ASSUME StealRead(p) PROVE ThievesOK'
        BY <2>1, <2>7 DEF StealRead, At, ThievesOK, Typed
  <2> QED BY <1>8, <2>2, <2>5, <2>6, <2>7
<1>9. ASSUME NEW p \in Thieves, StealCas(p)
      PROVE  OwnerOK' /\ TasksOK' /\ ThievesOK'
  <2>1. UNCHANGED <<bottom, buffer, opc, newb, npush, End, Count, val>> /\ tpc[p] = "cas"
        BY <1>9 DEF StealCas, End, Count
  <2>2. End \in Int /\ top \in Int /\ Count \in Int BY DEF End, Typed, Count
  <2>3. CASE top = oldest[p]
    <3>1. top' = top + 1 /\ taken' = taken \cup {val[p]} /\ oldest' = oldest
          /\ tpc' = [tpc EXCEPT ![p] = "idle"]
          BY <1>9, <2>3 DEF StealCas, At
    <3>2. top < End /\ val[p] = buffer[Slot(top)] BY <2>1, <2>3 DEF ThievesOK
    <3>3. top \in top..(End - 1) BY <2>2, <3>2
    <3>4. \A i \in top'..(End' - 1) : i \in top..(End - 1) /\ top < i BY <2>1, <2>2, <3>1
    <3>5. val[p] \in 1..Count BY <3>2, <3>3 DEF TasksOK
    <3>6. \A i \in top'..(End' - 1) : buffer[Slot(i)] # val[p]
      <4> TAKE i \in top'..(End' - 1)
      <4>1. val[p] < buffer[Slot(i)] /\ buffer[Slot(i)] \in 1..Count
            BY <3>2, <3>3, <3>4 DEF TasksOK
      <4> QED BY <2>2, <3>5, <4>1
    <3>7. OwnerOK'
      <4>1. opc = "pop_cas" => top = newb BY <2>1, <3>2 DEF End, OwnerOK, Typed
      <4>2. opc # "pop_restore" BY <3>2 DEF End, OwnerOK, Typed
      <4> QED BY <2>1, <2>2, <3>1, <3>2, <4>1, <4>2, QueueAssumption DEF OwnerOK, Typed
    <3>8. TasksOK' BY <2>1, <3>1, <3>4, <3>5, <3>6, Zenon DEF TasksOK
    <3>9. ThievesOK' BY <2>1, <2>2, <3>1 DEF ThievesOK, Typed
    <3> QED BY <3>7, <3>8, <3>9
  <2>4. CASE top # oldest[p]
    <3>1. UNCHANGED <<top, taken>> /\ oldest' = [oldest EXCEPT ![p] = top]
          /\ tpc' = [tpc EXCEPT ![p] = "loop"]
          BY <1>9, <2>4 DEF StealCas, At
    <3>2. ThievesOK' BY <2>1, <2>2, <3>1 DEF ThievesOK, Typed
    <3> QED BY <2>1, <3>1, <3>2 DEF OwnerOK, TasksOK
  <2> QED BY <2>3, <2>4
<1>10. CASE UNCHANGED qvars
  <2>1. UNCHANGED <<bottom, top, buffer, opc, newb, tpc, oldest, val, npush, taken, End, Count>>
        BY <1>10 DEF qvars, End, Count
  <2> QED BY <2>1 DEF OwnerOK, TasksOK, ThievesOK
<1> HIDE DEF IInv
<1> QED BY <1>1, <1>2, <1>3, <1>4, <1>5, <1>6, <1>7, <1>8, <1>9, <1>10
       DEF QueueNext, OwnerStep, ThiefStep

\* Whatever the capacity, the number of thieves and of tasks, the queued tasks
\* are distinct, in the order of pushing, and were not handed out before.
THEOREM Invariance == QueueSpec => []IInv
BY InitIInv, NextIInv, PTL DEF QueueSpec

\* The initial queue is the empty deque.
LEMMA InitDeque == QueueInit => Abstract!Init
BY DEF QueueInit, Abstract!Init, Deque, End, Count

\* The mapped deque is a sequence of as many tasks as there are indices.
\* How a sequence is recognised as another one extended or shortened by one.
LEMMA IsAppend ==
    ASSUME NEW u \in Seq(Nat), NEW v \in Seq(Nat), NEW e \in Nat, Len(v) = Len(u) + 1,
           \A k \in 1..Len(u) : v[k] = u[k], v[Len(u) + 1] = e
    PROVE  v = Append(u, e)
<1>1. /\ Append(u, e) \in Seq(Nat) /\ Len(Append(u, e)) = Len(u) + 1
      /\ \A k \in 1..Len(u) : Append(u, e)[k] = u[k]
      /\ Append(u, e)[Len(u) + 1] = e
      BY AppendProperties
<1>2. Len(u) \in Nat BY LenProperties
<1>3. \A k \in 1..Len(v) : v[k] = Append(u, e)[k]
  <2> SUFFICES ASSUME NEW k \in 1..Len(v)
               PROVE  v[k] = Append(u, e)[k]
      BY Zenon
  <2>1. k \in 1..Len(u) \/ k = Len(u) + 1 BY <1>2
  <2> QED BY <1>1, <2>1
<1> QED BY <1>1, <1>3, SeqEqual

LEMMA IsFront ==
    ASSUME NEW u \in Seq(Nat), NEW v \in Seq(Nat), Len(u) = Len(v) + 1,
           \A k \in 1..Len(v) : v[k] = u[k]
    PROVE  v = SubSeq(u, 1, Len(u) - 1)
<1> DEFINE m == Len(u) - 1
           w == SubSeq(u, 1, m)
<1>1. Len(u) \in Nat /\ Len(v) \in Nat /\ m \in Int /\ 1 \in Int /\ m = Len(v)
      BY LenProperties
<1>2. \A k \in 1..m : u[k] \in Nat BY <1>1, ElementOfSeq
<1> HIDE DEF m
<1>3. w \in Seq(Nat) /\ Len(w) = m /\ \A k \in 1..m : w[k] = u[k]
      BY <1>1, <1>2, SubSeqProperties
<1> HIDE DEF w
<1>4. Len(w) = Len(v) /\ \A k \in 1..Len(w) : w[k] = v[k] BY <1>1, <1>3
<1>5. w = v BY <1>3, <1>4, SeqEqual, Zenon
<1> QED BY <1>5 DEF w, m

LEMMA IsTail ==
    ASSUME NEW u \in Seq(Nat), NEW v \in Seq(Nat), Len(u) = Len(v) + 1,
           \A k \in 1..Len(v) : v[k] = u[k + 1]
    PROVE  u # <<>> /\ v = Tail(u) /\ Head(u) = u[1]
<1>1. Len(u) \in Nat /\ Len(v) \in Nat BY LenProperties
<1>2. u # <<>> BY <1>1, EmptySeq
<1>3. /\ Tail(u) \in Seq(Nat) /\ Len(Tail(u)) = Len(u) - 1
      /\ \A k \in 1..Len(Tail(u)) : Tail(u)[k] = u[k + 1]
      BY <1>2, HeadTailProperties
<1>4. Len(Tail(u)) = Len(v) BY <1>1, <1>3
<1>5. v = Tail(u) BY <1>3, <1>4, SeqEqual, Zenon
<1> QED BY <1>2, <1>5

DequeOK ==
    /\ Deque \in Seq(Nat) /\ Len(Deque) = End - top
    /\ \A k \in 1..(End - top) : Deque[k] = buffer[Slot(top + k - 1)]

LEMMA DequeIsSeq == IInv => DequeOK
<1> SUFFICES ASSUME IInv PROVE DequeOK
    OBVIOUS
<1> DEFINE n == End - top
<1>1. n \in Nat BY DEF IInv, Typed, OwnerOK, End
<1>2. \A k \in 1..n : buffer[Slot(top + k - 1)] \in Nat
  <2> TAKE k \in 1..n
  <2>1. top + k - 1 \in Nat BY <1>1 DEF IInv, Typed
  <2>2. Slot(top + k - 1) \in 0..(Capacity - 1) BY <2>1, SlotType
  <2> QED BY <2>2 DEF IInv, Typed
<1>3. Deque = [k \in 1..n |-> buffer[Slot(top + k - 1)]] BY DEF Deque
<1> HIDE DEF n
<1>4. Deque \in [1..n -> Nat] BY <1>2, <1>3
<1> QED BY <1>1, <1>3, <1>4 DEF n, DequeOK

\* Every step of push(), pop() and steal() is an operation of the deque or
\* leaves it alone.
LEMMA NextDeque == IInv /\ [QueueNext]_qvars => [Abstract!Next]_(Abstract!vars)
<1> SUFFICES ASSUME IInv, [QueueNext]_qvars PROVE [Abstract!Next]_(Abstract!vars)
    OBVIOUS
<1>0. DequeOK /\ IInv' /\ DequeOK'
      BY DequeIsSeq, NextIInv, PTL
<1> USE DEF IInv, owner, thieves
<1>1. CASE Push
  <2>1. /\ End = bottom /\ End' = bottom /\ Count' = Count
        /\ buffer' = [buffer EXCEPT ![Slot(bottom)] = npush'] /\ bottom < top + Capacity
        /\ UNCHANGED <<bottom, top, taken, popped>>
        BY <1>1, QueueAssumption DEF Push, Full, End, Count, Typed
  <2>2. \A k \in 1..(End - top) : buffer'[Slot(top + k - 1)] = buffer[Slot(top + k - 1)]
    <3> TAKE k \in 1..(End - top)
    <3> DEFINE i == top + k - 1
    <3>1. i \in Nat /\ bottom \in Nat /\ i < bottom /\ bottom < i + Capacity
          BY <2>1, QueueAssumption DEF Typed
    <3>2. Slot(i) # Slot(bottom) BY <3>1, DifferentSlots
    <3>3. Slot(i) \in 0..(Capacity - 1) BY <3>1, SlotType
    <3> QED BY <2>1, <3>2, <3>3 DEF Typed
  <2>3. Deque' = Deque BY <2>1, <2>2 DEF Deque
  <2> QED BY <2>1, <2>3 DEF Abstract!vars
<1>2. CASE PushStore
  <2>1. /\ End = bottom /\ End' = bottom + 1 /\ Count = npush - 1 /\ Count' = npush
        /\ UNCHANGED <<top, buffer, taken, popped, npush>>
        BY <1>2 DEF PushStore, End, Count
  <2>2. /\ npush \in Nat /\ bottom \in Nat /\ top \in Nat /\ bottom >= top
        /\ bottom < top + Capacity /\ buffer[Slot(bottom)] = npush
        BY <1>2, <2>1 DEF PushStore, Typed, OwnerOK
  <2>3. Deque \in Seq(Nat) /\ Deque' \in Seq(Nat) /\ Len(Deque') = Len(Deque) + 1
        BY <1>0, <2>1, <2>2 DEF DequeOK
  <2>4. \A k \in 1..Len(Deque) : Deque'[k] = Deque[k]
        BY <1>0, <2>1, <2>2 DEF DequeOK
  <2>5. Deque' = Append(Deque, npush)
    <3>1. Deque'[Len(Deque) + 1] = buffer[Slot(bottom)]
          BY <1>0, <2>1, <2>2, SMTT(30) DEF DequeOK
    <3> QED BY <2>2, <2>3, <2>4, <3>1, IsAppend, Zenon
  <2>6. Len(Deque) < Capacity BY <1>0, <2>1, <2>2, QueueAssumption DEF DequeOK
  <2>7. Count < MaxPush BY <2>1, QueueAssumption DEF Typed
  <2> QED BY <2>1, <2>2, <2>5, <2>6, <2>7 DEF Abstract!Next, Abstract!Push
<1>3. CASE PopNothing
  <2>1. UNCHANGED <<bottom, top, buffer, npush, taken, End, Count>> /\ popped' = 0
        /\ top >= bottom /\ End = bottom
        BY <1>3 DEF PopNothing, End, Count
  <2>2. Deque' = Deque BY <2>1 DEF Deque
  <2>3. Len(Deque) = 0 BY <1>0, <2>1 DEF DequeOK, OwnerOK, Typed
  <2>4. Deque = <<>> BY <1>0, <2>3, EmptySeq DEF DequeOK
  <2> QED BY <2>1, <2>2, <2>4 DEF Abstract!Next, Abstract!PopNothing
<1>4. CASE Pop
  <2>1. UNCHANGED <<top, buffer, npush, taken, popped, End, Count>>
        BY <1>4 DEF Pop, End, Count, Typed
  <2> QED BY <2>1 DEF Abstract!vars, Deque
<1>5. CASE PopTop
  <2>1. CASE top < newb
    <3>1. /\ End = newb + 1 /\ End' = newb /\ Count' = Count
          /\ popped' = buffer[Slot(newb)] /\ taken' = taken \cup {popped'}
          /\ UNCHANGED <<top, buffer>>
          BY <1>5, <2>1 DEF PopTop, End, Count, Typed, OwnerOK
    <3>2. top \in Nat /\ newb \in Nat BY DEF Typed
    <3>3. Deque \in Seq(Nat) /\ Deque' \in Seq(Nat) /\ Len(Deque) = Len(Deque') + 1
          BY <1>0, <2>1, <3>1, <3>2 DEF DequeOK
    <3>4. \A k \in 1..Len(Deque') : Deque'[k] = Deque[k]
          BY <1>0, <3>1, <3>2 DEF DequeOK
    <3>5. Deque' = SubSeq(Deque, 1, Len(Deque) - 1) BY <3>3, <3>4, IsFront
    <3>6. Deque[Len(Deque)] = popped' BY <1>0, <2>1, <3>1, <3>2 DEF DequeOK
    <3>7. newb \in top..(End - 1) BY <2>1, <3>1, <3>2
    <3>8. popped' \notin taken BY <3>1, <3>7 DEF TasksOK
    <3>9. Deque # <<>> BY <1>0, <2>1, <3>1, <3>2, EmptySeq DEF DequeOK
    <3> QED BY <3>1, <3>5, <3>6, <3>8, <3>9 DEF Abstract!Next, Abstract!Pop
  <2>2. CASE top > newb
    <3>1. /\ UNCHANGED <<top, buffer, npush, taken, End, Count>> /\ popped' = 0
          /\ End = newb + 1
          BY <1>5, <2>2 DEF PopTop, End, Count, Typed
    <3>2. Deque' = Deque BY <3>1 DEF Deque
    <3>3. Len(Deque) = 0 BY <1>0, <2>2, <3>1 DEF DequeOK, OwnerOK, Typed
    <3>4. Deque = <<>> BY <1>0, <3>3, EmptySeq DEF DequeOK
    <3> QED BY <3>1, <3>2, <3>4 DEF Abstract!Next, Abstract!PopNothing
  <2>3. CASE top = newb
    <3>1. UNCHANGED <<top, buffer, npush, taken, popped, End, Count>>
          BY <1>5, <2>3 DEF PopTop, End, Count, Typed
    <3> QED BY <3>1 DEF Abstract!vars, Deque
  <2> QED BY <2>1, <2>2, <2>3 DEF Typed
<1>6. CASE PopCas
  <2>1. /\ End = newb + 1 /\ End' = newb + 1 /\ Count' = Count
        /\ opc = "pop_cas" /\ UNCHANGED <<buffer, newb>> /\ top >= newb
        /\ top \in Nat /\ newb \in Nat
        BY <1>6 DEF PopCas, End, Count, OwnerOK, Typed
  <2>2. CASE top = newb
    <3>1. top' = newb + 1 /\ popped' = buffer[Slot(newb)] /\ taken' = taken \cup {popped'}
          BY <1>6, <2>2 DEF PopCas
    <3>2. Deque \in Seq(Nat) /\ Deque' \in Seq(Nat) /\ Len(Deque) = 1 /\ Len(Deque') = 0
          BY <1>0, <2>1, <2>2, <3>1 DEF DequeOK
    <3>3. Deque' = SubSeq(Deque, 1, Len(Deque) - 1) BY <3>2, IsFront
    <3>4. Deque[Len(Deque)] = popped' BY <1>0, <2>1, <2>2, <3>1, <3>2 DEF DequeOK
    <3>5. newb \in top..(End - 1) BY <2>1, <2>2
    <3>6. popped' \notin taken BY <3>1, <3>5 DEF TasksOK
    <3>7. Deque # <<>> BY <3>2, EmptySeq
    <3> QED BY <2>1, <3>1, <3>3, <3>4, <3>6, <3>7 DEF Abstract!Next, Abstract!Pop
  <2>3. CASE top # newb
    <3>1. UNCHANGED <<top, taken>> /\ popped' = 0 BY <1>6, <2>3 DEF PopCas
    <3>2. Deque' = Deque BY <2>1, <3>1 DEF Deque
    <3>3. Len(Deque) = 0 BY <1>0, <2>1, <2>3 DEF DequeOK, OwnerOK
    <3>4. Deque = <<>> BY <1>0, <3>3, EmptySeq DEF DequeOK
    <3> QED BY <2>1, <3>1, <3>2, <3>4 DEF Abstract!Next, Abstract!PopNothing
  <2> QED BY <2>2, <2>3
<1>7. CASE PopRestore
  <2>1. UNCHANGED <<top, buffer, npush, taken, popped, End, Count>>
        BY <1>7 DEF PopRestore, End, Count, Typed
  <2> QED BY <2>1 DEF Abstract!vars, Deque
<1>8. ASSUME NEW p \in Thieves, Steal(p) \/ StealCheck(p) \/ StealRead(p)
      PROVE  UNCHANGED Abstract!vars
  <2>1. UNCHANGED <<top, buffer, npush, taken, popped, End, Count>>
        BY <1>8 DEF Steal, StealCheck, StealRead, End, Count
  <2> QED BY <2>1 DEF Abstract!vars, Deque
<1>9. ASSUME NEW p \in Thieves, StealCas(p)
      PROVE  [Abstract!Next]_(Abstract!vars)
  <2>1. UNCHANGED <<buffer, popped, End, Count>> /\ tpc[p] = "cas"
        BY <1>9 DEF StealCas, End, Count
  <2>2. End \in Int /\ top \in Nat BY DEF End, Typed
  <2>3. CASE top = oldest[p]
    <3>1. top' = top + 1 /\ taken' = taken \cup {val[p]}
          BY <1>9, <2>3 DEF StealCas, At
    <3>2. top < End /\ val[p] = buffer[Slot(top)] BY <2>1, <2>3 DEF ThievesOK
    <3>3. Deque \in Seq(Nat) /\ Deque' \in Seq(Nat) /\ Len(Deque) = Len(Deque') + 1
          BY <1>0, <2>1, <2>2, <3>1, <3>2 DEF DequeOK
    <3>4. \A k \in 1..Len(Deque') : Deque'[k] = Deque[k + 1]
          BY <1>0, <2>1, <2>2, <3>1, <3>2 DEF DequeOK
    <3>5. Deque # <<>> /\ Deque' = Tail(Deque) /\ Head(Deque) = Deque[1]
          BY <3>3, <3>4, IsTail, Zenon
    <3>6. Deque[1] = val[p] BY <1>0, <2>2, <3>2 DEF DequeOK
    <3>7. top \in top..(End - 1) BY <2>2, <3>2
    <3>8. val[p] \notin taken BY <3>2, <3>7 DEF TasksOK
    <3> QED BY <2>1, <3>1, <3>5, <3>6, <3>8 DEF Abstract!Next, Abstract!Steal
  <2>4. CASE top # oldest[p]
    <3>1. UNCHANGED <<top, taken>> BY <1>9, <2>4 DEF StealCas
    <3> QED BY <2>1, <3>1 DEF Abstract!vars, Deque
  <2> QED BY <2>3, <2>4
<1>10. CASE UNCHANGED qvars
  <2>1. UNCHANGED <<top, buffer, npush, taken, popped, End, Count>>
        BY <1>10 DEF qvars, End, Count
  <2> QED BY <2>1 DEF Abstract!vars, Deque
<1> HIDE DEF IInv
<1> QED BY <1>1, <1>2, <1>3, <1>4, <1>5, <1>6, <1>7, <1>8, <1>9, <1>10
       DEF QueueNext, OwnerStep, ThiefStep

\* The lock-free queue implements the atomic deque: every task pushed is handed
\* out once, to the owner from the new end or to a thief from the old end.
THEOREM Refinement == QueueSpec => IsADeque
BY InitDeque, NextDeque, Invariance, PTL DEF QueueSpec, IsADeque, Abstract!Spec
============================================================================
