---------------------- MODULE DoublyBufferedDataProofs ----------------------
(***************************************************************************)
(* That DoublyBufferedData never changes an instance under a reader, for   *)
(* any number of reading and modifying threads and of modifications.       *)
(***************************************************************************)
EXTENDS DoublyBufferedData, TLAPS

\* _modify_mutex is held from the first line of Modify to its end, and
\* _wrappers_mutex while the wrappers are walked.
MutexesHeld ==
    /\ \A m \in Modifiers : mpc[m] # "idle" => modify_mutex = {m}
    /\ modify_mutex # {} => \E m \in Modifiers : modify_mutex = {m} /\ mpc[m] # "idle"
    /\ \A m \in Modifiers : mpc[m] = "walk" => walking
    /\ wrappers = {r \in Readers : rpc[r] # "none"}

\* How far apart the instances are, at every place of Modify.
Apart ==
    /\ InstancesAgree
    /\ \A m \in Modifiers : mpc[m] # "idle" =>
          /\ bg[m] = 1 - index
          /\ mpc[m] = "first" => data[bg[m]] = data[index]
          /\ mpc[m] = "flip" => data[bg[m]] = data[index] + 1
          /\ mpc[m] \in {"wait", "walk", "second"} => data[index] = data[bg[m]] + 1

\* A reader of the background instance is one Modify still waits for.
Awaited ==
    \A r \in Readers : rpc[r] = "reading" =>
        /\ seen[r] = data[at[r]]
        /\ at[r] = index \/ \E m \in Modifiers : mpc[m] = "wait" \/ (mpc[m] = "walk" /\ r \in left)

\* The inductive invariant.
IInv ==
    /\ DataTypeOK /\ MutexesHeld /\ Apart /\ Awaited
    /\ \A r \in Readers : seen[r] <= data[index]

LEMMA InitIInv == DataInit => IInv
<1> SUFFICES ASSUME DataInit PROVE IInv
  OBVIOUS
<1>1. DataTypeOK
  BY Zenon DEF DataInit, DataTypeOK, Instances
<1>2. wrappers = {r \in Readers : rpc[r] # "none"}
  BY DEF DataInit
<1> QED  BY <1>1, <1>2 DEF DataInit, IInv, MutexesHeld, Apart, InstancesAgree, Awaited, Instances

\* The steps of a reader leave the instances alone.
LEMMA ReaderIInv ==
    ASSUME IInv, NEW r \in Readers,
           AddWrapper(r) \/ BeginRead(r) \/ UnsafeRead(r) \/ EndRead(r) \/ RemoveWrapper(r)
    PROVE  IInv'
<1> USE DEF IInv, DataTypeOK, mvars, rvars, Instances
<1>1. DataTypeOK'
  BY DEF AddWrapper, BeginRead, UnsafeRead, EndRead, RemoveWrapper
<1>2. MutexesHeld'
  BY DEF MutexesHeld, AddWrapper, BeginRead, UnsafeRead, EndRead, RemoveWrapper
<1>3. Apart'
  BY DEF Apart, InstancesAgree, AddWrapper, BeginRead, UnsafeRead, EndRead, RemoveWrapper
<1>4. Awaited'
  BY DEF Awaited, AddWrapper, BeginRead, UnsafeRead, EndRead, RemoveWrapper
<1>5. \A q \in Readers : seen'[q] <= data'[index']
  BY DEF AddWrapper, BeginRead, UnsafeRead, EndRead, RemoveWrapper
<1> QED  BY <1>1, <1>2, <1>3, <1>4, <1>5

\* A modifier changes the background instance while nobody reads it, and the
\* foreground never.
LEMMA ModifierIInv ==
    ASSUME IInv, NEW m \in Modifiers,
           \/ StartModify(m) \/ FirstChange(m) \/ Flip(m)
           \/ WaitReaders(m) \/ WaitReadDone(m) \/ SecondChange(m)
    PROVE  IInv'
<1> USE DEF IInv, DataTypeOK, rvars, Instances, ModifierAt
<1>1. CASE StartModify(m)
  BY <1>1 DEF StartModify, MutexesHeld, Apart, InstancesAgree, Awaited
<1>2. CASE FirstChange(m)
  BY <1>2 DEF FirstChange, MutexesHeld, Apart, InstancesAgree, Awaited
<1>3. CASE Flip(m)
  BY <1>3 DEF Flip, MutexesHeld, Apart, InstancesAgree, Awaited
<1>4. CASE WaitReaders(m)
  BY <1>4 DEF WaitReaders, MutexesHeld, Apart, InstancesAgree, Awaited
<1>5. CASE WaitReadDone(m)
  <2>1. CASE left = {} /\ left' = left /\ walking' = FALSE /\ ModifierAt(m, "second")
    <3>1. \A n \in Modifiers : mpc[n] # "idle" => n = m
      BY <1>5 DEF WaitReadDone, MutexesHeld
    <3>2. \A r \in Readers : rpc[r] = "reading" => at[r] = index /\ seen[r] = data[at[r]]
      BY <1>5, <2>1, <3>1 DEF WaitReadDone, Awaited
    <3>3. DataTypeOK' /\ Apart'
      BY <1>5, <2>1, <3>1, Zenon DEF WaitReadDone, Apart, InstancesAgree
    <3>4. MutexesHeld'
      BY <1>5, <2>1, <3>1 DEF WaitReadDone, MutexesHeld
    <3>5. Awaited'
      BY <1>5, <2>1, <3>2 DEF WaitReadDone, Awaited
    <3> QED  BY <1>5, <3>3, <3>4, <3>5 DEF WaitReadDone
  <2>2. ASSUME NEW r \in left, ReadIsDone(r), left' = left \ {r}, UNCHANGED <<walking, mpc>>
        PROVE  IInv'
    <3>1. UNCHANGED <<data, index, modify_mutex, mpc, bg, walking, rvars>> /\ rpc[r] # "reading"
      BY <1>5, <2>2 DEF WaitReadDone, ReadIsDone
    <3>2. DataTypeOK' /\ MutexesHeld' /\ Apart'
      BY <2>2, <3>1 DEF MutexesHeld, Apart, InstancesAgree
    <3>3. Awaited'
      BY <2>2, <3>1 DEF Awaited
    <3> QED  BY <3>1, <3>2, <3>3
  <2> QED  BY <1>5, <2>1, <2>2, Zenon DEF WaitReadDone
<1>6. CASE SecondChange(m)
  BY <1>6 DEF SecondChange, MutexesHeld, Apart, InstancesAgree, Awaited
<1> QED  BY <1>1, <1>2, <1>3, <1>4, <1>5, <1>6

LEMMA NextIInv == IInv /\ [DataNext]_dvars => IInv'
<1> SUFFICES ASSUME IInv, [DataNext]_dvars PROVE IInv'
  OBVIOUS
<1>1. CASE UNCHANGED dvars
  BY <1>1 DEF dvars, mvars, rvars, IInv, DataTypeOK, MutexesHeld, Apart, InstancesAgree, Awaited
<1> QED  BY <1>1, ReaderIInv, ModifierIInv DEF DataNext

\* Only UnsafeRead sets seen, to the foreground, of which no thread has seen a
\* later state.
LEMMA SeenAdvances == IInv /\ [DataNext]_dvars => [\A r \in Readers : seen'[r] >= seen[r]]_dvars
<1> SUFFICES ASSUME IInv, DataNext PROVE \A r \in Readers : seen'[r] >= seen[r]
  OBVIOUS
<1> USE DEF IInv, DataTypeOK, mvars, rvars, Instances
<1>1. ASSUME NEW q \in Readers, UnsafeRead(q)
      PROVE  \A r \in Readers : seen'[r] >= seen[r]
  BY <1>1 DEF UnsafeRead
<1>2. UNCHANGED seen => \A r \in Readers : seen'[r] >= seen[r]
  OBVIOUS
<1> QED
  BY <1>1, <1>2 DEF DataNext, AddWrapper, BeginRead, EndRead, RemoveWrapper, StartModify, FirstChange, Flip,
                    WaitReaders, WaitReadDone, SecondChange

\* The mutexes held and the instances read agree with where the modifier is.
THEOREM Invariance == DataSpec => []IInv
BY InitIInv, NextIInv, PTL DEF DataSpec

\* Modify never changes an instance that a thread reads, whatever it read is
\* still what that instance holds, the two instances are the same when no
\* modification is in progress, and no thread reads older data than it has
\* read before: for any number of threads.
THEOREM ReadersSafe == DataSpec => DataSound
<1>1. IInv => ReadersUndisturbed /\ InstancesAgree
  BY DEF IInv, DataTypeOK, MutexesHeld, Apart, Awaited, ReadersUndisturbed, Changing, Instances
<1>2. DataSpec => ReadsAdvance
  BY SeenAdvances, Invariance, PTL DEF DataSpec, ReadsAdvance
<1>3. IInv => DataTypeOK
  BY DEF IInv
<1> QED  BY <1>1, <1>2, <1>3, Invariance, PTL DEF DataSound
=============================================================================
