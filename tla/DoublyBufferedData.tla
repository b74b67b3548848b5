------------------------- MODULE DoublyBufferedData -------------------------
(***************************************************************************)
(* flare::container::DoublyBufferedData                                    *)
(* (src/flare/container/doubly_buffered_data.h): two instances of the      *)
(* data.  Readers lock only their own wrapper and read the foreground      *)
(* one; a modification changes the background one, flips the index, waits  *)
(* for every reader that may still be on the old foreground, and changes   *)
(* that too.                                                               *)
(*                                                                         *)
(* The data is the number of modifications applied to it.                  *)
(***************************************************************************)
EXTENDS Naturals, FiniteSets

CONSTANTS
    Readers, Modifiers,     \* threads
    MaxModify               \* bound: modifications that change the data

VARIABLES
    data, index,    \* _data, _index
    modify_mutex,   \* the modifier that owns _modify_mutex, in a set
    mpc,            \* modifier -> where it is
    bg,             \* modifier -> bg_index
    walking,        \* _wrappers_mutex is held by the modifier that walks _wrappers
    left,           \* wrappers it still has to wait for
    wrappers,       \* readers whose wrapper is in _wrappers
    rpc,            \* reader -> "none" (no wrapper), "ready", "locked", "reading"
    at,             \* reader -> the instance its ScopedPtr points to
    seen            \* reader -> the data it read last

mvars == <<data, index, modify_mutex, mpc, bg, walking, left>>
rvars == <<wrappers, rpc, at, seen>>
dvars == <<mvars, rvars>>

Instances == {0, 1}

DataTypeOK ==
    /\ data \in [Instances -> Nat] /\ index \in Instances
    /\ modify_mutex \subseteq Modifiers
    /\ mpc \in [Modifiers -> {"idle", "first", "flip", "wait", "walk", "second"}]
    /\ bg \in [Modifiers -> Instances]
    /\ walking \in BOOLEAN /\ left \subseteq Readers
    /\ wrappers \subseteq Readers
    /\ rpc \in [Readers -> {"none", "ready", "locked", "reading"}]
    /\ at \in [Readers -> Instances] /\ seen \in [Readers -> Nat]

DataInit ==
    /\ data = [i \in Instances |-> 0] /\ index = 0
    /\ modify_mutex = {} /\ mpc = [m \in Modifiers |-> "idle"]
    /\ bg = [m \in Modifiers |-> 0]
    /\ walking = FALSE /\ left = {}
    /\ wrappers = {} /\ rpc = [r \in Readers |-> "none"]
    /\ at = [r \in Readers |-> 0] /\ seen = [r \in Readers |-> 0]

-----------------------------------------------------------------------------
(* Read and ~ScopedPtr *)

\* The first Read of a thread.
AddWrapper(r) ==
    /\ rpc[r] = "none" /\ ~walking
    /\ wrappers' = wrappers \cup {r} /\ rpc' = [rpc EXCEPT ![r] = "ready"]
    /\ UNCHANGED <<mvars, at, seen>>

BeginRead(r) ==
    /\ rpc[r] = "ready"
    /\ rpc' = [rpc EXCEPT ![r] = "locked"]
    /\ UNCHANGED <<mvars, wrappers, at, seen>>

UnsafeRead(r) ==
    /\ rpc[r] = "locked"
    /\ at' = [at EXCEPT ![r] = index] /\ seen' = [seen EXCEPT ![r] = data[index]]
    /\ rpc' = [rpc EXCEPT ![r] = "reading"]
    /\ UNCHANGED <<mvars, wrappers>>

EndRead(r) ==
    /\ rpc[r] = "reading"
    /\ rpc' = [rpc EXCEPT ![r] = "ready"]
    /\ UNCHANGED <<mvars, wrappers, at, seen>>

\* The thread quits.
RemoveWrapper(r) ==
    /\ rpc[r] = "ready" /\ ~walking
    /\ wrappers' = wrappers \ {r} /\ rpc' = [rpc EXCEPT ![r] = "none"]
    /\ UNCHANGED <<mvars, at, seen>>

-----------------------------------------------------------------------------
(* Modify *)

ModifierAt(m, l) == mpc' = [mpc EXCEPT ![m] = l]

StartModify(m) ==
    /\ mpc[m] = "idle" /\ modify_mutex = {}
    /\ modify_mutex' = {m}
    /\ bg' = [bg EXCEPT ![m] = 1 - index]
    /\ ModifierAt(m, "first")
    /\ UNCHANGED <<data, index, walking, left, rvars>>

\* fn(_data[bg_index]); nothing else happens if it returns 0.
FirstChange(m) ==
    /\ mpc[m] = "first"
    /\ \/ /\ data[bg[m]] < MaxModify
          /\ data' = [data EXCEPT ![bg[m]] = @ + 1]
          /\ ModifierAt(m, "flip") /\ modify_mutex' = modify_mutex
       \/ ModifierAt(m, "idle") /\ modify_mutex' = {} /\ data' = data
    /\ UNCHANGED <<index, bg, walking, left, rvars>>

Flip(m) ==
    /\ mpc[m] = "flip"
    /\ index' = bg[m] /\ bg' = [bg EXCEPT ![m] = 1 - @]
    /\ ModifierAt(m, "wait")
    /\ UNCHANGED <<data, modify_mutex, walking, left, rvars>>

\* Lock _wrappers_mutex.
WaitReaders(m) ==
    /\ mpc[m] = "wait" /\ ~walking
    /\ walking' = TRUE /\ left' = wrappers
    /\ ModifierAt(m, "walk")
    /\ UNCHANGED <<data, index, modify_mutex, bg, rvars>>

\* Mutant: does not wait for a reader that reads.
WaitsForNobody(r) == rpc[r] # "locked"

\* WaitReadDone locks the wrapper's mutex and unlocks it.
ReadIsDone(r) == rpc[r] \notin {"locked", "reading"}

WaitReadDone(m) ==
    /\ mpc[m] = "walk"
    /\ \/ \E r \in left : ReadIsDone(r) /\ left' = left \ {r} /\ UNCHANGED <<walking, mpc>>
       \/ left = {} /\ left' = left /\ walking' = FALSE /\ ModifierAt(m, "second")
    /\ UNCHANGED <<data, index, modify_mutex, bg, rvars>>

SecondChange(m) ==
    /\ mpc[m] = "second"
    /\ data' = [data EXCEPT ![bg[m]] = @ + 1]
    /\ ModifierAt(m, "idle") /\ modify_mutex' = {}
    /\ UNCHANGED <<index, bg, walking, left, rvars>>

-----------------------------------------------------------------------------
DataNext ==
    \/ \E r \in Readers : AddWrapper(r) \/ BeginRead(r) \/ UnsafeRead(r) \/ EndRead(r) \/ RemoveWrapper(r)
    \/ \E m \in Modifiers :
          StartModify(m) \/ FirstChange(m) \/ Flip(m) \/ WaitReaders(m) \/ WaitReadDone(m) \/ SecondChange(m)

DataSpec == DataInit /\ [][DataNext]_dvars

-----------------------------------------------------------------------------
(* Properties *)

Changing(m, i) == mpc[m] \in {"first", "second"} /\ bg[m] = i

\* A reader's instance is not changed under it, and what it read is what the
\* instance still holds (Modify waits for the wrappers it can have).
ReadersUndisturbed ==
    \A r \in Readers : rpc[r] = "reading" =>
        /\ seen[r] = data[at[r]]
        /\ \A m \in Modifiers : ~Changing(m, at[r])

\* Between modifications the two instances are the same.
InstancesAgree == modify_mutex = {} => data[0] = data[1]

\* A thread never reads older data than it has read before.
ReadsAdvance == [][\A r \in Readers : seen'[r] >= seen[r]]_dvars

\* No instance is changed while it is read, both are the same when nobody
\* modifies them, and no thread goes back to older data.
DataSound == [](DataTypeOK /\ ReadersUndisturbed /\ InstancesAgree) /\ ReadsAdvance
=============================================================================
