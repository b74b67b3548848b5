-------------------------- MODULE FiberMutexProofs --------------------------
(***************************************************************************)
(* That fiber_mutex_t has one owner, and that no fiber asleep on it or on  *)
(* a fiber_cond_t is forgotten, for any number of fibers and calls.        *)
(***************************************************************************)
EXTENDS FiberMutex, FiniteSetTheorems, TLAPS

-----------------------------------------------------------------------------
(* Lists of sleepers, in which nobody is twice *)

LEMMA EmptyList ==
    /\ ToSet(<<>>) = {} /\ IsInjective(<<>>)
    /\ \A S : \A q \in Seq(S) : ToSet(q) \subseteq S /\ (q # <<>> => Head(q) \in ToSet(q))
BY DEF ToSet, IsInjective

LEMMA AppendList ==
    ASSUME NEW S, NEW q \in Seq(S), NEW x \in S, x \notin ToSet(q), IsInjective(q)
    PROVE  /\ Append(q, x) \in Seq(S) /\ IsInjective(Append(q, x))
           /\ ToSet(Append(q, x)) = ToSet(q) \cup {x}
<1> DEFINE p == Append(q, x)
<1>1. /\ p \in Seq(S) /\ DOMAIN p = 1 .. Len(q) + 1 /\ DOMAIN q = 1 .. Len(q) /\ Len(q) \in Nat
      /\ p[Len(q) + 1] = x /\ \A i \in 1 .. Len(q) : p[i] = q[i]
  OBVIOUS
<1> HIDE DEF p
<1>2. ToSet(p) = ToSet(q) \cup {x}
  BY <1>1 DEF ToSet
<1>3. IsInjective(p)
  BY <1>1 DEF IsInjective, ToSet
<1> QED  BY <1>1, <1>2, <1>3 DEF p

LEMMA JoinedFacts ==
    ASSUME NEW S, NEW q \in Seq(S), NEW r \in Seq(S)
    PROVE  /\ q \o r \in Seq(S) /\ Len(q \o r) = Len(q) + Len(r) /\ Len(q) \in Nat /\ Len(r) \in Nat
           /\ \A j \in 1 .. Len(q) : (q \o r)[j] = q[j]
           /\ \A j \in 1 .. Len(r) : (q \o r)[Len(q) + j] = r[j]
OBVIOUS

LEMMA RemoveAtList ==
    ASSUME NEW S, NEW q \in Seq(S), NEW i \in 1 .. Len(q), IsInjective(q)
    PROVE  /\ RemoveAt(q, i) \in Seq(S) /\ IsInjective(RemoveAt(q, i))
           /\ ToSet(RemoveAt(q, i)) = ToSet(q) \ {q[i]}
<1> DEFINE p == RemoveAt(q, i)
<1>1. /\ p \in Seq(S) /\ Len(p) = Len(q) - 1 /\ Len(q) \in Nat
      /\ \A j \in 1 .. Len(q) - 1 : p[j] = IF j < i THEN q[j] ELSE q[j + 1]
  <2> DEFINE a == SubSeq(q, 1, i - 1)
             b == SubSeq(q, i + 1, Len(q))
  <2>1. a \in Seq(S) /\ Len(a) = i - 1 /\ \A j \in 1 .. i - 1 : a[j] = q[j]
    OBVIOUS
  <2>2. b \in Seq(S) /\ Len(b) = Len(q) - i /\ \A j \in 1 .. Len(q) - i : b[j] = q[i + j]
    OBVIOUS
  <2>3. p = a \o b
    BY DEF RemoveAt
  <2> HIDE DEF a, b, p
  <2>4. /\ p \in Seq(S) /\ Len(p) = Len(a) + Len(b)
        /\ \A j \in 1 .. Len(a) : p[j] = a[j]
        /\ \A j \in 1 .. Len(b) : p[Len(a) + j] = b[j]
    <3>1. a \in Seq(S) /\ b \in Seq(S)
      BY <2>1, <2>2
    <3>2. /\ a \o b \in Seq(S) /\ Len(a \o b) = Len(a) + Len(b)
          /\ \A j \in 1 .. Len(a) : (a \o b)[j] = a[j]
          /\ \A j \in 1 .. Len(b) : (a \o b)[Len(a) + j] = b[j]
      BY <3>1, JoinedFacts
    <3> QED  BY <2>3, <3>2, Zenon
  <2>5. ASSUME NEW j \in 1 .. Len(q) - 1, ~(j < i) PROVE p[j] = q[j + 1]
    <3>1. j - (i - 1) \in 1 .. Len(q) - i /\ (i - 1) + (j - (i - 1)) = j /\ i + (j - (i - 1)) = j + 1
      BY <2>5
    <3>2. p[j] = b[j - (i - 1)]
      BY <2>1, <2>2, <2>4, <3>1
    <3> QED  BY <2>2, <3>1, <3>2
  <2>6. ASSUME NEW j \in 1 .. Len(q) - 1, j < i PROVE p[j] = q[j]
    <3>1. j \in 1 .. i - 1
      BY <2>6
    <3> QED  BY <2>1, <2>4, <3>1
  <2>7. Len(q) \in Nat /\ Len(p) = Len(q) - 1
    BY <2>1, <2>2, <2>4
  <2> QED  BY <2>4, <2>5, <2>6, <2>7
<1>2. DOMAIN p = 1 .. Len(q) - 1 /\ DOMAIN q = 1 .. Len(q)
  BY <1>1
<1> HIDE DEF p
<1>3. ToSet(p) \subseteq ToSet(q) \ {q[i]}
  <2> SUFFICES ASSUME NEW k \in 1 .. Len(q) - 1 PROVE p[k] \in ToSet(q) /\ p[k] # q[i]
    BY <1>2, Zenon DEF ToSet
  <2> DEFINE place == IF k < i THEN k ELSE k + 1
  <2>1. place \in 1 .. Len(q) /\ place # i /\ p[k] = q[place] /\ i \in 1 .. Len(q)
    BY <1>1
  <2> QED  BY <1>2, <2>1, Zenon DEF ToSet, IsInjective
<1>4. ToSet(q) \ {q[i]} \subseteq ToSet(p)
  <2> SUFFICES ASSUME NEW k \in 1 .. Len(q), q[k] # q[i] PROVE q[k] \in ToSet(p)
    BY <1>2 DEF ToSet
  <2>1. CASE k < i
    BY <1>1, <1>2, <2>1 DEF ToSet
  <2>2. CASE k > i
    <3>1. k - 1 \in 1 .. Len(q) - 1 /\ p[k - 1] = q[k]
      BY <1>1, <2>2
    <3> QED  BY <1>2, <3>1 DEF ToSet
  <2> QED  BY <1>1, <2>1, <2>2
<1>5. IsInjective(p)
  <2> SUFFICES ASSUME NEW a \in 1 .. Len(q) - 1, NEW b \in 1 .. Len(q) - 1, p[a] = p[b] PROVE a = b
    BY <1>2 DEF IsInjective
  <2> DEFINE place(j) == IF j < i THEN j ELSE j + 1
  <2>1. /\ place(a) \in 1 .. Len(q) /\ place(b) \in 1 .. Len(q)
        /\ p[a] = q[place(a)] /\ p[b] = q[place(b)]
    BY <1>1
  <2>2. place(a) = place(b)
    BY <1>2, <2>1, Zenon DEF IsInjective
  <2> QED  BY <2>2
<1> QED  BY <1>1, <1>3, <1>4, <1>5 DEF p

LEMMA TailList ==
    ASSUME NEW S, NEW q \in Seq(S), q # <<>>, IsInjective(q)
    PROVE  /\ Tail(q) \in Seq(S) /\ IsInjective(Tail(q))
           /\ ToSet(Tail(q)) = ToSet(q) \ {Head(q)}
<1> DEFINE p == Tail(q)
<1>1. /\ p \in Seq(S) /\ Len(p) = Len(q) - 1 /\ Len(q) \in Nat /\ Len(q) > 0 /\ Head(q) = q[1]
      /\ \A j \in 1 .. Len(q) - 1 : p[j] = q[j + 1]
  OBVIOUS
<1>2. DOMAIN p = 1 .. Len(q) - 1 /\ DOMAIN q = 1 .. Len(q)
  BY <1>1
<1> HIDE DEF p
<1>3. ToSet(p) \subseteq ToSet(q) \ {Head(q)}
  <2> SUFFICES ASSUME NEW k \in 1 .. Len(q) - 1 PROVE p[k] \in ToSet(q) /\ p[k] # q[1]
    BY <1>1, <1>2, Zenon DEF ToSet
  <2>1. k + 1 \in 1 .. Len(q) /\ 1 \in 1 .. Len(q) /\ k + 1 # 1 /\ p[k] = q[k + 1]
    BY <1>1
  <2> QED  BY <1>2, <2>1, Zenon DEF ToSet, IsInjective
<1>4. ToSet(q) \ {Head(q)} \subseteq ToSet(p)
  <2> SUFFICES ASSUME NEW k \in 1 .. Len(q), q[k] # q[1] PROVE q[k] \in ToSet(p)
    BY <1>1, <1>2 DEF ToSet
  <2>1. k - 1 \in 1 .. Len(q) - 1 /\ p[k - 1] = q[k]
    BY <1>1
  <2> QED  BY <1>2, <2>1 DEF ToSet
<1>5. IsInjective(p)
  <2> SUFFICES ASSUME NEW a \in 1 .. Len(q) - 1, NEW b \in 1 .. Len(q) - 1, p[a] = p[b] PROVE a = b
    BY <1>2, Zenon DEF IsInjective
  <2>1. a + 1 \in 1 .. Len(q) /\ b + 1 \in 1 .. Len(q) /\ q[a + 1] = q[b + 1]
    BY <1>1
  <2>2. a + 1 = b + 1
    BY <1>2, <2>1, Zenon DEF IsInjective
  <2> QED  BY <2>2
<1> QED  BY <1>1, <1>3, <1>4, <1>5 DEF p

LEMMA JoinedList ==
    ASSUME NEW S, NEW q \in Seq(S), NEW r \in Seq(S), IsInjective(q), IsInjective(r),
           ToSet(q) \cap ToSet(r) = {}
    PROVE  /\ q \o r \in Seq(S) /\ IsInjective(q \o r)
           /\ ToSet(q \o r) = ToSet(q) \cup ToSet(r)
<1> DEFINE p == q \o r
<1>1. /\ p \in Seq(S) /\ Len(p) = Len(q) + Len(r) /\ Len(q) \in Nat /\ Len(r) \in Nat
      /\ \A j \in 1 .. Len(q) : p[j] = q[j]
      /\ \A j \in 1 .. Len(r) : p[Len(q) + j] = r[j]
  BY JoinedFacts
<1>2. /\ DOMAIN p = 1 .. Len(q) + Len(r) /\ DOMAIN q = 1 .. Len(q) /\ DOMAIN r = 1 .. Len(r)
  BY <1>1
<1> HIDE DEF p
<1>3. \A j \in DOMAIN p :
         \/ j \in DOMAIN q /\ p[j] = q[j]
         \/ j > Len(q) /\ j - Len(q) \in DOMAIN r /\ p[j] = r[j - Len(q)]
  <2> SUFFICES ASSUME NEW j \in DOMAIN p, j > Len(q)
               PROVE  j - Len(q) \in DOMAIN r /\ p[j] = r[j - Len(q)]
    BY <1>1, <1>2
  <2>1. j - Len(q) \in 1 .. Len(r) /\ Len(q) + (j - Len(q)) = j
    BY <1>1, <1>2
  <2> QED  BY <1>1, <1>2, <2>1
<1>4. ToSet(p) \subseteq ToSet(q) \cup ToSet(r)
  BY <1>3 DEF ToSet
<1>5. ToSet(q) \subseteq ToSet(p) /\ ToSet(r) \subseteq ToSet(p)
  <2>1. ASSUME NEW j \in DOMAIN q PROVE q[j] \in ToSet(p)
    BY <1>1, <1>2 DEF ToSet
  <2>2. ASSUME NEW j \in DOMAIN r PROVE r[j] \in ToSet(p)
    <3>1. Len(q) + j \in DOMAIN p /\ p[Len(q) + j] = r[j]
      BY <1>1, <1>2
    <3> QED  BY <3>1 DEF ToSet
  <2> QED  BY <2>1, <2>2 DEF ToSet
<1>6. IsInjective(p)
  <2> SUFFICES ASSUME NEW a \in DOMAIN p, NEW b \in DOMAIN p, p[a] = p[b] PROVE a = b
    BY DEF IsInjective
  <2>1. CASE a \in DOMAIN q /\ b \in DOMAIN q
    BY <1>1, <1>2, <2>1 DEF IsInjective
  <2>2. CASE a > Len(q) /\ b > Len(q)
    <3>1. a - Len(q) \in DOMAIN r /\ b - Len(q) \in DOMAIN r /\ r[a - Len(q)] = r[b - Len(q)]
      BY <1>1, <1>2, <1>3, <2>2
    <3>2. a - Len(q) = b - Len(q)
      BY <3>1 DEF IsInjective
    <3> QED  BY <1>1, <1>2, <3>2
  <2>3. ASSUME NEW c \in DOMAIN q, NEW d \in DOMAIN r PROVE q[c] # r[d]
    BY Zenon DEF ToSet
  <2> QED  BY <1>1, <1>2, <1>3, <2>1, <2>2, <2>3
<1> QED  BY <1>1, <1>4, <1>5, <1>6 DEF p

-----------------------------------------------------------------------------
(* The inductive invariant *)

OnMutex == ToSet(mutex_waiters)
OnCond == ToSet(cond_waiters)

\* Whoever sleeps is in one list, once.
Listed ==
    /\ IsInjective(mutex_waiters) /\ IsInjective(cond_waiters) /\ OnMutex \cap OnCond = {}
    /\ \A f \in Fibers :
          /\ f \in OnMutex => fpc[f] \in {"asleep", "cond_asleep"}
          /\ f \in OnCond => fpc[f] = "cond_asleep"
          /\ fpc[f] = "asleep" => f \in OnMutex
          /\ fpc[f] = "cond_asleep" => f \in OnMutex \cup OnCond

\* The word says whether somebody is inside.
Owned ==
    /\ \A f, g \in Fibers : f \in Owners /\ g \in Owners => f = g
    /\ whole = FREE <=> Owners = {}

\* Somebody will wake the sleepers on the mutex.
Awaited == OnMutex # {} => whole = CONTENDED \/ \E f \in Fibers : fpc[f] \in {"wake", "cond_wake", "contend"}

\* Sleepers on the condition read its word after every broadcast that is over.
Stamps ==
    /\ told <= seq
    /\ \A f \in Fibers : expected_seq[f] <= seq /\ (f \in OnCond => expected_seq[f] >= told)

IInv == MutexTypeOK /\ Listed /\ Owned /\ Awaited /\ Stamps

LEMMA InitIInv == MutexInit => IInv
<1> SUFFICES ASSUME MutexInit PROVE IInv
  OBVIOUS
<1>1. MutexTypeOK
  <2>1. bound \in BOOLEAN /\ timed \in [Fibers -> BOOLEAN] /\ fpc \in [Fibers -> Places]
    BY Zenon DEF MutexInit, Places
  <2>2. calls \in Nat /\ told \in Nat /\ expected_seq \in [Fibers -> Nat] /\ seq \in Nat
    BY DEF MutexInit
  <2>3. mutex_waiters \in Seq(Fibers) /\ cond_waiters \in Seq(Fibers) /\ whole = FREE
    BY DEF MutexInit
  <2> QED  BY <2>1, <2>2, <2>3 DEF MutexTypeOK
<1>2. IsInjective(mutex_waiters) /\ IsInjective(cond_waiters) /\ OnMutex = {} /\ OnCond = {}
  BY EmptyList DEF MutexInit, OnMutex, OnCond
<1>3. Listed /\ Awaited /\ Stamps
  BY <1>2 DEF MutexInit, Listed, Awaited, Stamps
<1>4. Owned
  BY DEF MutexInit, Owned, Owners
<1> QED  BY <1>1, <1>3, <1>4 DEF IInv

LEMMA LockIInv == ASSUME IInv, NEW f \in Fibers, LockMutex(f) PROVE IInv'
<1> USE DEF IInv, LockMutex
<1>1. MutexTypeOK'
  <2>1. fpc' \in [Fibers -> Places]
    BY DEF MutexTypeOK, Places, FiberAt
  <2>2. calls' \in Nat
    BY DEF MutexTypeOK, Call
  <2>3. bound' \in BOOLEAN /\ timed' \in [Fibers -> BOOLEAN]
    BY Zenon DEF MutexTypeOK
  <2> QED  BY <2>1, <2>2, <2>3 DEF MutexTypeOK
<1>2. OnMutex' = OnMutex /\ OnCond' = OnCond
  BY DEF OnMutex, OnCond
<1>3. Listed'
  BY <1>2 DEF Listed, MutexTypeOK, FiberAt
<1>4. Owned'
  <2>1. f \notin Owners
    BY Zenon DEF Owners
  <2>2. CASE whole = FREE
    <3>0. FREE # LOCKED
      <4> HIDE DEF IInv, LockMutex
      <4> QED  BY DEF FREE, LOCKED
    <3>1. whole' # FREE /\ fpc' = [fpc EXCEPT ![f] = "inside"] /\ fpc \in [Fibers -> Places]
      BY <2>2, <3>0, Zenon DEF FiberAt, MutexTypeOK
    <3>2. Owners = {}
      BY <2>2, Zenon DEF Owned
    <3>3. Owners' = {f}
      <4> HIDE DEF IInv, LockMutex
      <4> QED  BY <3>1, <3>2 DEF Owners
    <3> QED  BY <3>1, <3>3, Zenon DEF Owned
  <2>3. CASE whole # FREE
    <3>1. whole' = whole /\ fpc' = [fpc EXCEPT ![f] = "contend"] /\ fpc \in [Fibers -> Places]
      BY <2>3, Zenon DEF FiberAt, MutexTypeOK
    <3>2. Owners' = Owners
      <4> HIDE DEF IInv, LockMutex
      <4> QED  BY <2>1, <3>1 DEF Owners
    <3> QED  BY <3>1, <3>2, Zenon DEF Owned, FREE
  <2> QED  BY <2>2, <2>3, Zenon
<1>5. Awaited'
  BY <1>2 DEF Awaited, MutexTypeOK, FREE, LOCKED, CONTENDED, FiberAt
<1>6. Stamps'
  BY <1>2 DEF Stamps, Listed, MutexTypeOK
<1> QED  BY <1>1, <1>3, <1>4, <1>5, <1>6

LEMMA LockContendedIInv == ASSUME IInv, NEW f \in Fibers, LockContended(f) PROVE IInv'
<1> USE DEF IInv, LockContended, Exchanged
<1>1. MutexTypeOK'
  BY DEF MutexTypeOK, Places, FREE, LOCKED, CONTENDED, FiberAt, Call
<1>2. OnMutex' = OnMutex /\ OnCond' = OnCond
  BY DEF OnMutex, OnCond
<1>3. Listed'
  BY <1>2 DEF Listed, MutexTypeOK, FiberAt
<1>4. Owned'
  BY DEF Owned, Owners, MutexTypeOK, FREE, LOCKED, CONTENDED, FiberAt
<1>5. Awaited'
  BY <1>2 DEF Awaited, MutexTypeOK, FREE, LOCKED, CONTENDED, FiberAt
<1>6. Stamps'
  BY <1>2 DEF Stamps, Listed, MutexTypeOK
<1> QED  BY <1>1, <1>3, <1>4, <1>5, <1>6

LEMMA UnlockIInv == ASSUME IInv, NEW f \in Fibers, UnlockMutex(f) PROVE IInv'
<1> USE DEF IInv, UnlockMutex, Release
<1>1. MutexTypeOK'
  BY DEF MutexTypeOK, Places, FREE, LOCKED, CONTENDED, FiberAt, Call
<1>2. OnMutex' = OnMutex /\ OnCond' = OnCond
  BY DEF OnMutex, OnCond
<1>3. Listed'
  BY <1>2, Zenon DEF Listed, MutexTypeOK, FiberAt
<1>4. Owned'
  BY DEF Owned, Owners, MutexTypeOK, FREE, LOCKED, CONTENDED, FiberAt
<1>5. Awaited'
  BY <1>2 DEF Awaited, MutexTypeOK, FREE, LOCKED, CONTENDED, FiberAt
<1>6. Stamps'
  BY <1>2 DEF Stamps, Listed, MutexTypeOK
<1> QED  BY <1>1, <1>3, <1>4, <1>5, <1>6

LEMMA CondWaitIInv == ASSUME IInv, NEW f \in Fibers, CondWait(f) PROVE IInv'
<1> USE DEF IInv, CondWait, Release
<1>1. MutexTypeOK'
  BY DEF MutexTypeOK, Places, FREE, LOCKED, CONTENDED, FiberAt, Call
<1>2. OnMutex' = OnMutex /\ OnCond' = OnCond
  BY DEF OnMutex, OnCond
<1>3. Listed'
  BY <1>2, Zenon DEF Listed, MutexTypeOK, FiberAt
<1>4. Owned'
  BY DEF Owned, Owners, MutexTypeOK, FREE, LOCKED, CONTENDED, FiberAt
<1>5. Awaited'
  BY <1>2 DEF Awaited, MutexTypeOK, FREE, LOCKED, CONTENDED, FiberAt
<1>6. Stamps'
  BY <1>2 DEF Stamps, Listed, MutexTypeOK
<1> QED  BY <1>1, <1>3, <1>4, <1>5, <1>6

LEMMA SignalIInv == ASSUME IInv, NEW f \in Fibers, Signal(f) PROVE IInv'
<1> USE DEF IInv, Signal, From
<1>1. MutexTypeOK'
  <2>1. fpc' \in [Fibers -> Places]
    BY Zenon DEF MutexTypeOK, Places, FiberAt
  <2>2. calls' \in Nat
    BY DEF MutexTypeOK, Call
  <2>3. bound' \in BOOLEAN /\ timed' \in [Fibers -> BOOLEAN]
    BY DEF MutexTypeOK
  <2> QED  BY <2>1, <2>2, <2>3 DEF MutexTypeOK
<1>2. OnMutex' = OnMutex /\ OnCond' = OnCond
  BY DEF OnMutex, OnCond
<1>3. Listed'
  BY <1>2 DEF Listed, MutexTypeOK, FiberAt
<1>4. Owned'
  <2>1. Owners' = Owners
    BY DEF Owners, MutexTypeOK, FiberAt
  <2> QED  BY <2>1 DEF Owned, FREE
<1>5. Awaited'
  BY <1>2 DEF Awaited, MutexTypeOK, FREE, LOCKED, CONTENDED, FiberAt
<1>6. Stamps'
  BY <1>2 DEF Stamps, Listed, MutexTypeOK
<1> QED  BY <1>1, <1>3, <1>4, <1>5, <1>6

LEMMA BroadcastIInv == ASSUME IInv, NEW f \in Fibers, Broadcast(f) PROVE IInv'
<1> USE DEF IInv, Broadcast, From
<1>1. MutexTypeOK'
  <2>1. fpc' \in [Fibers -> Places]
    BY Zenon DEF MutexTypeOK, Places, FiberAt
  <2>2. calls' \in Nat
    BY DEF MutexTypeOK, Call
  <2>3. bound' \in BOOLEAN /\ timed' \in [Fibers -> BOOLEAN]
    BY DEF MutexTypeOK
  <2>4. expected_seq' \in [Fibers -> Nat] /\ seq' \in Nat
    BY DEF MutexTypeOK
  <2> QED  BY <2>1, <2>2, <2>3, <2>4 DEF MutexTypeOK
<1>2. OnMutex' = OnMutex /\ OnCond' = OnCond
  BY DEF OnMutex, OnCond
<1>3. Listed'
  BY <1>2 DEF Listed, MutexTypeOK, FiberAt
<1>4. Owned'
  <2>1. Owners' = Owners
    BY DEF Owners, MutexTypeOK, FiberAt
  <2> QED  BY <2>1 DEF Owned, FREE
<1>5. Awaited'
  BY <1>2 DEF Awaited, MutexTypeOK, FREE, LOCKED, CONTENDED, FiberAt
<1>6. Stamps'
  BY <1>2 DEF Stamps, Listed, MutexTypeOK
<1> QED  BY <1>1, <1>3, <1>4, <1>5, <1>6

LEMMA SleepIInv == ASSUME IInv, NEW f \in Fibers, Sleep(f) PROVE IInv'
<1> USE DEF IInv, Sleep
<1>1. \/ whole = CONTENDED /\ OnMutex' = OnMutex \cup {f} /\ OnCond' = OnCond /\ fpc' = [fpc EXCEPT ![f] = "asleep"]
         /\ mutex_waiters' \in Seq(Fibers) /\ IsInjective(mutex_waiters')
      \/ whole # CONTENDED /\ OnMutex' = OnMutex /\ OnCond' = OnCond /\ fpc' = [fpc EXCEPT ![f] = "contend"]
         /\ mutex_waiters' = mutex_waiters
  <2>1. f \notin OnMutex /\ f \notin OnCond /\ IsInjective(mutex_waiters) /\ mutex_waiters \in Seq(Fibers)
    BY Zenon DEF Listed, MutexTypeOK
  <2>2. CASE whole = CONTENDED
    <3>1. mutex_waiters' = Append(mutex_waiters, f)
      BY <2>2
    <3> QED  BY <2>1, <2>2, <3>1, AppendList DEF OnMutex, OnCond, FiberAt
  <2>3. CASE ~(whole = CONTENDED)
    BY <2>3 DEF OnMutex, OnCond, FiberAt
  <2> QED  BY <2>2, <2>3
<1>2. MutexTypeOK'
  <2>1. fpc' \in [Fibers -> Places]
    BY <1>1, Zenon DEF MutexTypeOK, Places
  <2>2. mutex_waiters' \in Seq(Fibers) /\ cond_waiters' \in Seq(Fibers)
    BY <1>1 DEF MutexTypeOK
  <2> QED  BY <2>1, <2>2 DEF MutexTypeOK
<1>3. Listed'
  BY <1>1 DEF Listed, MutexTypeOK, FiberAt
<1>4. Owned'
  <2>1. Owners' = Owners
    BY DEF Owners, MutexTypeOK, FiberAt
  <2> QED  BY <2>1 DEF Owned, FREE
<1>5. Awaited'
  BY <1>1 DEF Awaited, MutexTypeOK, FREE, LOCKED, CONTENDED, FiberAt
<1>6. Stamps'
  BY <1>1 DEF Stamps, Listed, MutexTypeOK
<1> QED  BY <1>2, <1>3, <1>4, <1>5, <1>6

LEMMA LockTimedOutIInv == ASSUME IInv, NEW f \in Fibers, LockTimedOut(f) PROVE IInv'
<1> USE DEF IInv, LockTimedOut, Without
<1>1. /\ OnMutex' = OnMutex \ {f} /\ OnCond' = OnCond
      /\ mutex_waiters' \in Seq(Fibers) /\ IsInjective(mutex_waiters')
  BY RemoveAtList DEF OnMutex, OnCond, Listed, MutexTypeOK
<1>2. MutexTypeOK'
  BY <1>1 DEF MutexTypeOK, Places, FREE, LOCKED, CONTENDED, FiberAt
<1>3. Listed'
  BY <1>1 DEF Listed, MutexTypeOK, FiberAt
<1>4. Owned'
  BY DEF Owned, Owners, MutexTypeOK, FREE, LOCKED, CONTENDED, FiberAt
<1>5. Awaited'
  BY <1>1 DEF Awaited, MutexTypeOK, FREE, LOCKED, CONTENDED, FiberAt
<1>6. Stamps'
  BY <1>1 DEF Stamps, Listed, MutexTypeOK
<1> QED  BY <1>2, <1>3, <1>4, <1>5, <1>6, SMTT(30)

LEMMA CondSleepIInv == ASSUME IInv, NEW f \in Fibers, CondSleep(f) PROVE IInv'
<1> USE DEF IInv, CondSleep
<1>1. \/ seq = expected_seq[f] /\ OnCond' = OnCond \cup {f} /\ OnMutex' = OnMutex /\ fpc' = [fpc EXCEPT ![f] = "cond_asleep"]
         /\ cond_waiters' \in Seq(Fibers) /\ IsInjective(cond_waiters')
      \/ OnMutex' = OnMutex /\ OnCond' = OnCond /\ fpc' = [fpc EXCEPT ![f] = "contend"]
         /\ cond_waiters' = cond_waiters
  <2>1. f \notin OnMutex /\ f \notin OnCond /\ IsInjective(cond_waiters) /\ cond_waiters \in Seq(Fibers)
    BY Zenon DEF Listed, MutexTypeOK
  <2>2. CASE seq = expected_seq[f]
    <3>1. cond_waiters' = Append(cond_waiters, f)
      BY <2>2
    <3> QED  BY <2>1, <2>2, <3>1, AppendList DEF OnMutex, OnCond, FiberAt
  <2>3. CASE ~(seq = expected_seq[f])
    BY <2>3 DEF OnMutex, OnCond, FiberAt
  <2> QED  BY <2>2, <2>3
<1>2. MutexTypeOK'
  <2>1. fpc' \in [Fibers -> Places]
    BY <1>1, Zenon DEF MutexTypeOK, Places
  <2>2. mutex_waiters' \in Seq(Fibers) /\ cond_waiters' \in Seq(Fibers)
    BY <1>1 DEF MutexTypeOK
  <2> QED  BY <2>1, <2>2 DEF MutexTypeOK
<1>3. Listed'
  BY <1>1 DEF Listed, MutexTypeOK, FiberAt
<1>4. Owned'
  <2>1. Owners' = Owners
    BY DEF Owners, MutexTypeOK, FiberAt
  <2> QED  BY <2>1 DEF Owned, FREE
<1>5. Awaited'
  BY <1>1 DEF Awaited, MutexTypeOK, FREE, LOCKED, CONTENDED, FiberAt
<1>6. Stamps'
  BY <1>1 DEF Stamps, Listed, MutexTypeOK
<1> QED  BY <1>2, <1>3, <1>4, <1>5, <1>6

LEMMA InterruptedIInv == ASSUME IInv, NEW f \in Fibers, WaitInterrupted(f) PROVE IInv'
<1> USE DEF IInv, WaitInterrupted, Without
<1>1. /\ OnMutex' = OnMutex \ {f} /\ OnCond' = OnCond \ {f}
      /\ mutex_waiters' \in Seq(Fibers) /\ IsInjective(mutex_waiters')
      /\ cond_waiters' \in Seq(Fibers) /\ IsInjective(cond_waiters')
  <2>1. /\ IsInjective(mutex_waiters) /\ mutex_waiters \in Seq(Fibers)
        /\ IsInjective(cond_waiters) /\ cond_waiters \in Seq(Fibers)
        /\ f \notin OnMutex \/ f \notin OnCond
    BY DEF Listed, MutexTypeOK
  <2>2. CASE cond_waiters' \in Without(cond_waiters, f) /\ mutex_waiters' = mutex_waiters
    <3>1. PICK i \in 1 .. Len(cond_waiters) : cond_waiters[i] = f /\ cond_waiters' = RemoveAt(cond_waiters, i)
      BY <2>2
    <3>2. f \in OnCond
      BY <2>1, <3>1 DEF OnCond, ToSet
    <3> QED  BY <2>1, <2>2, <3>1, <3>2, RemoveAtList DEF OnMutex, OnCond
  <2>3. CASE mutex_waiters' \in Without(mutex_waiters, f) /\ cond_waiters' = cond_waiters
    <3>1. PICK i \in 1 .. Len(mutex_waiters) : mutex_waiters[i] = f /\ mutex_waiters' = RemoveAt(mutex_waiters, i)
      BY <2>3
    <3>2. f \in OnMutex
      BY <2>1, <3>1 DEF OnMutex, ToSet
    <3> QED  BY <2>1, <2>3, <3>1, <3>2, RemoveAtList DEF OnMutex, OnCond
  <2> QED  BY <2>2, <2>3
<1>2. MutexTypeOK'
  BY <1>1 DEF MutexTypeOK, Places, FREE, LOCKED, CONTENDED, FiberAt
<1>3. Listed'
  BY <1>1 DEF Listed, MutexTypeOK, FiberAt
<1>4. Owned'
  BY DEF Owned, Owners, MutexTypeOK, FREE, LOCKED, CONTENDED, FiberAt
<1>5. Awaited'
  BY <1>1 DEF Awaited, MutexTypeOK, FREE, LOCKED, CONTENDED, FiberAt
<1>6. Stamps'
  BY <1>1 DEF Stamps, Listed, MutexTypeOK
<1> QED  BY <1>2, <1>3, <1>4, <1>5, <1>6, SMTT(30)
LEMMA WakeOneIInv == ASSUME IInv, NEW f \in Fibers, WakeOne(f) PROVE IInv'
<1> USE DEF IInv, WakeOne, Resumed
<1> DEFINE first == Head(mutex_waiters)
           back == IF fpc[f] = "wake" THEN "idle" ELSE "cond_wait"
<1>1. CASE mutex_waiters = <<>>
  <2>1. OnMutex' = OnMutex /\ OnCond' = OnCond /\ fpc' = [fpc EXCEPT ![f] = back] /\ mutex_waiters' = mutex_waiters
    BY <1>1 DEF OnMutex, OnCond, FiberAt
  <2>2. OnMutex = {}
    BY <1>1, EmptyList DEF OnMutex
  <2>3. MutexTypeOK'
    BY <2>1 DEF MutexTypeOK, Places
  <2>4. Listed'
    BY <2>1 DEF Listed, MutexTypeOK
  <2>5. Owned'
    BY <2>1 DEF Owned, Owners, MutexTypeOK, FREE
  <2>6. Awaited'
    BY <2>1, <2>2 DEF Awaited, MutexTypeOK
  <2>7. Stamps'
    BY <2>1, SMTT(30) DEF Stamps, MutexTypeOK
  <2> QED  BY <2>3, <2>4, <2>5, <2>6, <2>7
<1>2. CASE mutex_waiters # <<>>
  <2>1. /\ fpc' = [fpc EXCEPT ![f] = back, ![first] = "contend"] /\ mutex_waiters' = Tail(mutex_waiters)
        /\ first \in OnMutex /\ first \in Fibers
    BY <1>2, EmptyList DEF OnMutex, MutexTypeOK
  <2>2. /\ OnMutex' = OnMutex \ {first} /\ OnCond' = OnCond
        /\ mutex_waiters' \in Seq(Fibers) /\ IsInjective(mutex_waiters')
    BY <1>2, <2>1, TailList DEF OnMutex, OnCond, Listed, MutexTypeOK
  <2>3. first # f /\ fpc[first] \in {"asleep", "cond_asleep"}
    BY <2>1 DEF Listed
  <2> HIDE DEF first
  <2>4. MutexTypeOK'
    BY <2>1, <2>2, Zenon DEF MutexTypeOK, Places
  <2>5. Listed'
    BY <2>1, <2>2, <2>3 DEF Listed, MutexTypeOK
  <2>6. Owned'
    BY <2>1, <2>3, Zenon DEF Owned, Owners, MutexTypeOK, FREE
  <2>7. Awaited'
    BY <2>1, <2>3 DEF Awaited, MutexTypeOK
  <2>8. Stamps'
    BY <2>1, <2>2 DEF Stamps, MutexTypeOK
  <2> QED  BY <2>4, <2>5, <2>6, <2>7, <2>8
<1> QED  BY <1>1, <1>2

LEMMA SignalWakesIInv == ASSUME IInv, NEW f \in Fibers, SignalWakes(f) PROVE IInv'
<1> USE DEF IInv, SignalWakes, Resumed, Back
<1> DEFINE first == Head(cond_waiters)
           back == Back(f)
<1>1. CASE cond_waiters = <<>>
  <2>1. OnMutex' = OnMutex /\ OnCond' = OnCond /\ fpc' = [fpc EXCEPT ![f] = back] /\ cond_waiters' = cond_waiters
    BY <1>1 DEF OnMutex, OnCond, FiberAt
  <2>2. OnCond = {}
    BY <1>1, EmptyList DEF OnCond
  <2>3. MutexTypeOK'
    BY <2>1 DEF MutexTypeOK, Places
  <2>4. Listed'
    BY <2>1 DEF Listed, MutexTypeOK
  <2>5. Owned'
    BY <2>1 DEF Owned, Owners, MutexTypeOK, FREE
  <2>6. Awaited'
    BY <2>1, <2>2 DEF Awaited, MutexTypeOK
  <2>7. Stamps'
    BY <2>1, SMTT(30) DEF Stamps, MutexTypeOK
  <2> QED  BY <2>3, <2>4, <2>5, <2>6, <2>7, SMTT(30)
<1>2. CASE cond_waiters # <<>>
  <2>1. /\ fpc' = [fpc EXCEPT ![f] = back, ![first] = "contend"] /\ cond_waiters' = Tail(cond_waiters)
        /\ first \in OnCond /\ first \in Fibers
    BY <1>2, EmptyList DEF OnCond, MutexTypeOK
  <2>2. /\ OnCond' = OnCond \ {first} /\ OnMutex' = OnMutex
        /\ cond_waiters' \in Seq(Fibers) /\ IsInjective(cond_waiters')
    BY <1>2, <2>1, TailList DEF OnMutex, OnCond, Listed, MutexTypeOK
  <2>3. first # f /\ fpc[first] \in {"asleep", "cond_asleep"}
    BY <2>1 DEF Listed
  <2> HIDE DEF first
  <2>4. MutexTypeOK'
    BY <2>1, <2>2, Zenon DEF MutexTypeOK, Places
  <2>5. Listed'
    BY <2>1, <2>2, <2>3 DEF Listed, MutexTypeOK
  <2>6. Owned'
    BY <2>1, <2>3, Zenon DEF Owned, Owners, MutexTypeOK, FREE
  <2>7. Awaited'
    BY <2>1, <2>3 DEF Awaited, MutexTypeOK
  <2>8. Stamps'
    BY <2>1, <2>2, SMTT(30) DEF Stamps, MutexTypeOK
  <2> QED  BY <2>4, <2>5, <2>6, <2>7, <2>8
<1> QED  BY <1>1, <1>2
LEMMA RequeueIInv == ASSUME IInv, NEW f \in Fibers, Requeue(f) PROVE IInv'
<1> USE DEF IInv, Requeue, Resumed, Back
<1> DEFINE woken == OnCond \ ToSet(Moved)
<1>1. /\ Moved \in Seq(Fibers) /\ IsInjective(Moved) /\ ToSet(Moved) \subseteq OnCond
      /\ OnCond # {} => woken # {}
  <2>1. CASE cond_waiters = <<>>
    BY <2>1, EmptyList DEF Moved, OnCond
  <2>2. CASE cond_waiters # <<>>
    <3>1. Moved = Tail(cond_waiters) /\ Head(cond_waiters) \in OnCond
      BY <2>2, EmptyList DEF Moved, OnCond, MutexTypeOK
    <3> QED  BY <2>2, <3>1, TailList DEF OnCond, Listed, MutexTypeOK
  <2> QED  BY <2>1, <2>2
<1>2. /\ mutex_waiters' \in Seq(Fibers) /\ IsInjective(mutex_waiters') /\ OnMutex' = OnMutex \cup ToSet(Moved)
  <2>1. ToSet(mutex_waiters) \cap ToSet(Moved) = {}
    BY <1>1 DEF Listed, OnMutex
  <2> QED  BY <1>1, <2>1, JoinedList DEF OnMutex, Listed, MutexTypeOK
<1>3. cond_waiters' \in Seq(Fibers) /\ IsInjective(cond_waiters') /\ OnCond' = {}
  BY EmptyList DEF OnCond
<1>4. /\ f \notin OnCond /\ f \notin OnMutex
      /\ fpc' = [g \in Fibers |-> IF g = f THEN Back(f) ELSE IF g \in woken THEN "contend" ELSE fpc[g]]
  BY DEF Listed, OnCond
<1>5. woken \cup ToSet(Moved) = OnCond /\ woken \cap ToSet(Moved) = {} /\ OnCond \subseteq Fibers
  BY <1>1, EmptyList DEF OnCond, MutexTypeOK
<1> HIDE DEF woken
<1>6. MutexTypeOK'
  <2>1. fpc' \in [Fibers -> Places]
    BY <1>4 DEF MutexTypeOK, Places
  <2>2. told' \in Nat
    BY DEF MutexTypeOK
  <2> QED  BY <1>2, <1>3, <2>1, <2>2 DEF MutexTypeOK
<1>7. Listed'
  BY <1>2, <1>3, <1>4, <1>5, SMTT(30) DEF Listed, MutexTypeOK
<1>8. Owned'
  <2>1. Owners' = Owners
    BY <1>4, <1>5, Zenon DEF Owners, MutexTypeOK, Listed
  <2> QED  BY <2>1 DEF Owned, FREE
<1>9. Awaited'
  <2>1. CASE OnMutex # {}
    BY <2>1, <1>4, <1>5, SMTT(30) DEF Awaited, Listed, MutexTypeOK
  <2>2. CASE OnMutex = {} /\ OnMutex' # {}
    <3>1. PICK g \in woken : g \in Fibers /\ g # f
      BY <2>2, <1>1, <1>2, <1>4, <1>5, SMTT(30)
    <3> QED  BY <1>4, <3>1 DEF Awaited
  <2> QED  BY <1>2, <2>1, <2>2 DEF Awaited
<1>10. Stamps'
  BY <1>3 DEF Stamps, MutexTypeOK
<1> QED  BY <1>6, <1>7, <1>8, <1>9, <1>10, SMTT(30)

LEMMA NextIInv == IInv /\ [MutexNext]_muvars => IInv'
<1>1. ASSUME IInv, NEW f \in Fibers,
             \/ LockMutex(f) \/ LockContended(f) \/ Sleep(f) \/ LockTimedOut(f) \/ UnlockMutex(f) \/ WakeOne(f)
             \/ CondWait(f) \/ CondSleep(f) \/ WaitInterrupted(f) \/ Signal(f) \/ SignalWakes(f)
             \/ Broadcast(f) \/ Requeue(f)
      PROVE  IInv'
  BY <1>1, LockIInv, LockContendedIInv, SleepIInv, LockTimedOutIInv, UnlockIInv, WakeOneIInv, CondWaitIInv,
     CondSleepIInv, InterruptedIInv, SignalIInv, SignalWakesIInv, BroadcastIInv, RequeueIInv, Zenon
<1>2. ASSUME IInv, UNCHANGED muvars PROVE IInv'
  BY <1>2 DEF muvars, IInv, MutexTypeOK, Listed, Owned, Awaited, Stamps, OnMutex, OnCond, Owners
<1> QED  BY <1>1, <1>2 DEF MutexNext

-----------------------------------------------------------------------------
(* Theorems *)

\* The lists, the word and the stamps agree in every state.
THEOREM Invariance == MutexSpec => []IInv
BY InitIInv, NextIInv, PTL DEF MutexSpec

LEMMA IInvSound == IInv => MutexSound
<1> SUFFICES ASSUME IInv PROVE MutexSound
  OBVIOUS
<1>1. Owners = {} \/ \E f \in Fibers : Owners = {f}
  BY DEF IInv, Owned, Owners
<1>2. Cardinality(Owners) <= 1
  <2>1. CASE Owners = {}
    BY <2>1, FS_EmptySet
  <2>2. ASSUME NEW f \in Fibers, Owners = {f} PROVE Cardinality(Owners) <= 1
    <3>1. Cardinality({f}) = 1
      BY FS_Singleton, Zenon
    <3> QED  BY <2>2, <3>1
  <2> QED  BY <1>1, <2>1, <2>2
<1>3. mutex_waiters # <<>> => OnMutex # {}
  BY EmptyList, Zenon DEF IInv, MutexTypeOK, OnMutex
<1>4. ToSet(cond_waiters) \subseteq Fibers
  BY EmptyList DEF IInv, MutexTypeOK
<1> QED  BY <1>2, <1>3, <1>4 DEF MutexSound, OneOwner, NoFiberStranded, IInv, Owned, Awaited, Stamps, OnCond

\* At most one fiber is between fiber_mutex_lock and fiber_mutex_unlock and
\* the word says whether one is; and a fiber asleep on the mutex, or moved
\* there by a broadcast, always has somebody who will wake it.
THEOREM MutexSafe == MutexSpec => []MutexSound
BY Invariance, IInvSound, PTL
=============================================================================
