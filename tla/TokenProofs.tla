---------------------------- MODULE TokenProofs ----------------------------
(***************************************************************************)
(* Proofs about Token for every set of threads, every TOKEN_MAX_RANGE and  *)
(* every number of lives, as long as the lives of a slot do not use up its *)
(* versions (VersionsSuffice): an id is valid exactly while its life lasts,*)
(* at most one thread holds the token, and no error is lost, repeated or   *)
(* overtaken.                                                              *)
(***************************************************************************)
EXTENDS Token, SequenceTheorems, TLAPS

USE TokenAssumption

(* Version arithmetic stays inside the uint32_t range *)
LEMMA WrapAdd ==
    ASSUME NEW v \in Versions, NEW k \in 0 .. MaxRange + 3
    PROVE  Wrap(v + k) \in Versions
  BY DEF Wrap, Versions

LEMMA OneMoreOp ==
    ASSUME NEW n \in 0 .. MaxTokenOps, n < MaxTokenOps
    PROVE  n + 1 \in 0 .. MaxTokenOps
  OBVIOUS

LEMMA SeqFacts ==
    ASSUME NEW S, NEW q \in Seq(S)
    PROVE  /\ <<>> \in Seq(S)
           /\ \A x \in S : Append(q, x) \in Seq(S)
           /\ q # <<>> => Head(q) \in S /\ Tail(q) \in Seq(S)
  OBVIOUS

LEMMA RemoveAtType ==
    ASSUME NEW S, NEW q \in Seq(S), NEW i \in 1 .. Len(q)
    PROVE  WithoutNth(q, i) \in Seq(S)
<1>1. \A j \in 1 .. Len(q) - 1 : (IF j < i THEN q[j] ELSE q[j + 1]) \in S
  OBVIOUS
<1>2. WithoutNth(q, i) \in [1 .. Len(q) - 1 -> S]
  BY <1>1 DEF WithoutNth
<1>3. Len(q) - 1 \in Nat
  OBVIOUS
<1> QED  BY <1>2, <1>3

LEMMA TypeStep == TokenTypeOK /\ [TokenNext]_tvars => TokenTypeOK'
<1> SUFFICES ASSUME TokenTypeOK, [TokenNext]_tvars
             PROVE  TokenTypeOK'
  OBVIOUS
<1>r. \A t \in Users : range[t] \in 0 .. MaxRange + 3
  BY DEF TokenTypeOK
<1>one. 1 \in 0 .. MaxRange + 3
  OBVIOUS
<1> USE DEF TokenTypeOK, TokenLabels, tlocals, meta, vers, queues, issued, errors,
            tbounds, ThreadAt, StartTokenOp
<1>1. ASSUME NEW t \in Users, NEW r \in 1 .. MaxRange, CreateToken(t, r)
      PROVE  TokenTypeOK'
  <2>1. event' \in Versions
    BY <1>1 DEF CreateToken, Versions
  <2>2. tpc' \in [Users -> TokenLabels]
    BY <1>1 DEF CreateToken
  <2>3. range' \in [Users -> 0 .. MaxRange] /\ tlives' \in 0 .. MaxTokens
    BY <1>1 DEF CreateToken
  <2> HIDE DEF ThreadAt, TokenLabels
  <2> QED  BY <1>1, <2>1, <2>2, <2>3, Zenon DEF CreateToken
<1>2. ASSUME NEW t \in Users, NEW v \in tids, NEW r \in 0 .. MaxRange,
             Lock(t, v, r)
      PROVE  TokenTypeOK'
  BY <1>2, SMTT(30) DEF Lock
<1>3. ASSUME NEW t \in Users, NEW v \in tids, TryLock(t, v)
      PROVE  TokenTypeOK'
  <2>1. event' \in Versions /\ tpc' \in [Users -> TokenLabels]
    BY <1>3, Zenon DEF TryLock
  <2>2. tn' \in [Users -> Versions]
    BY <1>3, Zenon DEF TryLock
  <2>3. tops' \in [Users -> 0 .. MaxTokenOps]
    BY <1>3, SMTT(30) DEF TryLock
  <2> HIDE DEF StartTokenOp, ThreadAt, TokenLabels
  <2> QED  BY <1>3, <2>1, <2>2, <2>3, Zenon DEF TryLock
<1>4. ASSUME NEW t \in Users, NEW v \in tids, NEW code \in Codes,
             Error(t, v, code)
      PROVE  TokenTypeOK'
  <2> DEFINE e == [tn |-> v, code |-> code]
  <2>1. e \in PendingErrors
    BY DEF PendingErrors
  <2>8. /\ Append(pending_q, e) \in Seq(PendingErrors)
        /\ Append(posted, e) \in Seq(PendingErrors)
        /\ Append(delivered, e) \in Seq(PendingErrors)
    BY <2>1, SeqFacts
  <2>2. event' \in Versions /\ tpc' \in [Users -> TokenLabels]
    BY <1>4, Zenon DEF Error
  <2>3. tn' \in [Users -> Versions]
    BY <1>4, Zenon DEF Error
  <2>4. pending_q' \in Seq(PendingErrors)
    BY <1>4, <2>8, Zenon DEF Error
  <2>5. posted' \in Seq(PendingErrors)
    BY <1>4, <2>8, Zenon DEF Error
  <2>6. delivered' \in Seq(PendingErrors)
    BY <1>4, <2>8, Zenon DEF Error
  <2>7. tops' \in [Users -> 0 .. MaxTokenOps]
    <3> HIDE DEF ThreadAt, TokenLabels
    <3>1. StartTokenOp(t, "error")
      BY <1>4, Zenon DEF Error
    <3> QED  BY <3>1, SMTT(30)
  <2> HIDE DEF StartTokenOp, ThreadAt, TokenLabels
  <2> QED  BY <1>4, <2>2, <2>3, <2>4, <2>5, <2>6, <2>7, Zenon DEF Error
<1>5. ASSUME NEW t \in Users, NEW v \in tids, Cancel(t, v)
      PROVE  TokenTypeOK'
  <2>1. end_ver \in Versions
    BY SMTT(30) DEF end_ver, Wrap, Versions
  <2>2. event' \in Versions /\ first_ver' \in Versions /\ locked_ver' \in Versions
    BY <1>5, <2>1, Zenon DEF Cancel, EndLife
  <2>3. tpc' \in [Users -> TokenLabels]
    BY <1>5, Zenon DEF Cancel
  <2>4. retired' \in SUBSET Versions
    BY <1>5, Zenon DEF Cancel, EndLife
  <2>5. /\ posted' \in Seq(PendingErrors)
        /\ delivered' \in Seq(PendingErrors)
    <3> HIDE DEF StartTokenOp, ThreadAt, TokenLabels
    <3>1. \/ posted' = <<>> /\ delivered' = <<>>
          \/ posted' = posted /\ delivered' = delivered
      BY <1>5, Zenon DEF Cancel, EndLife, CanTake
    <3> QED  BY <3>1, SeqFacts, Zenon
  <2>6. tops' \in [Users -> 0 .. MaxTokenOps]
    BY <1>5, SMTT(30) DEF Cancel
  <2> HIDE DEF StartTokenOp, ThreadAt, TokenLabels
  <2> QED  BY <1>5, <2>2, <2>3, <2>4, <2>5, <2>6, Zenon DEF Cancel
<1>6. ASSUME NEW t \in Users, NEW v \in tids, Join(t, v)
      PROVE  TokenTypeOK'
  BY <1>6, SMTT(30) DEF Join
<1>7. ASSUME NEW t \in Users, AboutToDestroy(t)
      PROVE  TokenTypeOK'
  <2>1. unlockable_ver \in Versions
    BY SMTT(30) DEF unlockable_ver, Wrap, Versions
  <2> QED  BY <1>7, <2>1, Zenon DEF AboutToDestroy
<1>8. ASSUME NEW t \in Users, Interrupted(t)
      PROVE  TokenTypeOK'
  <2>1. eventq' \in Seq(Users) /\ joinq' \in Seq(Users)
    BY <1>8, RemoveAtType, SMTT(30) DEF Interrupted
  <2>2. tpc' \in [Users -> TokenLabels]
    BY <1>8, Zenon DEF Interrupted
  <2> HIDE DEF ThreadAt, TokenLabels
  <2> QED  BY <1>8, <2>1, <2>2, Zenon DEF Interrupted
<1>9. ASSUME NEW t \in Users, CreateFirst(t)
      PROVE  TokenTypeOK'
  BY <1>9, Zenon DEF CreateFirst, HandOut
<1>10. ASSUME NEW t \in Users, CreateLocked(t)
       PROVE  TokenTypeOK'
  <2>1. Wrap(event + range[t]) \in Versions
    BY <1>r, WrapAdd, Zenon
  <2> QED  BY <1>10, <2>1, Zenon DEF CreateLocked, HandOut
<1>11. ASSUME NEW t \in Users, LockAcquire(t)
       PROVE  TokenTypeOK'
  <2>3. Wrap(first_ver + range[t]) \in Versions
    BY <1>r, WrapAdd, Zenon
  <2>1. ResetRange(range[t]) \in Versions
    BY <2>3, Zenon DEF ResetRange
  <2>4. Wrap(ResetRange(range[t]) + 1) \in Versions
    BY <2>1, <1>one, WrapAdd, Zenon
  <2>2. LockedVersion(t, ResetRange(range[t])) \in Versions
    BY <2>1, <2>4, Zenon DEF LockedVersion
  <2> QED  BY <1>11, <2>1, <2>2, Zenon DEF LockAcquire
<1>12. ASSUME NEW t \in Users, LockContend(t)
       PROVE  TokenTypeOK'
  <2>1. contended_ver \in Versions
    BY SMTT(30) DEF contended_ver, Wrap, Versions
  <2> QED  BY <1>12, <2>1, Zenon DEF LockContend
<1>13. ASSUME NEW t \in Users, LockFail(t)
       PROVE  TokenTypeOK'
  BY <1>13, Zenon DEF LockFail
<1>14. ASSUME NEW t \in Users, LockWait(t)
       PROVE  TokenTypeOK'
  <2>1. Append(eventq, t) \in Seq(Users)
    BY SeqFacts, Zenon
  <2>2. eventq' \in Seq(Users)
    BY <1>14, <2>1, Zenon DEF LockWait
  <2>3. tpc' \in [Users -> TokenLabels]
    BY <1>14, Zenon DEF LockWait
  <2> HIDE DEF ThreadAt, TokenLabels
  <2> QED  BY <1>14, <2>2, <2>3, Zenon DEF LockWait
<1>15. ASSUME NEW t \in Users, UnlockRunsOnError(t)
       PROVE  TokenTypeOK'
  <2>1. Head(pending_q) \in PendingErrors
    BY <1>15, SeqFacts, Zenon DEF UnlockRunsOnError
  <2>5. Head(pending_q).tn \in Versions
    BY <2>1 DEF PendingErrors
  <2>2. tn' \in [Users -> Versions]
    BY <1>15, <2>5, Zenon DEF UnlockRunsOnError
  <2>3. pending_q' \in Seq(PendingErrors)
    BY <1>15 DEF UnlockRunsOnError, PopFront
  <2>4. delivered' \in Seq(PendingErrors)
    BY <1>15, <2>1 DEF UnlockRunsOnError
  <2> HIDE DEF TokenLabels
  <2> QED  BY <1>15, <2>2, <2>3, <2>4, Zenon DEF UnlockRunsOnError
<1>16. ASSUME NEW t \in Users, Unlock(t)
       PROVE  TokenTypeOK'
  BY <1>16, Zenon DEF Unlock
<1>18. ASSUME NEW t \in Users, UnlockWake(t)
       PROVE  TokenTypeOK'
  <2>3. eventq # <<>> => Tail(eventq) \in Seq(Users)
    BY SeqFacts
  <2>1. eventq' \in Seq(Users)
    BY <1>18, <2>3, Zenon DEF UnlockWake
  <2>2. tpc' \in [Users -> TokenLabels]
    BY <1>18, Zenon DEF UnlockWake
  <2> HIDE DEF ThreadAt, TokenLabels
  <2> QED  BY <1>18, <2>1, <2>2, Zenon DEF UnlockWake
<1>19. ASSUME NEW t \in Users, AboutToDestroyWake(t)
       PROVE  TokenTypeOK'
  BY <1>19, SMTT(30) DEF AboutToDestroyWake, WakeLockers
<1>20. ASSUME NEW t \in Users, UnlockAndDestroy(t)
       PROVE  TokenTypeOK'
  <2>1. end_ver \in Versions
    BY SMTT(30) DEF end_ver, Wrap, Versions
  <2> QED  BY <1>20, <2>1, SMTT(30) DEF UnlockAndDestroy, EndLife
<1>21. ASSUME NEW t \in Users, DestroyWake(t)
       PROVE  TokenTypeOK'
  BY <1>21, SMTT(30) DEF DestroyWake, WakeLockers
<1>22. ASSUME NEW t \in Users, DestroyWakeJoin(t)
       PROVE  TokenTypeOK'
  BY <1>22, SMTT(30) DEF DestroyWakeJoin
<1>23. ASSUME NEW t \in Users, ReturnSlot(t)
       PROVE  TokenTypeOK'
  BY <1>23, Zenon DEF ReturnSlot
<1>24. ASSUME NEW t \in Users, JoinCheck(t)
       PROVE  TokenTypeOK'
  BY <1>24, Zenon DEF JoinCheck
<1>25. ASSUME NEW t \in Users, JoinWait(t)
       PROVE  TokenTypeOK'
  <2>1. Append(joinq, t) \in Seq(Users)
    BY SeqFacts, Zenon
  <2>2. joinq' \in Seq(Users)
    BY <1>25, <2>1, Zenon DEF JoinWait
  <2>3. tpc' \in [Users -> TokenLabels]
    BY <1>25, Zenon DEF JoinWait
  <2> HIDE DEF ThreadAt, TokenLabels
  <2> QED  BY <1>25, <2>2, <2>3, Zenon DEF JoinWait
<1>26. CASE UNCHANGED tvars
  BY <1>26, Zenon DEF tvars
<1> HIDE DEF TokenTypeOK
<1> QED
  BY <1>1, <1>2, <1>3, <1>4, <1>5, <1>6, <1>7, <1>8, <1>9, <1>10, <1>11,
     <1>12, <1>13, <1>14, <1>15, <1>16, <1>18, <1>19, <1>20, <1>21,
     <1>22, <1>23, <1>24, <1>25, <1>26
  DEF TokenNext, BeginOp, ContinueOp

----------------------------------------------------------------------------
(* The lock.  A version names at most one life only as long as uint32_t     *)
(* has values left: every life takes at most MaxRange + 3 of them.  The     *)
(* first one starts at FirstVersion or, if that is too near the end, at 1.  *)
Start == IF FirstVersion = 0 \/ Wrap(FirstVersion + MaxRange + 2) < FirstVersion
         THEN 1 ELSE FirstVersion

VersionsSuffice == Start + MaxTokens * (MaxRange + 3) < VerMod

Creating == {"create", "create_first", "create_locked"}

Ending == {"destroy_wake", "destroy_wake_join", "return_resource"}

(* Inside a call that was given an id, or holding by one *)
Named == {"lock", "lock_wait", "queued", "holding", "atd_wake",
          "join", "join_wait", "join_queued"}

Busy(t) == tpc[t] \in Creating \/ tpc[t] \in Ending \/ Holding(t)

Live == slot = "used" /\ \A t \in Users : tpc[t] \notin Creating /\ tpc[t] \notin Ending

(* The largest version that the lives so far can have used up *)
Last == Start + tlives * (MaxRange + 3)

(* One thread creates, holds or ends the token *)
OneBusy ==
    /\ \A t, u \in Users : Busy(t) /\ Busy(u) => t = u
    /\ slot = "free" => \A t \in Users : ~Busy(t)

(* Whatever part of the two stores is done, no older id has a version *)
WhileCreating ==
    \A t \in Users :
        /\ tpc[t] \in Creating => /\ range[t] >= 1
                                  /\ event >= 1
                                  /\ event + MaxRange + 3 <= Last
        /\ tpc[t] = "create" => first_ver = locked_ver
        /\ tpc[t] = "create_first" => first_ver = event
        /\ tpc[t] = "create_locked" => locked_ver = event + range[t]
        /\ tpc[t] \in {"create", "create_locked"} => first_ver = event \/ tids = {}

(* No id of the slot is known yet *)
Unused == event = FirstVersion /\ tids = {} /\ retired = {}

WhileDead ==
    slot = "free" \/ (\E t \in Users : tpc[t] \in Ending) =>
        first_ver = event /\ locked_ver = event /\ (event <= Last \/ Unused)

WhileLive ==
    Live => /\ 1 <= first_ver /\ first_ver < locked_ver
            /\ locked_ver <= first_ver + MaxRange
            /\ first_ver + MaxRange + 3 <= Last
            /\ \/ event = first_ver
               \/ event \in locked_ver .. locked_ver + 2 /\ \E t \in Users : Holding(t)

(* Ids handed out are below the versions of lives to come *)
IdsBelow ==
    /\ \A v \in tids : v < IF Live THEN locked_ver ELSE event
    /\ \A v \in retired : v < IF Live THEN first_ver ELSE event
    /\ \A t \in Users : tpc[t] \in Named => tn[t] \in tids

HeldByCurrent ==
    \A t \in Users : Holding(t) => has_version(tn[t]) /\ event # first_ver

Core == OneBusy /\ WhileCreating /\ WhileDead /\ WhileLive /\ IdsBelow /\ HeldByCurrent

LEMMA NatFacts ==
    /\ TokenTypeOK => /\ first_ver \in Nat /\ locked_ver \in Nat /\ event \in Nat
                      /\ tids \subseteq Nat /\ retired \subseteq Nat
                      /\ \A t \in Users : range[t] \in 0 .. MaxRange /\ tn[t] \in Nat
    /\ TokenTypeOK' => locked_ver' \in Nat
<1>1. \A v \in Versions : v \in Nat
  BY DEF Versions
<1> QED  BY <1>1, Zenon DEF TokenTypeOK

LEMMA AppendFacts ==
    ASSUME NEW S, NEW q \in Seq(S), NEW e \in S
    PROVE  /\ Len(Append(q, e)) = Len(q) + 1 /\ Len(q) \in Nat
           /\ Append(q, e)[Len(q) + 1] = e
           /\ \A i \in 1 .. Len(q) : Append(q, e)[i] = q[i]
  OBVIOUS

LEMMA StartFacts == Start \in Nat /\ Start >= 1
  BY DEF Start

LEMMA LastFacts ==
    ASSUME VersionsSuffice, tlives \in 0 .. MaxTokens
    PROVE  /\ Last \in Nat /\ Last >= 1 /\ Last < VerMod /\ Start <= Last
           /\ tlives < MaxTokens => Last + MaxRange + 3 < VerMod
           /\ tlives' = tlives + 1 => Last' = Last + MaxRange + 3
           /\ tlives' = tlives => Last' = Last
<1> DEFINE w == MaxRange + 3
<1>1. w \in Nat
  OBVIOUS
<1> HIDE DEF w
<1>2. tlives * w <= MaxTokens * w
  BY <1>1
<1>3. (tlives + 1) * w = tlives * w + w
  BY <1>1
<1>4. tlives * w \in Nat
  BY <1>1
<1>5. MaxTokens * w \in Nat
  BY <1>1
<1>6. tlives < MaxTokens => (tlives + 1) * w <= MaxTokens * w
  BY <1>1
<1> QED  BY <1>2, <1>3, <1>4, <1>5, <1>6, StartFacts DEF VersionsSuffice, Last, w

(* A live token and one being created are far from the end of uint32_t *)
LEMMA NoWrapping ==
    ASSUME VersionsSuffice, TokenTypeOK, Core
    PROVE  /\ Live => /\ contended_ver = locked_ver + 1
                      /\ unlockable_ver = locked_ver + 2
                      /\ end_ver = locked_ver + 3
                      /\ \A n \in Nat : n <= first_ver + MaxRange + 3 => Wrap(n) = n
           /\ \A t \in Users : tpc[t] \in Creating =>
                 Wrap(event + range[t]) = event + range[t]
<1>1. Last \in Nat /\ Last < VerMod
  BY LastFacts DEF TokenTypeOK
<1> HIDE DEF Last
<1>2. Live => /\ contended_ver = locked_ver + 1
              /\ unlockable_ver = locked_ver + 2
              /\ end_ver = locked_ver + 3
              /\ \A n \in Nat : n <= first_ver + MaxRange + 3 => Wrap(n) = n
  BY <1>1 DEF TokenTypeOK, Core, WhileLive, contended_ver, unlockable_ver, end_ver, Wrap, Versions
<1>3. \A t \in Users : tpc[t] \in Creating => Wrap(event + range[t]) = event + range[t]
  BY <1>1, SMTT(30) DEF TokenTypeOK, Core, WhileCreating, Wrap, Versions
<1> QED  BY <1>2, <1>3

(* An id that was handed out is valid in a live token only *)
LEMMA ValidIsLive ==
    ASSUME TokenTypeOK, Core, NEW v \in tids, has_version(v)
    PROVE  Live
<1>1. ASSUME slot = "free" PROVE FALSE
  BY <1>1 DEF TokenTypeOK, Core, WhileDead, has_version, Versions
<1>2. ASSUME NEW t \in Users, tpc[t] \in Ending PROVE FALSE
  BY <1>2, SMTT(30) DEF TokenTypeOK, Core, WhileDead, has_version, Versions
<1>3. ASSUME NEW t \in Users, tpc[t] \in Creating PROVE FALSE
  <2>1. v < event
    BY <1>3 DEF Live, Core, IdsBelow
  <2> QED  BY <1>3, <2>1, SMTT(30) DEF TokenTypeOK, Core, WhileCreating, has_version, Versions, Creating
<1> QED  BY <1>1, <1>2, <1>3 DEF Live, TokenTypeOK

(* A step that leaves the fields alone and moves threads between labels of  *)
(* the same role                                                            *)
LEMMA SameRoles ==
    ASSUME TokenTypeOK, Core, TokenTypeOK',
           UNCHANGED <<slot, first_ver, locked_ver, event, tids, retired, tlives>>,
           \A u \in Users : Holding(u)' <=> Holding(u),
           \A u \in Users : tpc'[u] \in Ending <=> tpc[u] \in Ending,
           \A u \in Users : tpc[u] \in Creating \/ tpc'[u] \in Creating =>
                                 tpc'[u] = tpc[u] /\ range'[u] = range[u],
           \A u \in Users : tpc'[u] \in Named => tn'[u] \in tids,
           \A u \in Users : Holding(u)' => has_version(tn'[u])
    PROVE  Core'
<1>1. Live' <=> Live
  BY DEF Live
<1>2. Last' = Last
  BY DEF Last
<1>3. OneBusy'
  BY DEF Core, OneBusy, Busy
<1>4. WhileCreating'
  BY <1>2 DEF Core, WhileCreating, Creating
<1>5. WhileDead'
  BY <1>2, Zenon DEF Core, WhileDead, Unused
<1>6. WhileLive'
  BY <1>1, <1>2 DEF Core, WhileLive
<1>7. IdsBelow'
  BY <1>1 DEF Core, IdsBelow
<1>8. HeldByCurrent'
  BY DEF Core, HeldByCurrent, has_version
<1> QED  BY <1>3, <1>4, <1>5, <1>6, <1>7, <1>8 DEF Core

(* One thread that is not busy moves to another label of that kind *)
LEMMA OneMoves ==
    ASSUME TokenTypeOK, Core, TokenTypeOK', NEW t \in Users, NEW label,
           UNCHANGED <<slot, first_ver, locked_ver, event, tids, retired, tlives>>,
           tpc' = [tpc EXCEPT ![t] = label],
           ~Busy(t), label \notin Creating, label \notin Ending,
           label \notin {"holding", "atd_wake"},
           label \in Named => tn'[t] \in tids,
           \A u \in Users \ {t} : tn'[u] = tn[u] /\ range'[u] = range[u]
    PROVE  Core'
<1>1. \A u \in Users : tpc'[u] = IF u = t THEN label ELSE tpc[u]
  BY DEF TokenTypeOK
<1>2. \A u \in Users : Holding(u)' <=> Holding(u)
  BY <1>1 DEF Holding, Busy
<1>3. \A u \in Users : tpc'[u] \in Ending <=> tpc[u] \in Ending
  BY <1>1 DEF Busy
<1>4. \A u \in Users : tpc[u] \in Creating \/ tpc'[u] \in Creating =>
                            tpc'[u] = tpc[u] /\ range'[u] = range[u]
  BY <1>1 DEF Busy
<1>5. \A u \in Users : tpc'[u] \in Named => tn'[u] \in tids
  BY <1>1 DEF Core, IdsBelow
<1>6. \A u \in Users : Holding(u)' => has_version(tn'[u])
  BY <1>1, <1>2 DEF Core, HeldByCurrent, Holding, Busy
<1> QED  BY <1>2, <1>3, <1>4, <1>5, <1>6, SameRoles

----------------------------------------------------------------------------
(* The wait queues: who is asleep on an event is listed once, and only there *)

Waits(q, p, label) ==
    /\ \A i \in 1 .. Len(q) : p[q[i]] = label
    /\ \A i, j \in 1 .. Len(q) : q[i] = q[j] => i = j

Queues == Waits(eventq, tpc, "queued") /\ Waits(joinq, tpc, "join_queued")

LEMMA WaitsKept ==
    ASSUME NEW q \in Seq(Users), NEW p, NEW r, NEW label, Waits(q, p, label),
           \A u \in Users : p[u] = label => r[u] = label
    PROVE  Waits(q, r, label)
  BY DEF Waits

LEMMA WaitsNone == ASSUME NEW p, NEW label PROVE Waits(<<>>, p, label)
  BY DEF Waits

LEMMA WaitsAppend ==
    ASSUME NEW q \in Seq(Users), NEW p, NEW r, NEW label, Waits(q, p, label),
           NEW t \in Users, p[t] # label, r[t] = label,
           \A u \in Users : p[u] = label => r[u] = label
    PROVE  Waits(Append(q, t), r, label)
<1>1. /\ Len(Append(q, t)) = Len(q) + 1
      /\ \A i \in 1 .. Len(q) : Append(q, t)[i] = q[i]
      /\ Append(q, t)[Len(q) + 1] = t
  OBVIOUS
<1>2. \A i \in 1 .. Len(q) : q[i] \in Users /\ q[i] # t
  BY DEF Waits
<1> QED  BY <1>1, <1>2 DEF Waits

LEMMA WaitsRemoved ==
    ASSUME NEW q \in Seq(Users), NEW p, NEW r, NEW label, Waits(q, p, label),
           NEW i \in 1 .. Len(q),
           \A u \in Users : u # q[i] /\ p[u] = label => r[u] = label
    PROVE  Waits(WithoutNth(q, i), r, label)
<1> DEFINE s == WithoutNth(q, i)
<1>1. /\ Len(s) = Len(q) - 1
      /\ \A j \in 1 .. Len(q) - 1 : s[j] = IF j < i THEN q[j] ELSE q[j + 1]
  <2>1. s \in Seq(Users)
    BY RemoveAtType
  <2>2. DOMAIN s = 1 .. Len(q) - 1
    BY DEF WithoutNth
  <2>3. Len(q) - 1 \in Nat
    OBVIOUS
  <2>4. Len(s) = Len(q) - 1
    <3> HIDE DEF s
    <3> QED  BY <2>1, <2>2, <2>3
  <2>5. \A j \in 1 .. Len(q) - 1 : s[j] = IF j < i THEN q[j] ELSE q[j + 1]
    BY DEF WithoutNth
  <2> QED  BY <2>4, <2>5
<1> HIDE DEF s
<1>2. \A j \in 1 .. Len(q) - 1 : \E k \in 1 .. Len(q) : k # i /\ s[j] = q[k]
  BY <1>1
<1>3. \A j \in 1 .. Len(s) : r[s[j]] = label
  BY <1>1, <1>2 DEF Waits
<1>4. \A j, k \in 1 .. Len(s) : s[j] = s[k] => j = k
  BY <1>1 DEF Waits
<1> QED  BY <1>3, <1>4 DEF Waits, s

LEMMA WaitsTail ==
    ASSUME NEW q \in Seq(Users), NEW p, NEW r, NEW label, Waits(q, p, label),
           q # <<>>,
           \A u \in Users : u # Head(q) /\ p[u] = label => r[u] = label
    PROVE  Waits(Tail(q), r, label)
<1>1. /\ Len(Tail(q)) = Len(q) - 1 /\ Len(q) >= 1
      /\ \A j \in 1 .. Len(q) - 1 : Tail(q)[j] = q[j + 1]
      /\ Head(q) = q[1]
  OBVIOUS
<1>2. \A j \in 1 .. Len(q) - 1 : q[j + 1] # q[1] /\ q[j + 1] \in Users
  BY DEF Waits
<1> QED  BY <1>1, <1>2 DEF Waits

(* Steps that leave the queues alone and move no sleeper *)
LEMMA SleepersStay ==
    ASSUME TokenTypeOK, Queues, UNCHANGED queues,
           \A u \in Users : tpc[u] \in {"queued", "join_queued"} => tpc'[u] = tpc[u]
    PROVE  Queues'
<1>1. Waits(eventq, tpc', "queued")
  BY WaitsKept, Zenon DEF TokenTypeOK, Queues
<1>2. Waits(joinq, tpc', "join_queued")
  BY WaitsKept, Zenon DEF TokenTypeOK, Queues
<1> QED  BY <1>1, <1>2 DEF Queues, queues

LEMMA QueuesStep ==
    ASSUME TokenTypeOK, Queues, NEW t \in Users, BeginOp(t) \/ ContinueOp(t)
    PROVE  Queues'
<1> USE DEF ThreadAt, StartTokenOp
<1>q. eventq \in Seq(Users) /\ joinq \in Seq(Users) /\ tpc \in [Users -> TokenLabels]
  BY DEF TokenTypeOK
<1>w. Waits(eventq, tpc, "queued") /\ Waits(joinq, tpc, "join_queued")
  BY DEF Queues
<1>1. ASSUME UNCHANGED queues, tpc' = tpc \/ \E l \in TokenLabels : tpc' = [tpc EXCEPT ![t] = l],
             tpc[t] \notin {"queued", "join_queued"}
      PROVE  Queues'
  BY <1>1, <1>q, SleepersStay
<1>2. CASE LockWait(t) /\ event = expected_ver[t]
  <2>1. /\ eventq' = Append(eventq, t) /\ joinq' = joinq
        /\ tpc' = [tpc EXCEPT ![t] = "queued"] /\ tpc[t] = "lock_wait"
    BY <1>2 DEF LockWait
  <2>2. Waits(Append(eventq, t), tpc', "queued")
    BY <2>1, <1>q, <1>w, WaitsAppend, Zenon
  <2>3. Waits(joinq, tpc', "join_queued")
    BY <2>1, <1>q, <1>w, WaitsKept, Zenon
  <2> QED  BY <2>1, <2>2, <2>3 DEF Queues
<1>3. CASE JoinWait(t) /\ join_butex = expected_ver[t]
  <2>1. /\ joinq' = Append(joinq, t) /\ eventq' = eventq
        /\ tpc' = [tpc EXCEPT ![t] = "join_queued"] /\ tpc[t] = "join_wait"
    BY <1>3 DEF JoinWait
  <2>2. Waits(Append(joinq, t), tpc', "join_queued")
    BY <2>1, <1>q, <1>w, WaitsAppend, Zenon
  <2>3. Waits(eventq, tpc', "queued")
    BY <2>1, <1>q, <1>w, WaitsKept, Zenon
  <2> QED  BY <2>1, <2>2, <2>3 DEF Queues
<1>4. CASE UnlockWake(t) /\ eventq # <<>>
  <2>1. /\ eventq' = Tail(eventq) /\ joinq' = joinq
        /\ tpc' = [tpc EXCEPT ![t] = "idle", ![Head(eventq)] = "lock"]
        /\ tpc[t] = "unlock_wake"
    BY <1>4 DEF UnlockWake
  <2>2. Head(eventq) \in Users /\ tpc[Head(eventq)] = "queued"
    BY <1>4, <1>q, <1>w DEF Waits
  <2>3. \A u \in Users : u # Head(eventq) /\ u # t => tpc'[u] = tpc[u]
    BY <2>1, <2>2, <1>q
  <2>4. Waits(Tail(eventq), tpc', "queued")
    BY <2>1, <2>3, <1>4, <1>q, <1>w, WaitsTail, Zenon
  <2>5. Waits(joinq, tpc', "join_queued")
    BY <2>1, <2>2, <2>3, <1>q, <1>w, WaitsKept, Zenon
  <2> QED  BY <2>1, <2>4, <2>5 DEF Queues
<1>5. ASSUME NEW next, WakeLockers(t, next), joinq' = joinq, tpc[t] # "join_queued"
      PROVE  Queues'
  <2>1. eventq' = <<>>
    BY <1>5 DEF WakeLockers
  <2>2. \A u \in Users : tpc[u] = "join_queued" => tpc'[u] = tpc[u]
    BY <1>5, <1>w DEF WakeLockers, Waits
  <2>3. Waits(joinq, tpc', "join_queued")
    BY <2>2, <1>q, <1>w, WaitsKept
  <2> QED  BY <2>1, <2>3, <1>5, WaitsNone DEF Queues
<1>6. CASE AboutToDestroyWake(t) \/ DestroyWake(t)
  BY <1>5, <1>6 DEF AboutToDestroyWake, DestroyWake
<1>7. CASE DestroyWakeJoin(t)
  <2>1. joinq' = <<>> /\ eventq' = eventq
    BY <1>7 DEF DestroyWakeJoin
  <2>2. \A u \in Users : tpc[u] = "queued" => tpc'[u] = tpc[u]
    BY <1>7, <1>w DEF DestroyWakeJoin, Waits
  <2>3. Waits(eventq, tpc', "queued")
    BY <2>2, <1>q, <1>w, WaitsKept
  <2> QED  BY <2>1, <2>3, WaitsNone DEF Queues
<1>8. CASE Interrupted(t)
  <2>1. ASSUME NEW i \in 1 .. Len(eventq), eventq[i] = t,
               eventq' = WithoutNth(eventq, i), tpc' = [tpc EXCEPT ![t] = "lock"],
               joinq' = joinq
        PROVE  Queues'
    <3>1. tpc[t] = "queued"
      BY <2>1, <1>w DEF Waits
    <3>2. Waits(WithoutNth(eventq, i), tpc', "queued")
      BY <2>1, <1>q, <1>w, WaitsRemoved, Zenon
    <3>3. Waits(joinq, tpc', "join_queued")
      BY <2>1, <3>1, <1>q, <1>w, WaitsKept, Zenon
    <3> QED  BY <2>1, <3>2, <3>3 DEF Queues
  <2>2. ASSUME NEW i \in 1 .. Len(joinq), joinq[i] = t,
               joinq' = WithoutNth(joinq, i), tpc' = [tpc EXCEPT ![t] = "join"],
               eventq' = eventq
        PROVE  Queues'
    <3>1. tpc[t] = "join_queued"
      BY <2>2, <1>w DEF Waits
    <3>2. Waits(WithoutNth(joinq, i), tpc', "join_queued")
      BY <2>2, <1>q, <1>w, WaitsRemoved, Zenon
    <3>3. Waits(eventq, tpc', "queued")
      BY <2>2, <3>1, <1>q, <1>w, WaitsKept, Zenon
    <3> QED  BY <2>2, <3>2, <3>3 DEF Queues
  <2> QED  BY <1>8, <2>1, <2>2 DEF Interrupted
<1>9. CASE BeginOp(t) /\ ~Interrupted(t)
  <2> USE <1>1 DEF TokenLabels, queues, meta, vers
  <2>1. ASSUME NEW r \in 1 .. MaxRange, CreateToken(t, r) PROVE Queues'
    BY <2>1 DEF CreateToken
  <2>2. ASSUME NEW v \in tids, NEW r \in 0 .. MaxRange, Lock(t, v, r) PROVE Queues'
    BY <2>2 DEF Lock
  <2>3. ASSUME NEW v \in tids, TryLock(t, v) PROVE Queues'
    BY <2>3 DEF TryLock
  <2>4. ASSUME NEW v \in tids, NEW code \in Codes, Error(t, v, code) PROVE Queues'
    BY <2>4 DEF Error
  <2>5. ASSUME NEW v \in tids, Cancel(t, v) PROVE Queues'
    BY <2>5 DEF Cancel
  <2>6. ASSUME NEW v \in tids, Join(t, v) PROVE Queues'
    BY <2>6 DEF Join
  <2>7. CASE AboutToDestroy(t)
    BY <2>7, Zenon DEF AboutToDestroy
  <2> HIDE <1>1 DEF TokenLabels, queues, meta, vers, ThreadAt, StartTokenOp
  <2> QED  BY <1>9, <2>1, <2>2, <2>3, <2>4, <2>5, <2>6, <2>7 DEF BeginOp
<1>10. CASE ContinueOp(t)
  <2> USE <1>1 DEF TokenLabels, queues, meta, vers
  <2>1. CASE CreateFirst(t) \/ CreateLocked(t)
    BY <2>1 DEF CreateFirst, CreateLocked
  <2>2. CASE LockAcquire(t) \/ LockContend(t) \/ LockFail(t)
    BY <2>2 DEF LockAcquire, LockContend, LockFail
  <2>3. CASE LockWait(t) /\ event # expected_ver[t]
    BY <2>3 DEF LockWait
  <2>4. CASE UnlockRunsOnError(t) \/ Unlock(t)
    BY <2>4 DEF UnlockRunsOnError, Unlock
  <2>5. CASE UnlockWake(t) /\ eventq = <<>>
    BY <2>5 DEF UnlockWake
  <2>6. CASE UnlockAndDestroy(t) \/ ReturnSlot(t)
    BY <2>6 DEF UnlockAndDestroy, ReturnSlot
  <2>7. CASE JoinCheck(t)
    BY <2>7, Zenon DEF JoinCheck
  <2>8. CASE JoinWait(t) /\ join_butex # expected_ver[t]
    BY <2>8 DEF JoinWait
  <2> HIDE <1>1 DEF TokenLabels, queues, meta, vers, ThreadAt, StartTokenOp
  <2> QED
    BY <1>2, <1>3, <1>4, <1>6, <1>7, <1>10, <2>1, <2>2, <2>3, <2>4, <2>5,
       <2>6, <2>7, <2>8, Zenon DEF ContinueOp
<1> HIDE DEF ThreadAt, StartTokenOp
<1> QED  BY <1>8, <1>9, <1>10

----------------------------------------------------------------------------
(* Pending errors belong to the holder *)

Errs ==
    /\ delivered \o pending_q = posted
    /\ pending_q # <<>> => \E t \in Users : Holding(t)
    /\ \A i \in 1 .. Len(pending_q) :
          has_version(pending_q[i].tn) /\ pending_q[i].tn \in tids

(* Steps of a thread that is not busy and stays so *)
LEMMA PassiveCore ==
    ASSUME TokenTypeOK, TokenTypeOK', Core, Queues, NEW t \in Users,
           \/ \E v \in tids, r \in 0 .. MaxRange : Lock(t, v, r)
           \/ \E v \in tids : Join(t, v)
           \/ Interrupted(t)
           \/ LockFail(t) \/ LockWait(t) \/ UnlockWake(t)
           \/ JoinCheck(t) \/ JoinWait(t)
    PROVE  Core'
<1> USE DEF Creating, Ending, Named, Busy, Holding, ThreadAt, StartTokenOp, tlocals, meta,
            vers, queues, issued, errors, tbounds
<1>n. \A u \in Users : tpc[u] \in Named => tn[u] \in tids
  BY DEF Core, IdsBelow
<1>1. ASSUME NEW v \in tids, NEW r \in 0 .. MaxRange, Lock(t, v, r) PROVE Core'
  BY <1>1, OneMoves, Zenon DEF Lock, TokenTypeOK
<1>2. ASSUME NEW v \in tids, Join(t, v) PROVE Core'
  BY <1>2, OneMoves, Zenon DEF Join, TokenTypeOK
<1>3. CASE Interrupted(t)
  <2>1. tpc[t] \in {"queued", "join_queued"}
    BY <1>3 DEF Interrupted, Queues, Waits
  <2> QED  BY <1>3, <2>1, <1>n, OneMoves, ZenonT(30) DEF Interrupted
<1>4. CASE LockFail(t)
  BY <1>4, OneMoves, Zenon DEF LockFail
<1>5. CASE LockWait(t)
  BY <1>5, <1>n, OneMoves, Zenon DEF LockWait
<1>6. CASE UnlockWake(t) /\ eventq = <<>>
  BY <1>6, OneMoves, Zenon DEF UnlockWake
<1>7. CASE UnlockWake(t) /\ eventq # <<>>
  <2> DEFINE h == Head(eventq)
  <2>1. h \in Users /\ tpc[h] = "queued" /\ tpc[t] = "unlock_wake"
    BY <1>7, SMTT(30) DEF UnlockWake, Queues, Waits, TokenTypeOK
  <2>2. tpc' = [tpc EXCEPT ![t] = "idle", ![h] = "lock"]
    BY <1>7 DEF UnlockWake
  <2> HIDE DEF h
  <2>3. \A u \in Users : tpc'[u] = IF u = h THEN "lock" ELSE IF u = t THEN "idle" ELSE tpc[u]
    BY <2>1, <2>2, Zenon DEF TokenTypeOK
  <2>4. UNCHANGED <<slot, first_ver, locked_ver, event, tids, retired, tlives, tn, range>>
    BY <1>7 DEF UnlockWake
  <2>5. \A u \in Users : Holding(u)' <=> Holding(u)
    BY <2>1, <2>3, SMTT(30)
  <2>6. \A u \in Users : tpc'[u] \in Ending <=> tpc[u] \in Ending
    BY <2>1, <2>3
  <2>7. \A u \in Users : tpc[u] \in Creating \/ tpc'[u] \in Creating =>
                              tpc'[u] = tpc[u] /\ range'[u] = range[u]
    BY <2>1, <2>3, <2>4, Zenon
  <2>8. \A u \in Users : tpc'[u] \in Named => tn'[u] \in tids
    BY <2>1, <2>3, <2>4, <1>n
  <2>9. \A u \in Users : Holding(u)' => has_version(tn'[u])
    BY <2>4, <2>5 DEF Core, HeldByCurrent
  <2> HIDE DEF Creating, Ending, Named, Holding
  <2> QED  BY <2>4, <2>5, <2>6, <2>7, <2>8, <2>9, SameRoles, Zenon
<1>8. CASE JoinCheck(t)
  <2>1. CASE has_version(tn[t])
    <3>1. /\ tpc[t] = "join" /\ tpc' = [tpc EXCEPT ![t] = "join_wait"]
          /\ UNCHANGED <<slot, first_ver, locked_ver, event, tids, retired, tlives, tn, range>>
      BY <1>8, <2>1, Zenon DEF JoinCheck
    <3> QED  BY <3>1, <1>n, OneMoves, Zenon
  <2>2. CASE ~has_version(tn[t])
    <3>1. /\ tpc[t] = "join" /\ tpc' = [tpc EXCEPT ![t] = "idle"]
          /\ UNCHANGED <<slot, first_ver, locked_ver, event, tids, retired, tlives, tn, range>>
      BY <1>8, <2>2, Zenon DEF JoinCheck
    <3> QED  BY <3>1, <1>n, OneMoves, Zenon
  <2> QED  BY <2>1, <2>2
<1>9. CASE JoinWait(t)
  BY <1>9, <1>n, OneMoves, Zenon DEF JoinWait
<1> HIDE DEF Creating, Ending, Named, Busy, Holding, ThreadAt, StartTokenOp
<1> QED  BY <1>1, <1>2, <1>3, <1>4, <1>5, <1>6, <1>7, <1>8, <1>9, SMTT(30)

(* The wake-ups of a busy thread: sleepers go back to their loops *)
LEMMA WakingCore ==
    ASSUME TokenTypeOK, TokenTypeOK', Core, Queues, NEW t \in Users,
           AboutToDestroyWake(t) \/ DestroyWake(t) \/ DestroyWakeJoin(t)
    PROVE  Core'
<1> USE DEF Creating, Ending, Named, Holding, tlocals, meta, vers, issued, tbounds
<1>1. UNCHANGED <<slot, first_ver, locked_ver, event, tids, retired, tlives, tn, range>>
  BY DEF AboutToDestroyWake, DestroyWake, DestroyWakeJoin
<1>2. /\ \/ tpc[t] = "atd_wake" /\ tpc'[t] = "holding"
         \/ tpc[t] = "destroy_wake" /\ tpc'[t] = "destroy_wake_join"
         \/ tpc[t] = "destroy_wake_join" /\ tpc'[t] = "return_resource"
      /\ \A u \in Users \ {t} :
            \/ tpc'[u] = tpc[u]
            \/ tpc[u] = "queued" /\ tpc'[u] = "lock"
            \/ tpc[u] = "join_queued" /\ tpc'[u] = "join"
  BY DEF AboutToDestroyWake, DestroyWake, DestroyWakeJoin, WakeLockers, Queues, Waits
<1>5. \A u \in Users : Holding(u)' <=> Holding(u)
  BY <1>2, Zenon
<1>6. \A u \in Users : tpc'[u] \in Ending <=> tpc[u] \in Ending
  BY <1>2, SMTT(30)
<1>7. \A u \in Users : tpc[u] \in Creating \/ tpc'[u] \in Creating =>
                            tpc'[u] = tpc[u] /\ range'[u] = range[u]
  BY <1>1, <1>2
<1>8. \A u \in Users : tpc'[u] \in Named => tn'[u] \in tids
  BY <1>1, <1>2, Zenon DEF Core, IdsBelow
<1>9. \A u \in Users : Holding(u)' => has_version(tn'[u])
  BY <1>1, <1>5, Zenon DEF Core, HeldByCurrent
<1> HIDE DEF Creating, Ending, Named, Holding
<1> QED  BY <1>1, <1>5, <1>6, <1>7, <1>8, <1>9, SameRoles, Zenon

(* UnlockRunsOnError: the holder goes on under the id of the error *)
LEMMA OnErrorCore ==
    ASSUME TokenTypeOK, TokenTypeOK', Core, Errs, NEW t \in Users, UnlockRunsOnError(t)
    PROVE  Core'
<1>1. /\ UNCHANGED <<slot, first_ver, locked_ver, event, tids, retired, tlives, tpc, range>>
      /\ tn' = [tn EXCEPT ![t] = Head(pending_q).tn]
      /\ tpc[t] = "holding" /\ pending_q # <<>>
  BY Zenon DEF UnlockRunsOnError, vers, issued, tbounds
<1>2. Len(pending_q) >= 1 /\ Head(pending_q) = pending_q[1]
  <2>1. pending_q \in Seq(PendingErrors)
    BY DEF TokenTypeOK
  <2> QED  BY <1>1, <2>1
<1>3. has_version(Head(pending_q).tn) /\ Head(pending_q).tn \in tids
  BY <1>2 DEF Errs
<1>4. \A u \in Users : tn'[u] = IF u = t THEN Head(pending_q).tn ELSE tn[u]
  BY <1>1 DEF TokenTypeOK
<1>5. \A u \in Users : Holding(u)' <=> Holding(u)
  BY <1>1 DEF Holding
<1>6. \A u \in Users : tpc'[u] \in Named => tn'[u] \in tids
  BY <1>1, <1>3, <1>4 DEF Core, IdsBelow
<1>7. \A u \in Users : Holding(u)' => has_version(tn'[u])
  BY <1>1, <1>3, <1>4, <1>5 DEF Core, HeldByCurrent
<1> QED  BY <1>1, <1>5, <1>6, <1>7, SameRoles, Zenon

----------------------------------------------------------------------------
(* The steps that change the fields *)

(* Adding the same to both sides keeps their order *)
LEMMA AddBoth ==
    ASSUME NEW a \in Nat, NEW b \in Nat, NEW c \in Nat, a <= b
    PROVE  a + c + 3 <= b + c + 3
OBVIOUS

LEMMA CreateCore ==
    ASSUME VersionsSuffice, TokenTypeOK, TokenTypeOK', Core,
           NEW t \in Users, NEW r \in 1 .. MaxRange, CreateToken(t, r)
    PROVE  Core'
<1> USE DEF ThreadAt, vers, issued
<1>l. /\ Last \in Nat /\ Last >= 1 /\ Start <= Last
      /\ Last' = Last + MaxRange + 3 /\ Last + MaxRange + 3 < VerMod
  <2>1. tlives < MaxTokens /\ tlives' = tlives + 1 /\ tlives \in 0 .. MaxTokens
    BY DEF CreateToken, TokenTypeOK
  <2> QED  BY <2>1, LastFacts
<1> HIDE DEF Last
<1>1. /\ slot = "free" /\ slot' = "used" /\ range'[t] = r
      /\ UNCHANGED <<first_ver, locked_ver, tids, retired, tn>>
      /\ \A u \in Users : tpc'[u] = IF u = t THEN "create" ELSE tpc[u]
  BY DEF CreateToken, TokenTypeOK
<1>2. first_ver = event /\ locked_ver = event /\ (event <= Last \/ Unused) /\ event \in Nat
  BY <1>1 DEF Core, WhileDead, TokenTypeOK, Versions
<1>3. /\ event' \in Nat /\ event' >= 1 /\ event' <= Last
      /\ event' = event \/ event = 0 \/ Unused
  <2>1. CASE event <= Last
    BY <2>1, <1>2, <1>l DEF CreateToken, MustRestartVersions, Wrap
  <2>2. CASE Unused
    <3>1. event' = Start
      BY <2>2, Zenon DEF CreateToken, MustRestartVersions, Start, Unused
    <3> QED  BY <2>2, <3>1, <1>l, StartFacts, Zenon
  <2> QED  BY <1>2, <2>1, <2>2, Zenon
<1>4. \A u \in Users : ~Busy(u)
  BY <1>1 DEF Core, OneBusy
<1>5. ~Live /\ ~Live'
  BY <1>1 DEF Live, Creating
<1>6. \A v \in tids \cup retired : v < event
  BY <1>5 DEF Core, IdsBelow
<1>7. \A u \in Users : Busy(u)' => u = t
  BY <1>1, <1>4 DEF Busy, Holding
<1>8. OneBusy'
  BY <1>1, <1>7 DEF OneBusy
<1>9. event' = event \/ (tids = {} /\ retired = {})
  <2>1. ASSUME event = 0 PROVE tids = {} /\ retired = {}
    <3>1. tids \cup retired \subseteq Nat
      BY NatFacts, Zenon
    <3>2. \A v \in Nat : ~(v < 0)
      OBVIOUS
    <3> QED  BY <1>6, <2>1, <3>1, <3>2, Zenon
  <2> QED  BY <2>1, <1>3, Zenon DEF Unused
<1>10. WhileCreating'
  <2>1. \A u \in Users : tpc'[u] \in Creating => u = t
    BY <1>7 DEF Busy
  <2>2. range'[t] >= 1 /\ event' + MaxRange + 3 <= Last'
    <3>1. range'[t] = r /\ r >= 1
      BY <1>1
    <3>2. Last \in Nat /\ Last' = Last + MaxRange + 3 /\ event' \in Nat /\ event' <= Last
      BY <1>3, <1>l, Zenon
    <3>3. MaxRange \in Nat
      BY TokenAssumption
    <3> QED  BY <3>1, <3>2, <3>3, AddBoth, Zenon
  <2> QED  BY <2>1, <2>2, <1>1, <1>2, <1>3, <1>9, Zenon DEF WhileCreating, Creating
<1>11. WhileDead'
  <2>1. \A u \in Users : tpc'[u] \notin Ending
    BY <1>1, <1>4 DEF Busy, Ending
  <2> QED  BY <1>1, <2>1 DEF WhileDead
<1>12. WhileLive'
  BY <1>5 DEF WhileLive
<1>13. IdsBelow'
  <2>1. \A v \in tids \cup retired : v < event'
    BY <1>6, <1>9, Zenon
  <2> QED  BY <2>1, <1>1, <1>5 DEF Core, IdsBelow, Named
<1>14. HeldByCurrent'
  BY <1>1, <1>4, Zenon DEF HeldByCurrent, Busy, Holding
<1> QED  BY <1>8, <1>10, <1>11, <1>12, <1>13, <1>14 DEF Core

(* The first of the two stores *)
LEMMA StoreCore ==
    ASSUME VersionsSuffice, TokenTypeOK, TokenTypeOK', Core, NEW t \in Users,
           CreateFirst(t) \/ CreateLocked(t), tpc[t] = "create"
    PROVE  Core'
<1> USE DEF ThreadAt, vers, issued, tbounds, tlocals
<1>1. /\ UNCHANGED <<slot, event, tids, retired, tlives, tn, range>>
      /\ \/ /\ \A u \in Users : tpc'[u] = IF u = t THEN "create_first" ELSE tpc[u]
            /\ first_ver' = event /\ locked_ver' = locked_ver
         \/ /\ \A u \in Users : tpc'[u] = IF u = t THEN "create_locked" ELSE tpc[u]
            /\ locked_ver' = event + range[t] /\ first_ver' = first_ver
  BY NoWrapping, Zenon DEF CreateFirst, CreateLocked, TokenTypeOK, Creating
<1>2. Last' = Last
  BY <1>1, Zenon DEF Last
<1> HIDE DEF Last
<1>3. \A u \in Users : u # t => ~Busy(u)
  BY DEF Core, OneBusy, Busy, Creating
<1>4. \A u \in Users : Busy(u)' => u = t
  BY <1>1, <1>3 DEF Busy, Holding
<1>5. slot = "used" /\ ~Live /\ ~Live'
  <2>1. Busy(t)
    BY DEF Busy, Creating
  <2> QED  BY <2>1, <1>1, Zenon DEF Core, OneBusy, Live, Creating, TokenTypeOK
<1>6. OneBusy'
  BY <1>1, <1>4, <1>5, Zenon DEF OneBusy
<1>7. WhileCreating'
  <2>1. \A u \in Users : tpc'[u] \in Creating => u = t
    BY <1>4, Zenon DEF Busy
  <2> QED  BY <2>1, <1>1, <1>2, Zenon DEF Core, WhileCreating, Creating
<1>8. WhileDead'
  <2>1. \A u \in Users : tpc'[u] \notin Ending
    BY <1>1, <1>4, Zenon DEF Busy, Ending
  <2> QED  BY <1>1, <1>5, <2>1, Zenon DEF WhileDead
<1>9. WhileLive'
  BY <1>5 DEF WhileLive
<1>10. IdsBelow'
  BY <1>1, <1>5, Zenon DEF Core, IdsBelow, Named
<1>11. HeldByCurrent'
  BY <1>1, <1>3, Zenon DEF HeldByCurrent, Busy, Holding
<1> QED  BY <1>6, <1>7, <1>8, <1>9, <1>10, <1>11, Zenon DEF Core

(* The second store: the token is alive and its ids reach the callers *)
LEMMA HandOutCore ==
    ASSUME VersionsSuffice, TokenTypeOK, TokenTypeOK', Core, NEW t \in Users,
           CreateFirst(t) \/ CreateLocked(t), tpc[t] # "create"
    PROVE  Core'
<1> USE DEF ThreadAt, vers, issued, tbounds, tlocals
<1>1. /\ UNCHANGED <<slot, event, tlives, tn, range>>
      /\ tpc[t] \in Creating
      /\ HandOut(t)
      /\ \A u \in Users : tpc'[u] = IF u = t THEN "idle" ELSE tpc[u]
      /\ first_ver' = event /\ locked_ver' = event + range[t]
  BY NoWrapping, Zenon DEF CreateFirst, CreateLocked, TokenTypeOK, Creating, Core, WhileCreating
<1>2. Last' = Last
  BY <1>1 DEF Last
<1> HIDE DEF Last
<1>3. \A u \in Users : u # t => ~Busy(u)
  BY <1>1, Zenon DEF Core, OneBusy, Busy
<1>4. \A u \in Users : ~Busy(u)'
  BY <1>1, <1>3 DEF Busy, Holding, Creating, Ending
<1>5. slot = "used" /\ ~Live
  <2>1. Busy(t)
    BY <1>1, Zenon DEF Busy
  <2> QED  BY <2>1, <1>1, Zenon DEF Core, OneBusy, Live, TokenTypeOK
<1>6. Live'
  BY <1>1, <1>4, <1>5, SMTT(30) DEF Live, Busy
<1>7. /\ range[t] >= 1 /\ range[t] <= MaxRange /\ range[t] \in Nat /\ event \in Nat
      /\ event >= 1 /\ event + MaxRange + 3 <= Last
  BY <1>1 DEF Core, WhileCreating, TokenTypeOK, Versions
<1>8. OneBusy' /\ HeldByCurrent'
  BY <1>4, Zenon DEF OneBusy, HeldByCurrent, Busy
<1>9. WhileCreating' /\ WhileDead'
  BY <1>1, <1>4, <1>5, Zenon DEF WhileCreating, WhileDead, Busy, Creating
<1>10. WhileLive'
  <2>1. event < event + range[t] /\ event + range[t] <= event + MaxRange
    BY <1>7
  <2> QED  BY <1>1, <1>2, <1>7, <2>1, Zenon DEF WhileLive
<1>11. IdsBelow'
  <2>1. \A v \in tids : v < event
    BY <1>5, Zenon DEF Core, IdsBelow
  <2>2. \A v \in retired : v < event
    BY <1>5 DEF Core, IdsBelow
  <2>3. \A v \in tids' : v < locked_ver'
    <3>1. tids \subseteq Nat
      BY DEF TokenTypeOK, Versions
    <3>2. \A v \in tids' : v \in tids \/ v < event + range[t]
      BY <1>1, Zenon DEF HandOut
    <3>3. \A v \in tids : v < event + range[t]
      BY <1>7, <2>1, <3>1
    <3> QED  BY <1>1, <3>2, <3>3
  <2>4. \A v \in retired' : v < first_ver'
    BY <1>1, <2>2, Zenon DEF HandOut
  <2>5. tids \subseteq tids'
    BY <1>1 DEF HandOut
  <2>6. \A u \in Users : tpc'[u] \in Named => tn'[u] \in tids'
    BY <1>1, <2>5 DEF Core, IdsBelow, Named
  <2> QED  BY <1>6, <2>3, <2>4, <2>6, Zenon DEF IdsBelow
<1> QED  BY <1>8, <1>9, <1>10, <1>11 DEF Core

(* lock, trylock and error2 take a live token that nobody holds *)
LEMMA TakeCore ==
    ASSUME TokenTypeOK, TokenTypeOK', Core, Live, event = first_ver, NEW t \in Users, ~Busy(t),
           UNCHANGED <<slot, first_ver, retired, tlives>>,
           locked_ver <= locked_ver', locked_ver' <= first_ver + MaxRange,
           event' = locked_ver' \/ event' = locked_ver' + 1,
           tpc' = [tpc EXCEPT ![t] = "holding"],
           tn'[t] \in tids, has_version(tn'[t]),
           \A u \in Users \ {t} : tn'[u] = tn[u],
           tids \subseteq tids', \A v \in tids' : v \in tids \/ v < locked_ver'
    PROVE  Core'
<1>1. \A u \in Users : tpc'[u] = IF u = t THEN "holding" ELSE tpc[u]
  BY Zenon DEF TokenTypeOK
<1>2. Last' = Last
  BY Zenon DEF Last
<1> HIDE DEF Last
<1>3. /\ first_ver \in Nat /\ locked_ver \in Nat /\ locked_ver' \in Nat
      /\ tids \subseteq Nat
  BY NatFacts, Zenon
<1>4. /\ 1 <= first_ver /\ first_ver < locked_ver /\ first_ver + MaxRange + 3 <= Last
  BY Zenon DEF Core, WhileLive
<1>5. \A u \in Users : ~Busy(u)
  BY DEF Core, HeldByCurrent, Live, Busy
<1>6. \A u \in Users : tpc'[u] \notin Creating /\ tpc'[u] \notin Ending
  BY <1>1, <1>5 DEF Busy, Creating, Ending
<1>7. Live'
  BY <1>6, Zenon DEF Live
<1>8. \A u \in Users : Holding(u)' <=> u = t
  BY <1>1, <1>5, Zenon DEF Holding, Busy
<1>9. OneBusy'
  BY <1>6, <1>7, <1>8, Zenon DEF OneBusy, Busy, Live
<1>10. WhileCreating'
  BY <1>6, Zenon DEF WhileCreating, Creating
<1>11. WhileDead'
  BY <1>6, <1>7, Zenon DEF WhileDead, Live
<1>12. WhileLive'
  <2>3. first_ver < locked_ver' /\ locked_ver' <= first_ver + MaxRange
    BY <1>3, <1>4
  <2>1. event' \in locked_ver' .. locked_ver' + 2
    BY <1>3
  <2>2. \E u \in Users : Holding(u)'
    BY <1>8
  <2> QED  BY <1>2, <1>4, <2>1, <2>2, <2>3, SMTT(30) DEF WhileLive
<1>13. IdsBelow'
  <2>1. \A v \in tids : v < locked_ver
    BY Zenon DEF Core, IdsBelow
  <2>2. \A v \in tids' : v < locked_ver'
    <3>1. \A v \in tids : v < locked_ver'
      BY <1>3, <2>1
    <3> QED  BY <3>1, Zenon
  <2>3. \A v \in retired' : v < first_ver'
    BY DEF Core, IdsBelow
  <2>4. \A u \in Users : tpc'[u] \in Named => tn'[u] \in tids'
    BY <1>1 DEF Core, IdsBelow
  <2> QED  BY <1>7, <2>2, <2>3, <2>4 DEF IdsBelow
<1>14. HeldByCurrent'
  <2>1. tn'[t] < locked_ver' /\ first_ver <= tn'[t]
    <3>1. tn'[t] \in Nat
      BY <1>3, Zenon
    <3> QED  BY <1>3, <3>1 DEF has_version
  <2>2. event' # first_ver
    BY <1>3, <1>4
  <2> QED  BY <1>8, <2>1, <2>2 DEF HeldByCurrent, has_version
<1> QED  BY <1>9, <1>10, <1>11, <1>12, <1>13, <1>14 DEF Core

(* The holder keeps a live token whose event marks contention or the end *)
LEMMA StillHeldCore ==
    ASSUME TokenTypeOK, TokenTypeOK', Core, Live, event # first_ver,
           event' \in locked_ver .. locked_ver + 2,
           UNCHANGED <<slot, first_ver, locked_ver, tids, retired, tlives, tn>>,
           \A u \in Users : Holding(u)' <=> Holding(u),
           \A u \in Users : tpc'[u] \notin Creating /\ tpc'[u] \notin Ending,
           \A u \in Users : tpc'[u] \in Named => tpc[u] \in Named
    PROVE  Core'
<1>1. Live'
  BY DEF Live
<1>2. Last' = Last
  BY DEF Last
<1> HIDE DEF Last
<1>3. /\ first_ver \in Nat /\ locked_ver \in Nat /\ first_ver < locked_ver
  <2>1. first_ver < locked_ver
    BY Zenon DEF Core, WhileLive
  <2> QED  BY <2>1, NatFacts, Zenon
<1>4. OneBusy'
  BY <1>1, Zenon DEF Core, OneBusy, Busy, Live
<1>5. WhileCreating' /\ WhileDead'
  BY <1>1, Zenon DEF WhileCreating, WhileDead, Live, Creating
<1>6. WhileLive'
  BY <1>2, <1>3, SMTT(30) DEF Core, WhileLive
<1>7. IdsBelow'
  BY <1>1 DEF Core, IdsBelow
<1>8. HeldByCurrent'
  <2>1. event' # first_ver
    BY <1>3
  <2> QED  BY <2>1, Zenon DEF Core, HeldByCurrent, has_version
<1> QED  BY <1>4, <1>5, <1>6, <1>7, <1>8 DEF Core

LEMMA UnlockCore ==
    ASSUME TokenTypeOK, TokenTypeOK', Core, NEW t \in Users, Unlock(t)
    PROVE  Core'
<1>1. /\ UNCHANGED <<slot, first_ver, locked_ver, tids, retired, tlives, tn>>
      /\ event' = first_ver /\ Holding(t)
      /\ \A u \in Users : u # t => tpc'[u] = tpc[u]
      /\ tpc'[t] \in {"idle", "unlock_wake"}
  BY Zenon DEF Unlock, ThreadAt, vers, tlocals, issued, tbounds, TokenTypeOK, Holding
<1>2. Last' = Last
  BY <1>1, Zenon DEF Last
<1> HIDE DEF Last
<1>3. Live
  BY <1>1, ValidIsLive, Zenon DEF Core, IdsBelow, HeldByCurrent, Holding, Named
<1>4. \A u \in Users : ~Busy(u)'
  BY <1>1 DEF Core, OneBusy, Busy, Holding, Creating, Ending
<1>5. Live'
  BY <1>1, <1>3, <1>4, Zenon DEF Live, Busy
<1>6. OneBusy' /\ HeldByCurrent'
  BY <1>4, ZenonT(30) DEF OneBusy, HeldByCurrent, Busy
<1>7. WhileCreating' /\ WhileDead'
  BY <1>4, <1>5 DEF WhileCreating, WhileDead, Busy, Live, Creating
<1>8. WhileLive'
  BY <1>1, <1>2, <1>3, Zenon DEF Core, WhileLive
<1>9. IdsBelow'
  BY <1>1, <1>3, <1>5, Zenon DEF Core, IdsBelow, Named
<1> QED  BY <1>6, <1>7, <1>8, <1>9 DEF Core

(* unlock_and_destroy and cancel end a life *)
LEMMA EndCore ==
    ASSUME VersionsSuffice, TokenTypeOK, TokenTypeOK', Core, Live, EndLife, NEW t \in Users,
           \A u \in Users : u # t => tpc'[u] = tpc[u] /\ ~Busy(u),
           tpc'[t] \in Ending, UNCHANGED <<slot, tids, tlives, tn>>
    PROVE  Core'
<1>1. end_ver = locked_ver + 3
  BY NoWrapping
<1>2. event' = locked_ver + 3 /\ first_ver' = locked_ver + 3 /\ locked_ver' = locked_ver + 3
  BY <1>1, Zenon DEF EndLife
<1>3. /\ first_ver \in Nat /\ locked_ver \in Nat
      /\ tids \subseteq Versions /\ retired \subseteq Versions
      /\ \A v \in Versions : v \in Nat
  <2>1. \A v \in Versions : v \in Nat
    BY SMTT(30) DEF Versions
  <2> QED  BY <2>1, ZenonT(30) DEF TokenTypeOK
<1>4. Last' = Last /\ Last \in Nat
  BY LastFacts DEF TokenTypeOK, Last
<1> HIDE DEF Last
<1>5. /\ first_ver < locked_ver /\ locked_ver <= first_ver + MaxRange
      /\ first_ver + MaxRange + 3 <= Last
  BY Zenon DEF Core, WhileLive
<1>6. \A u \in Users : Busy(u)' => u = t
  BY Zenon DEF Busy, Holding
<1>7. slot' = "used" /\ ~Live'
  BY SMTT(30) DEF Live
<1>8. OneBusy'
  BY <1>6, <1>7, SMTT(30) DEF OneBusy
<1>9. WhileCreating'
  <2>1. \A u \in Users : tpc'[u] \notin Creating
    BY <1>6, Zenon DEF Busy, Creating, Ending
  <2> QED  BY <2>1 DEF WhileCreating, Creating
<1>10. WhileDead'
  BY <1>2, <1>3, <1>4, <1>5 DEF WhileDead
<1>11. WhileLive'
  BY <1>7 DEF WhileLive
<1>12. IdsBelow'
  <2>1. \A v \in tids : v < event'
    <3>1. \A v \in tids : v < locked_ver
      BY Zenon DEF Core, IdsBelow
    <3> QED  BY <1>2, <1>3, <3>1
  <2>2. \A v \in retired' : v < event'
    <3>1. \A v \in retired' : v \in Versions /\ (v \in retired \/ v < locked_ver)
      BY <1>3, Zenon DEF EndLife, has_version
    <3>2. \A v \in retired : v < first_ver
      BY Zenon DEF Core, IdsBelow
    <3> QED  BY <1>2, <1>3, <1>5, <3>1, <3>2
  <2>3. \A u \in Users : tpc'[u] \in Named => tpc[u] \in Named
    BY DEF Ending, Named
  <2> QED  BY <1>7, <2>1, <2>2, <2>3 DEF Core, IdsBelow
<1>13. HeldByCurrent'
  BY DEF HeldByCurrent, Holding, Busy, Ending
<1> QED  BY <1>8, <1>9, <1>10, <1>11, <1>12, <1>13, Zenon DEF Core

LEMMA ReturnCore ==
    ASSUME TokenTypeOK, TokenTypeOK', Core, NEW t \in Users, ReturnSlot(t)
    PROVE  Core'
<1>1. /\ UNCHANGED <<event, first_ver, locked_ver, tids, retired, tlives, tn>>
      /\ tpc[t] \in Ending /\ slot' = "free"
      /\ \A u \in Users : tpc'[u] = IF u = t THEN "idle" ELSE tpc[u]
  BY Zenon DEF ReturnSlot, ThreadAt, meta, vers, tlocals, issued, tbounds, TokenTypeOK, Ending
<1>2. Last' = Last
  BY <1>1, Zenon DEF Last
<1>3. \A u \in Users : ~Busy(u)'
  BY <1>1 DEF Core, OneBusy, Busy, Holding, Creating, Ending
<1>4. ~Live /\ ~Live'
  BY <1>1 DEF Live
<1>5. OneBusy' /\ HeldByCurrent'
  BY <1>3 DEF OneBusy, HeldByCurrent, Busy
<1>6. WhileCreating' /\ WhileLive'
  BY <1>3, <1>4, Zenon DEF WhileCreating, WhileLive, Busy, Creating
<1>7. WhileDead'
  BY <1>1, <1>2, Zenon DEF Core, WhileDead, Unused
<1>8. IdsBelow'
  BY <1>1, <1>4 DEF Core, IdsBelow, Named
<1> QED  BY <1>5, <1>6, <1>7, <1>8 DEF Core

(* A step that changes no field, label, id or range *)
LEMMA NothingMoves ==
    ASSUME TokenTypeOK, TokenTypeOK', Core,
           UNCHANGED <<slot, first_ver, locked_ver, event, tids, retired, tlives,
                       tpc, tn, range>>
    PROVE  Core'
<1>1. \A u \in Users : Holding(u)' <=> Holding(u)
  BY DEF Holding
<1>2. \A u \in Users : tpc'[u] \in Named => tn'[u] \in tids
  BY DEF Core, IdsBelow
<1>3. \A u \in Users : Holding(u)' => has_version(tn'[u])
  BY <1>1 DEF Core, HeldByCurrent
<1> QED  BY <1>1, <1>2, <1>3, SameRoles, Zenon

LEMMA CoreStep ==
    ASSUME VersionsSuffice, TokenTypeOK, TokenTypeOK', Core, Queues, Errs,
           NEW t \in Users, BeginOp(t) \/ ContinueOp(t)
    PROVE  Core'
<1>n. \A u \in Users : tpc[u] \in Named => tn[u] \in tids
  BY DEF Core, IdsBelow
<1>v. /\ first_ver \in Nat /\ locked_ver \in Nat /\ locked_ver' \in Nat
      /\ \A u \in Users : range[u] \in 0 .. MaxRange
  BY NatFacts, Zenon
<1>1. CASE LockAcquire(t)
  <2>1. /\ tpc[t] = "lock" /\ has_version(tn[t]) /\ event = first_ver
        /\ locked_ver' = ResetRange(range[t])
        /\ event' = LockedVersion(t, locked_ver')
        /\ tids' = tids \cup {v \in Versions : first_ver <= v /\ v < locked_ver'}
        /\ tpc' = [tpc EXCEPT ![t] = "holding"]
        /\ UNCHANGED <<slot, first_ver, retired, tlives, tn>>
    BY <1>1, Zenon DEF LockAcquire, ThreadAt, tlocals, tbounds
  <2>2. tn[t] \in tids
    BY <2>1, <1>n, Zenon DEF Named
  <2>3. Live
    BY <2>1, <2>2, ValidIsLive, SMTT(30)
  <2>4. \A n \in Nat : n <= first_ver + MaxRange + 3 => Wrap(n) = n
    BY <2>3, NoWrapping
  <2>5. locked_ver <= first_ver + MaxRange
    BY <2>3 DEF Core, WhileLive
  <2>6. locked_ver <= locked_ver' /\ locked_ver' <= first_ver + MaxRange
    <3>1. Wrap(range[t] + first_ver) = first_ver + range[t]
      BY <1>v, <2>4
    <3>2. Wrap(first_ver + range[t]) = first_ver + range[t]
      BY <1>v, <2>4
    <3>3. \/ locked_ver' = locked_ver
          \/ locked_ver' = first_ver + range[t] /\ ~(first_ver + range[t] <= locked_ver)
      BY <2>1, <3>1, <3>2, Zenon DEF ResetRange
    <3>4. range[t] \in 0 .. MaxRange
      BY <1>v
    <3> QED  BY <1>v, <2>5, <3>3, <3>4
  <2>7. event' = locked_ver' \/ event' = locked_ver' + 1
    BY <1>v, <2>1, <2>4, <2>6 DEF LockedVersion
  <2>8. tids \subseteq tids' /\ \A v \in tids' : v \in tids \/ v < locked_ver'
    BY <2>1, Zenon
  <2>9. ~Busy(t)
    BY <2>1, Zenon DEF Busy, Holding, Creating, Ending
  <2> QED  BY <2>1, <2>2, <2>3, <2>6, <2>7, <2>8, <2>9, TakeCore, Zenon
<1>2. CASE LockContend(t)
  <2>1. /\ tpc[t] = "lock" /\ has_version(tn[t]) /\ event # first_ver
        /\ event' = contended_ver
        /\ \A u \in Users : tpc'[u] = IF u = t THEN "lock_wait" ELSE tpc[u]
        /\ UNCHANGED <<slot, first_ver, locked_ver, tids, retired, tlives, tn>>
    BY <1>2, Zenon DEF LockContend, ThreadAt, vers, issued, tbounds, TokenTypeOK
  <2>2. Live
    BY <2>1, <1>n, ValidIsLive, Zenon DEF Named
  <2>3. event' \in locked_ver .. locked_ver + 2
    <3>1. event' = locked_ver + 1
      BY <2>1, <2>2, NoWrapping, Zenon
    <3> QED  BY <3>1, <1>v
  <2>4. \A u \in Users : Holding(u)' <=> Holding(u)
    BY <2>1, Zenon DEF Holding
  <2>5. \A u \in Users : tpc'[u] \notin Creating /\ tpc'[u] \notin Ending
    BY <2>1, <2>2 DEF Live, Creating, Ending
  <2>6. \A u \in Users : tpc'[u] \in Named => tpc[u] \in Named
    BY <2>1 DEF Named
  <2> QED  BY <2>1, <2>2, <2>3, <2>4, <2>5, <2>6, StillHeldCore, Zenon
<1>3. ASSUME NEW v \in tids, TryLock(t, v) PROVE Core'
  <2>1. CASE CanTake(v)
    <3>1. /\ tpc[t] = "idle" /\ has_version(v) /\ event = first_ver /\ event' = locked_ver
          /\ tpc' = [tpc EXCEPT ![t] = "holding"] /\ tn' = [tn EXCEPT ![t] = v]
          /\ UNCHANGED <<slot, first_ver, locked_ver, tids, retired, tlives>>
      BY <1>3, <2>1 DEF TryLock, CanTake, StartTokenOp, ThreadAt, vers, issued
    <3>2. Live
      BY <3>1, ValidIsLive
    <3>3. tn'[t] = v /\ \A u \in Users \ {t} : tn'[u] = tn[u]
      BY <3>1, Zenon DEF TokenTypeOK
    <3>4. locked_ver <= locked_ver' /\ locked_ver' <= first_ver + MaxRange
      BY <3>1, <3>2, <1>v DEF Core, WhileLive
    <3>5. ~Busy(t)
      BY <3>1 DEF Busy, Holding, Creating, Ending
    <3> QED  BY <3>1, <3>2, <3>3, <3>4, <3>5, TakeCore, Zenon
  <2>2. CASE ~CanTake(v)
    BY <1>3, <2>2, NothingMoves DEF TryLock, vers, issued
  <2> QED  BY <2>1, <2>2
<1>4. ASSUME NEW v \in tids, NEW code \in Codes, Error(t, v, code) PROVE Core'
  <2>1. CASE has_version(v) /\ event = first_ver
    <3>1. /\ tpc[t] = "idle" /\ event' = locked_ver
          /\ tpc' = [tpc EXCEPT ![t] = "holding"] /\ tn' = [tn EXCEPT ![t] = v]
          /\ UNCHANGED <<slot, first_ver, locked_ver, tids, retired, tlives>>
      BY <1>4, <2>1 DEF Error, StartTokenOp, ThreadAt, vers, issued
    <3>2. Live
      BY <2>1, ValidIsLive
    <3>3. tn'[t] = v /\ \A u \in Users \ {t} : tn'[u] = tn[u]
      BY <3>1, Zenon DEF TokenTypeOK
    <3>4. locked_ver <= locked_ver' /\ locked_ver' <= first_ver + MaxRange
      BY <3>1, <3>2, <1>v DEF Core, WhileLive
    <3>5. ~Busy(t)
      BY <3>1, SMTT(30) DEF Busy, Holding, Creating, Ending
    <3> QED  BY <2>1, <3>1, <3>2, <3>3, <3>4, <3>5, TakeCore, Zenon
  <2>2. CASE ~(has_version(v) /\ event = first_ver)
    BY <1>4, <2>2, NothingMoves DEF Error, vers, issued
  <2> QED  BY <2>1, <2>2
<1>5. ASSUME NEW v \in tids, Cancel(t, v) PROVE Core'
  <2>1. CASE CanTake(v)
    <3>1. /\ tpc[t] = "idle" /\ has_version(v) /\ event = first_ver /\ EndLife
          /\ tpc' = [tpc EXCEPT ![t] = "return_resource"]
          /\ UNCHANGED <<slot, tids, tlives, tn>>
      BY <1>5, <2>1 DEF Cancel, CanTake, StartTokenOp, ThreadAt, tlocals
    <3>2. Live
      BY <3>1, ValidIsLive
    <3>3. \A u \in Users : u # t => tpc'[u] = tpc[u] /\ ~Busy(u)
      BY <3>1, <3>2, Zenon DEF Core, HeldByCurrent, Live, Busy, TokenTypeOK
    <3>4. tpc'[t] \in Ending
      BY <3>1, Zenon DEF Ending, TokenTypeOK
    <3> QED  BY <3>1, <3>2, <3>3, <3>4, EndCore
  <2>2. CASE ~CanTake(v)
    BY <1>5, <2>2, NothingMoves DEF Cancel, vers, issued, tlocals
  <2> QED  BY <2>1, <2>2
<1>h. ASSUME Holding(t)
      PROVE  Live /\ \A u \in Users : u # t => ~Busy(u)
  <2>1. tn[t] \in tids /\ has_version(tn[t])
    BY <1>h, Zenon DEF Core, HeldByCurrent, IdsBelow, Holding, Named
  <2> QED  BY <1>h, <2>1, ValidIsLive, Zenon DEF Core, OneBusy, Busy
<1>6. CASE UnlockAndDestroy(t)
  <2>1. /\ tpc[t] = "holding" /\ EndLife
        /\ tpc' = [tpc EXCEPT ![t] = "destroy_wake"]
        /\ UNCHANGED <<slot, tids, tlives, tn>>
    BY <1>6 DEF UnlockAndDestroy, ThreadAt, tlocals, tbounds
  <2>2. Live /\ \A u \in Users : u # t => ~Busy(u)
    BY <2>1, <1>h DEF Holding
  <2>3. \A u \in Users : u # t => tpc'[u] = tpc[u]
    BY <2>1, Zenon DEF TokenTypeOK
  <2>4. tpc'[t] \in Ending
    BY <2>1, Zenon DEF Ending, TokenTypeOK
  <2> QED  BY <2>1, <2>2, <2>3, <2>4, EndCore
<1>7. CASE AboutToDestroy(t)
  <2>1. /\ tpc[t] = "holding" /\ event # first_ver /\ event' = unlockable_ver
        /\ tpc'[t] \in {"holding", "atd_wake"}
        /\ \A u \in Users : u # t => tpc'[u] = tpc[u]
        /\ UNCHANGED <<slot, first_ver, locked_ver, tids, retired, tlives, tn>>
    BY <1>7, Zenon DEF AboutToDestroy, Refused, ThreadAt, vers, issued, tbounds, tlocals, TokenTypeOK
  <2>2. Live
    BY <2>1, <1>h, Zenon DEF Holding
  <2>3. event' \in locked_ver .. locked_ver + 2
    <3>1. event' = locked_ver + 2
      BY <2>1, <2>2, NoWrapping, Zenon
    <3> QED  BY <3>1, <1>v
  <2>4. \A u \in Users : Holding(u)' <=> Holding(u)
    BY <2>1, Zenon DEF Holding
  <2>5. \A u \in Users : tpc'[u] \notin Creating /\ tpc'[u] \notin Ending
    BY <2>1, <2>2, SMTT(30) DEF Live, Creating, Ending
  <2>6. \A u \in Users : tpc'[u] \in Named => tpc[u] \in Named
    BY <2>1 DEF Named
  <2> QED  BY <2>1, <2>2, <2>3, <2>4, <2>5, <2>6, StillHeldCore, Zenon
<1>8. CASE BeginOp(t)
  BY <1>8, <1>3, <1>4, <1>5, <1>7, CreateCore, PassiveCore, Zenon DEF BeginOp
<1>9. CASE ContinueOp(t)
  BY <1>9, <1>1, <1>2, <1>6, StoreCore, HandOutCore, PassiveCore, OnErrorCore,
     UnlockCore, WakingCore, ReturnCore, Zenon DEF ContinueOp
<1> QED  BY <1>8, <1>9

----------------------------------------------------------------------------
LEMMA ConcatAppend ==
    ASSUME NEW S, NEW d \in Seq(S), NEW p \in Seq(S), NEW e \in S
    PROVE  d \o Append(p, e) = Append(d \o p, e)
<1>1. Append(p, e) = p \o <<e>>
  BY AppendIsConcat
<1>2. d \o p \in Seq(S) /\ <<e>> \in Seq(S)
  OBVIOUS
<1>3. Append(d \o p, e) = (d \o p) \o <<e>>
  BY <1>2, AppendIsConcat
<1>4. (d \o p) \o <<e>> = d \o (p \o <<e>>)
  BY <1>2, ConcatAssociative, SMTT(30)
<1> QED  BY <1>1, <1>3, <1>4

(* Moving the first element from one sequence to the end of another *)
LEMMA MoveHead ==
    ASSUME NEW S, NEW d \in Seq(S), NEW p \in Seq(S), p # <<>>
    PROVE  Append(d, Head(p)) \o Tail(p) = d \o p
<1>1. Head(p) \in S /\ Tail(p) \in Seq(S) /\ <<Head(p)>> \in Seq(S)
  OBVIOUS
<1>2. Append(d, Head(p)) = d \o <<Head(p)>>
  BY <1>1, AppendIsConcat
<1>3. (d \o <<Head(p)>>) \o Tail(p) = d \o (<<Head(p)>> \o Tail(p))
  BY <1>1, ConcatAssociative, SMTT(30)
<1>4. <<Head(p)>> \o Tail(p) = p
  OBVIOUS
<1> QED  BY <1>2, <1>3, <1>4

(* No step but those of errors and of the end of a life touches the queue *)
LEMMA ErrsKept ==
    ASSUME Errs, UNCHANGED <<pending_q, posted, delivered>>,
           pending_q # <<>> => /\ UNCHANGED <<first_ver, locked_ver, tids>>
                               /\ \E u \in Users : Holding(u)'
    PROVE  Errs'
<1>1. CASE pending_q # <<>>
  BY <1>1, Zenon DEF Errs, has_version
<1>2. CASE pending_q = <<>>
  <2>1. \A i \in 1 .. Len(<<>>) : FALSE
    OBVIOUS
  <2> QED  BY <1>2, <2>1, Zenon DEF Errs
<1> QED  BY <1>1, <1>2

LEMMA ErrsStep ==
    ASSUME TokenTypeOK, Core, Queues, Errs, NEW t \in Users, BeginOp(t) \/ ContinueOp(t)
    PROVE  Errs'
<1> USE DEF ThreadAt, StartTokenOp, meta, vers, tlocals, issued, errors, tbounds
<1>s. /\ pending_q \in Seq(PendingErrors) /\ posted \in Seq(PendingErrors)
      /\ delivered \in Seq(PendingErrors) /\ delivered \o pending_q = posted
  BY DEF TokenTypeOK, Errs
<1>0. \A d \in Seq(PendingErrors) : d \o <<>> = d
  BY ConcatEmptySeq
<1>1. ASSUME NEW v \in tids, NEW code \in Codes, Error(t, v, code) PROVE Errs'
  <2> DEFINE e == [tn |-> v, code |-> code]
  <2>1. CASE ~has_version(v)
    <3>1. UNCHANGED <<pending_q, posted, delivered, first_ver, locked_ver, tids, tpc>>
      BY <1>1, <2>1, Zenon DEF Error
    <3> QED  BY <3>1, Zenon DEF Errs, has_version, Holding
  <2>e. e \in PendingErrors /\ e.tn = v
    BY DEF PendingErrors, TokenTypeOK
  <2>2. CASE has_version(v) /\ event = first_ver
    <3>1. /\ UNCHANGED pending_q
          /\ posted' = Append(posted, e) /\ delivered' = Append(delivered, e)
      BY <1>1, <2>2, Zenon DEF Error
    <3>2. pending_q = <<>>
      BY <2>2, Zenon DEF Core, HeldByCurrent, Errs
    <3> HIDE DEF e
    <3>3. delivered = posted
      BY <3>2, <1>s, <1>0
    <3>4. Append(delivered, e) \in Seq(PendingErrors)
      BY <2>e, <1>s
    <3>5. delivered' \o pending_q' = posted'
      BY <3>1, <3>2, <3>3, <3>4, <1>0
    <3> QED  BY <3>1, <3>2, <3>5 DEF Errs
  <2>3. CASE has_version(v) /\ event # first_ver
    <3>1. /\ pending_q' = Append(pending_q, e) /\ posted' = Append(posted, e)
          /\ UNCHANGED <<delivered, tpc, first_ver, locked_ver, tids>>
      BY <1>1, <2>3 DEF Error
    <3> HIDE DEF e
    <3>2. delivered' \o pending_q' = posted'
      BY <3>1, <2>e, <1>s, ConcatAppend, SMTT(30)
    <3>3. \E u \in Users : Holding(u)'
      <4>1. Live
        BY <2>3, ValidIsLive
      <4>2. \E u \in Users : Holding(u)
        BY <4>1, <2>3 DEF Core, WhileLive
      <4> QED  BY <4>2, <3>1 DEF Holding
    <3>4. \A i \in 1 .. Len(pending_q') :
             has_version(pending_q'[i].tn) /\ pending_q'[i].tn \in tids
      <4>1. /\ Len(pending_q') = Len(pending_q) + 1
            /\ pending_q'[Len(pending_q) + 1] = e
            /\ \A i \in 1 .. Len(pending_q) : pending_q'[i] = pending_q[i]
        <5> DEFINE p == pending_q
        <5>1. p \in Seq(PendingErrors) /\ pending_q' = Append(p, e)
          BY <3>1, <1>s
        <5> HIDE DEF p
        <5>2. /\ Len(Append(p, e)) = Len(p) + 1
              /\ Append(p, e)[Len(p) + 1] = e
              /\ \A i \in 1 .. Len(p) : Append(p, e)[i] = p[i]
          BY <5>1, <2>e, AppendFacts
        <5> QED  BY <5>1, <5>2 DEF p
      <4> QED  BY <4>1, <2>e, <2>3, <1>s, SMTT(30) DEF Errs
    <3> QED  BY <3>1, <3>2, <3>3, <3>4, Zenon DEF Errs, has_version
  <2> QED  BY <2>1, <2>2, <2>3
<1>2. CASE UnlockRunsOnError(t)
  <2>1. /\ pending_q # <<>> /\ pending_q' = Tail(pending_q)
        /\ delivered' = Append(delivered, Head(pending_q))
        /\ UNCHANGED <<posted, tpc, first_ver, locked_ver, tids>>
    BY <1>2 DEF UnlockRunsOnError, PopFront
  <2>2. delivered' \o pending_q' = posted'
    BY <2>1, <1>s, MoveHead, Zenon
  <2>3. \E u \in Users : Holding(u)'
    BY <2>1 DEF Errs, Holding
  <2>4. \A i \in 1 .. Len(pending_q') :
           has_version(pending_q'[i].tn) /\ pending_q'[i].tn \in tids
    <3>1. /\ Len(pending_q') = Len(pending_q) - 1
          /\ \A i \in 1 .. Len(pending_q) - 1 : pending_q'[i] = pending_q[i + 1]
      BY <2>1, <1>s
    <3>2. Len(pending_q) \in Nat
      BY <1>s
    <3>3. \A i \in 1 .. Len(pending_q) - 1 : i + 1 \in 1 .. Len(pending_q)
      BY <3>2
    <3>4. \A i \in 1 .. Len(pending_q) :
             has_version(pending_q[i].tn) /\ pending_q[i].tn \in tids
      BY DEF Errs
    <3> QED  BY <3>1, <3>3, <3>4, Zenon
  <2> QED  BY <2>1, <2>2, <2>3, <2>4, Zenon DEF Errs, has_version
<1>3. ASSUME EndLife, pending_q' = <<>> PROVE Errs'
  <2>1. delivered' = <<>> /\ posted' = <<>>
    BY <1>3 DEF EndLife
  <2>2. <<>> \in Seq(PendingErrors)
    OBVIOUS
  <2>3. delivered' \o pending_q' = posted'
    BY <2>1, <2>2, <1>3, <1>0
  <2> QED  BY <1>3, <2>3 DEF Errs
<1>4. CASE UnlockAndDestroy(t)
  BY <1>3, <1>4, SMTT(30) DEF UnlockAndDestroy
<1>5. ASSUME NEW v \in tids, Cancel(t, v), CanTake(v) PROVE Errs'
  <2>1. pending_q = <<>>
    BY <1>5, Zenon DEF CanTake, Core, HeldByCurrent, Errs
  <2> QED  BY <2>1, <1>3, <1>5 DEF Cancel
<1>6. ASSUME pending_q # <<>>
      PROVE  /\ slot = "used" /\ event # first_ver
             /\ \E h \in Users : Holding(h) /\ \A u \in Users : Busy(u) => u = h
  BY <1>6, Zenon DEF Errs, Core, HeldByCurrent, OneBusy, Busy, TokenTypeOK
<1>7. ASSUME UNCHANGED <<pending_q, posted, delivered, first_ver, locked_ver, tids>>,
             \A u \in Users : Holding(u) => Holding(u)'
      PROVE  Errs'
  BY <1>7, ErrsKept DEF Errs
<1>8. ASSUME UNCHANGED <<pending_q, posted, delivered>>, pending_q = <<>>
      PROVE  Errs'
  BY <1>8, ErrsKept
<1>9. CASE BeginOp(t)
  <2>1. ASSUME NEW r \in 1 .. MaxRange, CreateToken(t, r) PROVE Errs'
    BY <2>1, <1>6, <1>8 DEF CreateToken
  <2>2. ASSUME NEW v \in tids, NEW r \in 0 .. MaxRange, Lock(t, v, r) PROVE Errs'
    BY <2>2, <1>7, Zenon DEF Lock, Holding, TokenTypeOK
  <2>3. ASSUME NEW v \in tids, TryLock(t, v) PROVE Errs'
    BY <2>3, <1>7, Zenon DEF TryLock, Holding, TokenTypeOK
  <2>4. ASSUME NEW v \in tids, Cancel(t, v), ~CanTake(v) PROVE Errs'
    BY <2>4, <1>7 DEF Cancel, Holding
  <2>5. ASSUME NEW v \in tids, Join(t, v) PROVE Errs'
    BY <2>5, <1>7, Zenon DEF Join, Holding, TokenTypeOK
  <2>6. CASE AboutToDestroy(t)
    BY <2>6, <1>7, Zenon DEF AboutToDestroy, Holding, TokenTypeOK
  <2>7. CASE Interrupted(t)
    <3>1. tpc[t] \in {"queued", "join_queued"}
      BY <2>7 DEF Interrupted, Queues, Waits
    <3> QED  BY <2>7, <3>1, <1>7, Zenon DEF Interrupted, Holding, TokenTypeOK
  <2> HIDE DEF ThreadAt, StartTokenOp
  <2> QED  BY <1>9, <1>1, <1>5, <2>1, <2>2, <2>3, <2>4, <2>5, <2>6, <2>7, Zenon DEF BeginOp
<1>10. CASE ContinueOp(t)
  <2>1. CASE CreateFirst(t) \/ CreateLocked(t)
    <3>1. ASSUME pending_q # <<>> PROVE FALSE
      BY <2>1, <3>1, <1>6, Zenon DEF CreateFirst, CreateLocked, Busy, Creating, Holding
    <3> QED  BY <2>1, <3>1, <1>8 DEF CreateFirst, CreateLocked
  <2>2. CASE LockAcquire(t)
    BY <2>2, <1>6, <1>8, Zenon DEF LockAcquire
  <2>3. CASE LockContend(t) \/ LockFail(t) \/ LockWait(t) \/ JoinCheck(t) \/ JoinWait(t)
    <3>1. /\ UNCHANGED <<pending_q, posted, delivered, first_ver, locked_ver, tids>>
          /\ ~Holding(t) /\ \A u \in Users : u # t => tpc'[u] = tpc[u]
      BY <2>3, Zenon DEF LockContend, LockFail, LockWait, JoinCheck, JoinWait, Holding, TokenTypeOK
    <3> QED  BY <3>1, <1>7, Zenon DEF Holding
  <2>4. CASE Unlock(t)
    BY <2>4, <1>8 DEF Unlock
  <2>5. CASE UnlockWake(t)
    <3>1. eventq # <<>> => Head(eventq) \in Users /\ tpc[Head(eventq)] = "queued"
      BY SMTT(30) DEF Queues, Waits, TokenTypeOK
    <3>2. \A u \in Users : Holding(u) => tpc'[u] = tpc[u]
      BY <2>5, <3>1, Zenon DEF UnlockWake, Holding, TokenTypeOK
    <3>3. UNCHANGED <<pending_q, posted, delivered, first_ver, locked_ver, tids>>
      BY <2>5 DEF UnlockWake
    <3> QED  BY <3>2, <3>3, <1>7, Zenon DEF Holding
  <2>6. CASE AboutToDestroyWake(t) \/ DestroyWake(t) \/ DestroyWakeJoin(t)
    <3>1. \A u \in Users : Holding(u) => Holding(u)'
      <4>1. \A i \in 1 .. Len(eventq) : ~Holding(eventq[i])
        BY Zenon DEF Queues, Waits, Holding
      <4>2. \A i \in 1 .. Len(joinq) : ~Holding(joinq[i])
        BY Zenon DEF Queues, Waits, Holding
      <4>3. \A u \in Users : u # t /\ Holding(u) => tpc'[u] = tpc[u]
        <5>1. CASE AboutToDestroyWake(t)
          BY <5>1, <4>1, Zenon DEF AboutToDestroyWake, WakeLockers
        <5>2. CASE DestroyWake(t)
          BY <5>2, <4>1, Zenon DEF DestroyWake, WakeLockers
        <5>3. CASE DestroyWakeJoin(t)
          BY <5>3, <4>2, Zenon DEF DestroyWakeJoin
        <5> QED  BY <2>6, <5>1, <5>2, <5>3, Zenon
      <4>4. Holding(t) => Holding(t)'
        BY <2>6, Zenon DEF AboutToDestroyWake, DestroyWake, DestroyWakeJoin, WakeLockers, Holding
      <4> QED  BY <4>3, <4>4, Zenon DEF Holding
    <3>2. UNCHANGED <<pending_q, posted, delivered, first_ver, locked_ver, tids>>
      BY <2>6 DEF AboutToDestroyWake, DestroyWake, DestroyWakeJoin
    <3> QED  BY <3>1, <3>2, <1>7
  <2>7. CASE ReturnSlot(t)
    BY <2>7, <1>7, Zenon DEF ReturnSlot, Holding, TokenTypeOK
  <2> HIDE DEF ThreadAt, StartTokenOp
  <2> QED
    BY <1>10, <1>2, <1>4, <2>1, <2>2, <2>3, <2>4, <2>5, <2>6, <2>7, ZenonT(30) DEF ContinueOp
<1> HIDE DEF ThreadAt, StartTokenOp
<1> QED  BY <1>9, <1>10

----------------------------------------------------------------------------
IInv == TokenTypeOK /\ Core /\ Queues /\ Errs

(* An id is valid until its life is over *)
Ids == \A v \in tids : has_version(v) <=> v \notin retired

LEMMA IInvInit == TokenInit => IInv
<1> SUFFICES ASSUME TokenInit PROVE IInv
  OBVIOUS
<1>1. TokenTypeOK
  BY DEF TokenInit, TokenTypeOK, Versions, TokenLabels
<1>3. Core
  <2>1. \A t \in Users : tpc[t] = "idle"
    BY DEF TokenInit
  <2>2. \A t \in Users : /\ tpc[t] \notin Creating /\ tpc[t] \notin Ending
                         /\ tpc[t] \notin Named /\ ~Holding(t)
    BY <2>1 DEF Creating, Ending, Named, Holding
  <2>3. slot = "free" /\ ~Live /\ tids = {} /\ retired = {}
    BY DEF TokenInit, Live
  <2>4. OneBusy /\ HeldByCurrent
    BY <2>2, Zenon DEF OneBusy, Busy, HeldByCurrent
  <2>5. WhileCreating
    BY <2>2 DEF WhileCreating, Creating
  <2>6. WhileDead
    BY Zenon DEF TokenInit, WhileDead, Unused
  <2>7. WhileLive /\ IdsBelow
    BY <2>2, <2>3, Zenon DEF WhileLive, IdsBelow
  <2> QED  BY <2>4, <2>5, <2>6, <2>7 DEF Core
<1>4. Queues
  BY DEF TokenInit, Queues, Waits
<1>5. Errs
  BY DEF TokenInit, Errs
<1> QED  BY <1>1, <1>3, <1>4, <1>5 DEF IInv

LEMMA IInvStep ==
    ASSUME VersionsSuffice, IInv, [TokenNext]_tvars
    PROVE  IInv'
<1>1. TokenTypeOK'
  BY TypeStep DEF IInv
<1>2. CASE TokenNext
  BY <1>1, <1>2, CoreStep, QueuesStep, ErrsStep DEF TokenNext, IInv
<1>3. CASE UNCHANGED tvars
  <2>1. UNCHANGED <<slot, first_ver, locked_ver, event, tids, retired, tlives, tpc, tn,
                    range, pending_q, posted, delivered, eventq, joinq>>
    BY <1>3 DEF tvars, meta, vers, queues, tlocals, issued, errors, tbounds
  <2>2. Core'
    BY <1>1, <2>1, NothingMoves DEF IInv
  <2>3. Queues'
    BY <2>1, SleepersStay DEF IInv, queues
  <2>4. Errs'
    BY <2>1, Zenon DEF IInv, Errs, has_version, Holding
  <2> QED  BY <1>1, <2>2, <2>3, <2>4, SMTT(30) DEF IInv
<1> QED  BY <1>2, <1>3

(* The inductive invariant holds as long as versions do not run out *)
THEOREM Invariance == ASSUME VersionsSuffice PROVE TokenSpec => []IInv
<1>1. IInv /\ [TokenNext]_tvars => IInv'
  BY IInvStep
<1> QED  BY <1>1, IInvInit, PTL DEF TokenSpec

(* A step that changes neither the versions of the token nor the ids *)
LEMMA IdsKept ==
    ASSUME Ids, UNCHANGED <<first_ver, locked_ver, tids, retired>>
    PROVE  Ids'
  BY Zenon DEF Ids, has_version

LEMMA IdsStep ==
    ASSUME VersionsSuffice, IInv, IInv', Ids, NEW t \in Users, BeginOp(t) \/ ContinueOp(t)
    PROVE  Ids'
<1> USE DEF meta, vers, issued
<1>v. /\ TokenTypeOK /\ TokenTypeOK' /\ Core /\ Core'
      /\ first_ver \in Nat /\ locked_ver \in Nat /\ locked_ver' \in Nat
      /\ tids \subseteq Nat
  BY NatFacts, Zenon DEF IInv
<1>d. ASSUME tpc[t] \in Creating PROVE \A v \in tids : v \in retired /\ v < event
  <2>1. ~Live
    BY <1>d, Zenon DEF Live
  <2> QED  BY <2>1, <1>v, ValidIsLive, Zenon DEF Ids, Core, IdsBelow
<1>1. CASE (CreateFirst(t) \/ CreateLocked(t)) /\ tpc[t] = "create"
  <2>1. UNCHANGED <<tids, retired>> /\ tpc'[t] \in Creating
    BY <1>1, <1>v, Zenon DEF CreateFirst, CreateLocked, ThreadAt, TokenTypeOK, Creating
  <2>2. \A v \in tids : v \in retired
    BY <1>1, <1>d, Zenon DEF Creating
  <2>3. \A v \in tids : ~has_version(v)'
    <3>1. first_ver' = event \/ tids = {}
      <4>1. event' = event /\ tids' = tids
        BY <1>1, <2>1, Zenon DEF CreateFirst, CreateLocked
      <4>2. tpc'[t] \in {"create_first", "create_locked"}
        BY <1>1, <1>v, Zenon DEF CreateFirst, CreateLocked, ThreadAt, TokenTypeOK
      <4> QED  BY <1>v, <4>1, <4>2, Zenon DEF Core, WhileCreating
    <3>2. \A v \in tids : ~(event <= v)
      BY <1>1, <1>d, <1>v, NatFacts DEF Creating
    <3> QED  BY <3>1, <3>2, Zenon DEF has_version
  <2> QED  BY <2>1, <2>2, <2>3, Zenon DEF Ids
<1>2. CASE (CreateFirst(t) \/ CreateLocked(t)) /\ tpc[t] # "create"
  <2>1. /\ tpc[t] \in Creating /\ HandOut(t)
        /\ first_ver' = event /\ locked_ver' = event + range[t]
    BY <1>2, <1>v, NoWrapping, Zenon
       DEF CreateFirst, CreateLocked, TokenTypeOK, Creating, Core, WhileCreating
  <2> DEFINE new == {v \in Versions : event <= v /\ v < event + range[t]}
  <2>2. tids' = tids \cup new /\ retired' = retired \ new
    BY <2>1, Zenon DEF HandOut
  <2>3. \A v \in new : has_version(v)'
    BY <2>1, Zenon DEF has_version
  <2>4. \A v \in tids : v \in retired /\ v < event
    BY <2>1, <1>d, Zenon
  <2>5. event \in Nat /\ \A v \in tids : v \notin new /\ ~(event <= v)
    <3>1. event \in Nat
      BY <1>v, NatFacts, Zenon
    <3>2. \A v \in tids : ~(event <= v)
      BY <1>v, <2>4, <3>1
    <3> QED  BY <3>1, <3>2, Zenon
  <2>6. \A v \in tids : ~has_version(v)'
    BY <2>1, <2>5, Zenon DEF has_version
  <2> HIDE DEF new
  <2> QED  BY <2>2, <2>3, <2>4, <2>5, <2>6, Zenon DEF Ids
<1>3. CASE LockAcquire(t)
  <2>1. /\ tids' = tids \cup {v \in Versions : first_ver <= v /\ v < locked_ver'}
        /\ retired' = retired /\ first_ver' = first_ver
        /\ tpc[t] = "lock" /\ has_version(tn[t])
    BY <1>3, Zenon DEF LockAcquire
  <2>2. Live
    BY <1>v, <2>1, ValidIsLive, Zenon DEF Core, IdsBelow, Named
  <2>3. \A v \in retired : v < first_ver
    BY <1>v, <2>2, Zenon DEF Core, IdsBelow
  <2>4. \A v \in tids : v < locked_ver /\ v < locked_ver'
    <3>1. \A v \in tids : v < locked_ver
      BY <1>v, <2>2, Zenon DEF Core, IdsBelow
    <3>2. Live'
      <4>1. tpc'[t] = "holding" /\ slot' = slot /\ \A u \in Users : u # t => tpc'[u] = tpc[u]
        BY <1>3, <1>v, Zenon DEF LockAcquire, ThreadAt, TokenTypeOK
      <4>2. "holding" \notin Creating /\ "holding" \notin Ending
        BY DEF Creating, Ending
      <4> QED  BY <2>2, <4>1, <4>2, Zenon DEF Live
    <3>3. \A v \in tids' : v < locked_ver'
      BY <1>v, <3>2, Zenon DEF Core, IdsBelow
    <3> QED  BY <2>1, <3>1, <3>3, Zenon
  <2>5. \A v \in Versions : first_ver <= v => v \notin retired
    BY <1>v, <2>3 DEF Versions
  <2>6. \A v \in tids : has_version(v)' <=> has_version(v)
    BY <2>1, <2>4, Zenon DEF has_version
  <2>7. \A v \in tids' : v \in tids \/ (has_version(v)' /\ v \notin retired)
    BY <2>1, <2>5, Zenon DEF has_version
  <2> QED  BY <2>1, <2>6, <2>7, Zenon DEF Ids
<1>4. ASSUME EndLife, tids' = tids PROVE Ids'
  <2>1. /\ first_ver' = end_ver /\ locked_ver' = end_ver
        /\ retired' = retired \cup {v \in Versions : has_version(v)}
    BY <1>4, Zenon DEF EndLife
  <2>2. \A v \in tids : ~has_version(v)'
    <3>1. first_ver' \in Nat /\ first_ver' = locked_ver'
      BY <1>v, <2>1, Zenon
    <3> QED  BY <1>v, <3>1 DEF has_version
  <2>3. tids \subseteq Versions
    BY <1>v, Zenon DEF TokenTypeOK
  <2> QED  BY <1>4, <2>1, <2>2, <2>3, Zenon DEF Ids
<1>5. CASE BeginOp(t)
  <2>1. ASSUME NEW v \in tids, Cancel(t, v) PROVE Ids'
    BY <2>1, <1>4, IdsKept, Zenon DEF Cancel
  <2>2. ASSUME NEW r \in 1 .. MaxRange, CreateToken(t, r) PROVE Ids'
    BY <2>2, IdsKept, Zenon DEF CreateToken
  <2>3. ASSUME NEW v \in tids, NEW r \in 0 .. MaxRange, Lock(t, v, r) PROVE Ids'
    BY <2>3, IdsKept, Zenon DEF Lock
  <2>4. ASSUME NEW v \in tids, TryLock(t, v) PROVE Ids'
    BY <2>4, IdsKept, Zenon DEF TryLock
  <2>5. ASSUME NEW v \in tids, NEW code \in Codes, Error(t, v, code) PROVE Ids'
    BY <2>5, IdsKept, Zenon DEF Error
  <2>6. ASSUME NEW v \in tids, Join(t, v) PROVE Ids'
    BY <2>6, IdsKept, Zenon DEF Join
  <2>7. CASE AboutToDestroy(t)
    BY <2>7, IdsKept, Zenon DEF AboutToDestroy
  <2>8. CASE Interrupted(t)
    BY <2>8, IdsKept, Zenon DEF Interrupted
  <2> QED  BY <1>5, <2>1, <2>2, <2>3, <2>4, <2>5, <2>6, <2>7, <2>8, Zenon DEF BeginOp
<1>6. CASE ContinueOp(t)
  <2>1. CASE UnlockAndDestroy(t)
    BY <2>1, <1>4, Zenon DEF UnlockAndDestroy
  <2>2. CASE LockContend(t) \/ LockFail(t) \/ LockWait(t) \/ JoinCheck(t) \/ JoinWait(t)
    BY <2>2, IdsKept, Zenon DEF LockContend, LockFail, LockWait, JoinCheck, JoinWait
  <2>3. CASE UnlockRunsOnError(t) \/ Unlock(t) \/ UnlockWake(t) \/ ReturnSlot(t)
    BY <2>3, IdsKept, Zenon DEF UnlockRunsOnError, Unlock, UnlockWake, ReturnSlot
  <2>4. CASE AboutToDestroyWake(t) \/ DestroyWake(t) \/ DestroyWakeJoin(t)
    BY <2>4, IdsKept, Zenon DEF AboutToDestroyWake, DestroyWake, DestroyWakeJoin
  <2> QED  BY <1>1, <1>2, <1>3, <1>6, <2>1, <2>2, <2>3, <2>4, Zenon DEF ContinueOp
<1> QED  BY <1>5, <1>6, Zenon

(* An id is valid from its create, across the restart of the versions,      *)
(* until its token is destroyed, and never again: what the test of          *)
(* token_create_impl for the end of uint32_t is there for.                  *)
THEOREM IdsStayCurrent == ASSUME VersionsSuffice PROVE TokenSpec => []IdsCurrent
<1>1. TokenInit => Ids
  BY Zenon DEF TokenInit, Ids
<1>2. IInv /\ IInv' /\ Ids /\ [TokenNext]_tvars => Ids'
  <2>1. ASSUME IInv, IInv', Ids, TokenNext PROVE Ids'
    BY <2>1, IdsStep, Zenon DEF TokenNext
  <2>2. ASSUME Ids, UNCHANGED tvars PROVE Ids'
    BY <2>2, IdsKept, Zenon DEF tvars, meta, vers, issued
  <2> QED  BY <2>1, <2>2, Zenon
<1>3. IInv /\ Ids => IdsCurrent
  BY Zenon DEF IInv, Ids, IdsCurrent
<1> QED  BY <1>1, <1>2, <1>3, Invariance, PTL DEF TokenSpec

(* fiber_token is a lock: at most one thread holds it, by an id of the      *)
(* current life, whatever ids of earlier lives are still in use, for every  *)
(* number of threads and every TOKEN_MAX_RANGE.                             *)
THEOREM Exclusive == ASSUME VersionsSuffice PROVE TokenSpec => []MutualExclusion
<1>1. IInv => MutualExclusion
  <2> SUFFICES ASSUME IInv PROVE MutualExclusion
    OBVIOUS
  <2>1. \A t, u \in Users : Holding(t) /\ Holding(u) => t = u
    BY DEF IInv, Core, OneBusy, Busy
  <2>2. ASSUME NEW t \in Users, Holding(t)
        PROVE  has_version(tn[t]) /\ event # first_ver /\ tn[t] \notin retired
    <3>1. has_version(tn[t]) /\ event # first_ver /\ tn[t] \in tids
      BY <2>2 DEF IInv, Core, HeldByCurrent, IdsBelow, Holding, Named
    <3>2. Live
      BY <3>1, ValidIsLive DEF IInv
    <3>3. \A v \in retired : v < first_ver
      BY <3>2 DEF IInv, Core, IdsBelow
    <3>4. tn[t] \in Nat /\ first_ver \in Nat
      BY <2>2 DEF IInv, TokenTypeOK, Versions
    <3> QED  BY <3>1, <3>3, <3>4 DEF has_version
  <2> QED  BY <2>1, <2>2 DEF MutualExclusion
<1> QED  BY <1>1, Invariance, PTL

(* Accepted errors reach on_error once and in order, none is left behind in *)
(* an unlocked token.                                                       *)
THEOREM InOrder == ASSUME VersionsSuffice PROVE TokenSpec => []ErrorsInOrder
<1>1. IInv => ErrorsInOrder
  BY Zenon DEF IInv, Core, OneBusy, HeldByCurrent, Busy, Errs, ErrorsInOrder
<1> QED  BY <1>1, Invariance, PTL
============================================================================
