------------------------------- MODULE Token -------------------------------
(***************************************************************************)
(* fiber_token (src/flare/fiber/internal/token.cc): a versioned identifier *)
(* that can be locked, carries errors to its holder, and can be joined.    *)
(* One slot of the token pool is modelled through several lives: create,   *)
(* use by any thread under any id that was ever handed out, destroy, reuse.*)
(*                                                                         *)
(* A critical section of token::mutex is one action.  The calls made after *)
(* the mutex is released (waitable_event_wait, _wake, _wake_all,           *)
(* return_resource) are actions of their own, so other threads run between *)
(* them.  The two waitable events are FIFO queues of sleeping threads.     *)
(***************************************************************************)
EXTENDS Naturals, Sequences, FiniteSets

CONSTANTS
    Users,          \* fibers and pthreads that use the token
    MaxRange,       \* TOKEN_MAX_RANGE
    VerMod,         \* 2^32: number of values of a version
    FirstVersion,   \* where the slot's earlier lives, whose ids are forgotten, left *event
    Codes,          \* error codes
    Ops,            \* which operations the threads use
    MaxTokenOps,    \* bound: operations a thread starts
    MaxTokens       \* bound: times the slot is created

TokenOps == {"lock", "reset_range", "trylock", "error", "join", "cancel",
             "about_to_destroy", "unlock_after_about_to_destroy", "interrupt"}

ASSUME TokenAssumption ==
    /\ MaxRange \in Nat \ {0}
    /\ VerMod \in Nat /\ VerMod > 2 * (MaxRange + 3)
    /\ FirstVersion \in 0 .. VerMod - 1
    /\ MaxTokenOps \in Nat /\ MaxTokens \in Nat
    /\ Ops \subseteq TokenOps

VARIABLES
    slot,               \* "free" in the resource pool, or "used"
    first_ver, locked_ver, event, join_butex, pending_q,    \* struct token
    eventq, joinq,      \* threads asleep on *event and on *join_butex
    tpc, tn, range, ever_contended, expected_ver,           \* per thread
    tids,               \* every version handed out so far
    retired,            \* history: versions of ended lives, not handed out anew
    posted, delivered,  \* history: errors accepted, given to on_error, this life
    tops, tlives        \* counters behind the bounds

vers == <<first_ver, locked_ver>>
meta == <<vers, event, join_butex, pending_q>>
queues == <<eventq, joinq>>
tlocals == <<tn, range, ever_contended, expected_ver>>
issued == <<tids, retired>>
errors == <<posted, delivered>>
tbounds == <<tops, tlives>>
tvars == <<slot, meta, queues, tpc, tlocals, issued, errors, tbounds>>

Versions == 0 .. VerMod - 1

TokenLabels == {"idle", "create", "create_first", "create_locked",
           "lock", "lock_wait", "queued", "holding", "atd_wake", "unlock_wake",
           "destroy_wake", "destroy_wake_join", "return_resource",
           "join", "join_wait", "join_queued"}

PendingErrors == [tn : Versions, code : Codes]

(* uint32_t addition *)
Wrap(x) == IF x >= VerMod THEN x - VerMod ELSE x

has_version(v) == first_ver <= v /\ v < locked_ver

contended_ver == Wrap(locked_ver + 1)

unlockable_ver == Wrap(locked_ver + 2)

end_ver == Wrap(locked_ver + 3)

(* The lock can be had at once: trylock and cancel *)
CanTakeEvenContended(v) == has_version(v) /\ event # locked_ver

CanTake(v) == has_version(v) /\ event = first_ver

ThreadAt(t, label) == tpc' = [tpc EXCEPT ![t] = label]

StartTokenOp(t, op) ==
    /\ op \in Ops
    /\ tpc[t] = "idle"
    /\ tops[t] < MaxTokenOps
    /\ tops' = [tops EXCEPT ![t] = @ + 1]

TokenInit ==
    /\ slot = "free"
    /\ first_ver = FirstVersion /\ locked_ver = FirstVersion
    /\ event = FirstVersion /\ join_butex = FirstVersion
    /\ pending_q = <<>>
    /\ eventq = <<>> /\ joinq = <<>>
    /\ tpc = [t \in Users |-> "idle"]
    /\ tn = [t \in Users |-> 0]
    /\ range = [t \in Users |-> 0]
    /\ ever_contended = [t \in Users |-> FALSE]
    /\ expected_ver = [t \in Users |-> 0]
    /\ tids = {} /\ retired = {}
    /\ posted = <<>> /\ delivered = <<>>
    /\ tops = [t \in Users |-> 0] /\ tlives = 0

----------------------------------------------------------------------------
(* token_create_impl and token_create_ranged_impl.  The fields are plain   *)
(* stores made without the mutex, so a thread that still uses an id of an  *)
(* earlier life sees them one by one, first_ver and locked_ver in either   *)
(* order.                                                                  *)

RestartAtZero == event = 0

(* 0 == *event || *event + TOKEN_MAX_RANGE + 2 < *event *)
MustRestartVersions == event = 0 \/ Wrap(event + MaxRange + 2) < event

CreateToken(t, r) ==
    /\ tpc[t] = "idle" /\ slot = "free" /\ tlives < MaxTokens
    /\ tlives' = tlives + 1
    /\ slot' = "used"
    /\ event' = IF MustRestartVersions THEN 1 ELSE event
    /\ join_butex' = event'
    /\ range' = [range EXCEPT ![t] = r]
    /\ ThreadAt(t, "create")
    /\ UNCHANGED <<vers, pending_q, queues, tn, ever_contended, expected_ver,
                   issued, errors, tops>>

(* The id, and the range of ids after it, reach the callers *)
HandOut(t) ==
    LET new == {v \in Versions : event <= v /\ v < event + range[t]}
    IN  /\ tids' = tids \cup new
        /\ retired' = retired \ new

CreateFirst(t) ==
    /\ tpc[t] \in {"create", "create_locked"}
    /\ first_ver' = event
    /\ IF tpc[t] = "create" THEN ThreadAt(t, "create_first") /\ UNCHANGED issued
                           ELSE ThreadAt(t, "idle") /\ HandOut(t)
    /\ UNCHANGED <<slot, locked_ver, event, join_butex, pending_q, queues,
                   tlocals, errors, tbounds>>

CreateLocked(t) ==
    /\ tpc[t] \in {"create", "create_first"}
    /\ locked_ver' = Wrap(event + range[t])
    /\ IF tpc[t] = "create" THEN ThreadAt(t, "create_locked") /\ UNCHANGED issued
                           ELSE ThreadAt(t, "idle") /\ HandOut(t)
    /\ UNCHANGED <<slot, first_ver, event, join_butex, pending_q, queues,
                   tlocals, errors, tbounds>>

----------------------------------------------------------------------------
(* fiber_token_lock and fiber_token_lock_and_reset_range *)

Lock(t, v, r) ==
    /\ StartTokenOp(t, IF r = 0 THEN "lock" ELSE "reset_range")
    /\ tn' = [tn EXCEPT ![t] = v]
    /\ range' = [range EXCEPT ![t] = r]
    /\ ever_contended' = [ever_contended EXCEPT ![t] = FALSE]
    /\ ThreadAt(t, "lock")
    /\ UNCHANGED <<slot, meta, queues, expected_ver, issued, errors, tlives>>

ResetRange(r) ==
    IF r = 0 \/ r > MaxRange \/ Wrap(r + first_ver) <= locked_ver
    THEN locked_ver ELSE Wrap(first_ver + r)

(* *event of a lock just taken: a locker that slept may have left others   *)
(* asleep, so its unlock has to wake one                                   *)
LockedForgetful(t, locked) == locked

LockedVersion(t, locked) == IF ever_contended[t] THEN Wrap(locked + 1) ELSE locked

LockAcquire(t) ==
    /\ tpc[t] = "lock" /\ has_version(tn[t]) /\ event = first_ver
    /\ locked_ver' = ResetRange(range[t])
    /\ event' = LockedVersion(t, locked_ver')
    /\ tids' = tids \cup {v \in Versions : first_ver <= v /\ v < locked_ver'}
    /\ ThreadAt(t, "holding")
    /\ UNCHANGED <<slot, first_ver, join_butex, pending_q, queues, tlocals,
                   retired, errors, tbounds>>

(* The lock is taken: mark it contended, leave the mutex and go to sleep *)
LockContend(t) ==
    /\ tpc[t] = "lock" /\ has_version(tn[t])
    /\ event # first_ver /\ event # unlockable_ver
    /\ event' = contended_ver
    /\ expected_ver' = [expected_ver EXCEPT ![t] = contended_ver]
    /\ ever_contended' = [ever_contended EXCEPT ![t] = TRUE]
    /\ ThreadAt(t, "lock_wait")
    /\ UNCHANGED <<slot, vers, join_butex, pending_q, queues, tn, range,
                   issued, errors, tbounds>>

(* EPERM after fiber_token_about_to_destroy, EINVAL for a stale id *)
LockFail(t) ==
    /\ tpc[t] = "lock"
    /\ has_version(tn[t]) => event # first_ver /\ event = unlockable_ver
    /\ ThreadAt(t, "idle")
    /\ UNCHANGED <<slot, meta, queues, tlocals, issued, errors, tbounds>>

(* waitable_event_wait(event, expected_ver): sleeps only if *event matches *)
LockWait(t) ==
    /\ tpc[t] = "lock_wait"
    /\ IF event = expected_ver[t]
       THEN ThreadAt(t, "queued") /\ eventq' = Append(eventq, t)
       ELSE ThreadAt(t, "lock") /\ UNCHANGED eventq
    /\ UNCHANGED <<slot, meta, joinq, tlocals, issued, errors, tbounds>>

(* fiber_token_trylock *)
TryLock(t, v) ==
    /\ StartTokenOp(t, "trylock")
    /\ IF CanTake(v)
       THEN /\ event' = locked_ver
            /\ tn' = [tn EXCEPT ![t] = v]
            /\ ThreadAt(t, "holding")
       ELSE UNCHANGED <<event, tn, tpc>>
    /\ UNCHANGED <<slot, vers, join_butex, pending_q, queues, range,
                   ever_contended, expected_ver, issued, errors, tlives>>

----------------------------------------------------------------------------
(* fiber_token_error2: with the lock free, take it and run on_error; else  *)
(* leave the error for the holder.  A thread that runs on_error holds the  *)
(* token and must unlock or destroy it, like any holder.                   *)

Error(t, v, code) ==
    LET e == [tn |-> v, code |-> code] IN
    /\ StartTokenOp(t, "error")
    /\ IF ~has_version(v)
       THEN UNCHANGED <<event, pending_q, tn, tpc, errors>>
       ELSE /\ posted' = Append(posted, e)
            /\ IF event = first_ver
               THEN /\ event' = locked_ver
                    /\ tn' = [tn EXCEPT ![t] = v]
                    /\ delivered' = Append(delivered, e)
                    /\ ThreadAt(t, "holding")
                    /\ UNCHANGED pending_q
               ELSE /\ pending_q' = Append(pending_q, e)
                    /\ UNCHANGED <<event, tn, tpc, delivered>>
    /\ UNCHANGED <<slot, vers, join_butex, queues, range, ever_contended,
                   expected_ver, issued, tlives>>

(* "not locked!" and "Invalid fiber_token": unlock and unlock_and_destroy   *)
(* refuse the caller.  HolderValid says that a holder never meets this.     *)
Refused(t) == ~has_version(tn[t]) \/ event = first_ver

PopNewest(q) == SubSeq(q, 1, Len(q) - 1)

(* SmallQueue::pop, after the front was read *)
PopFront(q) == Tail(q)

(* fiber_token_unlock: a pending error is handled first, by the same       *)
(* thread and with the lock still held                                     *)
UnlockRunsOnError(t) ==
    /\ tpc[t] = "holding" /\ ~Refused(t)
    /\ event = unlockable_ver => "unlock_after_about_to_destroy" \in Ops
    /\ pending_q # <<>>
    /\ pending_q' = PopFront(pending_q)
    /\ delivered' = Append(delivered, Head(pending_q))
    /\ tn' = [tn EXCEPT ![t] = Head(pending_q).tn]
    /\ UNCHANGED <<slot, vers, event, join_butex, queues, tpc, range,
                   ever_contended, expected_ver, issued, posted, tbounds>>

Unlock(t) ==
    /\ tpc[t] = "holding" /\ ~Refused(t)
    /\ event = unlockable_ver => "unlock_after_about_to_destroy" \in Ops
    /\ pending_q = <<>>
    /\ event' = first_ver
    /\ ThreadAt(t, IF event = contended_ver THEN "unlock_wake" ELSE "idle")
    /\ UNCHANGED <<slot, vers, join_butex, pending_q, queues, tlocals, issued,
                   errors, tbounds>>

(* waitable_event_wake: the longest sleeper goes back to its loop *)
UnlockWake(t) ==
    /\ tpc[t] = "unlock_wake"
    /\ IF eventq = <<>>
       THEN ThreadAt(t, "idle") /\ UNCHANGED eventq
       ELSE /\ tpc' = [tpc EXCEPT ![t] = "idle", ![Head(eventq)] = "lock"]
            /\ eventq' = Tail(eventq)
    /\ UNCHANGED <<slot, meta, joinq, tlocals, issued, errors, tbounds>>

(* fiber_token_about_to_destroy, called by the holder *)
AboutToDestroy(t) ==
    /\ "about_to_destroy" \in Ops
    /\ tpc[t] = "holding" /\ ~Refused(t)
    /\ event # unlockable_ver
    /\ event' = unlockable_ver
    /\ ThreadAt(t, IF event = contended_ver THEN "atd_wake" ELSE "holding")
    /\ UNCHANGED <<slot, vers, join_butex, pending_q, queues, tlocals, issued,
                   errors, tbounds>>

(* waitable_event_wake_except: every sleeper goes back to its loop *)
WakeLockers(t, next) ==
    /\ tpc' = [u \in Users |-> IF u = t THEN next
                                ELSE IF \E i \in 1 .. Len(eventq) : eventq[i] = u
                                     THEN "lock" ELSE tpc[u]]
    /\ eventq' = <<>>

AboutToDestroyWake(t) ==
    /\ tpc[t] = "atd_wake"
    /\ WakeLockers(t, "holding")
    /\ UNCHANGED <<slot, meta, joinq, tlocals, issued, errors, tbounds>>

----------------------------------------------------------------------------
(* The end of a life *)

EndLife ==
    /\ event' = end_ver /\ first_ver' = end_ver /\ locked_ver' = end_ver
    /\ retired' = retired \cup {v \in Versions : has_version(v)}
    /\ posted' = <<>> /\ delivered' = <<>>

(* fiber_token_unlock_and_destroy *)
UnlockAndDestroy(t) ==
    /\ tpc[t] = "holding" /\ ~Refused(t)
    /\ EndLife
    /\ join_butex' = end_ver
    /\ pending_q' = <<>>
    /\ ThreadAt(t, "destroy_wake")
    /\ UNCHANGED <<slot, queues, tlocals, tids, tbounds>>

DestroyWake(t) ==
    /\ tpc[t] = "destroy_wake"
    /\ WakeLockers(t, "destroy_wake_join")
    /\ UNCHANGED <<slot, meta, joinq, tlocals, issued, errors, tbounds>>

(* waitable_event_wake_all(join_butex) *)
DestroyWakeJoin(t) ==
    /\ tpc[t] = "destroy_wake_join"
    /\ tpc' = [u \in Users |-> IF u = t THEN "return_resource"
                                ELSE IF \E i \in 1 .. Len(joinq) : joinq[i] = u
                                     THEN "join" ELSE tpc[u]]
    /\ joinq' = <<>>
    /\ UNCHANGED <<slot, meta, eventq, tlocals, issued, errors, tbounds>>

ReturnSlot(t) ==
    /\ tpc[t] = "return_resource"
    /\ slot' = "free"
    /\ ThreadAt(t, "idle")
    /\ UNCHANGED <<meta, queues, tlocals, issued, errors, tbounds>>

(* fiber_token_cancel: EINVAL, EPERM, or the end of the life *)
Cancel(t, v) ==
    /\ StartTokenOp(t, "cancel")
    /\ IF CanTake(v)
       THEN EndLife /\ ThreadAt(t, "return_resource")
       ELSE UNCHANGED <<event, vers, retired, errors, tpc>>
    /\ UNCHANGED <<slot, join_butex, pending_q, queues, tlocals, tids, tlives>>

----------------------------------------------------------------------------
(* fiber_token_join *)

Join(t, v) ==
    /\ StartTokenOp(t, "join")
    /\ tn' = [tn EXCEPT ![t] = v]
    /\ ThreadAt(t, "join")
    /\ UNCHANGED <<slot, meta, queues, range, ever_contended, expected_ver,
                   issued, errors, tlives>>

JoinCheck(t) ==
    /\ tpc[t] = "join"
    /\ expected_ver' = [expected_ver EXCEPT ![t] = join_butex]
    /\ ThreadAt(t, IF has_version(tn[t]) THEN "join_wait" ELSE "idle")
    /\ UNCHANGED <<slot, meta, queues, tn, range, ever_contended, issued,
                   errors, tbounds>>

JoinWait(t) ==
    /\ tpc[t] = "join_wait"
    /\ IF join_butex = expected_ver[t]
       THEN ThreadAt(t, "join_queued") /\ joinq' = Append(joinq, t)
       ELSE ThreadAt(t, "join") /\ UNCHANGED joinq
    /\ UNCHANGED <<slot, meta, eventq, tlocals, issued, errors, tbounds>>

WithoutNth(q, i) == [j \in 1 .. Len(q) - 1 |-> IF j < i THEN q[j] ELSE q[j + 1]]

(* fiber_interrupt wakes a sleeper with EINTR, which lock and join ignore *)
Interrupted(t) ==
    /\ "interrupt" \in Ops
    /\ \/ \E i \in 1 .. Len(eventq) :
             /\ eventq[i] = t
             /\ eventq' = WithoutNth(eventq, i)
             /\ ThreadAt(t, "lock") /\ UNCHANGED joinq
       \/ \E i \in 1 .. Len(joinq) :
             /\ joinq[i] = t
             /\ joinq' = WithoutNth(joinq, i)
             /\ ThreadAt(t, "join") /\ UNCHANGED eventq
    /\ UNCHANGED <<slot, meta, tlocals, issued, errors, tops, tlives>>

----------------------------------------------------------------------------
BeginOp(t) ==
    \/ \E r \in 1 .. MaxRange : CreateToken(t, r)
    \/ \E v \in tids :
          \/ \E r \in 0 .. MaxRange : Lock(t, v, r)
          \/ TryLock(t, v)
          \/ \E code \in Codes : Error(t, v, code)
          \/ Cancel(t, v)
          \/ Join(t, v)
    \/ AboutToDestroy(t)
    \/ Interrupted(t)

(* What a thread inside a call, or holding the token, goes on to do *)
ContinueOp(t) ==
    \/ CreateFirst(t) \/ CreateLocked(t)
    \/ LockAcquire(t) \/ LockContend(t) \/ LockFail(t) \/ LockWait(t)
    \/ UnlockRunsOnError(t) \/ Unlock(t) \/ UnlockWake(t)
    \/ AboutToDestroyWake(t)
    \/ UnlockAndDestroy(t) \/ DestroyWake(t) \/ DestroyWakeJoin(t)
    \/ ReturnSlot(t)
    \/ JoinCheck(t) \/ JoinWait(t)

TokenNext == \E t \in Users : BeginOp(t) \/ ContinueOp(t)

TokenSpec == TokenInit /\ [][TokenNext]_tvars

(* A thread inside a call keeps running, and a holder ends its use: token.h *)
(* requires every lock and every on_error to be followed by an unlock.      *)
Fairness == \A t \in Users : WF_tvars(ContinueOp(t))

FairSpec == TokenSpec /\ Fairness

----------------------------------------------------------------------------
(* Properties *)

TokenTypeOK ==
    /\ slot \in {"free", "used"}
    /\ first_ver \in Versions /\ locked_ver \in Versions
    /\ event \in Versions /\ join_butex \in Versions
    /\ pending_q \in Seq(PendingErrors)
    /\ eventq \in Seq(Users) /\ joinq \in Seq(Users)
    /\ tpc \in [Users -> TokenLabels]
    /\ tn \in [Users -> Versions]
    /\ range \in [Users -> 0 .. MaxRange]
    /\ ever_contended \in [Users -> BOOLEAN]
    /\ expected_ver \in [Users -> Versions]
    /\ tids \in SUBSET Versions /\ retired \in SUBSET Versions
    /\ posted \in Seq(PendingErrors)
    /\ delivered \in Seq(PendingErrors)
    /\ tops \in [Users -> 0 .. MaxTokenOps] /\ tlives \in 0 .. MaxTokens

(* An id is good from its create until the token is destroyed, and EINVAL   *)
(* ever after, also while the slot is being created anew.  A create that    *)
(* starts over at version 1 leaves room for every version of the life, "to  *)
(* make comparisons simpler", and the ones of has_version stay true.        *)
IdsCurrent == TokenTypeOK /\ \A v \in tids : has_version(v) <=> v \notin retired

Holding(t) == tpc[t] \in {"holding", "atd_wake"}

(* token.h: the data of a token is used exclusively.  Whether it took the   *)
(* lock by lock, by trylock, or by running on_error inside error or unlock, *)
(* at most one thread holds the token.  The id it holds it by names the     *)
(* current life and the token is locked: nobody destroyed or unlocked it    *)
(* meanwhile, so unlock and unlock_and_destroy never take their LOG(FATAL)  *)
(* branches.                                                                *)
MutualExclusion ==
    /\ \A t, u \in Users : Holding(t) /\ Holding(u) => t = u
    /\ \A t \in Users : Holding(t) =>
          has_version(tn[t]) /\ event # first_ver /\ tn[t] \notin retired

(* Every error that fiber_token_error accepted is given to on_error exactly *)
(* once and in the order of the calls, or still waits in pending_q.  No     *)
(* error waits in a token that is unlocked or whose slot is free: the       *)
(* CHECK(pending_q.empty()) of token_create_impl, and the reason why        *)
(* fiber_token_cancel need not clear the queue.                             *)
ErrorsInOrder ==
    /\ delivered \o pending_q = posted
    /\ slot = "free" \/ event = first_ver => pending_q = <<>>

(* A thread inside fiber_token_lock returns, with the lock or an error, if  *)
(* holders unlock (token.h, "wait until `id' is unlocked or destroyed"), and *)
(* one inside fiber_token_join returns once the token is destroyed.         *)
CallReturns(t) ==
    \/ tpc[t] \in {"lock", "lock_wait", "queued"}
    \/ tpc[t] \in {"join", "join_wait", "join_queued"} /\ ~has_version(tn[t])
    ~> tpc[t] \in {"idle", "holding"}
============================================================================
