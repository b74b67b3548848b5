----------------------------- MODULE SocketRef -----------------------------
(***************************************************************************)
(* The life of a Socket (src/flare/rpc/socket_inl.h, socket.cc): one slot  *)
(* of the socket pool with its 64-bit _versioned_ref.  The upper half is   *)
(* the version, even while the socket can be addressed and odd once it has *)
(* failed; the lower half counts references.  Addressing is wait-free: it  *)
(* first adds a reference and then looks whether the version matched, so a *)
(* thread with an id of an earlier life disturbs the count.                *)
(*                                                                         *)
(* Every atomic operation on _versioned_ref or _recycle_flag, and every    *)
(* critical section of _id_wait_list_mutex, is one action.                 *)
(***************************************************************************)
EXTENDS Naturals, FiniteSets

CONSTANTS
    Threads,    \* users of the socket; each also names its RPC's token
    Checkers,   \* fibers that run HealthCheckTask
    Map,        \* the creator of the socket: SocketMap, SocketPool or Acceptor
    Uses,       \* kinds of sockets: for each the set of operations that are used
    MaxOps,     \* bound: operations the threads start
    MaxLives    \* bound: times the slot is taken from the pool

Procs == Threads \cup Checkers \cup {Map}

AllOps == {"address", "failed_as_well", "set_failed", "idle_release",
           "notify", "map", "remove", "health_check"}

SocketRefAssumption ==
    /\ MaxOps \in Nat /\ MaxLives \in Nat
    /\ Uses \subseteq SUBSET AllOps
    /\ IsFiniteSet(Procs)
    /\ Threads \cap Checkers = {} /\ Map \notin Threads \cup Checkers

VARIABLES
    uses,               \* the kind of the sockets in this slot
    ver, nref,          \* the two halves of _versioned_ref
    this_id,            \* version of _this_id
    recycle_flag,       \* _recycle_flag: the additional reference is released
    nfree,              \* how often the slot lies in the resource pool
    wait_list,          \* _id_wait_list
    pc, ret,            \* where a process is, and where it returns to
    arg,                \* version of the id a process works with
    seen,               \* version a process read from _versioned_ref
    refs,               \* SocketUniquePtrs a process holds
    hc_tasks,           \* ids with a HealthCheckTask waiting for its timer
    ids,                \* versions handed out by Create
    asked, notified,    \* history: NotifyOnFailed calls, errors sent, per token
    check_failed,       \* history: a CHECK or LOG(FATAL) of the code was hit
    ops, lives          \* counters behind the bounds

vref == <<ver, nref>>
socket == <<vref, this_id, recycle_flag, nfree, wait_list>>
locals == <<ret, arg, seen, refs>>
history == <<asked, notified, check_failed>>
bounds == <<ops, lives>>
vars == <<uses, socket, pc, locals, hc_tasks, ids, history, bounds>>

Goto(p, label) == pc' = [pc EXCEPT ![p] = label]

(* Go on with the subroutine at label, then continue at back *)
Call(p, label, back) == Goto(p, label) /\ ret' = [ret EXCEPT ![p] = back]

Return(p) == Goto(p, ret[p]) /\ UNCHANGED ret

StartOp(t, op) ==
    /\ op \in uses
    /\ pc[t] = "idle" /\ ops < MaxOps
    /\ ops' = ops + 1

Failed == ver # this_id

Init ==
    /\ uses \in Uses
    /\ ver = 0 /\ nref = 0 /\ this_id = 0 /\ recycle_flag = FALSE
    /\ nfree = 1 /\ wait_list = {}
    /\ pc = [p \in Procs |-> "idle"]
    /\ ret = [p \in Procs |-> "idle"]
    /\ arg = [p \in Procs |-> 0]
    /\ seen = [p \in Procs |-> 0]
    /\ refs = [p \in Procs |-> 0]
    /\ hc_tasks = {} /\ ids = {}
    /\ asked = {} /\ notified = [t \in Threads |-> 0]
    /\ check_failed = FALSE
    /\ ops = 0 /\ lives = 0

----------------------------------------------------------------------------
(* Socket::Create: get_resource, then the additional reference.  A         *)
(* SocketMap then addresses the socket before its id is known to anybody   *)
(* else, and keeps that reference until it removes the socket.             *)

GetResource ==
    /\ pc[Map] = "idle" /\ refs[Map] = 0
    /\ nfree > 0 /\ lives < MaxLives
    /\ nfree' = nfree - 1 /\ lives' = lives + 1
    /\ Goto(Map, "create")
    /\ UNCHANGED <<vref, this_id, recycle_flag, wait_list, locals, hc_tasks,
                   ids, history, ops>>

Create ==
    /\ pc[Map] = "create"
    /\ nref' = nref + 1 /\ this_id' = ver
    /\ recycle_flag' = FALSE /\ wait_list' = {}
    /\ asked' = {} /\ notified' = [t \in Threads |-> 0]
    /\ IF "map" \in uses THEN Goto(Map, "insert") /\ UNCHANGED ids
                        ELSE Goto(Map, "idle") /\ ids' = ids \cup {ver}
    /\ UNCHANGED <<ver, nfree, locals, hc_tasks, check_failed, bounds>>

Insert ==
    /\ pc[Map] = "insert"
    /\ nref' = nref + 1
    /\ refs' = [refs EXCEPT ![Map] = 1]
    /\ ids' = ids \cup {this_id}
    /\ Goto(Map, "idle")
    /\ UNCHANGED <<ver, this_id, recycle_flag, nfree, wait_list, ret, arg,
                   seen, hc_tasks, history, bounds>>

----------------------------------------------------------------------------
(* Socket::Address and Socket::AddressFailedAsWell *)

(* fetch_add: whether the version matched is known only afterwards *)
AddRef(p, v, accepted) ==
    /\ nref' = nref + 1
    /\ arg' = [arg EXCEPT ![p] = v]
    /\ seen' = [seen EXCEPT ![p] = ver]
    /\ refs' = IF ver \in accepted THEN [refs EXCEPT ![p] = @ + 1] ELSE refs

Address(t, v) ==
    /\ StartOp(t, "address") /\ refs[t] = 0
    /\ AddRef(t, v, {v})
    /\ IF ver = v THEN UNCHANGED <<pc, ret>> ELSE Call(t, "undo", "idle")
    /\ UNCHANGED <<ver, this_id, recycle_flag, nfree, wait_list, hc_tasks, ids, history, lives>>

AddressFailedAsWell(t, v) ==
    /\ StartOp(t, "failed_as_well") /\ refs[t] = 0
    /\ AddRef(t, v, {v, v + 1})
    /\ IF ver \in {v, v + 1} THEN UNCHANGED <<pc, ret>>
                          ELSE Call(t, "undo_failed", "idle")
    /\ UNCHANGED <<ver, this_id, recycle_flag, nfree, wait_list, hc_tasks, ids, history, lives>>

(* fetch_sub after a version that did not match *)

UndoMayRecycle(p) == ver % 2 = 1 /\ ver \in {seen[p], seen[p] + 1}

Undo(p) ==
    /\ pc[p] \in {"undo", "undo_failed"}
    /\ nref' = nref - 1
    /\ seen' = [seen EXCEPT ![p] = ver]
    /\ IF nref = 1 /\ UndoMayRecycle(p) THEN Goto(p, "undo_cas") /\ UNCHANGED ret
                                        ELSE Return(p)
    /\ check_failed' =
          \/ check_failed \/ nref < 1
          \/ /\ nref = 1 /\ ~UndoMayRecycle(p)
             /\ ver % 2 = 1 \/ (pc[p] = "undo" /\ ver # seen[p])  \* CHECK_EQ
    /\ UNCHANGED <<ver, this_id, recycle_flag, nfree, wait_list, arg, refs,
                   hc_tasks, ids, asked, notified, bounds>>

ClaimUnchecked(p, next_ver) ==
    /\ ver' = next_ver /\ Goto(p, "recycle")
    /\ UNCHANGED <<nref, this_id, recycle_flag, nfree, wait_list, locals,
                   hc_tasks, ids, history, bounds>>

(* The compare_exchange that decides who recycles the slot *)
Claim(p, next_ver) ==
    /\ IF vref = <<seen[p], 0>>
       THEN ver' = next_ver /\ Goto(p, "recycle")
       ELSE ver' = ver /\ Goto(p, ret[p])
    /\ UNCHANGED <<nref, this_id, recycle_flag, nfree, wait_list, locals,
                   hc_tasks, ids, history, bounds>>

UndoCas(p) == pc[p] = "undo_cas" /\ Claim(p, seen[p] + 1)

----------------------------------------------------------------------------
(* Socket::Dereference, of a SocketUniquePtr ("deref") or of the           *)
(* additional reference ("deref_extra")                                    *)

Dereference(p) ==
    /\ pc[p] \in {"deref", "deref_extra"}
    /\ nref' = nref - 1
    /\ refs' = IF pc[p] = "deref" THEN [refs EXCEPT ![p] = @ - 1] ELSE refs
    /\ seen' = [seen EXCEPT ![p] = ver]
    /\ arg' = [arg EXCEPT ![p] = this_id]
    /\ IF nref = 1 /\ ver \in {this_id, this_id + 1}
       THEN Goto(p, "deref_cas") /\ UNCHANGED ret
       ELSE Return(p)
    /\ check_failed' = (check_failed \/ nref < 1
                        \/ (nref = 1 /\ ver \notin {this_id, this_id + 1}))
    /\ UNCHANGED <<ver, this_id, recycle_flag, nfree, wait_list, hc_tasks, ids, asked, notified, bounds>>

DerefCas(p) == pc[p] = "deref_cas" /\ Claim(p, arg[p] + 2)

(* OnRecycle, which destroys _id_wait_list without a word to its tokens *)
OnRecycle(p) ==
    /\ pc[p] = "recycle"
    /\ wait_list' = {}
    /\ Goto(p, "return_resource")
    /\ UNCHANGED <<vref, this_id, recycle_flag, nfree, locals, hc_tasks, ids,
                   history, bounds>>

ReturnResource(p) ==
    /\ pc[p] = "return_resource"
    /\ nfree' = nfree + 1
    /\ Return(p)
    /\ UNCHANGED <<vref, this_id, recycle_flag, wait_list, arg, seen, refs,
                   hc_tasks, ids, history, bounds>>

ReleaseUnmarked(p) ==
    /\ pc[p] = "release_extra"
    /\ IF recycle_flag THEN Return(p) ELSE Goto(p, "deref_extra") /\ UNCHANGED ret
    /\ UNCHANGED <<socket, arg, seen, refs, hc_tasks, ids, history, bounds>>

(* The compare_exchange on _recycle_flag of ReleaseAdditionalReference *)
ReleaseAdditionalReference(p) ==
    /\ pc[p] = "release_extra"
    /\ recycle_flag' = TRUE
    /\ IF recycle_flag THEN Return(p) ELSE Goto(p, "deref_extra") /\ UNCHANGED ret
    /\ UNCHANGED <<vref, this_id, nfree, wait_list, arg, seen, refs,
                   hc_tasks, ids, history, bounds>>

----------------------------------------------------------------------------
(* What a thread does with a reference *)

Release(t) ==
    /\ pc[t] = "idle" /\ t \in Threads /\ refs[t] > 0
    /\ Call(t, "deref", "idle")
    /\ UNCHANGED <<socket, arg, seen, refs, hc_tasks, ids, history,
                   bounds>>

(* SetFailed: the version turns odd, then the error is stored and the      *)
(* health check started, the waiting tokens are told, and the additional   *)
(* reference is released                                                   *)
SetFailed(t) ==
    /\ StartOp(t, "set_failed") /\ refs[t] > 0
    /\ IF Failed
       THEN UNCHANGED <<ver, pc>>
       ELSE ver' = this_id + 1 /\ Goto(t, "sf_error")
    /\ UNCHANGED <<nref, this_id, recycle_flag, nfree, wait_list, locals,
                   hc_tasks, ids, history, lives>>

SetFailedError(t) ==
    /\ pc[t] = "sf_error"
    /\ hc_tasks' = IF "health_check" \in uses THEN hc_tasks \cup {this_id} ELSE hc_tasks
    /\ Goto(t, "sf_reset")
    /\ UNCHANGED <<socket, locals, ids, history, bounds>>

(* fiber_token_list_reset2_pthreadsafe *)
SetFailedResetList(t) ==
    /\ pc[t] = "sf_reset"
    /\ wait_list' = {}
    /\ notified' = [u \in Threads |-> IF u \in wait_list THEN notified[u] + 1
                                                         ELSE notified[u]]
    /\ Call(t, "release_extra", "idle")
    /\ UNCHANGED <<vref, this_id, recycle_flag, nfree, arg, seen, refs,
                   hc_tasks, ids, asked, check_failed, bounds>>

(* ReleaseReferenceIfIdle of a socket that does not fail at server stop *)
ReleaseReferenceIfIdle(t) ==
    /\ StartOp(t, "idle_release") /\ refs[t] > 0
    /\ Call(t, "release_extra", "idle")
    /\ UNCHANGED <<socket, arg, seen, refs, hc_tasks, ids, history,
                   lives>>

NotifyOnFailed(t) ==
    /\ StartOp(t, "notify") /\ refs[t] > 0 /\ t \notin asked
    /\ asked' = asked \cup {t}
    /\ IF Failed
       THEN notified' = [notified EXCEPT ![t] = @ + 1] /\ UNCHANGED wait_list
       ELSE wait_list' = wait_list \cup {t} /\ UNCHANGED notified
    /\ UNCHANGED <<vref, this_id, recycle_flag, nfree, pc, locals, hc_tasks,
                   ids, check_failed, lives>>

(* SocketMap::RemoveInternal: the additional reference, then the entry's *)
Remove ==
    /\ "remove" \in uses
    /\ pc[Map] = "idle" /\ refs[Map] > 0
    /\ Call(Map, "release_extra", "removed")
    /\ UNCHANGED <<socket, arg, seen, refs, hc_tasks, ids, history,
                   bounds>>

(* SocketMap::Insert replaces a failed socket that nobody health-checks *)
ReplaceFailed ==
    /\ "health_check" \notin uses
    /\ pc[Map] = "idle" /\ refs[Map] > 0 /\ Failed
    /\ Call(Map, "deref", "idle")
    /\ UNCHANGED <<socket, arg, seen, refs, hc_tasks, ids, history, bounds>>

Removed ==
    /\ pc[Map] = "removed"
    /\ Call(Map, "deref", "idle")
    /\ UNCHANGED <<socket, arg, seen, refs, hc_tasks, ids, history,
                   bounds>>

----------------------------------------------------------------------------
(* HealthCheckTask::OnTriggeringTask *)

HcTrigger(c) ==
    /\ pc[c] = "idle"
    /\ \E v \in hc_tasks :
          /\ AddRef(c, v, {v, v + 1})
          /\ IF ver \in {v, v + 1} THEN Goto(c, "wait_reset") /\ UNCHANGED ret
                                   ELSE Call(c, "undo_failed", "idle")
          /\ check_failed' = (check_failed \/ ver = v)
          /\ hc_tasks' = hc_tasks \ {v}
    /\ UNCHANGED <<ver, this_id, recycle_flag, nfree, wait_list, ids, asked,
                   notified, bounds>>

(* The timer of a check that failed before fires again *)
HcTriggerAgain(c) ==
    /\ pc[c] = "hc_sleep"
    /\ AddRef(c, arg[c], {arg[c], arg[c] + 1})
    /\ IF ver \in {arg[c], arg[c] + 1} THEN Goto(c, "check") /\ UNCHANGED ret
                                       ELSE Call(c, "undo_failed", "idle")
    /\ check_failed' = (check_failed \/ ver = arg[c])
    /\ UNCHANGED <<ver, this_id, recycle_flag, nfree, wait_list, hc_tasks, ids, asked, notified, bounds>>

WaitForThree(c) ==
    /\ pc[c] = "wait_reset"
    /\ \/ ver = arg[c] + 1 /\ nref = 3 /\ Goto(c, "reset") /\ UNCHANGED ret
       \/ (ver # arg[c] + 1 \/ nref # 3) /\ Call(c, "deref", "idle")
    /\ UNCHANGED <<socket, arg, seen, refs, hc_tasks, ids, history, bounds>>

(* WaitAndReset(2) looks for two references again and again.  It gives up   *)
(* when the socket is alive or has lost a reference, and when the sleep     *)
(* after a look that found more references fails.                           *)
WaitAndReset(c) ==
    /\ pc[c] = "wait_reset"
    /\ \/ ver = arg[c] + 1 /\ nref = 2 /\ Goto(c, "reset") /\ UNCHANGED ret
       \/ (ver # arg[c] + 1 \/ nref # 2) /\ Call(c, "deref", "idle")
    /\ UNCHANGED <<socket, arg, seen, refs, hc_tasks, ids, history, bounds>>

(* Its second half closes the descriptor and clears the buffers, and fails  *)
(* when there is no token for _auth_id                                      *)
Reset(c) ==
    /\ pc[c] = "reset"
    /\ \/ Goto(c, "check") /\ UNCHANGED ret
       \/ Call(c, "deref", "idle")
    /\ UNCHANGED <<socket, arg, seen, refs, hc_tasks, ids, history, bounds>>

(* CheckHealth says revive, quit (ESTOP) or try again later *)
CheckHealth(c) ==
    /\ pc[c] = "check"
    /\ \/ Goto(c, "revive") /\ UNCHANGED ret
       \/ Call(c, "deref", "idle")
       \/ Call(c, "deref", "hc_sleep")
    /\ UNCHANGED <<socket, arg, seen, refs, hc_tasks, ids, history,
                   bounds>>

Revive(c) ==
    /\ pc[c] = "revive"
    /\ check_failed' = (check_failed \/ ver # arg[c] + 1 \/ nref < 1)
    /\ IF nref <= 1
       THEN Call(c, "deref", "idle") /\ UNCHANGED vref
       ELSE /\ ver' = arg[c] /\ nref' = nref + 1
            /\ Goto(c, "revived") /\ UNCHANGED ret
    /\ UNCHANGED <<this_id, recycle_flag, nfree, wait_list, arg, seen, refs,
                   hc_tasks, ids, asked, notified, bounds>>

(* _recycle_flag is stored after the version was published *)
Revived(c) ==
    /\ pc[c] = "revived"
    /\ recycle_flag' = FALSE
    /\ Call(c, "deref", "idle")
    /\ UNCHANGED <<vref, this_id, nfree, wait_list, arg, seen, refs,
                   hc_tasks, ids, history, bounds>>

----------------------------------------------------------------------------
Begin ==
    \/ GetResource \/ Remove \/ ReplaceFailed
    \/ \E t \in Threads :
          \/ \E v \in ids : Address(t, v) \/ AddressFailedAsWell(t, v)
          \/ SetFailed(t) \/ ReleaseReferenceIfIdle(t) \/ NotifyOnFailed(t)

Continue(p) ==
    \/ p = Map /\ (Create \/ Insert \/ Removed)
    \/ Undo(p) \/ UndoCas(p)
    \/ Dereference(p) \/ DerefCas(p) \/ OnRecycle(p) \/ ReturnResource(p)
    \/ ReleaseAdditionalReference(p)
    \/ Release(p) \/ SetFailedError(p) \/ SetFailedResetList(p)
    \/ p \in Checkers /\ (\/ HcTrigger(p) \/ HcTriggerAgain(p)
                          \/ WaitAndReset(p) \/ Reset(p) \/ CheckHealth(p)
                          \/ Revive(p) \/ Revived(p))

Next == (Begin \/ \E p \in Procs : Continue(p)) /\ UNCHANGED uses

Spec == Init /\ [][Next]_vars

----------------------------------------------------------------------------
(* Properties *)

Labels == {"idle", "create", "insert", "undo", "undo_failed", "undo_cas", "deref",
           "deref_extra", "deref_cas", "recycle", "return_resource",
           "release_extra", "removed", "sf_error", "sf_reset", "wait_reset", "reset",
           "check", "hc_sleep", "revive", "revived"}

TypeOK ==
    /\ ver \in Nat /\ this_id \in Nat /\ nref \in Nat /\ nfree \in {0, 1}
    /\ pc \in [Procs -> Labels] /\ ret \in [Procs -> Labels]
    /\ arg \in [Procs -> Nat] /\ seen \in [Procs -> Nat]
    /\ refs \in [Procs -> {0, 1}]
    /\ ids \subseteq Nat /\ hc_tasks \subseteq ids
    /\ recycle_flag \in BOOLEAN /\ check_failed \in BOOLEAN
    /\ wait_list \subseteq Threads /\ asked \subseteq Threads /\ notified \in [Threads -> Nat]
    /\ ops \in Nat /\ lives \in Nat /\ uses \in Uses

InUse == nfree = 0 /\ pc[Map] # "create"

(* Whoever holds a SocketUniquePtr holds the socket it addressed: the slot  *)
(* was not recycled, let alone given to another socket, under it.           *)
NoUseAfterRecycle ==
    \A p \in Procs : refs[p] > 0 =>
        /\ InUse /\ ver \in {this_id, this_id + 1}
        /\ p # Map => arg[p] = this_id

(* One of those who see the count go from 1 to 0 recycles the slot, once,   *)
(* and it is not allocated again before: socket_inl.h, "to prevent          *)
(* returning the Socket to pool more than once".                            *)
RecycledOnce ==
    LET recyclers == {p \in Procs : pc[p] \in {"recycle", "return_resource"}}
    IN  Cardinality(recyclers) + nfree <= 1

(* The socket outlives its holders, and its slot is recycled after them.    *)
HoldersSafe == NoUseAfterRecycle /\ RecycledOnce

(* Every unit of nref is a SocketUniquePtr, the additional reference of     *)
(* Create or Revive, or a wait-free Address that is about to take it back;  *)
(* a socket that is revived again and again may keep units nobody has.  The *)
(* CHECKs and LOG(FATAL)s on counts and versions never fire for a socket    *)
(* that is not revived.                                                     *)
RefsAccountedFor ==
    LET reviving == \E c \in Checkers : pc[c] = "revived"
        owned == Cardinality({p \in Procs : refs[p] = 1})
               + Cardinality({p \in Procs : pc[p] \in {"undo", "undo_failed", "deref_extra"}})
               + (IF InUse /\ (~recycle_flag \/ reviving) THEN 1 ELSE 0)
    IN  nref >= owned /\ ("health_check" \notin uses => nref = owned /\ ~check_failed)

(* socket.cc: the additional reference is released "so that this Socket's   *)
(* reference will hit 0(recycle) when no one addresses it".  With nobody    *)
(* inside a call, a socket in use has a reference left that somebody can    *)
(* release: its creator's, or the additional one if it has not failed.      *)
(* Sockets that are released without being failed, or revived, may leak.    *)
NoLeak ==
    /\ InUse /\ uses \cap {"idle_release", "remove", "health_check"} = {}
    /\ \A p \in Procs : pc[p] = "idle" /\ (p # Map => refs[p] = 0)
    => nref > 0 /\ (Failed => nref = refs[Map])

(* A token registered with NotifyOnFailed waits in the list or got its      *)
(* error, never both and never neither, and no token is left behind in the  *)
(* list of a failed socket: SetFailed races NotifyOnFailed.  Only a socket  *)
(* that is given up without a failure is recycled with tokens in its list.  *)
NotifiedOnce ==
    LET recycled == ~InUse \/ \E p \in Procs : pc[p] = "return_resource"
    IN  /\ (recycled => uses \cap {"remove", "idle_release"} = {})
             => \A t \in Threads :
                   notified[t] + Cardinality(wait_list \cap {t}) = Cardinality(asked \cap {t})
        /\ InUse /\ ver = this_id + 1 /\ (\A p \in Procs : pc[p] \notin {"sf_error", "sf_reset"})
             => wait_list = {}

(* The counts are exact: every reference is somebody's, a socket that       *)
(* failed is recycled in the end, and a token that asked for it is told of  *)
(* the failure once.                                                        *)
RefsExact == TypeOK /\ RefsAccountedFor /\ NoLeak /\ NotifiedOnce

(* health_check.cc: waiting for expected_nref "basically means no one is    *)
(* addressing the Socket(except here)", and "the reference count will not   *)
(* increase again", so the descriptor may be closed and the buffers cleared *)
(* some time after the count was right.  That is so while the SocketMap     *)
(* keeps its reference, of a socket that nobody addresses once it failed.   *)
ResetAlone ==
    [][\A c \in Checkers :
          /\ pc[c] = "reset" /\ pc'[c] = "check"
          /\ refs[Map] = 1 /\ "failed_as_well" \notin uses
          => \A p \in Threads : refs[p] = 0]_vars
============================================================================
