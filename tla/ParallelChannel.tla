--------------------------- MODULE ParallelChannel ---------------------------
(***************************************************************************)
(* An RPC over a ParallelChannel (src/flare/rpc/parallel_channel.cc): one  *)
(* call per sub channel, whose ends are counted in a ParallelChannelDone   *)
(* that they share with the end of the RPC itself, which a timeout, a      *)
(* cancellation or the last sub call brings about.  The last of all these  *)
(* merges the responses, runs the user's done and destroys the call_id.    *)
(*                                                                         *)
(* A sub call is what module Call promises of an RPC: its done runs once,  *)
(* a cancellation makes it end, one cancelled before CallMethod fails in   *)
(* it.  So is the parent: an error locks its token, EndRPC runs in a new   *)
(* fiber and leaves the token locked (FLAGS_DESTROY_CID_IN_DONE).          *)
(***************************************************************************)
EXTENDS Integers, FiniteSets, FiniteSetsExt

CONSTANTS
    NChan,      \* number of sub channels
    ErrorOf,    \* sub channel -> the error its call fails with, if not cancelled
    Settings    \* of the calls a user makes: see SettingKinds

Subs == 1 .. NChan
OK == "OK"
SubErrors(i) == {ErrorOf[i], "ECANCELED"}
AllErrors == UNION {SubErrors(i) : i \in Subs}
SettingKinds == [async : BOOLEAN, in_place : BOOLEAN, limit : Int]     \* limit < 0: fail_limit is not set
MergeResults == {"MERGED", "FAIL", "FAIL_ALL"}

VARIABLES
    settings,       \* of this call
    caller,         \* thread in CallMethod: "before", "setup", "calling", "joining", "returned"
    next,           \* the sub channel CallMethod comes to next
    token,          \* of the parent: "free", "locked", "destroyed"
    error_code,     \* _cntl->_error_code
    timer, posted,  \* the RPC's timer is set; errors on their way to its call_id
    sub,            \* sub channel -> "skip", "new", "called", "ended"
    code,           \* sub channel -> ErrorCode() of its controller
    cancelled,      \* sub channels whose call_id was sent ECANCELED
    sub_pc,         \* sub channel -> where its OnSubDoneRun is: see TypeOK
    inside,         \* the sub channel whose done runs in the stack of CallMethod, or 0
    run_pc,         \* where the OnSubDoneRun(NULL) of Run is
    current_fail,   \* _current_fail
    current_done, run_ran, \* the lower 31 bits and the MSB of _current_done
    completing,     \* threads in OnComplete
    merged,         \* sub channels merged into the response
    nfailed         \* what OnComplete counts

vars == <<settings, caller, next, token, error_code, timer, posted, sub, code, cancelled, sub_pc, inside, run_pc,
          current_fail, current_done, run_ran, completing, merged, nfailed>>
parent == <<token, error_code, timer, posted>>
counts == <<current_fail, current_done, run_ran>>

TypeOK ==
    /\ settings \in Settings
    /\ caller \in {"before", "setup", "calling", "joining", "returned"}
    /\ next \in 1 .. NChan + 1
    /\ token \in {"free", "locked", "destroyed"}
    /\ error_code \in {OK, "ECANCELED", "ERPCTIMEDOUT", "EPCHANFINISH", "EREQUEST", "ERESPONSE", "ETOOMANYFAILS"} \cup AllErrors
    /\ timer \in BOOLEAN /\ posted \subseteq {"ECANCELED", "ERPCTIMEDOUT", "EPCHANFINISH"}
    /\ sub \in [Subs -> {"skip", "new", "called", "ended"}]
    /\ code \in [Subs -> AllErrors \cup {OK}]
    /\ cancelled \subseteq Subs
    /\ sub_pc \in [Subs -> {"none", "fail", "done", "finish", "out"}]
    /\ inside \in Subs \cup {0}
    /\ run_pc \in {"none", "run", "cancel", "mark", "out"}
    /\ current_fail \in 0 .. NChan /\ current_done \in 0 .. NChan /\ run_ran \in BOOLEAN
    /\ completing \in [{"caller", "other"} -> Nat]
    /\ merged \subseteq Subs /\ nfailed \in Nat

Called == {i \in Subs : sub[i] # "skip"}
ndone == Cardinality(Called)
UnsetLimit == ndone
fail_limit == IF settings.limit < 0 THEN UnsetLimit ELSE Max({1, Min({settings.limit, ndone})})

Init ==
    /\ settings \in Settings
    /\ caller = "before" /\ next = 1
    /\ token = "free" /\ error_code = OK /\ timer = FALSE /\ posted = {}
    /\ sub = [i \in Subs |-> "new"] /\ code = [i \in Subs |-> OK] /\ cancelled = {}
    /\ sub_pc = [i \in Subs |-> "none"] /\ inside = 0 /\ run_pc = "none"
    /\ current_fail = 0 /\ current_done = 0 /\ run_ran = FALSE
    /\ completing = [t \in {"caller", "other"} |-> 0]
    /\ merged = {} /\ nfailed = 0

-----------------------------------------------------------------------------
(* ParallelChannel::CallMethod *)

\* The user cancels the RPC; before CallMethod the error is only remembered.
StartCancel ==
    /\ token # "destroyed"
    /\ IF caller = "before"
       THEN error_code' = "ECANCELED" /\ posted' = posted
       ELSE posted' = posted \cup {"ECANCELED"} /\ error_code' = error_code
    /\ UNCHANGED <<settings, caller, next, token, timer, sub, code, cancelled, sub_pc, inside, run_pc, counts,
                   completing, merged, nfailed>>

Lock ==
    /\ caller = "before" /\ token = "free"
    /\ token' = "locked" /\ caller' = "setup"
    /\ UNCHANGED <<settings, next, error_code, timer, posted, sub, code, cancelled, sub_pc, inside, run_pc, counts,
                   completing, merged, nfailed>>

\* The call mappers skip some channels; unless all, the RPC goes on.
Setup ==
    /\ caller = "setup" /\ error_code = OK
    /\ \E skipped \in SUBSET Subs \ {Subs} : sub' = [i \in Subs |-> IF i \in skipped THEN "skip" ELSE "new"]
    /\ timer' \in BOOLEAN
    /\ token' = "free" /\ caller' = "calling"
    /\ UNCHANGED <<settings, next, error_code, posted, code, cancelled, sub_pc, inside, run_pc, counts,
                   completing, merged, nfailed>>

\* FAIL: cancelled before, all channels skipped, or a bad request; done runs
\* in a new fiber (RunDoneAndDestroy) or in place, and the id is destroyed.
Fail ==
    /\ caller = "setup"
    /\ error_code' = IF error_code # OK THEN error_code ELSE "EREQUEST"
    /\ caller' = "returned" /\ token' = "destroyed"
    /\ UNCHANGED <<settings, next, timer, posted, sub, code, cancelled, sub_pc, inside, run_pc, counts,
                   completing, merged, nfailed>>

\* CallMethod of the next sub channel.  It may fail before it returns, which
\* runs its done right here, and does so if it was cancelled before.
CallSub ==
    /\ caller = "calling" /\ inside = 0 /\ next <= NChan
    /\ next' = next + 1
    /\ \/ sub[next] = "skip" /\ UNCHANGED <<sub, code, sub_pc, inside>>
       \/ /\ sub[next] # "skip" /\ next \notin cancelled
          /\ sub' = [sub EXCEPT ![next] = "called"] /\ UNCHANGED <<code, sub_pc, inside>>
       \/ /\ sub[next] # "skip"
          /\ \E e \in SubErrors(next) : (e = "ECANCELED" <=> next \in cancelled) /\ code' = [code EXCEPT ![next] = e]
          /\ sub' = [sub EXCEPT ![next] = "ended"]
          /\ sub_pc' = [sub_pc EXCEPT ![next] = "fail"]
          /\ inside' = next
    /\ UNCHANGED <<settings, caller, parent, cancelled, run_pc, counts, completing, merged, nfailed>>

\* After the last sub channel an asynchronous call returns, a synchronous one
\* joins the call_id.
LeaveLoop ==
    /\ caller = "calling" /\ inside = 0 /\ next = NChan + 1
    /\ caller' = IF settings.async THEN "returned" ELSE "joining"
    /\ UNCHANGED <<settings, next, parent, sub, code, cancelled, sub_pc, inside, run_pc, counts, completing, merged, nfailed>>

Joined ==
    /\ caller = "joining" /\ token = "destroyed"
    /\ caller' = "returned"
    /\ UNCHANGED <<settings, next, parent, sub, code, cancelled, sub_pc, inside, run_pc, counts, completing, merged, nfailed>>

-----------------------------------------------------------------------------
(* Sub calls and the parent end. *)

SubEnds(i) ==
    /\ sub[i] = "called"
    /\ \E e \in SubErrors(i) \cup {OK} : (e = "ECANCELED" => i \in cancelled) /\ code' = [code EXCEPT ![i] = e]
    /\ sub' = [sub EXCEPT ![i] = "ended"]
    /\ sub_pc' = [sub_pc EXCEPT ![i] = "fail"]
    /\ UNCHANGED <<settings, caller, next, parent, cancelled, inside, run_pc, counts, completing, merged, nfailed>>

\* HandleTimeout
TimerFires ==
    /\ timer /\ timer' = FALSE
    /\ posted' = posted \cup {"ERPCTIMEDOUT"}
    /\ UNCHANGED <<settings, caller, next, token, error_code, sub, code, cancelled, sub_pc, inside, run_pc, counts,
                   completing, merged, nfailed>>

\* An error of the parent locks its token for good and starts a fiber for
\* EndRPC (HandleSocketFailed; none of these errors is retried).
ParentEnds ==
    /\ token = "free" /\ caller \notin {"before", "setup"} /\ run_pc = "none"
    /\ \E e \in posted : error_code' = e /\ posted' = posted \ {e}
    /\ token' = "locked"
    /\ run_pc' = "run"
    /\ UNCHANGED <<settings, caller, next, timer, sub, code, cancelled, sub_pc, inside, counts, completing, merged, nfailed>>

-----------------------------------------------------------------------------
(* ParallelChannelDone::OnSubDoneRun of a sub call *)

\* Mutant: one failure too late.
BeyondLimit == current_fail + 1 > fail_limit

\* The failure that makes the sub call cancel the others.
ReachesLimit == current_fail + 1 = fail_limit

SubFail(i) ==
    /\ sub_pc[i] = "fail"
    /\ current_fail' = IF code[i] # OK THEN current_fail + 1 ELSE current_fail
    /\ cancelled' = IF code[i] # OK /\ ReachesLimit THEN cancelled \cup (Called \ {i}) ELSE cancelled
    /\ sub_pc' = [sub_pc EXCEPT ![i] = "done"]
    /\ UNCHANGED <<settings, caller, next, parent, sub, code, inside, run_pc, current_done, run_ran, completing, merged, nfailed>>

\* Return from the done of sub call i.
Leave(i) ==
    /\ sub_pc' = [sub_pc EXCEPT ![i] = "out"]
    /\ inside' = IF inside = i THEN 0 ELSE inside

\* Mutant: takes the value before the addition for the one after it.
SubFinishesEarly(i) == current_done + 2 = ndone

\* The value that the fetch_add of the last sub call finds.
IsLast(i) == current_done + 1 = ndone

\* In the stack of CallMethod a sub call starts a fiber for OnComplete, unless
\* done may run in place (IsSameThreadAsCallMethod).
CompletesHere(i) == inside = i /\ settings.in_place

SubDone(i) ==
    /\ sub_pc[i] = "done"
    /\ current_done' = current_done + 1
    /\ \/ ~IsLast(i) /\ Leave(i) /\ UNCHANGED <<posted, completing>>
       \/ IsLast(i) /\ ~run_ran /\ sub_pc' = [sub_pc EXCEPT ![i] = "finish"] /\ UNCHANGED <<inside, posted, completing>>
       \/ /\ IsLast(i) /\ run_ran
          /\ completing' = [completing EXCEPT ![IF CompletesHere(i) THEN "caller" ELSE "other"] = @ + 1]
          /\ Leave(i) /\ posted' = posted
    /\ UNCHANGED <<settings, caller, next, token, error_code, timer, sub, code, cancelled, run_pc, current_fail, run_ran, merged, nfailed>>

\* fiber_token_error(saved_cid, EPCHANFINISH)
SubFinish(i) ==
    /\ sub_pc[i] = "finish"
    /\ posted' = IF token = "destroyed" THEN posted ELSE posted \cup {"EPCHANFINISH"}
    /\ Leave(i)
    /\ UNCHANGED <<settings, caller, next, token, error_code, timer, sub, code, cancelled, run_pc, counts, completing, merged, nfailed>>

-----------------------------------------------------------------------------
(* ParallelChannelDone::Run and its OnSubDoneRun(NULL) *)

\* Controller::EndRPC deletes the timer and runs the done, which is this object.
EndRPC == run_pc = "run" /\ run_pc' = "cancel" /\ timer' = FALSE

Run ==
    /\ EndRPC
    /\ error_code' = IF error_code = "EPCHANFINISH" THEN OK ELSE error_code
    /\ UNCHANGED <<settings, caller, next, token, posted, sub, code, cancelled, sub_pc, inside, counts, completing, merged, nfailed>>

\* The relaxed load may see an older count, which only cancels in vain.
RunCancel ==
    /\ run_pc = "cancel" /\ run_pc' = "mark"
    /\ \E val \in 0 .. current_done : cancelled' = IF val # ndone THEN Called ELSE cancelled
    /\ UNCHANGED <<settings, caller, next, parent, sub, code, sub_pc, inside, counts, completing, merged, nfailed>>

RunMark ==
    /\ run_pc = "mark" /\ run_pc' = "out"
    /\ run_ran' = TRUE     \* fetch_or(0x80000000)
    /\ completing' = IF current_done = ndone THEN [completing EXCEPT !["other"] = @ + 1] ELSE completing
    /\ UNCHANGED <<settings, caller, next, parent, sub, code, cancelled, sub_pc, inside, current_fail, current_done, merged, nfailed>>

-----------------------------------------------------------------------------
(* ParallelChannelDone::OnComplete *)

Succeeded == {i \in Called : code[i] = OK}
OtherErrors == {code[i] : i \in Called} \ {OK, "ECANCELED"}
UnifiedError ==
    CASE OtherErrors = {} -> "ECANCELED"
      [] Cardinality(OtherErrors) = 1 -> CHOOSE e \in OtherErrors : TRUE
      [] OTHER -> "ETOOMANYFAILS"

\* How many failures merging with these results ends up with.
Merging(result) ==
    LET bad == {i \in Succeeded : result[i] = "FAIL"}
    IN  IF \E i \in Succeeded : result[i] = "FAIL_ALL"
        THEN ndone + Cardinality({i \in bad : \A j \in Succeeded : result[j] = "FAIL_ALL" => j < i})
        ELSE current_fail + Cardinality(bad)

\* Mutant: an error that was posted wins over the limit.
ForgetsCancel(total, failed_all) ==
    CASE failed_all -> "ERESPONSE"
      [] error_code # OK -> error_code
      [] total < fail_limit -> OK
      [] OTHER -> UnifiedError

\* What the RPC ends with.
Outcome(total, failed_all) ==
    CASE failed_all -> "ERESPONSE"
      [] total < fail_limit -> OK
      [] error_code # OK -> error_code
      [] OTHER -> UnifiedError

OnComplete(t) ==
    /\ completing[t] > 0 /\ token = "locked"
    /\ \E result \in [Succeeded -> MergeResults] :
          LET merges == current_fail < fail_limit
              total == IF merges THEN Merging(result) ELSE current_fail
          IN  /\ nfailed' = total
              /\ merged' = IF merges THEN {i \in Succeeded : result[i] = "MERGED"} ELSE {}
              /\ error_code' = Outcome(total, merges /\ \E i \in Succeeded : result[i] = "FAIL_ALL")
    /\ token' = "destroyed"
    /\ UNCHANGED <<settings, caller, next, timer, posted, sub, code, cancelled, sub_pc, inside, run_pc, counts, completing>>

-----------------------------------------------------------------------------
CallMethod == Lock \/ Setup \/ Fail \/ CallSub \/ LeaveLoop \/ Joined
Done == \/ Run \/ RunCancel \/ RunMark \/ ParentEnds
        \/ \E i \in Subs : SubFail(i) \/ SubDone(i) \/ SubFinish(i)
        \/ \E t \in {"caller", "other"} : OnComplete(t)
CancelledEnds == \E i \in cancelled : SubEnds(i)

Next == StartCancel \/ CallMethod \/ TimerFires \/ Done \/ \E i \in Subs : SubEnds(i)

\* Threads that run these functions go on, an error sent to the parent is
\* handled, a cancelled sub call ends; a sub call that is not cancelled may
\* never do, having no timeout of its own.
Fairness ==
    /\ WF_vars(CallMethod) /\ WF_vars(TimerFires)
    /\ WF_vars(Done) /\ WF_vars(CancelledEnds)

Spec == Init /\ [][Next]_vars
FairSpec == Spec /\ Fairness

-----------------------------------------------------------------------------
(* Properties *)

Completed == token = "destroyed" /\ caller # "before" /\ run_pc # "none"

\* One thread at most arrives at OnComplete, when all that share the object
\* have counted themselves; from then on, the user having been told and free
\* to delete the controller and this object with it, nobody is at a step that
\* touches either, CallMethod's loop over the sub channels included.
RendezvousOnce ==
    /\ completing["caller"] + completing["other"] <= 1
    /\ Completed =>
         /\ \A i \in Called : sub_pc[i] \in {"out", "finish"}
         /\ run_pc = "out"
         /\ caller = "calling" => \A i \in next .. NChan : sub[i] = "skip"

\* The RPC succeeds if and only if fewer than fail_limit sub calls failed,
\* those whose response could not be merged included, even if it was timed out
\* or cancelled (ParallelChannelOptions::fail_limit); its response then holds
\* all the responses that could be merged.
FailLimitDecides ==
    Completed =>
        /\ error_code = OK <=> nfailed < fail_limit
        /\ nfailed >= Cardinality({i \in Called : code[i] # OK})
        /\ error_code = OK => ndone - Cardinality(merged) = nfailed

\* The user's done runs in the stack of CallMethod only if it may.
DoneElsewhere == completing["caller"] > 0 => settings.in_place

\* Once fail_limit sub calls failed, or the timer is set, the RPC ends, though
\* the other sub calls would never do ("RPC will stop soon").
StopsAtLimit == timer \/ current_fail >= fail_limit ~> token = "destroyed"
=============================================================================
