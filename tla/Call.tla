-------------------------------- MODULE Call --------------------------------
(***************************************************************************)
(* One RPC of a client: Channel::CallMethod and the Controller's handlers  *)
(* (src/flare/rpc/channel.cc, controller.cc).  The call is a fiber_token   *)
(* (module Token) whose version call_id stands for the RPC and             *)
(* call_id + k + 1 for its k-th attempt.  Whoever has the token locked     *)
(* runs the Controller; a timer, a cancellation, a failed socket and a     *)
(* response each lock it, in an order nobody controls, and either end the  *)
(* RPC, send another attempt (a retry, or a backup request beside the      *)
(* attempt in flight) or are put aside as stale.                           *)
(*                                                                         *)
(* The token is used through what Token promises: one holder at a time,    *)
(* an error sent to a locked token is handled by a later unlock, nothing   *)
(* gets in once it is about to be destroyed.  pc is what the holder does   *)
(* next; in "free" nobody holds the token.                                 *)
(***************************************************************************)
EXTENDS Integers, FiniteSets

CONSTANTS
    MaxRetry,   \* _max_retry
    Options     \* the calls a user makes: see OptionKinds

Attempts == 0 .. MaxRetry
NoAttempt == -1
CorrelationId == 0
get_id(k) == k + 1

OK == "OK"
OptionKinds == [done : {"null", "in_place", "elsewhere"},   \* sync, or where done may run
                type : {"single", "pooled", "short"},       \* _connection_type
                timeout : BOOLEAN,                          \* timeout_ms >= 0
                backup : BOOLEAN,                           \* 0 <= backup_request_ms < timeout_ms
                crowded : BOOLEAN]                          \* usercode_in_pthread and TooManyUserCode

ASSUME CallAssumption == MaxRetry \in Nat /\ Options \subseteq OptionKinds

VARIABLES
    opt,            \* of this call
    pc,             \* of the holder of the token
    thread,         \* the holder: "caller", "other", or the "fiber" of RunEndRPC
    caller,         \* the thread that calls CallMethod: "before", "inside", "returned"
    error_code,     \* _error_code
    nretry,         \* _current_call.nretry
    unfinished,     \* _unfinished_call->nretry, or NoAttempt
    info,           \* what OnVersionedRPCReturned is called with
    timer,          \* _timeout_id: "none", "backup", "timeout"
    posted,         \* errors on their way to call_id
    call,           \* attempt -> its Call and what becomes of its request
    response,       \* attempt whose body _response holds
    attachment      \* attempt whose response_attachment() this is

vars == <<opt, pc, thread, caller, error_code, nretry, unfinished, info, timer, posted, call, response, attachment>>

Codes == {OK, "EREQUEST", "ERESPONSE", "ELIMIT", "EHOSTDOWN", "EFAILEDSOCKET", "ECANCELED", "ERPCTIMEDOUT", "EBACKUPREQUEST"}

Calls == [selected : BOOLEAN,                                       \* need_feedback
          sock : {"none", "held", "pooled", "failed", "released"},  \* sending_sock and where it went
          net : {"none", "sent", "arrived", "handled"},             \* the request and its response
          code : Codes,                                             \* what the handled response says
          failure : {"none", "coming", "handled"},                  \* error of its socket
          fed : Nat]                                                \* calls of Feedback

TypeOK ==
    /\ opt \in Options
    /\ pc \in {"before", "issue", "returned", "free", "end", "done", "destroy", "destroyed"}
    /\ thread \in {"caller", "other", "fiber"} /\ caller \in {"before", "inside", "returned"}
    /\ error_code \in Codes /\ nretry \in Attempts
    /\ unfinished \in Attempts \cup {NoAttempt}
    /\ info \in [id : {CorrelationId} \cup {get_id(k) : k \in Attempts}, responded : BOOLEAN,
                 new_fiber : BOOLEAN, saved_error : Codes]
    /\ timer \in {"none", "backup", "timeout"} /\ posted \subseteq Codes
    /\ call \in [Attempts -> Calls]
    /\ response \in Attempts \cup {NoAttempt} /\ attachment \in Attempts \cup {NoAttempt}

NewCall == [selected |-> FALSE, sock |-> "none", net |-> "none", code |-> OK,
            failure |-> "none", fed |-> 0]

Init ==
    /\ opt \in Options
    /\ pc = "before" /\ thread = "caller" /\ caller = "before"
    /\ error_code = OK /\ nretry = 0 /\ unfinished = NoAttempt
    /\ info = [id |-> CorrelationId, responded |-> FALSE, new_fiber |-> FALSE, saved_error |-> OK]
    /\ timer = "none" /\ posted = {}
    /\ call = [k \in Attempts |-> NewCall]
    /\ response = NoAttempt /\ attachment = NoAttempt

-----------------------------------------------------------------------------
(* OnVersionedRPCReturned is reached from three places. *)

Returned(i) == info' = i /\ pc' = "returned"

\* HandleSendFailed runs done in a new fiber unless done may run in the stack
\* of CallMethod.
NewFiberToFail == opt.done = "elsewhere"

HandleSendFailed(code) ==
    /\ error_code' = code
    /\ Returned([id |-> get_id(nretry), responded |-> FALSE, new_fiber |-> NewFiberToFail, saved_error |-> code])

HandleSocketFailed(id, code) ==
    /\ error_code' = code
    /\ Returned([id |-> id, responded |-> FALSE, new_fiber |-> TRUE, saved_error |-> error_code])
    /\ thread' = "other"

-----------------------------------------------------------------------------
(* The user's side.  What a user, a server or a socket does after the RPC  *)
(* has come to its end finds no call and is left out.                      *)

Alive == pc \in {"before", "issue", "returned", "free"}

StartCancel ==
    /\ Alive
    /\ posted' = posted \cup {"ECANCELED"}
    /\ UNCHANGED <<opt, pc, thread, caller, error_code, nretry, unfinished, info, timer, call, response, attachment>>

\* A call_id that is cancelled before CallMethod only remembers the error.
CancelledBeforeCall ==
    /\ pc = "before" /\ "ECANCELED" \in posted
    /\ error_code' = "ECANCELED" /\ posted' = posted \ {"ECANCELED"}
    /\ UNCHANGED <<opt, pc, thread, caller, nretry, unfinished, info, timer, call, response, attachment>>

FirstTimer == IF opt.backup THEN "backup" ELSE IF opt.timeout THEN "timeout" ELSE "none"

CallMethod ==
    /\ pc = "before" /\ caller' = "inside"
    /\ \/ error_code # OK /\ HandleSendFailed(error_code) /\ timer' = timer
       \/ error_code = OK /\ HandleSendFailed("EREQUEST") /\ timer' = timer
       \/ error_code = OK /\ opt.crowded /\ opt.done # "null" /\ HandleSendFailed("ELIMIT") /\ timer' = timer
       \/ /\ error_code = OK /\ ~(opt.crowded /\ opt.done # "null")
          /\ timer' = FirstTimer /\ pc' = "issue" /\ UNCHANGED <<error_code, info>>
    /\ UNCHANGED <<opt, thread, nretry, unfinished, posted, call, response, attachment>>

\* An asynchronous CallMethod returns once its thread no longer runs the
\* Controller, a synchronous one after Join.
CallMethodReturns ==
    /\ caller = "inside"
    /\ IF opt.done = "null" THEN pc = "destroyed"
       ELSE thread = "caller" => pc \in {"free", "destroyed"}
    /\ caller' = "returned"
    /\ UNCHANGED <<opt, pc, thread, error_code, nretry, unfinished, info, timer, posted, call, response, attachment>>

-----------------------------------------------------------------------------
(* IssueRPC sends the current attempt and unlocks the token, or fails.     *)
(* While picking a server, getting a connection and packing the request    *)
(* it can get three ways far: nothing is selected; a server is selected    *)
(* and no connection got; a connection is got and the request not sent.    *)

IssueFails(selected, sock, code) ==
    /\ call' = [call EXCEPT ![nretry].selected = selected, ![nretry].sock = sock]
    /\ HandleSendFailed(code)

IssueRPC ==
    /\ pc = "issue"
    /\ \/ IssueFails(FALSE, "none", "EHOSTDOWN")
       \/ IssueFails(TRUE, "none", "EFAILEDSOCKET")
       \/ IssueFails(TRUE, "held", "EREQUEST")
       \/ /\ call' = [call EXCEPT ![nretry].selected = TRUE, ![nretry].sock = "held", ![nretry].net = "sent"]
          /\ error_code' = OK /\ pc' = "free" /\ info' = info
    /\ UNCHANGED <<opt, thread, caller, nretry, unfinished, timer, posted, response, attachment>>

-----------------------------------------------------------------------------
(* What comes back: responses, failures of sockets, timers. *)

\* The server answers and the response is read from a connection that lives.
ResponseArrives(k) ==
    /\ Alive
    /\ call[k].net = "sent" /\ call[k].sock # "failed" /\ call[k].failure = "none"
    /\ call' = [call EXCEPT ![k].net = "arrived"]
    /\ UNCHANGED <<opt, pc, thread, caller, error_code, nretry, unfinished, info, timer, posted, response, attachment>>

\* The socket an attempt was written to fails and tells the id it was given.
SocketFails(k) ==
    /\ Alive
    /\ call[k].net # "none" /\ call[k].failure = "none"
    /\ call' = [call EXCEPT ![k].failure = "coming"]
    /\ UNCHANGED <<opt, pc, thread, caller, error_code, nretry, unfinished, info, timer, posted, response, attachment>>

\* HandleTimeout, HandleBackupRequest.
TimerFires ==
    /\ timer # "none"
    /\ timer' = "none"
    /\ posted' = posted \cup {IF timer = "backup" THEN "EBACKUPREQUEST" ELSE "ERPCTIMEDOUT"}
    /\ UNCHANGED <<opt, pc, thread, caller, error_code, nretry, unfinished, info, call, response, attachment>>

\* A failed response leaves the body and attachment alone; one that cannot be
\* parsed has set both.  A success does not clear _error_code.
ProcessResponse(k, code, carries) ==
    /\ pc = "free" /\ call[k].net = "arrived"
    /\ call' = [call EXCEPT ![k].net = "handled", ![k].code = code]
    /\ error_code' = IF code = OK THEN error_code ELSE code
    /\ response' = IF code = "ELIMIT" THEN response ELSE k
    /\ attachment' = IF code # "ELIMIT" /\ carries THEN k ELSE attachment
    /\ thread' = "other"
    /\ Returned([id |-> get_id(k), responded |-> TRUE, new_fiber |-> FALSE, saved_error |-> error_code])
    /\ UNCHANGED <<opt, caller, nretry, unfinished, timer, posted>>

ProcessFailure(k) ==
    /\ pc = "free" /\ call[k].failure = "coming"
    /\ call' = [call EXCEPT ![k].failure = "handled"]
    /\ HandleSocketFailed(get_id(k), "EFAILEDSOCKET")
    /\ UNCHANGED <<opt, caller, nretry, unfinished, timer, posted, response, attachment>>

ProcessError(code) ==
    /\ pc = "free" /\ code \in posted
    /\ posted' = posted \ {code}
    /\ HandleSocketFailed(CorrelationId, code)
    /\ UNCHANGED <<opt, caller, nretry, unfinished, timer, call, response, attachment>>

-----------------------------------------------------------------------------
(* OnVersionedRPCReturned *)

\* Mutant: whatever the attempt came to.
GoesToPoolAnyway(code, responded) == opt.type = "pooled"

\* OnComplete gives the connection of an attempt back to its pool.
Keeps(code, responded) == opt.type = "pooled" /\ (code = OK \/ responded)

\* Where OnComplete leaves the connection of an attempt.
LeftAs(sock, code, responded) ==
    CASE sock # "held" -> sock
      [] opt.type = "single" -> "released"
      [] Keeps(code, responded) -> "pooled"
      [] OTHER -> "failed"

\* Call::OnComplete: give the connection back or fail it (which tells the id
\* waiting on it), and feed the outcome back to the load balancer.
OnComplete(c, k, code, responded) ==
    LET sock == LeftAs(c[k].sock, code, responded)
    IN  [c EXCEPT ![k].sock = sock,
                  ![k].failure = IF sock = "failed" /\ c[k].net # "none" /\ @ = "none" THEN "coming" ELSE @,
                  ![k].fed = IF c[k].selected THEN @ + 1 ELSE @]

OnCompleteIf(there, c, k, code, responded) == IF there THEN OnComplete(c, k, code, responded) ELSE c

IsCurrent == info.id \in {CorrelationId, get_id(nretry)}
IsUnfinished == unfinished # NoAttempt /\ info.id = get_id(unfinished)

\* Mutant: the error of the answer that is put aside stays.
KeptError == error_code

\* What _error_code becomes when an answer is put aside.
Restored == info.saved_error

\* An answer of an earlier attempt is ignored, unless it is the success of the
\* attempt a backup request was sent beside.
InterceptPrevious ==
    /\ pc = "returned" /\ ~IsCurrent /\ ~(IsUnfinished /\ error_code = OK)
    /\ call' = OnCompleteIf(IsUnfinished, call, unfinished, error_code, info.responded)
    /\ unfinished' = IF IsUnfinished THEN NoAttempt ELSE unfinished
    /\ error_code' = Restored /\ attachment' = NoAttempt
    /\ pc' = "free"
    /\ UNCHANGED <<opt, thread, caller, nretry, info, timer, posted, response>>

Goes == pc = "returned" /\ (IsCurrent \/ (IsUnfinished /\ error_code = OK))
MayRetry == error_code # OK /\ nretry < MaxRetry

\* DefaultRetryPolicy()->DoRetry
DoRetry == error_code \in {"EFAILEDSOCKET", "EHOSTDOWN", "ELIMIT"}

\* Mutant: the timer of the RPC is not set again.
NoTimer == timer

\* The timer that is set before a backup request is sent.
SecondTimer == IF opt.timeout THEN "timeout" ELSE timer

SendBackup ==
    /\ Goes /\ MayRetry /\ error_code = "EBACKUPREQUEST"
    /\ timer' = SecondTimer
    /\ unfinished' = nretry /\ nretry' = nretry + 1
    /\ pc' = "issue"
    /\ UNCHANGED <<opt, thread, caller, error_code, info, posted, call, response, attachment>>

Retry ==
    /\ Goes /\ MayRetry /\ DoRetry
    /\ call' = OnComplete(call, nretry, error_code, info.responded)
    /\ nretry' = nretry + 1 /\ attachment' = NoAttempt
    /\ pc' = "issue"
    /\ UNCHANGED <<opt, thread, caller, error_code, unfinished, info, timer, posted, response>>

EndOfRpc ==
    /\ Goes /\ ~(MayRetry /\ (error_code = "EBACKUPREQUEST" \/ DoRetry))
    /\ thread' = IF info.new_fiber THEN "fiber" ELSE thread
    /\ pc' = "end"
    /\ UNCHANGED <<opt, caller, error_code, nretry, unfinished, info, timer, posted, call, response, attachment>>

-----------------------------------------------------------------------------
(* EndRPC *)

\* Mutant: the unfinished attempt is forgotten.
CompleteCurrent == OnComplete(call, nretry, error_code, info.responded)

\* What EndRPC completes: the current attempt and the unfinished one.
CompleteAll ==
    LET lost == IF error_code = OK THEN "EBACKUPREQUEST" ELSE error_code
        early == OnCompleteIf(unfinished # NoAttempt, call, unfinished, lost, FALSE)
        late == OnComplete(call, nretry, "ECANCELED", FALSE)
    IN  IF IsCurrent
        THEN OnComplete(early, nretry, error_code, info.responded)
        ELSE OnCompleteIf(unfinished # NoAttempt, late, unfinished, error_code, info.responded)

EndRPC ==
    /\ pc = "end"
    /\ timer' = "none"
    /\ call' = CompleteAll
    /\ unfinished' = NoAttempt
    /\ pc' = IF opt.done = "null" THEN "destroy" ELSE "done"
    /\ UNCHANGED <<opt, thread, caller, error_code, nretry, info, posted, response, attachment>>

\* done->Run(), after which the Controller may be gone.
RunDone ==
    /\ pc = "done" /\ pc' = "destroy"
    /\ UNCHANGED <<opt, thread, caller, error_code, nretry, unfinished, info, timer, posted, call, response, attachment>>

\* fiber_token_unlock_and_destroy: whatever is still on its way finds no call.
Destroy ==
    /\ pc = "destroy" /\ pc' = "destroyed"
    /\ UNCHANGED <<opt, thread, caller, error_code, nretry, unfinished, info, timer, posted, call, response, attachment>>

-----------------------------------------------------------------------------
Holder == IssueRPC \/ InterceptPrevious \/ SendBackup \/ Retry \/ EndOfRpc \/ EndRPC \/ RunDone \/ Destroy
Errors == \E code \in Codes : ProcessError(code)

Next ==
    \/ StartCancel \/ CancelledBeforeCall \/ CallMethod \/ CallMethodReturns
    \/ Holder \/ TimerFires \/ Errors
    \/ \E k \in Attempts :
          \/ ResponseArrives(k) \/ SocketFails(k) \/ ProcessFailure(k)
          \/ \E code \in {OK, "ELIMIT", "ERESPONSE"}, carries \in BOOLEAN : ProcessResponse(k, code, carries)

Spec == Init /\ [][Next]_vars

\* The code that has the token goes on, the timer thread runs its tasks, an
\* error sent to a token is handled.  Nothing is assumed of servers, sockets
\* and users.
Fairness ==
    /\ WF_vars(Holder) /\ WF_vars(TimerFires)
    /\ WF_vars(Errors) /\ WF_vars(CallMethodReturns)

FairSpec == Spec /\ Fairness

-----------------------------------------------------------------------------
(* Properties *)

Ended == pc \in {"done", "destroy", "destroyed"}

\* The load balancer hears of every attempt it selected a server for exactly
\* once, and every connection is given back: an attempt that is over (retried,
\* or a failed one beside its backup request) has been completed, the current
\* and the unfinished one have not before EndRPC, and both have after it
\* (OnComplete, from its four callers in OnVersionedRPCReturned and EndRPC).
CompletedOnce ==
    \A k \in Attempts :
        LET open == ~Ended /\ k \in {nretry, unfinished}
        IN  /\ call[k].fed = IF open \/ ~call[k].selected THEN 0 ELSE 1
            /\ call[k].sock = "held" => open

\* A pooled connection that was given back has no request in flight, so that
\* one connection never has two messages at a time (OnComplete's comment).
PooledIsIdle ==
    \A k \in Attempts : call[k].sock = "pooled" => call[k].net \notin {"sent", "arrived"}

\* What the user sees is the answer of the attempt that ended the RPC: a
\* success that ends it is reported as one, with that attempt's body, and an
\* attachment of no other attempt, whatever stale answers came before it.
RightAnswer ==
    Ended =>
        /\ error_code = OK <=> info.responded /\ call[info.id - 1].code = OK
        /\ error_code = OK => response = info.id - 1 /\ attachment \in {NoAttempt, response}

\* The CHECKs of OnVersionedRPCReturned and EndRPC: there is one backup
\* request, a retried error is of the current attempt, and only the unfinished
\* attempt ends the RPC in place of the current one.
ChecksHold ==
    /\ Goes /\ MayRetry /\ error_code = "EBACKUPREQUEST" => unfinished = NoAttempt
    /\ Goes /\ MayRetry /\ DoRetry => info.id = get_id(nretry)
    /\ pc = "end" /\ ~IsCurrent => IsUnfinished

\* A done that may not run in place never runs in the stack of CallMethod, in
\* which the user may hold a lock that done takes (HandleSendFailed).
DoneElsewhere == pc = "done" /\ thread = "caller" => opt.done = "in_place"

\* Each attempt is completed once, in agreement with the CHECKs of the
\* Controller, and done runs inside CallMethod only where it may (EndRPC).
OneCompletion == TypeOK /\ CompletedOnce /\ ChecksHold /\ DoneElsewhere

\* An RPC with a timeout ends, though no server answers and no socket fails;
\* the caller returns.  (Not so the RPC of a crowded client: ELIMIT is
\* retried without any timer.)
RpcEnds == opt.timeout /\ ~opt.crowded /\ caller = "inside" ~> pc = "destroyed" /\ caller = "returned"
=============================================================================
