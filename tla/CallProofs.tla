----------------------------- MODULE CallProofs -----------------------------
(***************************************************************************)
(* That the handlers of a Controller, in whatever order timers, errors,    *)
(* failed sockets and responses lock its token, complete every attempt     *)
(* once and end the RPC with the answer of one attempt: for any number of  *)
(* retries and any options.                                                *)
(***************************************************************************)
EXTENDS Call, TLAPS

\* An answer, or what stands for one, is with the Controller.
Judging == pc \in {"returned", "end", "done", "destroy", "destroyed"}

Unsent == pc \in {"before", "issue"}

\* What CallMethod finds.
Untouched ==
    pc = "before" =>
        /\ error_code \in {OK, "ECANCELED"} /\ unfinished = NoAttempt
        /\ timer = "none" /\ posted \subseteq {"ECANCELED"}

\* Attempts not sent yet are as new, and the unfinished one came before the
\* current one.
InSequence ==
    /\ \A k \in Attempts : k > nretry \/ (k = nretry /\ Unsent) => call[k] = NewCall
    /\ unfinished < nretry

\* A backup request is asked for once: by the timer, then by a posted error,
\* then by the error that is handled, and the call has no unfinished attempt
\* until then.
OneBackup ==
    LET asked == pc = "returned" /\ error_code = "EBACKUPREQUEST"
    IN  /\ ~(timer = "backup" /\ "EBACKUPREQUEST" \in posted)
        /\ timer = "backup" \/ "EBACKUPREQUEST" \in posted => ~asked
        /\ timer = "backup" \/ "EBACKUPREQUEST" \in posted \/ asked => unfinished = NoAttempt

\* The errors that come under the id of the RPC, and no others.
OfTheRpc == {"ECANCELED", "ERPCTIMEDOUT", "EBACKUPREQUEST"}

Sources ==
    /\ posted \subseteq OfTheRpc
    /\ pc = "free" => error_code = OK
    /\ pc = "returned" /\ info.id # get_id(nretry) => info.saved_error = OK
    /\ Judging /\ info.id = CorrelationId => ~info.responded
    /\ pc = "returned" /\ info.id = CorrelationId => error_code \in OfTheRpc
    /\ pc = "returned" /\ error_code = "EBACKUPREQUEST" => info.id = CorrelationId

\* _error_code, the body and the attachment are those of the answer.
Answers ==
    /\ ~Judging \/ ~info.responded => attachment = NoAttempt
    /\ Judging => (error_code = OK => info.responded)
    /\ Judging /\ info.responded =>
          /\ info.id - 1 \in Attempts
          /\ call[info.id - 1].net = "handled" /\ call[info.id - 1].code = error_code
          /\ attachment \in {NoAttempt, info.id - 1}
          /\ error_code = OK => response = info.id - 1

\* Who may run done.
Runs ==
    /\ pc = "returned" /\ thread = "caller" /\ opt.done = "elsewhere" => info.new_fiber
    /\ pc \in {"end", "done"} /\ thread = "caller" => opt.done # "elsewhere"
    /\ pc = "done" => opt.done # "null"

\* Only the unfinished attempt ends the RPC in place of the current one.
Ending == pc = "end" /\ ~IsCurrent => IsUnfinished

IInv ==
    /\ TypeOK /\ Untouched /\ InSequence /\ OneBackup /\ Sources /\ Answers /\ Runs
    /\ CompletedOnce /\ PooledIsIdle /\ Ending
-----------------------------------------------------------------------------
(* The pieces the handlers are made of *)

Infos == [id : {CorrelationId} \cup {get_id(k) : k \in Attempts}, responded : BOOLEAN,
          new_fiber : BOOLEAN, saved_error : Codes]

LEMMA SendFailedFacts ==
    ASSUME TypeOK, NEW code \in Codes, HandleSendFailed(code)
    PROVE  /\ error_code' = code /\ pc' = "returned" /\ info' \in Infos
           /\ info'.id = get_id(nretry) /\ info'.responded = FALSE
           /\ opt.done = "elsewhere" => info'.new_fiber
<1>1. NewFiberToFail \in BOOLEAN /\ (opt.done = "elsewhere" => NewFiberToFail)
  BY DEF NewFiberToFail
<1>2. get_id(nretry) \in {CorrelationId} \cup {get_id(k) : k \in Attempts}
  BY DEF TypeOK
<1> QED  BY <1>1, <1>2 DEF HandleSendFailed, Returned, Infos

LEMMA CallsClosed ==
    ASSUME NEW c \in [Attempts -> Calls], NEW k \in Attempts
    PROVE  /\ [c EXCEPT ![k].net = "arrived"] \in [Attempts -> Calls]
           /\ \A x \in {"coming", "handled"} : [c EXCEPT ![k].failure = x] \in [Attempts -> Calls]
           /\ \A code \in Codes : [c EXCEPT ![k].net = "handled", ![k].code = code] \in [Attempts -> Calls]
           /\ \A selected \in BOOLEAN : \A x \in {"none", "held"} :
                 [c EXCEPT ![k].selected = selected, ![k].sock = x] \in [Attempts -> Calls]
           /\ [c EXCEPT ![k].selected = TRUE, ![k].sock = "held", ![k].net = "sent"] \in [Attempts -> Calls]
<1>1. [c EXCEPT ![k].net = "arrived"] \in [Attempts -> Calls]
  BY DEF Calls
<1>2. ASSUME NEW x \in {"coming", "handled"} PROVE [c EXCEPT ![k].failure = x] \in [Attempts -> Calls]
  BY DEF Calls
<1>3. ASSUME NEW code \in Codes
      PROVE  [c EXCEPT ![k].net = "handled", ![k].code = code] \in [Attempts -> Calls]
  BY ZenonT(30) DEF Calls
<1>4. ASSUME NEW selected \in BOOLEAN, NEW x \in {"none", "held"}
      PROVE  [c EXCEPT ![k].selected = selected, ![k].sock = x] \in [Attempts -> Calls]
  <2>1. [c[k] EXCEPT !.selected = selected, !.sock = x] \in Calls
    BY Zenon DEF Calls
  <2>2. [c EXCEPT ![k].selected = selected, ![k].sock = x]
           = [c EXCEPT ![k] = [c[k] EXCEPT !.selected = selected, !.sock = x]]
    BY Zenon
  <2> QED  BY <2>1, <2>2
<1>5. [c EXCEPT ![k].selected = TRUE, ![k].sock = "held", ![k].net = "sent"] \in [Attempts -> Calls]
  <2>1. [c[k] EXCEPT !.selected = TRUE, !.sock = "held", !.net = "sent"] \in Calls
    BY Zenon DEF Calls
  <2>2. [c EXCEPT ![k].selected = TRUE, ![k].sock = "held", ![k].net = "sent"]
           = [c EXCEPT ![k] = [c[k] EXCEPT !.selected = TRUE, !.sock = "held", !.net = "sent"]]
    BY Zenon
  <2> QED  BY <2>1, <2>2
<1> QED  BY <1>1, <1>2, <1>3, <1>4, <1>5, Zenon

\* CallMethod and IssueRPC fail an attempt that was not sent.
LEMMA SendFailsIInv ==
    ASSUME IInv, Unsent, NEW code \in Codes, code # OK, code # "EBACKUPREQUEST", HandleSendFailed(code),
           call' \in [Attempts -> Calls], \A k \in Attempts : k # nretry => call'[k] = call[k],
           call'[nretry].fed = call[nretry].fed, call'[nretry].sock \in {"none", "held"},
           caller' \in {caller, "inside"},
           UNCHANGED <<opt, thread, nretry, unfinished, timer, posted, response, attachment>>
    PROVE  IInv'
<1> USE DEF IInv
<1>a. /\ error_code' = code /\ pc' = "returned" /\ info' \in Infos
      /\ info'.id = get_id(nretry) /\ info'.responded = FALSE
      /\ opt.done = "elsewhere" => info'.new_fiber
  BY SendFailedFacts, Zenon
<1>1. TypeOK'
  BY <1>a DEF TypeOK, Infos
<1>2. Untouched' /\ InSequence' /\ OneBackup'
  BY <1>a DEF Untouched, InSequence, TypeOK, Attempts, Unsent, OneBackup
<1>3. Sources' /\ Answers'
  BY <1>a DEF Sources, Judging, TypeOK, OfTheRpc, get_id, CorrelationId, OK, Attempts, Answers, Unsent
<1>4. Runs' /\ Ending'
  BY <1>a DEF Runs, TypeOK, Ending
<1>5. CompletedOnce' /\ PooledIsIdle'
  BY <1>a DEF CompletedOnce, TypeOK, Ended, Calls, Unsent, PooledIsIdle
<1> QED  BY <1>1, <1>2, <1>3, <1>4, <1>5

LEMMA StartCancelIInv == ASSUME IInv, StartCancel PROVE IInv'
<1> USE DEF IInv, StartCancel, Alive
<1>1. TypeOK'
  BY DEF TypeOK, Codes
<1>2. Untouched' /\ InSequence' /\ OneBackup'
  BY DEF Untouched, TypeOK, OK, InSequence, Attempts, NoAttempt, Unsent, NewCall, OneBackup, Sources
<1>3. Sources' /\ Answers'
  BY DEF Sources, Judging, TypeOK, OfTheRpc, get_id, CorrelationId, OK, Attempts, Answers, NoAttempt
<1>4. Runs' /\ Ending'
  BY DEF Runs, TypeOK, Ending, IsCurrent, IsUnfinished
<1>5. CompletedOnce' /\ PooledIsIdle'
  BY DEF CompletedOnce, TypeOK, Ended, Calls, InSequence, Attempts, NoAttempt, PooledIsIdle
<1> QED  BY <1>1, <1>2, <1>3, <1>4, <1>5

LEMMA CancelledBeforeCallIInv == ASSUME IInv, CancelledBeforeCall PROVE IInv'
<1> USE DEF IInv, CancelledBeforeCall
<1>1. TypeOK'
  BY DEF TypeOK, Codes
<1>2. Untouched' /\ InSequence' /\ OneBackup'
  BY DEF Untouched, TypeOK, OK, InSequence, Attempts, NoAttempt, Unsent, NewCall, OneBackup, Sources
<1>3. Sources' /\ Answers'
  BY DEF Sources, Judging, TypeOK, OfTheRpc, get_id, CorrelationId, OK, Attempts, Answers, NoAttempt
<1>4. Runs' /\ Ending'
  BY DEF Runs, TypeOK, Ending, IsCurrent, IsUnfinished
<1>5. CompletedOnce' /\ PooledIsIdle'
  BY DEF CompletedOnce, TypeOK, Ended, Calls, InSequence, Attempts, NoAttempt, PooledIsIdle
<1> QED  BY <1>1, <1>2, <1>3, <1>4, <1>5

LEMMA CallMethodIInv == ASSUME IInv, CallMethod PROVE IInv'
<1> USE DEF IInv
<1>1. ASSUME NEW code \in Codes, code # OK, code # "EBACKUPREQUEST", HandleSendFailed(code), timer' = timer PROVE IInv'
  <2>1. call' = call /\ call \in [Attempts -> Calls] /\ call[nretry].sock = "none"
    BY DEF CallMethod, InSequence, Unsent, TypeOK, NewCall
  <2>2. Unsent
    BY DEF CallMethod, Unsent
  <2> QED  BY <1>1, <2>1, <2>2, SendFailsIInv DEF CallMethod
<1>2. CASE timer' = FirstTimer /\ pc' = "issue" /\ UNCHANGED <<error_code, info>>
  <2> USE <1>2 DEF CallMethod, FirstTimer
  <2>1. TypeOK'
    BY DEF TypeOK
  <2>2. Untouched' /\ InSequence' /\ OneBackup'
    BY DEF Untouched, TypeOK, OK, InSequence, Attempts, NoAttempt, Unsent, NewCall, OneBackup, Sources
  <2>3. Sources' /\ Answers'
    BY DEF Sources, Judging, TypeOK, OfTheRpc, get_id, CorrelationId, OK, Attempts, Answers, NoAttempt
  <2>4. Runs' /\ Ending'
    BY DEF Runs, TypeOK, Ending, IsCurrent, IsUnfinished
  <2>5. CompletedOnce' /\ PooledIsIdle'
    BY DEF CompletedOnce, TypeOK, Ended, Calls, InSequence, Attempts, NoAttempt, PooledIsIdle
  <2> QED  BY <2>1, <2>2, <2>3, <2>4, <2>5
<1> QED  BY <1>1, <1>2 DEF CallMethod, TypeOK, Untouched, Codes, OK

LEMMA CallMethodReturnsIInv == ASSUME IInv, CallMethodReturns PROVE IInv'
<1> USE DEF IInv, CallMethodReturns
<1>1. TypeOK'
  BY DEF TypeOK
<1>2. Untouched' /\ InSequence' /\ OneBackup'
  BY DEF Untouched, TypeOK, OK, InSequence, Attempts, NoAttempt, Unsent, NewCall, OneBackup, Sources
<1>3. Sources' /\ Answers'
  BY DEF Sources, Judging, TypeOK, OfTheRpc, get_id, CorrelationId, OK, Attempts, Answers, NoAttempt
<1>4. Runs' /\ Ending'
  BY DEF Runs, TypeOK, Ending, IsCurrent, IsUnfinished
<1>5. CompletedOnce' /\ PooledIsIdle'
  BY DEF CompletedOnce, TypeOK, Ended, Calls, InSequence, Attempts, NoAttempt, PooledIsIdle
<1> QED  BY <1>1, <1>2, <1>3, <1>4, <1>5

LEMMA IssueRPCIInv == ASSUME IInv, IssueRPC PROVE IInv'
<1> USE DEF IInv
<1>1. ASSUME NEW selected \in BOOLEAN, NEW where \in {"none", "held"}, NEW code \in {"EHOSTDOWN", "EFAILEDSOCKET", "EREQUEST"},
             IssueFails(selected, where, code)
      PROVE  IInv'
  <2>1. code \in Codes /\ code # OK /\ Unsent
    BY DEF Codes, OK, Unsent, IssueRPC
  <2>2. /\ call' \in [Attempts -> Calls] /\ \A k \in Attempts : k # nretry => call'[k] = call[k]
        /\ call'[nretry].fed = call[nretry].fed /\ call'[nretry].sock \in {"none", "held"}
    <3>1. /\ call' = [call EXCEPT ![nretry].selected = selected, ![nretry].sock = where]
          /\ call \in [Attempts -> Calls] /\ nretry \in Attempts
      BY <1>1 DEF IssueFails, TypeOK
    <3>2. call' \in [Attempts -> Calls]
      BY <3>1, CallsClosed, Zenon
    <3> QED  BY <3>1, <3>2 DEF Calls
  <2>3. HandleSendFailed(code) /\ UNCHANGED <<opt, thread, caller, nretry, unfinished, timer, posted, response, attachment>>
    BY <1>1 DEF IssueFails, IssueRPC
  <2> QED  BY <2>1, <2>2, <2>3, SendFailsIInv
<1>2. CASE /\ call' = [call EXCEPT ![nretry].selected = TRUE, ![nretry].sock = "held", ![nretry].net = "sent"]
           /\ error_code' = OK /\ pc' = "free" /\ info' = info
  <2>a. call' \in [Attempts -> Calls]
    BY <1>2, CallsClosed, Zenon DEF TypeOK
  <2> USE <1>2 DEF IssueRPC
  <2>1. TypeOK'
    BY <2>a DEF TypeOK, Codes
  <2>2. Untouched' /\ InSequence' /\ OneBackup'
    BY DEF Untouched, TypeOK, OK, InSequence, Attempts, NoAttempt, Unsent, NewCall, OneBackup, Sources
  <2>3. Sources' /\ Answers'
    BY DEF Sources, Judging, TypeOK, OfTheRpc, get_id, CorrelationId, OK, Attempts, Answers, NoAttempt
  <2>4. Runs' /\ Ending'
    BY DEF Runs, TypeOK, Ending, IsCurrent, IsUnfinished
  <2>5. CompletedOnce' /\ PooledIsIdle'
    BY DEF CompletedOnce, TypeOK, Ended, Calls, InSequence, Attempts, NoAttempt, PooledIsIdle
  <2> QED  BY <2>1, <2>2, <2>3, <2>4, <2>5
<1> QED  BY <1>1, <1>2, Zenon DEF IssueRPC

LEMMA ResponseArrivesIInv == ASSUME IInv, NEW k \in Attempts, ResponseArrives(k) PROVE IInv'
<1> USE DEF IInv, ResponseArrives, Alive
<1>a. call' \in [Attempts -> Calls]
  BY CallsClosed, Zenon DEF TypeOK, Codes, OK
<1>c. ~(k > nretry) /\ ~(k = nretry /\ Unsent) /\ \A j \in Attempts : j # k => call'[j] = call[j]
  BY DEF InSequence, NewCall, TypeOK
<1>1. TypeOK'
  BY <1>a DEF TypeOK
<1>2. Untouched' /\ InSequence' /\ OneBackup'
  BY <1>c DEF Untouched, TypeOK, OK, InSequence, Unsent, OneBackup, Sources
<1>3. Sources' /\ Answers'
  BY DEF Sources, Judging, TypeOK, OfTheRpc, get_id, CorrelationId, OK, Attempts, Answers, NoAttempt
<1>4. Runs' /\ Ending'
  BY DEF Runs, TypeOK, Ending, IsCurrent, IsUnfinished
<1>5. CompletedOnce' /\ PooledIsIdle'
  BY DEF CompletedOnce, TypeOK, Ended, Calls, InSequence, Attempts, NoAttempt, PooledIsIdle
<1> QED  BY <1>1, <1>2, <1>3, <1>4, <1>5

LEMMA SocketFailsIInv == ASSUME IInv, NEW k \in Attempts, SocketFails(k) PROVE IInv'
<1> USE DEF IInv, SocketFails, Alive
<1>a. call' \in [Attempts -> Calls]
  BY CallsClosed, Zenon DEF TypeOK, Codes, OK
<1>c. ~(k > nretry) /\ ~(k = nretry /\ Unsent) /\ \A j \in Attempts : j # k => call'[j] = call[j]
  BY DEF InSequence, NewCall, TypeOK
<1>1. TypeOK'
  BY <1>a DEF TypeOK
<1>2. Untouched' /\ InSequence' /\ OneBackup'
  BY <1>c DEF Untouched, TypeOK, OK, InSequence, Unsent, OneBackup, Sources
<1>3. Sources' /\ Answers'
  BY DEF Sources, Judging, TypeOK, OfTheRpc, get_id, CorrelationId, OK, Attempts, Answers, NoAttempt
<1>4. Runs' /\ Ending'
  BY DEF Runs, TypeOK, Ending, IsCurrent, IsUnfinished
<1>5. CompletedOnce' /\ PooledIsIdle'
  BY DEF CompletedOnce, TypeOK, Ended, Calls, InSequence, Attempts, NoAttempt, PooledIsIdle
<1> QED  BY <1>1, <1>2, <1>3, <1>4, <1>5

LEMMA TimerFiresIInv == ASSUME IInv, TimerFires PROVE IInv'
<1> USE DEF IInv, TimerFires
<1>1. TypeOK'
  BY DEF TypeOK, Codes
<1>2. Untouched' /\ InSequence' /\ OneBackup'
  BY DEF Untouched, TypeOK, OK, InSequence, Attempts, NoAttempt, Unsent, NewCall, OneBackup, Sources
<1>3. Sources' /\ Answers'
  BY DEF Sources, Judging, TypeOK, OfTheRpc, get_id, CorrelationId, OK, Attempts, Answers, NoAttempt
<1>4. Runs' /\ Ending'
  BY DEF Runs, TypeOK, Ending, IsCurrent, IsUnfinished
<1>5. CompletedOnce' /\ PooledIsIdle'
  BY DEF CompletedOnce, TypeOK, Ended, Calls, InSequence, Attempts, NoAttempt, PooledIsIdle
<1> QED  BY <1>1, <1>2, <1>3, <1>4, <1>5

LEMMA ProcessResponseIInv == ASSUME IInv, NEW k \in Attempts, NEW code \in {OK, "ELIMIT", "ERESPONSE"}, NEW carries \in BOOLEAN, ProcessResponse(k, code, carries) PROVE IInv'
<1> USE DEF IInv, ProcessResponse, Returned
<1>a. call' \in [Attempts -> Calls]
  BY CallsClosed, Zenon DEF TypeOK, Codes, OK
<1>c. ~(k > nretry) /\ ~(k = nretry /\ Unsent) /\ \A j \in Attempts : j # k => call'[j] = call[j]
  BY DEF InSequence, NewCall, TypeOK
<1>b. info' \in Infos /\ error_code' \in Codes
  BY DEF TypeOK, Infos, Codes
<1>1. TypeOK'
  BY <1>a, <1>b DEF TypeOK, Infos
<1>2. Untouched' /\ InSequence' /\ OneBackup'
  BY <1>c DEF Untouched, TypeOK, OK, InSequence, Unsent, OneBackup, Sources
<1>3. Sources' /\ Answers'
  BY DEF Sources, Judging, TypeOK, OfTheRpc, get_id, CorrelationId, OK, Attempts, Answers, NoAttempt
<1>4. Runs' /\ Ending'
  BY DEF Runs, TypeOK, Ending, IsCurrent, IsUnfinished
<1>5. CompletedOnce' /\ PooledIsIdle'
  BY DEF CompletedOnce, TypeOK, Ended, Calls, InSequence, Attempts, NoAttempt, PooledIsIdle
<1> QED  BY <1>1, <1>2, <1>3, <1>4, <1>5

LEMMA ProcessFailureIInv == ASSUME IInv, NEW k \in Attempts, ProcessFailure(k) PROVE IInv'
<1> USE DEF IInv, ProcessFailure, HandleSocketFailed, Returned
<1>a. call' \in [Attempts -> Calls]
  BY CallsClosed, Zenon DEF TypeOK, Codes, OK
<1>c. ~(k > nretry) /\ ~(k = nretry /\ Unsent) /\ \A j \in Attempts : j # k => call'[j] = call[j]
  BY DEF InSequence, NewCall, TypeOK
<1>b. info' \in Infos /\ error_code' \in Codes
  BY DEF TypeOK, Infos, Codes
<1>1. TypeOK'
  BY <1>a, <1>b DEF TypeOK, Infos
<1>2. Untouched' /\ InSequence' /\ OneBackup'
  BY <1>c DEF Untouched, TypeOK, OK, InSequence, Unsent, OneBackup, Sources
<1>3. Sources' /\ Answers'
  BY DEF Sources, Judging, TypeOK, OfTheRpc, get_id, CorrelationId, OK, Attempts, Answers, NoAttempt
<1>4. Runs' /\ Ending'
  BY DEF Runs, TypeOK, Ending, IsCurrent, IsUnfinished
<1>5. CompletedOnce' /\ PooledIsIdle'
  BY DEF CompletedOnce, TypeOK, Ended, Calls, InSequence, Attempts, NoAttempt, PooledIsIdle
<1> QED  BY <1>1, <1>2, <1>3, <1>4, <1>5

LEMMA ProcessErrorIInv == ASSUME IInv, NEW code \in Codes, ProcessError(code) PROVE IInv'
<1> USE DEF IInv, ProcessError, HandleSocketFailed, Returned
<1>b. info' \in Infos
  BY DEF TypeOK, Infos, Codes
<1>1. TypeOK'
  BY <1>b DEF TypeOK, Infos
<1>2. Untouched' /\ InSequence' /\ OneBackup'
  BY DEF Untouched, TypeOK, OK, InSequence, Attempts, NoAttempt, Unsent, NewCall, OneBackup, Sources
<1>3. Sources' /\ Answers'
  BY Zenon DEF Sources, Judging, TypeOK, OfTheRpc, get_id, CorrelationId, OK, Attempts, Answers, NoAttempt
<1>4. Runs' /\ Ending'
  BY DEF Runs, TypeOK, Ending, IsCurrent, IsUnfinished
<1>5. CompletedOnce' /\ PooledIsIdle'
  BY DEF CompletedOnce, TypeOK, Ended, Calls, InSequence, Attempts, NoAttempt, PooledIsIdle
<1> QED  BY <1>1, <1>2, <1>3, <1>4, <1>5

\* d is c with attempt k completed; "kept" says that its connection may go
\* back to the pool.
Completes(c, d, k, kept) ==
    /\ d \in [Attempts -> Calls] /\ \A j \in Attempts : j # k => d[j] = c[j]
    /\ d[k].selected = c[k].selected /\ d[k].net = c[k].net /\ d[k].code = c[k].code
    /\ d[k].sock # "held"
    /\ d[k].sock = "pooled" => c[k].sock = "pooled" \/ kept
    /\ d[k].fed = IF c[k].selected THEN c[k].fed + 1 ELSE c[k].fed

LEMMA OnCompleteFacts ==
    ASSUME NEW c \in [Attempts -> Calls], NEW k \in Attempts, NEW code, NEW responded \in BOOLEAN, opt \in OptionKinds
    PROVE  Completes(c, OnComplete(c, k, code, responded), k, code = OK \/ responded)
<1> DEFINE sock == LeftAs(c[k].sock, code, responded)
           failure == IF sock = "failed" /\ c[k].net # "none" /\ c[k].failure = "none" THEN "coming" ELSE c[k].failure
           fed == IF c[k].selected THEN c[k].fed + 1 ELSE c[k].fed
           r == [c[k] EXCEPT !.sock = sock, !.failure = failure, !.fed = fed]
<1>1. /\ sock \in {"none", "pooled", "failed", "released"}
      /\ sock = "pooled" => c[k].sock = "pooled" \/ code = OK \/ responded
  BY DEF Calls, Keeps, LeftAs, OptionKinds
<1>2. OnComplete(c, k, code, responded) = [c EXCEPT ![k] = r]
  BY Zenon DEF OnComplete
<1> HIDE DEF sock
<1>3. failure \in {"none", "coming", "handled"} /\ fed \in Nat
  BY DEF Calls
<1> HIDE DEF failure, fed
<1>4. /\ r \in Calls /\ r.selected = c[k].selected /\ r.net = c[k].net /\ r.code = c[k].code
      /\ r.sock = sock /\ r.fed = fed
  BY <1>1, <1>3, Zenon DEF Calls
<1> HIDE DEF r
<1> QED  BY <1>1, <1>2, <1>4 DEF fed, Completes

LEMMA InterceptPreviousIInv == ASSUME IInv, InterceptPrevious PROVE IInv'
<1> USE DEF IInv, InterceptPrevious
<1>a. \/ IsUnfinished /\ unfinished \in Attempts /\ Completes(call, call', unfinished, info.responded)
      \/ ~IsUnfinished /\ call' = call
  <2>1. call \in [Attempts -> Calls] /\ info.responded \in BOOLEAN /\ opt \in OptionKinds
    BY CallAssumption DEF TypeOK
  <2>2. CASE IsUnfinished
    <3>1. unfinished \in Attempts /\ error_code # OK /\ call' = OnComplete(call, unfinished, error_code, info.responded)
      BY <2>2 DEF IsUnfinished, TypeOK, OnCompleteIf
    <3>2. Completes(call, call', unfinished, error_code = OK \/ info.responded)
      BY <2>1, <3>1, OnCompleteFacts, Zenon
    <3> QED  BY <2>2, <3>1, <3>2, Zenon DEF Completes
  <2>3. CASE ~IsUnfinished
    BY <2>1, <2>3 DEF OnCompleteIf
  <2> QED  BY <2>2, <2>3
<1>b. info.id # get_id(nretry) /\ info.id # CorrelationId
  BY DEF IsCurrent
<1>c. info.responded => info.id - 1 \in Attempts /\ call[info.id - 1].net = "handled"
  BY DEF Answers, Judging
<1>d. IsUnfinished => unfinished = info.id - 1
  BY DEF IsUnfinished, get_id, TypeOK, Attempts
<1>e. error_code' = OK
  BY <1>b DEF Restored, Sources
<1>1. TypeOK'
  BY <1>a, <1>e DEF TypeOK, Codes, Completes
<1>2. InSequence'
  <2>1. CASE IsUnfinished
    <3>1. \A k \in Attempts : k # unfinished => call'[k] = call[k]
      BY <1>a, <2>1, Zenon DEF Completes
    <3>2. unfinished' < nretry
      BY <2>1 DEF TypeOK, Attempts, NoAttempt
    <3> QED  BY <3>1, <3>2 DEF InSequence, Unsent, TypeOK, Attempts
  <2>2. CASE ~IsUnfinished
    BY <1>a, <2>2 DEF InSequence, Unsent
  <2> QED  BY <2>1, <2>2
<1>3. Untouched' /\ OneBackup'
  BY DEF Untouched, OneBackup
<1>4. Sources' /\ Answers'
  BY <1>e DEF Sources, Judging, Answers
<1>5. Runs' /\ Ending'
  BY DEF Runs, Ending
<1>6. CompletedOnce'
  <2>1. CASE IsUnfinished
    <3>1. /\ \A k \in Attempts : k # unfinished => call'[k] = call[k]
          /\ unfinished \in Attempts /\ call'[unfinished].sock # "held"
          /\ call'[unfinished].selected = call[unfinished].selected
          /\ call'[unfinished].fed = IF call[unfinished].selected THEN call[unfinished].fed + 1 ELSE call[unfinished].fed
      BY <1>a, <2>1, Zenon DEF Completes
    <3>2. unfinished' = NoAttempt /\ unfinished # nretry /\ NoAttempt \notin Attempts
      BY <2>1 DEF InSequence, TypeOK, Attempts, NoAttempt
    <3> QED  BY <3>1, <3>2 DEF CompletedOnce, Ended
  <2>2. CASE ~IsUnfinished
    BY <1>a, <2>2 DEF CompletedOnce, Ended
  <2> QED  BY <2>1, <2>2
<1>7. PooledIsIdle'
  BY <1>a, <1>c, <1>d DEF Completes, PooledIsIdle
<1> QED  BY <1>1, <1>2, <1>3, <1>4, <1>5, <1>6, <1>7

LEMMA SendBackupIInv == ASSUME IInv, SendBackup PROVE IInv'
<1> USE DEF IInv, SendBackup, Goes
<1>a. nretry + 1 \in Attempts /\ nretry \in Attempts
  BY CallAssumption DEF MayRetry, TypeOK, Attempts
<1>b. info.id = CorrelationId /\ ~info.responded /\ unfinished = NoAttempt /\ timer # "backup" /\ "EBACKUPREQUEST" \notin posted
  BY DEF Sources, OneBackup, Judging
<1>1. TypeOK'
  BY <1>a DEF TypeOK, SecondTimer
<1>2. Untouched' /\ InSequence' /\ OneBackup'
  BY <1>a, <1>b DEF Untouched, InSequence, TypeOK, Attempts, OneBackup, SecondTimer
<1>3. Sources' /\ Answers'
  BY <1>b DEF Sources, Judging, Answers
<1>4. Runs' /\ Ending'
  BY DEF Runs, Ending
<1>5. CompletedOnce' /\ PooledIsIdle'
  BY <1>a, <1>b DEF CompletedOnce, Ended, InSequence, Unsent, NewCall, TypeOK, Attempts, NoAttempt, PooledIsIdle, Calls
<1> QED  BY <1>1, <1>2, <1>3, <1>4, <1>5

LEMMA RetryIInv == ASSUME IInv, Retry PROVE IInv'
<1> USE DEF IInv, Retry, Goes
<1>a. nretry + 1 \in Attempts /\ nretry \in Attempts
  BY CallAssumption DEF MayRetry, TypeOK, Attempts
<1>b. error_code # OK /\ error_code \notin OfTheRpc /\ info.id = get_id(nretry)
  BY DEF MayRetry, DoRetry, OfTheRpc, IsCurrent, Sources
<1>c. Completes(call, call', nretry, info.responded)
  <2>1. call \in [Attempts -> Calls] /\ info.responded \in BOOLEAN /\ opt \in OptionKinds
    BY CallAssumption DEF TypeOK
  <2>2. Completes(call, call', nretry, error_code = OK \/ info.responded)
    BY <1>a, <2>1, OnCompleteFacts
  <2> QED  BY <1>b, <2>2 DEF Completes
<1>d. info.responded => call[nretry].net = "handled"
  BY <1>a, <1>b DEF Answers, Judging, get_id, Attempts
<1>1. TypeOK'
  BY <1>a, <1>c DEF Completes, TypeOK
<1>2. Untouched' /\ InSequence' /\ OneBackup'
  BY <1>a, <1>c DEF Untouched, Completes, InSequence, TypeOK, Attempts, OneBackup
<1>3. Sources' /\ Answers'
  BY DEF Sources, Judging, Answers
<1>4. Runs' /\ Ending'
  BY DEF Runs, Ending
<1>5. CompletedOnce' /\ PooledIsIdle'
  BY <1>a, <1>c, <1>d DEF Completes, CompletedOnce, Ended, InSequence, Unsent, NewCall, TypeOK, Attempts, NoAttempt, PooledIsIdle
<1> QED  BY <1>1, <1>2, <1>3, <1>4, <1>5

LEMMA EndOfRpcIInv == ASSUME IInv, EndOfRpc PROVE IInv'
<1> USE DEF IInv, EndOfRpc, Goes
<1>1. TypeOK'
  BY DEF TypeOK
<1>2. Untouched' /\ InSequence' /\ OneBackup'
  BY DEF Untouched, TypeOK, OK, InSequence, Attempts, NoAttempt, Unsent, NewCall, OneBackup, Sources
<1>3. Sources' /\ Answers'
  BY DEF Sources, Judging, TypeOK, OfTheRpc, get_id, CorrelationId, OK, Attempts, Answers, NoAttempt
<1>4. Runs' /\ Ending'
  BY DEF Runs, TypeOK, Ending, IsCurrent, IsUnfinished
<1>5. CompletedOnce' /\ PooledIsIdle'
  BY DEF CompletedOnce, TypeOK, Ended, Calls, InSequence, Attempts, NoAttempt, PooledIsIdle
<1> QED  BY <1>1, <1>2, <1>3, <1>4, <1>5

\* EndRPC completes the current attempt and the unfinished one, and gives back
\* at most the connection of the answer.
LEMMA CompleteAllFacts ==
    ASSUME IInv, pc = "end"
    PROVE  /\ CompleteAll \in [Attempts -> Calls]
           /\ \A k \in Attempts :
                 /\ CompleteAll[k].net = call[k].net /\ CompleteAll[k].code = call[k].code
                 /\ k \notin {nretry, unfinished} => CompleteAll[k] = call[k]
                 /\ k \in {nretry, unfinished} =>
                       /\ CompleteAll[k].sock # "held"
                       /\ CompleteAll[k].sock = "pooled" =>
                             call[k].sock = "pooled" \/ (info.responded /\ k = info.id - 1)
                       /\ CompleteAll[k].selected = call[k].selected
                       /\ CompleteAll[k].fed = IF call[k].selected THEN call[k].fed + 1 ELSE call[k].fed
<1> DEFINE lost == IF error_code = OK THEN "EBACKUPREQUEST" ELSE error_code
           early == OnComplete(call, unfinished, lost, FALSE)
           late == OnComplete(call, nretry, "ECANCELED", FALSE)
           kept == error_code = OK \/ info.responded
<1> USE DEF IInv
<1>1. /\ call \in [Attempts -> Calls] /\ info.responded \in BOOLEAN /\ opt \in OptionKinds
      /\ nretry \in Attempts /\ (unfinished # NoAttempt => unfinished \in Attempts) /\ unfinished # nretry
  BY CallAssumption DEF TypeOK, InSequence, Attempts, NoAttempt
<1>2. lost # OK /\ "ECANCELED" # OK
  BY DEF OK
<1>3. kept => info.responded
  BY DEF Answers, Judging
<1>4. info.responded /\ IsCurrent => nretry = info.id - 1
  BY DEF Sources, Judging, IsCurrent, get_id, TypeOK, Attempts
<1>5. ~IsCurrent => unfinished # NoAttempt /\ unfinished = info.id - 1
  BY <1>1 DEF Ending, IsUnfinished, get_id, Attempts
<1> HIDE DEF lost, kept
<1>6. CASE unfinished = NoAttempt
  <2>1. IsCurrent /\ CompleteAll = OnComplete(call, nretry, error_code, info.responded)
    BY <1>5, <1>6, Zenon DEF CompleteAll, OnCompleteIf
  <2>2. Completes(call, CompleteAll, nretry, kept)
    BY <1>1, <2>1, OnCompleteFacts DEF kept
  <2> QED  BY <1>1, <1>3, <1>4, <1>6, <2>1, <2>2 DEF Completes, Attempts, NoAttempt
<1>7. CASE unfinished # NoAttempt /\ IsCurrent
  <2>1. CompleteAll = OnComplete(early, nretry, error_code, info.responded)
    BY <1>7 DEF CompleteAll, OnCompleteIf, lost
  <2>2. Completes(call, early, unfinished, FALSE)
    <3>1. Completes(call, early, unfinished, lost = OK \/ FALSE)
      BY <1>1, <1>7, OnCompleteFacts, Zenon
    <3> QED  BY <1>2, <3>1, Zenon DEF Completes
  <2> HIDE DEF early
  <2>3. Completes(early, CompleteAll, nretry, kept)
    <3>1. early \in [Attempts -> Calls]
      BY <2>2 DEF Completes
    <3> QED  BY <1>1, <2>1, <3>1, OnCompleteFacts DEF kept
  <2> QED  BY <1>1, <1>3, <1>4, <1>7, <2>2, <2>3 DEF Completes
<1>8. CASE ~IsCurrent
  <2>1. CompleteAll = OnComplete(late, unfinished, error_code, info.responded)
    BY <1>5, <1>8 DEF CompleteAll, OnCompleteIf
  <2>2. Completes(call, late, nretry, FALSE)
    <3>1. Completes(call, late, nretry, "ECANCELED" = OK \/ FALSE)
      BY <1>1, OnCompleteFacts, Zenon
    <3> QED  BY <1>2, <3>1, Zenon DEF Completes
  <2> HIDE DEF late
  <2>3. Completes(late, CompleteAll, unfinished, kept)
    <3>1. late \in [Attempts -> Calls]
      BY <2>2 DEF Completes
    <3> QED  BY <1>1, <1>5, <1>8, <2>1, <3>1, OnCompleteFacts DEF kept
  <2> QED  BY <1>1, <1>3, <1>5, <1>8, <2>2, <2>3 DEF Completes
<1> QED  BY <1>6, <1>7, <1>8

LEMMA EndRPCIInv == ASSUME IInv, EndRPC PROVE IInv'
<1> USE DEF IInv, EndRPC
<1>a. /\ call' \in [Attempts -> Calls]
      /\ \A k \in Attempts :
            /\ call'[k].net = call[k].net /\ call'[k].code = call[k].code
            /\ k \notin {nretry, unfinished} => call'[k] = call[k]
            /\ k \in {nretry, unfinished} =>
                  /\ call'[k].sock # "held"
                  /\ call'[k].sock = "pooled" => call[k].sock = "pooled" \/ (info.responded /\ k = info.id - 1)
                  /\ call'[k].selected = call[k].selected
                  /\ call'[k].fed = IF call[k].selected THEN call[k].fed + 1 ELSE call[k].fed
  BY CompleteAllFacts
<1>b. info.responded => info.id - 1 \in Attempts /\ call[info.id - 1].net = "handled"
  BY DEF Answers, Judging
<1>1. TypeOK'
  BY <1>a DEF TypeOK
<1>2. Untouched' /\ InSequence' /\ OneBackup'
  BY <1>a DEF Untouched, InSequence, Unsent, TypeOK, Attempts, NoAttempt, OneBackup
<1>3. Sources' /\ Answers'
  BY <1>a DEF Sources, Judging, Answers
<1>4. Runs' /\ Ending'
  BY DEF Runs, Ending
<1>5. CompletedOnce' /\ PooledIsIdle'
  BY <1>a, <1>b DEF CompletedOnce, Ended, TypeOK, PooledIsIdle
<1> QED  BY <1>1, <1>2, <1>3, <1>4, <1>5

LEMMA RunDoneIInv == ASSUME IInv, RunDone PROVE IInv'
<1> USE DEF IInv, RunDone
<1>1. TypeOK'
  BY DEF TypeOK
<1>2. Untouched' /\ InSequence' /\ OneBackup'
  BY DEF Untouched, TypeOK, OK, InSequence, Attempts, NoAttempt, Unsent, NewCall, OneBackup, Sources
<1>3. Sources' /\ Answers'
  BY DEF Sources, Judging, TypeOK, OfTheRpc, get_id, CorrelationId, OK, Attempts, Answers, NoAttempt
<1>4. Runs' /\ Ending'
  BY DEF Runs, TypeOK, Ending, IsCurrent, IsUnfinished
<1>5. CompletedOnce' /\ PooledIsIdle'
  BY DEF CompletedOnce, TypeOK, Ended, Calls, InSequence, Attempts, NoAttempt, PooledIsIdle
<1> QED  BY <1>1, <1>2, <1>3, <1>4, <1>5

LEMMA DestroyIInv == ASSUME IInv, Destroy PROVE IInv'
<1> USE DEF IInv, Destroy
<1>1. TypeOK'
  BY DEF TypeOK
<1>2. Untouched' /\ InSequence' /\ OneBackup'
  BY DEF Untouched, TypeOK, OK, InSequence, Attempts, NoAttempt, Unsent, NewCall, OneBackup, Sources
<1>3. Sources' /\ Answers'
  BY DEF Sources, Judging, TypeOK, OfTheRpc, get_id, CorrelationId, OK, Attempts, Answers, NoAttempt
<1>4. Runs' /\ Ending'
  BY DEF Runs, TypeOK, Ending, IsCurrent, IsUnfinished
<1>5. CompletedOnce' /\ PooledIsIdle'
  BY DEF CompletedOnce, TypeOK, Ended, Calls, InSequence, Attempts, NoAttempt, PooledIsIdle
<1> QED  BY <1>1, <1>2, <1>3, <1>4, <1>5

LEMMA InitIInv == Init => IInv
<1> SUFFICES ASSUME Init PROVE IInv
  OBVIOUS
<1> USE DEF Init
<1>1. TypeOK
  <2>1. 0 \in Attempts /\ OK \in Codes
    BY CallAssumption DEF Attempts, Codes
  <2>2. NewCall \in Calls
    BY <2>1 DEF NewCall, Calls
  <2>3. info \in Infos
    BY <2>1 DEF Infos
  <2> QED  BY <2>1, <2>2, <2>3 DEF TypeOK, Infos
<1>2. Untouched /\ InSequence /\ OneBackup
  BY DEF Untouched, InSequence, OneBackup, NoAttempt
<1>3. Sources /\ Answers /\ Runs /\ Ending
  BY DEF Sources, Answers, Runs, Ending, Judging
<1>4. CompletedOnce /\ PooledIsIdle
  BY DEF CompletedOnce, PooledIsIdle, NewCall
<1> QED  BY <1>1, <1>2, <1>3, <1>4 DEF IInv

LEMMA NextIInv == IInv /\ [Next]_vars => IInv'
<1> SUFFICES ASSUME IInv, [Next]_vars PROVE IInv'
  OBVIOUS
<1>1. CASE UNCHANGED vars
  BY <1>1 DEF vars, IInv, TypeOK, Untouched, InSequence, OneBackup, Sources, Answers, Runs, CompletedOnce,
              PooledIsIdle, Ending, Unsent, Judging, Ended, IsCurrent, IsUnfinished
<1>2. CASE StartCancel \/ CancelledBeforeCall \/ CallMethod \/ CallMethodReturns \/ TimerFires
  BY <1>2, StartCancelIInv, CancelledBeforeCallIInv, CallMethodIInv, CallMethodReturnsIInv, TimerFiresIInv, Zenon
<1>3. CASE Holder
  BY <1>3, IssueRPCIInv, InterceptPreviousIInv, SendBackupIInv, RetryIInv, EndOfRpcIInv, EndRPCIInv, RunDoneIInv,
     DestroyIInv, Zenon DEF Holder
<1>4. CASE Errors
  BY <1>4, ProcessErrorIInv, Zenon DEF Errors
<1>5. ASSUME NEW k \in Attempts,
             \/ ResponseArrives(k) \/ SocketFails(k) \/ ProcessFailure(k)
             \/ \E code \in {OK, "ELIMIT", "ERESPONSE"}, carries \in BOOLEAN : ProcessResponse(k, code, carries)
      PROVE  IInv'
  BY <1>5, ResponseArrivesIInv, SocketFailsIInv, ProcessFailureIInv, ProcessResponseIInv, Zenon
<1> QED  BY <1>1, <1>2, <1>3, <1>4, <1>5 DEF Next

-----------------------------------------------------------------------------
(* Theorems *)

\* The state of the Controller, of its attempts and of what is on its way to
\* it agree whenever nobody, or anybody, has the token locked.
THEOREM Invariance == Spec => []IInv
BY InitIInv, NextIInv, PTL DEF Spec

LEMMA IInvSound == IInv => OneCompletion /\ PooledIsIdle /\ RightAnswer
<1> SUFFICES ASSUME IInv PROVE OneCompletion /\ PooledIsIdle /\ RightAnswer
  OBVIOUS
<1> USE DEF IInv
<1>1. ChecksHold
  BY DEF ChecksHold, Goes, MayRetry, DoRetry, IsCurrent, OneBackup, Sources, OfTheRpc, Ending
<1>2. DoneElsewhere
  <2>1. opt.done \in {"null", "in_place", "elsewhere"}
    BY CallAssumption DEF TypeOK, OptionKinds
  <2> QED  BY <2>1 DEF DoneElsewhere, Runs
<1>3. RightAnswer
  BY DEF RightAnswer, Ended, Answers, Judging
<1> QED  BY <1>1, <1>2, <1>3 DEF OneCompletion

\* However timers, errors, failed sockets and responses interleave, the load
\* balancer hears once of every attempt it selected a server for, every
\* connection is given back, the CHECKs of the Controller hold, and done runs
\* in the stack of CallMethod only where it may.
THEOREM CompletesOnce == Spec => []OneCompletion
BY Invariance, IInvSound, PTL

\* OnComplete never puts a connection with a request in flight into its pool.
THEOREM PoolIsIdle == Spec => []PooledIsIdle
BY Invariance, IInvSound, PTL

\* An RPC is reported as a success exactly if a response that is one ended it,
\* with the body of that response and no attachment of another.
THEOREM AnswerIsRight == Spec => []RightAnswer
BY Invariance, IInvSound, PTL
=============================================================================
