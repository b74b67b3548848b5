------------------------------ MODULE MCClient ------------------------------
(***************************************************************************)
(* The client side of an RPC on small instances: Call, ParallelChannel,    *)
(* Stream, and the liveness of Token, of which one, "part", takes steps in *)
(* a behaviour: the others stay as they are at first, and the state spaces *)
(* add up.                                                                 *)
(***************************************************************************)
EXTENDS Call, TLC

Kind(done, type, timeout, backup, crowded) ==
    [done |-> done, type |-> type, timeout |-> timeout, backup |-> backup, crowded |-> crowded]

\* Synchronous and asynchronous calls over every type of connection, with and
\* without a timeout and a backup request, and one of a crowded client.
MCOptions == {
    Kind("null", "pooled", TRUE, TRUE, FALSE),
    Kind("in_place", "short", TRUE, FALSE, FALSE),
    Kind("elsewhere", "single", FALSE, FALSE, FALSE),
    Kind("elsewhere", "single", TRUE, FALSE, TRUE)}

VARIABLES
    part,
    p_settings, p_caller, p_next, p_token, p_error_code, p_timer, p_posted, p_sub, p_code, p_cancelled, p_sub_pc,
    p_inside, p_run_pc, p_current_fail, p_current_done, p_run_ran, p_completing, p_merged, p_nfailed,
    produced, remote_consumed, wait_list, waiting, s_pc, len, kind, connected, closed, on_connect, callback,
    closer, sock_failed, fd, right, pend, recycled, wire, queue, local_consumed, feedback, messages,
    slot, first_ver, locked_ver, event, join_butex, pending_q, eventq, joinq, tpc, tn, range, ever_contended,
    expected_ver, tids, retired, t_posted, delivered, tops, tlives

\* Three sub channels; a fail_limit of two, and none.
MCErrors == <<"E1", "E1", "E2">>
MCSettings == {
    [async |-> FALSE, in_place |-> FALSE, limit |-> 2],
    [async |-> TRUE, in_place |-> TRUE, limit |-> -1]}

Writers == {"w1", "w2"}

Parallel == INSTANCE ParallelChannel WITH
    NChan <- 3, ErrorOf <- MCErrors, Settings <- MCSettings,
    settings <- p_settings, caller <- p_caller, next <- p_next, token <- p_token, error_code <- p_error_code,
    timer <- p_timer, posted <- p_posted, sub <- p_sub, code <- p_code, cancelled <- p_cancelled,
    sub_pc <- p_sub_pc, inside <- p_inside, run_pc <- p_run_pc, current_fail <- p_current_fail,
    current_done <- p_current_done, run_ran <- p_run_ran, completing <- p_completing, merged <- p_merged,
    nfailed <- p_nfailed

\* A window of two bytes, messages of one and two.
Streams == INSTANCE Stream WITH
    WaitKinds <- {"async", "sync"}, Accepted <- FALSE, max_buf_size <- 2,
    Lengths <- {1, 2}, MaxMessages <- 2, pc <- s_pc

\* Two lives of a token and three threads.  An unlock after about_to_destroy, a
\* cancel or a reset of the range leaves others asleep, see token.h.
Users == {"t1", "t2", "t3"}
Tokens == INSTANCE Token WITH
    MaxRange <- 1, VerMod <- 64, FirstVersion <- 0, Codes <- {"e"}, MaxTokenOps <- 1, MaxTokens <- 2,
    Ops <- {"lock", "trylock", "error", "join", "about_to_destroy"}, posted <- t_posted

pvars == <<p_settings, p_caller, p_next, p_token, p_error_code, p_timer, p_posted, p_sub, p_code, p_cancelled,
           p_sub_pc, p_inside, p_run_pc, p_current_fail, p_current_done, p_run_ran, p_completing, p_merged, p_nfailed>>
svars == <<produced, remote_consumed, wait_list, waiting, s_pc, len, kind, connected, closed, on_connect, callback,
           closer, sock_failed, fd, right, pend, recycled, wire, queue, local_consumed, feedback, messages>>
tvars == <<slot, first_ver, locked_ver, event, join_butex, pending_q, eventq, joinq, tpc, tn, range, ever_contended,
           expected_ver, tids, retired, t_posted, delivered, tops, tlives>>
all == <<part, vars, pvars, svars, tvars>>

ClientInit ==
    /\ part \in {"call", "parallel", "stream", "token"}
    /\ Init /\ Parallel!Init /\ Streams!Init /\ Tokens!TokenInit
    /\ part = "call" \/ opt = Kind("null", "pooled", TRUE, TRUE, FALSE)
    /\ part = "parallel" \/ p_settings.limit = 2

IsCall == part = "call"
IsParallel == part = "parallel"
IsStream == part = "stream"
IsToken == part = "token"

\* Without a fail_limit two sub channels are enough: the mapper skips the third.
TwoIfUnlimited == p_settings.limit < 0 /\ p_caller' = "calling" => p_sub'[3] = "skip"

ClientNext ==
    \/ IsCall /\ Next /\ UNCHANGED <<part, pvars, svars, tvars>>
    \/ IsParallel /\ Parallel!Next /\ TwoIfUnlimited /\ UNCHANGED <<part, vars, svars, tvars>>
    \/ IsStream /\ Streams!Next /\ UNCHANGED <<part, vars, pvars, tvars>>
    \/ IsToken /\ Tokens!TokenNext /\ UNCHANGED <<part, vars, pvars, svars>>

\* The fairness of the part that takes steps.
Fair ==
    /\ WF_vars(IsCall /\ Holder) /\ WF_vars(IsCall /\ TimerFires)
    /\ WF_vars(IsCall /\ Errors) /\ WF_vars(IsCall /\ CallMethodReturns)
    /\ WF_pvars(IsParallel /\ Parallel!CallMethod) /\ WF_pvars(IsParallel /\ Parallel!TimerFires)
    /\ WF_pvars(IsParallel /\ Parallel!Done) /\ WF_pvars(IsParallel /\ Parallel!CancelledEnds)
    /\ \A w \in Writers : WF_svars(IsStream /\ Streams!WriterStep(w))
    /\ WF_svars(IsStream /\ Streams!SetRemoteConsumed)
    /\ WF_svars(IsStream /\ (Streams!SetConnected \/ Streams!RunOnConnect))
    /\ WF_svars(IsStream /\ (Streams!Close \/ Streams!BeforeRecycle))
    /\ WF_svars(IsStream /\ Streams!OnReceived) /\ WF_svars(IsStream /\ Streams!Consume)
    /\ \A h \in Users : WF_tvars(IsToken /\ Tokens!ContinueOp(h))

ClientSpec == ClientInit /\ [][ClientNext]_all /\ Fair

-----------------------------------------------------------------------------
\* ParallelChannel: one thread completes the RPC, and nobody touches it after.
RendezvousOnce == Parallel!TypeOK /\ Parallel!RendezvousOnce /\ Parallel!DoneElsewhere

\* ParallelChannel: the RPC succeeds iff fewer than fail_limit sub calls failed.
FailLimitDecides == Parallel!FailLimitDecides

\* ParallelChannel: once fail_limit sub calls failed, or it has a timer, the RPC ends.
StopsAtLimit == Parallel!StopsAtLimit

\* Stream: the window counts the bytes under way and bounds them, and writers
\* wait only while it is full.
WindowExact == Streams!TypeOK /\ Streams!WindowExact /\ Streams!NoForgottenWriter

\* Stream: a waiting writer is told of room, unless the stream is closed.  The
\* two writers are interchangeable.
WritersGoOn == Streams!WriterGoesOn("w1")

\* Token: a thread in fiber_token_lock or fiber_token_join returns.  The three
\* threads are interchangeable.
CallsReturn == Tokens!CallReturns("t1")
=============================================================================
