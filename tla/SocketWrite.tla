----------------------------- MODULE SocketWrite -----------------------------
(***************************************************************************)
(* Writing to a Socket (Socket::Write, StartWrite, KeepWrite and what they *)
(* call in src/flare/rpc/socket.cc).  A writer exchanges _write_head with  *)
(* its request; the one that finds it empty has the right to write and     *)
(* keeps it, in its own thread, through an asynchronous connect and in a   *)
(* KeepWrite fiber, until it can empty _write_head again.  When the socket *)
(* fails, whoever has the right gives back every request with an error.    *)
(*                                                                         *)
(* The process that has the right holds the requests it took over, oldest  *)
(* first, in mine.  A request is a number; its bytes are counted, and the  *)
(* wire is the sequence of the requests the bytes belong to.               *)
(***************************************************************************)
EXTENDS Integers, Sequences, FiniteSets, FiniteSetsExt, SequencesExt

CONSTANTS
    Writers,        \* threads that call Write
    Keepers,        \* fibers for KeepWrite and the callbacks of a connect
    Other,          \* whoever else fails the socket, e.g. its reader
    Kinds,          \* of requests: see RequestKinds
    MaxUnwritten,   \* FLAGS_socket_max_unwritten_bytes
    DATA_LIST_MAX,
    MaxRequests     \* bound: calls of Write

RequestKinds == [size : Nat, bad : BOOLEAN, piped : BOOLEAN, id : BOOLEAN, ignore : BOOLEAN]
Procs == Writers \cup Keepers \cup {Other}
Requests == 1 .. MaxRequests
NULL == 0
UNCONNECTED == -1

SocketWriteAssumption ==
    /\ Kinds \subseteq RequestKinds /\ \A k \in Kinds : k.size > 0
    /\ MaxUnwritten \in Nat /\ MaxRequests \in Nat
    /\ DATA_LIST_MAX \in Nat /\ DATA_LIST_MAX > 0

VARIABLES
    req,            \* the requests made so far: [kind, left, msg, next]
    head,           \* _write_head
    connected,      \* _fd >= 0
    ssl,            \* _ssl_state is not SSL_OFF
    failed,         \* Failed()
    id_wait_list,   \* requests whose ids wait in _id_wait_list
    unwritten,      \* _unwritten_bytes
    overcrowded,    \* _overcrowded
    pipeline_q,     \* every PipelinedInfo ever pushed
    pc, mine,       \* where a process is, and the requests it has taken over
    cur,            \* writer -> the request it puts into _write_head
    found,          \* process -> the _write_head it found there
    wrote,          \* keeper -> nw > 0
    releasing,      \* the process is in ReleaseAllFailedWriteRequests
    told,           \* history: errors sent to the id of each request
    order, wire,    \* history: requests exchanged into head, bytes written
    swallowed       \* history: bytes that SSL took before a write that failed

list == <<req, head>>
bytes == <<unwritten, overcrowded, swallowed>>
locals == <<mine, cur, found, wrote, releasing>>
vars == <<list, connected, ssl, failed, id_wait_list, bytes, pipeline_q, pc, locals, told, order, wire>>

Labels == {"idle", "exchange", "link", "connect", "connecting", "app_connect", "setup", "write", "skip",
           "do_write", "return", "wait_epollout", "complete", "gather", "start", "finish", "set_failed",
           "reset_list", "release"}

TypeOK ==
    /\ Len(req) <= MaxRequests
    /\ \A r \in DOMAIN req :
          req[r] \in [kind : Kinds, left : 0 .. req[r].kind.size, msg : BOOLEAN,
                      next : Requests \cup {NULL, UNCONNECTED}]
    /\ head \in Requests \cup {NULL}
    /\ connected \in BOOLEAN /\ ssl \in BOOLEAN /\ failed \in BOOLEAN /\ overcrowded \in BOOLEAN
    /\ id_wait_list \in SUBSET Requests
    /\ unwritten \in Nat /\ swallowed \in Nat
    /\ pipeline_q \in Seq(Requests) /\ order \in Seq(Requests) /\ wire \in Seq(Requests)
    /\ pc \in [Procs -> Labels] /\ mine \in [Procs -> Seq(Requests)]
    /\ cur \in [Procs -> Requests \cup {NULL}] /\ found \in [Procs -> Requests \cup {NULL}]
    /\ wrote \in [Procs -> BOOLEAN] /\ releasing \in [Procs -> BOOLEAN]
    /\ told \in [Requests -> Nat]

Init ==
    /\ req = <<>> /\ head = NULL
    /\ connected \in BOOLEAN /\ ssl \in BOOLEAN /\ failed = FALSE
    /\ id_wait_list = {} /\ unwritten = 0 /\ overcrowded = FALSE /\ pipeline_q = <<>>
    /\ pc = [p \in Procs |-> "idle"] /\ mine = [p \in Procs |-> <<>>]
    /\ cur = [p \in Procs |-> NULL] /\ found = [p \in Procs |-> NULL]
    /\ wrote = [p \in Procs |-> FALSE] /\ releasing = [p \in Procs |-> FALSE]
    /\ told = [r \in Requests |-> 0]
    /\ order = <<>> /\ wire = <<>> /\ swallowed = 0

Goto(p, label) == pc' = [pc EXCEPT ![p] = label]

\* The process is done with its part and forgets what it worked on.
Leave(p) ==
    /\ Goto(p, "idle")
    /\ mine' = [mine EXCEPT ![p] = <<>>]
    /\ cur' = [cur EXCEPT ![p] = NULL] /\ found' = [found EXCEPT ![p] = NULL]
    /\ wrote' = [wrote EXCEPT ![p] = FALSE] /\ releasing' = [releasing EXCEPT ![p] = FALSE]

\* A free fiber f goes on with the requests of p.
HandOver(p, f, label) ==
    /\ pc[f] = "idle"
    /\ pc' = [pc EXCEPT ![p] = "idle", ![f] = label]
    /\ mine' = [mine EXCEPT ![p] = <<>>, ![f] = mine[p]]

\* fiber_token_error of the id of r, if it has one.
Tell(r) == told' = [told EXCEPT ![r] = @ + (IF req[r].kind.id THEN 1 ELSE 0)]

(***************************************************************************)
(* What is done to requests.                                               *)
(***************************************************************************)
\* The bytes of the requests rs, in order.
Bytes(rs) == FlattenSeq([i \in 1 .. Len(rs) |-> [j \in 1 .. req[rs[i]].left |-> rs[i]]])

\* A mutant: the count before the subtraction decides.
CancelLate(n) ==
    /\ unwritten' = unwritten - n
    /\ overcrowded' = (overcrowded /\ unwritten >= MaxUnwritten)
    /\ UNCHANGED swallowed

CancelUnwrittenBytes(n) ==
    /\ unwritten' = unwritten - n
    /\ overcrowded' = (overcrowded /\ unwritten - n >= MaxUnwritten)
    /\ UNCHANGED swallowed

\* WriteRequest::Setup of the requests rs, oldest first.  A message that
\* cannot be serialised (bad) is abandoned: its id is told, it has no bytes.
Setup(rs) ==
    LET good == SelectSeq(rs, LAMBDA r : ~req[r].kind.bad)
    IN  /\ req' = [r \in DOMAIN req |->
                     IF r \notin Range(rs) THEN req[r]
                     ELSE [req[r] EXCEPT !.msg = FALSE, !.left = IF req[r].kind.bad THEN 0 ELSE @]]
        /\ told' = [r \in Requests |->
                     told[r] + (IF r \in Range(rs) /\ req[r].kind.bad /\ req[r].kind.id THEN 1 ELSE 0)]
        /\ unwritten' = unwritten + Len(Bytes(good))
        /\ overcrowded' = (overcrowded \/ (good # <<>> /\ unwritten' >= MaxUnwritten))
        /\ pipeline_q' = pipeline_q \o SelectSeq(good, LAMBDA r : req[r].kind.piped)
        /\ UNCHANGED swallowed

\* k bytes of the requests rs go to the file descriptor or to SSL.
Pop(rs, k) ==
    LET out == SubSeq(Bytes(rs), 1, k)
    IN  /\ wire' = wire \o out
        /\ req' = [r \in DOMAIN req |->
                     [req[r] EXCEPT !.left = @ - Cardinality({i \in DOMAIN out : out[i] = r})]]

\* They are counted by AddOutputBytes; none when there are none or the file
\* descriptor is full (EAGAIN).
Cut(rs, k) == Pop(rs, k) /\ CancelUnwrittenBytes(k)

\* cut_multiple_into_SSL_channel: SSL_write has taken k bytes when it, or the
\* BIO_flush after it, fails for good.  The failure is returned, not k.
Swallow(rs, k) ==
    /\ Pop(rs, k)
    /\ swallowed' = swallowed + k /\ UNCHANGED <<unwritten, overcrowded>>

\* A mutant: the id is added to a list that SetFailed has emptied.
NotifyUnchecked(r) ==
    /\ id_wait_list' = IF req[r].kind.id THEN id_wait_list \cup {r} ELSE id_wait_list
    /\ UNCHANGED told

\* NotifyOnFailed, by ReturnSuccessfulWriteRequest; an id that cannot be added
\* to the list is told at once.
NotifyOnFailed(r) ==
    \/ Tell(r) /\ UNCHANGED id_wait_list
    \/ /\ ~failed
       /\ id_wait_list' = IF req[r].kind.id THEN id_wait_list \cup {r} ELSE id_wait_list
       /\ UNCHANGED told

\* What a failed request adds to _unwritten_bytes is taken off, if Setup has added it.
CancelRequest(r) == CancelUnwrittenBytes(IF req[r].msg THEN 0 ELSE req[r].left)

(***************************************************************************)
(* Write and StartWrite.                                                   *)
(***************************************************************************)
NewRequest(k) == [kind |-> k, left |-> k.size, msg |-> TRUE, next |-> UNCONNECTED]

\* Write returns early, with an error for the id: the arguments are wrong, the
\* socket has failed (ConductError) or is overcrowded, or there is no memory.
WriteRefused(w) ==
    /\ pc[w] = "idle" /\ Len(req) < MaxRequests
    /\ \E k \in Kinds :
         /\ req' = Append(req, [NewRequest(k) EXCEPT !.left = 0, !.msg = FALSE])
         /\ told' = [told EXCEPT ![Len(req) + 1] = IF k.id THEN 1 ELSE 0]
    /\ UNCHANGED <<head, connected, ssl, failed, id_wait_list, bytes, pipeline_q, pc, locals, order, wire>>

Write(w) ==
    /\ pc[w] = "idle" /\ Len(req) < MaxRequests /\ ~failed
    /\ \E k \in Kinds :
         /\ overcrowded => k.ignore
         /\ req' = Append(req, NewRequest(k))
    /\ cur' = [cur EXCEPT ![w] = Len(req) + 1]
    /\ Goto(w, "exchange")
    /\ UNCHANGED <<head, connected, ssl, failed, id_wait_list, bytes, pipeline_q, mine, found, wrote,
                   releasing, told, order, wire>>

Exchange(w) ==
    LET r == cur[w]
    IN  /\ pc[w] = "exchange"
        /\ head' = r /\ order' = Append(order, r)
        /\ IF head # NULL
           THEN /\ Goto(w, "link")
                /\ found' = [found EXCEPT ![w] = head]
                /\ UNCHANGED <<req, mine, cur>>
           ELSE /\ Goto(w, "connect")
                /\ mine' = [mine EXCEPT ![w] = <<r>>] /\ cur' = [cur EXCEPT ![w] = NULL]
                /\ req' = [req EXCEPT ![r].next = NULL]
                /\ UNCHANGED found
        /\ UNCHANGED <<connected, ssl, failed, id_wait_list, bytes, pipeline_q, wrote, releasing, told, wire>>

\* req->next = prev_head, for whoever has the right to write.
Link(w) ==
    /\ pc[w] = "link"
    /\ req' = [req EXCEPT ![cur[w]].next = found[w]]
    /\ Leave(w)
    /\ UNCHANGED <<head, connected, ssl, failed, id_wait_list, bytes, pipeline_q, told, order, wire>>

\* ConnectIfNot: connected already, failed at once, or begun; then the request
\* is left to KeepWriteIfConnected.
ConnectIfNot(w) ==
    /\ pc[w] = "connect"
    /\ \/ connected /\ Goto(w, "setup") /\ UNCHANGED locals
       \/ ~connected /\ Goto(w, "set_failed") /\ UNCHANGED locals
       \/ /\ ~connected
          /\ \E f \in Keepers : HandOver(w, f, "connecting")
          /\ UNCHANGED <<cur, found, wrote, releasing>>
    /\ UNCHANGED <<list, connected, ssl, failed, id_wait_list, bytes, pipeline_q, told, order, wire>>

\* HandleEpollOut or HandleEpollOutTimeout, whichever is first to fail the
\* socket of the connect; CheckConnected (and the SSL handshake) may fail.
KeepWriteIfConnected(f) ==
    /\ pc[f] = "connecting"
    /\ \/ connected' = TRUE /\ Goto(f, "app_connect")
       \/ UNCHANGED connected /\ Goto(f, "set_failed")
    /\ UNCHANGED <<list, ssl, failed, id_wait_list, bytes, pipeline_q, locals, told, order, wire>>

\* AfterAppConnected.
AfterAppConnected(f) ==
    /\ pc[f] = "app_connect"
    /\ Goto(f, "setup") \/ Goto(f, "set_failed")
    /\ UNCHANGED <<list, connected, ssl, failed, id_wait_list, bytes, pipeline_q, locals, told, order, wire>>

\* The request of the one that got the right is set up, after the connect.
SetupFirst(p) ==
    /\ pc[p] = "setup"
    /\ Setup(mine[p])
    /\ Goto(p, IF ssl \/ p \in Keepers THEN "start" ELSE "write")
    /\ UNCHANGED <<head, connected, ssl, failed, id_wait_list, locals, order, wire>>

\* "Write once in the calling thread."
WriteOnce(w) ==
    /\ pc[w] = "write"
    /\ \/ \E k \in 0 .. Len(Bytes(mine[w])) :
            Cut(mine[w], k) /\ Goto(w, "complete")
       \/ Goto(w, "set_failed") /\ UNCHANGED <<wire, req, bytes>>
    /\ UNCHANGED <<head, connected, ssl, failed, id_wait_list, pipeline_q, locals, told, order>>

\* fiber_start_background(KeepWrite).
StartKeepWrite(p) ==
    /\ pc[p] = "start"
    /\ \E f \in Keepers : HandOver(p, f, "skip")
    /\ UNCHANGED <<list, connected, ssl, failed, id_wait_list, bytes, pipeline_q, cur, found, wrote, releasing,
                   told, order, wire>>

(***************************************************************************)
(* KeepWrite.                                                              *)
(***************************************************************************)
Written(f) == Len(mine[f]) > 1 /\ req[Head(mine[f])].left = 0

ReturnHead(f) ==
    /\ NotifyOnFailed(Head(mine[f]))
    /\ mine' = [mine EXCEPT ![f] = Tail(@)]

\* "req was written, skip it."
Skip(f) ==
    /\ pc[f] = "skip"
    /\ IF Written(f) THEN ReturnHead(f) ELSE UNCHANGED <<mine, told, id_wait_list>>
    /\ Goto(f, "do_write")
    /\ UNCHANGED <<list, connected, ssl, failed, bytes, pipeline_q, cur, found, wrote, releasing, order, wire>>

\* DoWrite, of at most DATA_LIST_MAX requests.  A BIO_flush that fails with 0
\* passes for a write of nothing.
DoWrite(f) ==
    LET rs == SubSeq(mine[f], 1, Min({Len(mine[f]), DATA_LIST_MAX}))
    IN  /\ pc[f] = "do_write"
        /\ \/ \E k \in 0 .. Len(Bytes(rs)) :
                /\ Cut(rs, k)
                /\ wrote' = [wrote EXCEPT ![f] = k > 0]
                /\ Goto(f, "return")
           \/ Goto(f, "set_failed") /\ UNCHANGED <<wire, req, bytes, wrote>>
           \/ /\ ssl
              /\ \E k \in 1 .. Len(Bytes(rs)) : Swallow(rs, k)
              /\ \/ Goto(f, "set_failed") /\ UNCHANGED wrote
                 \/ Goto(f, "return") /\ wrote' = [wrote EXCEPT ![f] = FALSE]
        /\ UNCHANGED <<head, connected, ssl, failed, id_wait_list, pipeline_q, mine, cur, found, releasing, told, order>>

\* "Release WriteRequest until non-empty data or last request."
ReturnWritten(f) ==
    /\ pc[f] = "return"
    /\ IF Written(f) THEN ReturnHead(f) /\ UNCHANGED pc
       ELSE /\ Goto(f, IF wrote[f] THEN "complete" ELSE "wait_epollout")
            /\ UNCHANGED <<mine, told, id_wait_list>>
    /\ wrote' = [wrote EXCEPT ![f] = @ /\ Written(f)]
    /\ UNCHANGED <<list, connected, ssl, failed, bytes, pipeline_q, cur, found, releasing, order, wire>>

\* WaitEpollOut ends with an event or after WAIT_EPOLLOUT_TIMEOUT_MS, or fails.
WaitEpollOut(f) ==
    /\ pc[f] = "wait_epollout"
    /\ Goto(f, "complete") \/ Goto(f, "set_failed")
    /\ UNCHANGED <<list, connected, ssl, failed, id_wait_list, bytes, pipeline_q, locals, told, order, wire>>

(***************************************************************************)
(* IsWriteComplete.                                                        *)
(***************************************************************************)
\* Where the process goes when there is more to write.
GoOn(p) == IF releasing[p] THEN "release" ELSE IF p \in Writers THEN "start" ELSE "skip"

\* The compare_exchange of _write_head.
IsWriteComplete(p) ==
    LET tail == Last(mine[p])
        done == req[tail].left = 0 /\ Len(mine[p]) = 1
    IN  /\ pc[p] = "complete"
        /\ \/ head = tail /\ done /\ head' = NULL /\ Goto(p, "finish") /\ UNCHANGED found
           \/ head = tail /\ ~done /\ Goto(p, GoOn(p)) /\ UNCHANGED <<head, found>>
           \/ /\ head # tail
              /\ Goto(p, "gather")
              /\ found' = [found EXCEPT ![p] = head]
              /\ UNCHANGED head
        /\ UNCHANGED <<req, connected, ssl, failed, id_wait_list, bytes, pipeline_q, mine, cur, wrote,
                       releasing, told, order, wire>>

\* A mutant: the list is not reversed.
SinceNewest(r, q) ==
    LET chain[s \in Requests \cup {UNCONNECTED}] ==
          IF s = r THEN <<>>
          ELSE IF s = UNCONNECTED THEN <<s>> ELSE <<s>> \o chain[req[s].next]
    IN  chain[q]

\* The requests from the oldest after r up to q, along next.
Since(r, q) ==
    LET chain[s \in Requests \cup {UNCONNECTED}] ==
          IF s = r THEN <<>>
          ELSE IF s = UNCONNECTED THEN <<s>> ELSE Append(chain[req[s].next], s)
    IN  chain[q]

\* "Reverse the list until old_head", waiting for writers that have not linked
\* their requests, and set the new requests up.
Gather(p) ==
    LET new == Since(Last(mine[p]), found[p])
    IN  /\ pc[p] = "gather" /\ UNCONNECTED \notin Range(new)
        /\ Setup(new)
        /\ mine' = [mine EXCEPT ![p] = @ \o new]
        /\ found' = [found EXCEPT ![p] = NULL]
        /\ Goto(p, GoOn(p))
        /\ UNCHANGED <<head, connected, ssl, failed, id_wait_list, cur, wrote, releasing, order, wire>>

\* The last request is returned, with or without success.
Finish(p) ==
    LET r == Head(mine[p])
    IN  /\ pc[p] = "finish"
        /\ IF releasing[p] THEN Tell(r) /\ UNCHANGED id_wait_list ELSE NotifyOnFailed(r)
        /\ Leave(p)
        /\ UNCHANGED <<list, connected, ssl, failed, bytes, pipeline_q, order, wire>>

(***************************************************************************)
(* SetFailed and ReleaseAllFailedWriteRequests.                            *)
(***************************************************************************)
\* The compare_exchange on the version; only the first one goes on.
SetFailed(p) ==
    /\ \/ pc[p] = "set_failed"
       \/ p = Other /\ pc[p] = "idle" /\ ~failed
    /\ failed' = TRUE
    /\ Goto(p, IF failed THEN "release" ELSE "reset_list")
    /\ UNCHANGED <<list, connected, ssl, id_wait_list, bytes, pipeline_q, locals, told, order, wire>>

\* fiber_token_list_reset2_pthreadsafe.
ResetList(p) ==
    /\ pc[p] = "reset_list"
    /\ told' = [r \in Requests |-> told[r] + (IF r \in id_wait_list THEN 1 ELSE 0)]
    /\ id_wait_list' = {}
    /\ Goto(p, IF p = Other THEN "idle" ELSE "release")
    /\ UNCHANGED <<list, connected, ssl, failed, bytes, pipeline_q, locals, order, wire>>

\* A mutant: requests that came meanwhile are forgotten.
ReleaseOnce(p) ==
    LET r == Head(mine[p])
    IN  /\ pc[p] = "release"
        /\ CancelRequest(r)
        /\ req' = [req EXCEPT ![r].msg = FALSE, ![r].left = 0]
        /\ releasing' = [releasing EXCEPT ![p] = TRUE]
        /\ IF Len(mine[p]) > 1
           THEN Tell(r) /\ mine' = [mine EXCEPT ![p] = Tail(@)] /\ UNCHANGED pc
           ELSE Goto(p, "finish") /\ UNCHANGED <<told, mine>>
        /\ UNCHANGED <<head, connected, ssl, failed, id_wait_list, pipeline_q, cur, found, wrote, order, wire>>

\* ReleaseWriteRequestsExceptLast gives back one request with an error; the
\* last one is emptied and kept until _write_head can be emptied.
Release(p) ==
    LET r == Head(mine[p])
    IN  /\ pc[p] = "release"
        /\ CancelRequest(r)
        /\ req' = [req EXCEPT ![r].msg = FALSE, ![r].left = 0]
        /\ releasing' = [releasing EXCEPT ![p] = TRUE]
        /\ IF Len(mine[p]) > 1
           THEN Tell(r) /\ mine' = [mine EXCEPT ![p] = Tail(@)] /\ UNCHANGED pc
           ELSE Goto(p, "complete") /\ UNCHANGED <<told, mine>>
        /\ UNCHANGED <<head, connected, ssl, failed, id_wait_list, pipeline_q, cur, found, wrote, order, wire>>

Next ==
    \/ \E w \in Writers : \/ WriteRefused(w) \/ Write(w) \/ Exchange(w) \/ Link(w) \/ ConnectIfNot(w)
                          \/ WriteOnce(w)
    \/ \E f \in Keepers : \/ KeepWriteIfConnected(f) \/ AfterAppConnected(f)
                          \/ Skip(f) \/ DoWrite(f) \/ ReturnWritten(f) \/ WaitEpollOut(f)
    \/ \E p \in Procs : \/ SetupFirst(p) \/ StartKeepWrite(p) \/ IsWriteComplete(p) \/ Gather(p)
                        \/ Finish(p) \/ SetFailed(p) \/ ResetList(p) \/ Release(p)

Spec == Init /\ [][Next]_vars

-----------------------------------------------------------------------------
\* The processes that have the right to write.
Holders == {p \in Procs \ {Other} : pc[p] \notin {"idle", "exchange", "link", "finish"}}

\* "We've got the right to write": at most one process writes, connects or
\* releases requests, and one does as long as _write_head is not empty.
SingleWriter == Cardinality(Holders) = IF head = NULL THEN 0 ELSE 1

Place(r) == CHOOSE i \in DOMAIN order : order[i] = r

\* Until the socket fails, bytes go out in the order in which the requests
\* were exchanged into _write_head, all bytes of one before the next one's.
\* "For positional correspondence between responses and requests": infos are
\* queued in the same order and before the first byte of their request.
WireInOrder ==
    /\ ~failed => \A i \in 1 .. Len(wire) - 1 :
          \/ wire[i] = wire[i + 1]
          \/ Place(wire[i]) < Place(wire[i + 1]) /\ req[wire[i]].left = 0
    /\ \A i, j \in DOMAIN pipeline_q : i < j => Place(pipeline_q[i]) < Place(pipeline_q[j])
    /\ \A r \in Range(wire) : req[r].kind.piped => r \in Range(pipeline_q)

\* _unwritten_bytes counts the bytes of the requests that were set up and
\* neither written nor given up, and _overcrowded says whether there are too
\* many: the socket does not stay overcrowded when everything is written.
\* Only the bytes that SSL took before a write that failed are never taken off,
\* and without SSL there are none.
UnwrittenExact ==
    /\ unwritten = swallowed + MapThenSumSet(LAMBDA r : req[r].left, {r \in DOMAIN req : ~req[r].msg})
    /\ ~ssl => swallowed = 0
    /\ overcrowded <=> unwritten >= MaxUnwritten

\* Every request has its id told of an error once, or is written and has its
\* id in the list that SetFailed tells; when nobody is inside a call, nothing
\* is left to write.  An abandoned request is told once more.
ToldOnce ==
    /\ \A r \in DOMAIN req : ~req[r].kind.bad =>
          told[r] + Cardinality(id_wait_list \cap {r}) <= 1
    /\ (\A p \in Procs : pc[p] = "idle") =>
          /\ head = NULL /\ (failed => id_wait_list = {})
          /\ \A r \in DOMAIN req :
                /\ req[r].left = 0
                /\ req[r].kind.id => told[r] > 0 \/ r \in id_wait_list
                /\ r \in id_wait_list /\ ~req[r].kind.bad =>
                      Cardinality({i \in DOMAIN wire : wire[i] = r}) = req[r].kind.size
=============================================================================
