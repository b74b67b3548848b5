------------------------------- MODULE Stream -------------------------------
(***************************************************************************)
(* The writing side of a Stream (src/flare/rpc/stream.cc): a window of     *)
(* max_buf_size bytes that StreamWrite fills and the remote side's         *)
(* feedback empties, writers that wait for room in it, and a fake Socket   *)
(* whose requests become frames on the host socket once the stream is      *)
(* connected and whose last reference, after Close, ends the stream.       *)
(*                                                                         *)
(* The fake socket is used through what SocketWrite and SocketRef promise: *)
(* requests are written in order by whoever has the right to, a failed     *)
(* socket refuses or drops them, BeforeRecycle runs when a failed socket   *)
(* has no reference left.  A message is its length; the remote side and    *)
(* the connection to it are queues.                                        *)
(***************************************************************************)
EXTENDS Integers, Sequences, FiniteSets, Functions

CONSTANTS
    Writers,        \* threads that call StreamWrite and StreamWait
    WaitKinds,      \* {"async"}, or with "sync" for the StreamWait that joins
    Accepted,       \* StreamAccept made the stream: it is connected from the start
    max_buf_size,   \* _options.max_buf_size
    Lengths,        \* of messages
    MaxMessages     \* bound: messages written

VARIABLES
    produced, remote_consumed,  \* _produced, _remote_consumed
    wait_list,      \* writers in _writable_wait_list
    waiting,        \* writers whose on_writable has not been called
    pc, len, kind,  \* writer -> where it is, the message it writes, how it waits
    connected, closed,          \* _connected, _closed
    on_connect,     \* _connect_meta.on_connect is set
    callback,       \* RunOnConnect: "none", "connected", "reset"
    closer,         \* whoever closes the stream: "idle", "mutex", "done"
    sock_failed,    \* the fake socket is Failed()
    fd,             \* it has its STREAM_FAKE_FD
    right,          \* somebody has the right to write to it
    pend,           \* requests in it
    recycled,       \* BeforeRecycle ran
    wire, queue,    \* frames to the remote side, messages in its _consumer_queue
    local_consumed, \* the remote side's _local_consumed
    feedback,       \* FEEDBACK frames coming back
    messages        \* bound: StreamWrite so far

flow == <<produced, remote_consumed, wait_list, waiting>>
writer == <<pc, len, kind>>
connect == <<connected, closed, on_connect, callback, closer>>
sock == <<sock_failed, fd, right, pend, recycled>>
remote == <<wire, queue, local_consumed, feedback, messages>>
vars == <<flow, writer, connect, sock, remote>>

Total(s) == FoldFunction(LAMBDA a, b : a + b, 0, s)

TypeOK ==
    /\ produced \in Nat /\ remote_consumed \in Nat /\ local_consumed \in Nat
    /\ wait_list \subseteq Writers /\ waiting \subseteq Writers
    /\ pc \in [Writers -> {"idle", "write", "connect", "rollback", "wait", "joined"}]
    /\ len \in [Writers -> Lengths \cup {0}] /\ kind \in [Writers -> {"async", "sync"}]
    /\ connected \in BOOLEAN /\ closed \in BOOLEAN /\ on_connect \in BOOLEAN
    /\ callback \in {"none", "connected", "reset"} /\ closer \in {"idle", "mutex", "done"}
    /\ sock_failed \in BOOLEAN /\ fd \in BOOLEAN /\ right \in BOOLEAN /\ recycled \in BOOLEAN
    /\ pend \in Seq(Lengths) /\ wire \in Seq(Lengths) /\ queue \in Seq(Lengths) /\ feedback \in Seq(Nat)
    /\ messages \in 0 .. MaxMessages

Init ==
    /\ produced = 0 /\ remote_consumed = 0 /\ local_consumed = 0
    /\ wait_list = {} /\ waiting = {}
    /\ pc = [w \in Writers |-> "idle"] /\ len = [w \in Writers |-> 0]
    /\ kind = [w \in Writers |-> "async"]
    /\ connected = Accepted /\ closed = FALSE /\ on_connect = FALSE
    /\ callback = "none" /\ closer = "idle"
    /\ sock_failed = FALSE /\ fd = FALSE /\ right = FALSE /\ recycled = FALSE
    /\ pend = <<>> /\ wire = <<>> /\ queue = <<>> /\ feedback = <<>>
    /\ messages = 0

-----------------------------------------------------------------------------
(* StreamWrite and AppendIfNotFull *)

Full == produced >= remote_consumed + max_buf_size
Goto(w, l) == pc' = [pc EXCEPT ![w] = l]

\* Mutant: full one byte later.
WindowFullLate == produced > remote_consumed + max_buf_size

\* When AppendIfNotFull answers EAGAIN.
IsFull == Full

\* Address the stream and take room in the window, or give up with EAGAIN.
StreamWrite(w, l) ==
    /\ pc[w] = "idle" /\ ~sock_failed /\ messages < MaxMessages /\ w \notin waiting
    /\ ~IsFull
    /\ produced' = produced + l /\ len' = [len EXCEPT ![w] = l]
    /\ messages' = messages + 1
    /\ Goto(w, "write")
    /\ UNCHANGED <<remote_consumed, wait_list, waiting, kind, connect, sock, wire, queue, local_consumed, feedback>>

\* Write to the fake socket.  The first to write has the right to, and must
\* connect if nobody has before; CutMessageIntoFileDescriptor puts a frame on
\* the host socket.
WriteSocket(w) ==
    /\ pc[w] = "write"
    /\ \/ sock_failed /\ Goto(w, "rollback") /\ UNCHANGED <<right, pend, wire>>
       \/ ~sock_failed /\ right /\ pend' = Append(pend, len[w]) /\ Goto(w, "idle") /\ UNCHANGED <<right, wire>>
       \/ ~sock_failed /\ ~right /\ fd /\ wire' = Append(wire, len[w]) /\ Goto(w, "idle") /\ UNCHANGED <<right, pend>>
       \/ /\ ~sock_failed /\ ~right /\ ~fd
          /\ right' = TRUE /\ pend' = Append(pend, len[w]) /\ Goto(w, "connect") /\ wire' = wire
    /\ UNCHANGED <<flow, len, kind, connect, sock_failed, fd, recycled, queue, local_consumed, feedback, messages>>

Rollback(w) ==
    /\ pc[w] = "rollback"
    /\ produced' = produced - len[w]
    /\ Goto(w, "idle")
    /\ UNCHANGED <<remote_consumed, wait_list, waiting, len, kind, connect, sock, remote>>

-----------------------------------------------------------------------------
(* StreamWait *)

StreamWait(w, k) ==
    /\ pc[w] = "idle" /\ ~sock_failed /\ w \notin waiting
    /\ kind' = [kind EXCEPT ![w] = k]
    /\ Goto(w, "wait")
    /\ UNCHANGED <<flow, len, connect, sock, remote>>

\* Under _congestion_control_mutex: there is room, or the wait_id is listed.
\* The synchronous StreamWait joins it and keeps its reference meanwhile.
Wait(w) ==
    /\ pc[w] = "wait"
    /\ IF Full
       THEN /\ wait_list' = wait_list \cup {w} /\ waiting' = waiting \cup {w}
            /\ Goto(w, IF kind[w] = "sync" THEN "joined" ELSE "idle")
       ELSE Goto(w, "idle") /\ UNCHANGED <<wait_list, waiting>>
    /\ UNCHANGED <<produced, remote_consumed, len, kind, connect, sock, remote>>

\* TriggerOnWritable of these writers; wait_ids that timed out are gone.
Trigger(ws) ==
    /\ waiting' = waiting \ ws
    /\ pc' = [w \in Writers |-> IF w \in ws /\ pc[w] = "joined" THEN "idle" ELSE pc[w]]

OnTimedOut(w) ==
    /\ w \in waiting
    /\ Trigger({w})
    /\ UNCHANGED <<produced, remote_consumed, wait_list, len, kind, connect, sock, remote>>

-----------------------------------------------------------------------------
(* Frames from the remote side *)

\* Feedback that makes room where there was none wakes the writers.
MakesRoom(new) == Full /\ ~(produced >= new + max_buf_size)

SetRemoteConsumed ==
    /\ feedback # <<>> /\ ~sock_failed
    /\ feedback' = Tail(feedback)
    /\ LET new == Head(feedback) IN
       IF remote_consumed >= new THEN UNCHANGED <<flow, pc>>
       ELSE /\ remote_consumed' = new
            /\ IF MakesRoom(new) THEN Trigger(wait_list) /\ wait_list' = {}
               ELSE UNCHANGED <<wait_list, waiting, pc>>
            /\ produced' = produced
    /\ UNCHANGED <<len, kind, connect, sock, wire, queue, local_consumed, messages>>

-----------------------------------------------------------------------------
(* Connecting and closing *)

\* Stream::Connect, called by the writer that has the right to write.
Connect(w) ==
    /\ pc[w] = "connect"
    /\ on_connect' = TRUE
    /\ callback' = IF connected THEN "connected" ELSE callback
    /\ Goto(w, "idle")
    /\ UNCHANGED <<flow, len, kind, connected, closed, closer, sock, remote>>

\* The response of the RPC that created the stream came.
SetConnected ==
    /\ ~connected /\ ~closed
    /\ connected' = TRUE
    /\ callback' = IF on_connect THEN "connected" ELSE callback
    /\ UNCHANGED <<flow, writer, closed, on_connect, closer, sock, remote>>

\* KeepWriteIfConnected: write what is pending, or drop it.
RunOnConnect ==
    /\ callback # "none" /\ callback' = "none"
    /\ IF callback = "connected" /\ ~sock_failed
       THEN wire' = wire \o pend /\ fd' = TRUE /\ sock_failed' = FALSE
       ELSE wire' = wire /\ fd' = fd /\ sock_failed' = TRUE
    /\ pend' = <<>> /\ right' = FALSE
    /\ UNCHANGED <<flow, writer, connected, closed, on_connect, closer, recycled, queue, local_consumed, feedback, messages>>

\* Stream::SetFailed: StreamClose, a CLOSE or RST frame, a failed host socket.
CloseStart ==
    /\ closer = "idle"
    /\ sock_failed' = TRUE /\ closer' = "mutex"
    /\ UNCHANGED <<flow, writer, connected, closed, on_connect, callback, fd, right, pend, recycled, remote>>

Close ==
    /\ closer = "mutex" /\ closer' = "done"
    /\ closed' = TRUE
    /\ callback' = IF ~connected /\ on_connect THEN "reset" ELSE callback
    /\ UNCHANGED <<flow, writer, connected, on_connect, sock, remote>>

\* The last reference of the failed fake socket is gone.
BeforeRecycle ==
    /\ sock_failed /\ ~recycled /\ closer = "done" /\ ~right
    /\ \A w \in Writers : pc[w] = "idle"
    /\ recycled' = TRUE
    /\ Trigger(wait_list) /\ wait_list' = {}
    /\ UNCHANGED <<produced, remote_consumed, len, kind, connect, sock_failed, fd, right, pend, remote>>

-----------------------------------------------------------------------------
(* The remote side: OnReceived, Consume and its SendFeedback *)

OnReceived ==
    /\ wire # <<>>
    /\ queue' = Append(queue, Head(wire)) /\ wire' = Tail(wire)
    /\ UNCHANGED <<flow, writer, connect, sock, local_consumed, feedback, messages>>

ConsumedAll == local_consumed + Total(queue)
\* Mutant: feedback of the last batch only.
ConsumedBatch == Total(queue)

\* consumed_size of the feedback: everything that was consumed so far.
Consumed == ConsumedAll

Consume ==
    /\ queue # <<>>
    /\ local_consumed' = ConsumedAll /\ feedback' = Append(feedback, Consumed)
    /\ queue' = <<>>
    /\ UNCHANGED <<flow, writer, connect, sock, wire, messages>>

-----------------------------------------------------------------------------
WriterStep(w) == WriteSocket(w) \/ Rollback(w) \/ Wait(w) \/ Connect(w)
StreamSteps == SetRemoteConsumed \/ SetConnected \/ RunOnConnect \/ Close \/ BeforeRecycle
RemoteSteps == OnReceived \/ Consume

Next ==
    \/ \E w \in Writers :
          \/ \E l \in Lengths : StreamWrite(w, l)
          \/ \E k \in WaitKinds : StreamWait(w, k)
          \/ OnTimedOut(w) \/ WriterStep(w)
    \/ StreamSteps \/ CloseStart \/ RemoteSteps

\* Threads inside these functions go on, frames are delivered, the remote side
\* consumes, and the RPC that created the stream is answered.
Fairness ==
    /\ \A w \in Writers : WF_vars(WriterStep(w))
    /\ WF_vars(SetRemoteConsumed) /\ WF_vars(SetConnected \/ RunOnConnect)
    /\ WF_vars(Close \/ BeforeRecycle) /\ WF_vars(OnReceived) /\ WF_vars(Consume)

Spec == Init /\ [][Next]_vars
FairSpec == Spec /\ Fairness

-----------------------------------------------------------------------------
(* Properties *)

Taking == {w \in Writers : pc[w] \in {"write", "rollback"}}

\* The window counts exactly the bytes that writers took and the remote side
\* has not consumed, wherever they are on the way, and they exceed
\* max_buf_size by less than one message (AppendIfNotFull).
WindowExact ==
    ~sock_failed =>
        LET inWriters == FoldFunctionOnSet(LAMBDA a, b : a + b, 0, len, Taking)
            unconsumed == inWriters + Total(pend) + Total(wire) + Total(queue)
        IN  /\ produced = local_consumed + unconsumed
            /\ \A m \in Lengths : (\A l \in Lengths : l <= m) => unconsumed < max_buf_size + m

\* A writer waits only while the window is full: feedback that makes room
\* leaves nobody in the list, and nobody gets in after it (Wait and
\* SetRemoteConsumed).
NoForgottenWriter == waiting # {} /\ ~sock_failed => Full

\* A writer that waits is told that there is room, unless the stream is
\* closed meanwhile.
WriterGoesOn(w) == w \in waiting ~> w \notin waiting \/ sock_failed

\* "StreamWait wakes up immediately" when the stream is closed (stream.h).
CloseWakes == \A w \in Writers : closed /\ w \in waiting ~> w \notin waiting
=============================================================================
