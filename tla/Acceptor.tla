------------------------------ MODULE Acceptor ------------------------------
(***************************************************************************)
(* How a server starts, stops and joins its connections                    *)
(* (src/flare/rpc/acceptor.cc, and Stop and Join of server.cc).            *)
(*                                                                         *)
(* A Socket is what SocketRef promises: it can be addressed until it       *)
(* failed, one step takes it from its last reference to being recycled,    *)
(* and its user's BeforeRecycle runs after that step.  The additional      *)
(* reference is the one SetFailed and ReleaseAdditionalReference give up.  *)
(* Start, and Join, are called by one thread, Stop by any other.           *)
(***************************************************************************)
EXTENDS Naturals, FiniteSets

CONSTANTS
    Conns,          \* connections that clients may make
    ForceStop,      \* progressive attachments are created with FORCE_STOP
    MaxRequests,    \* bound: requests in progress on one connection
    MaxStarts       \* bound: calls of Start

VARIABLES
    server,         \* Server::_status
    status,         \* Acceptor::_status
    listened_fd,    \* _listened_fd is valid
    socket_map,     \* _socket_map
    acception,      \* the listening Socket: "none", "ok" or "failed"
    accepter,       \* the fiber of OnNewConnections
    sock,           \* the connection it is adding
    idle,           \* CloseIdleConnections runs
    stopper, ids,   \* the thread in Stop, and the erasing_ids it has left
    owner,          \* the thread in Start and Join
    life,           \* connection -> none, live, recycling (before BeforeRecycle) or gone
    extra,          \* connection -> it has its additional reference
    failed,         \* connection -> SetFailed was called
    requests,       \* connection -> services that run for it
    attachment,     \* connection -> a ProgressiveAttachment refers to it
    fail_me,        \* connection -> _fail_me_at_server_stop
    late,           \* history: connections given an attachment after their additional
                    \* reference was released
    starts          \* bound: calls of Start so far

serving == <<server, status, listened_fd, acception>>
conns == <<life, extra, failed, requests, attachment, fail_me>>
vars == <<serving, socket_map, accepter, sock, idle, stopper, ids, owner, conns, late, starts>>

TypeOK ==
    /\ server \in {"READY", "RUNNING", "STOPPING"}
    /\ status \in {"UNINITIALIZED", "READY", "RUNNING", "STOPPING"}
    /\ listened_fd \in BOOLEAN /\ idle \in BOOLEAN
    /\ acception \in {"none", "ok", "failed"}
    /\ socket_map \subseteq Conns /\ sock \subseteq Conns /\ ids \subseteq Conns
    /\ accepter \in {"out", "accept", "created", "insert", "discard", "check"}
    /\ stopper \in {"out", "stop_accept", "fail_acception", "list", "each"}
    /\ owner \in {"out", "join", "asleep", "join_idle", "ready"}
    /\ life \in [Conns -> {"none", "live", "recycling", "gone"}]
    /\ requests \in [Conns -> 0 .. MaxRequests]
    /\ {extra, failed, attachment, fail_me} \subseteq [Conns -> BOOLEAN]
    /\ late \subseteq Conns /\ starts \in 0 .. MaxStarts

Never == [c \in Conns |-> FALSE]

Init ==
    /\ server = "READY" /\ status = "UNINITIALIZED" /\ listened_fd = FALSE /\ acception = "none"
    /\ socket_map = {} /\ accepter = "out" /\ sock = {} /\ idle = FALSE
    /\ stopper = "out" /\ ids = {} /\ owner = "out"
    /\ life = [c \in Conns |-> "none"] /\ requests = [c \in Conns |-> 0]
    /\ extra = Never /\ failed = Never /\ attachment = Never /\ fail_me = Never
    /\ late = {} /\ starts = 0

-----------------------------------------------------------------------------
(* Socket *)

Addressable(c) == life[c] = "live" /\ ~failed[c]

\* SetFailed and ReleaseAdditionalReference of connection c.
SetFailed(c) == failed' = [failed EXCEPT ![c] = TRUE] /\ extra' = [extra EXCEPT ![c] = FALSE]
ReleaseAdditionalReference(c) == failed' = failed /\ extra' = [extra EXCEPT ![c] = FALSE]

\* The accepter's SocketUniquePtr, the additional reference, and the requests.
Referenced(c) ==
    \/ accepter \in {"insert", "discard"} /\ c \in sock
    \/ extra[c] \/ requests[c] > 0 \/ attachment[c]

\* The last reference is gone: nobody addresses the Socket any more.
Unreferenced(c) ==
    /\ life[c] = "live" /\ ~Referenced(c)
    /\ life' = [life EXCEPT ![c] = "recycling"]
    /\ UNCHANGED <<serving, socket_map, accepter, sock, idle, stopper, ids, owner, extra, failed,
                   requests, attachment, fail_me, late, starts>>

\* _empty_cond.notify_all.
Notified == IF owner = "asleep" THEN "join" ELSE owner

\* Where the joining thread is after a connection left the map.
Erased == IF socket_map' = {} THEN Notified ELSE owner

\* Acceptor::BeforeRecycle of a connection and of the listening Socket.
BeforeRecycle(c) ==
    /\ life[c] = "recycling"
    /\ life' = [life EXCEPT ![c] = "gone"]
    /\ socket_map' = socket_map \ {c}
    /\ owner' = Erased
    /\ UNCHANGED <<serving, accepter, sock, idle, stopper, ids, extra, failed, requests, attachment,
                   fail_me, late, starts>>

AcceptionRecycled ==
    /\ acception = "failed" /\ accepter = "out"
    /\ acception' = "none" /\ listened_fd' = FALSE
    /\ owner' = Notified
    /\ UNCHANGED <<server, status, socket_map, accepter, sock, idle, stopper, ids, conns, late, starts>>

-----------------------------------------------------------------------------
(* OnNewConnections *)

Accepts(l) == accepter' = l /\ UNCHANGED <<serving, idle, stopper, ids, owner, late, starts>>

OnNewConnections ==
    /\ accepter = "out" /\ acception = "ok"
    /\ Accepts("accept")
    /\ UNCHANGED <<socket_map, sock, conns>>

\* accept and Socket::Create: from here on requests are handled.
Create(c) ==
    /\ accepter = "accept" /\ life[c] = "none"
    /\ life' = [life EXCEPT ![c] = "live"] /\ extra' = [extra EXCEPT ![c] = TRUE]
    /\ sock' = {c}
    /\ Accepts("created")
    /\ UNCHANGED <<socket_map, failed, requests, attachment, fail_me>>

\* AddressFailedAsWell.
AddressNew ==
    /\ accepter = "created"
    /\ Accepts(IF \E c \in sock : life[c] = "live" THEN "insert" ELSE "accept")
    /\ UNCHANGED <<socket_map, sock, conns>>

\* Mutant: the status is not looked at again.
AnyStatus == "accept"

\* Whether the acceptor still runs is read with the insertion.
AfterInsert == IF status = "RUNNING" THEN "accept" ELSE "discard"

Insert ==
    /\ accepter = "insert"
    /\ socket_map' = socket_map \cup sock
    /\ Accepts(AfterInsert)
    /\ UNCHANGED <<sock, conns>>

\* The acceptor has been stopped: SetFailed, and back to OnNewConnections.
Discard ==
    /\ accepter = "discard"
    /\ \E c \in sock : SetFailed(c)
    /\ Accepts("check")
    /\ UNCHANGED <<socket_map, sock, life, requests, attachment, fail_me>>

\* EAGAIN.
NoMoreConnections ==
    /\ accepter = "accept"
    /\ Accepts("check")
    /\ UNCHANGED <<socket_map, sock, conns>>

\* MoreReadEvents, unless the listening Socket has failed.
CheckAcception ==
    /\ accepter = "check"
    /\ \/ Accepts("out")
       \/ acception = "ok" /\ Accepts("accept")
    /\ UNCHANGED <<socket_map, sock, conns>>

-----------------------------------------------------------------------------
(* What happens to a connection *)

\* A request for a service; others are answered with ELOGOFF.
Request(c) ==
    /\ Addressable(c) /\ server = "RUNNING" /\ requests[c] < MaxRequests
    /\ requests' = [requests EXCEPT ![c] = @ + 1]
    /\ UNCHANGED <<serving, socket_map, accepter, sock, idle, stopper, ids, owner, life, extra, failed,
                   attachment, fail_me, late, starts>>

\* The service creates a progressive attachment.
CreateProgressiveAttachment(c) ==
    /\ requests[c] > 0 /\ ~attachment[c]
    /\ attachment' = [attachment EXCEPT ![c] = TRUE]
    /\ fail_me' = [fail_me EXCEPT ![c] = @ \/ ForceStop]
    /\ late' = IF extra[c] THEN late ELSE late \cup {c}
    /\ UNCHANGED <<serving, socket_map, accepter, sock, idle, stopper, ids, owner, life, extra, failed,
                   requests, starts>>

Respond(c) ==
    /\ requests[c] > 0
    /\ requests' = [requests EXCEPT ![c] = @ - 1]
    /\ UNCHANGED <<serving, socket_map, accepter, sock, idle, stopper, ids, owner, life, extra, failed,
                   attachment, fail_me, late, starts>>

\* The attachment's writer is done, or was told that the Socket failed.
EndAttachment(c) ==
    /\ attachment[c]
    /\ attachment' = [attachment EXCEPT ![c] = FALSE]
    /\ UNCHANGED <<serving, socket_map, accepter, sock, idle, stopper, ids, owner, life, extra, failed,
                   requests, fail_me, late, starts>>

\* The client hangs up.
HangUp(c) ==
    /\ Addressable(c)
    /\ SetFailed(c)
    /\ UNCHANGED <<serving, socket_map, accepter, sock, idle, stopper, ids, owner, life, requests,
                   attachment, fail_me, late, starts>>

\* CloseIdleConnections finds the connection idle: ReleaseReferenceIfIdle.
CloseIdle(c) ==
    /\ idle /\ c \in socket_map /\ Addressable(c) /\ extra[c]
    /\ IF fail_me[c] THEN SetFailed(c) ELSE ReleaseAdditionalReference(c)
    /\ UNCHANGED <<serving, socket_map, accepter, sock, idle, stopper, ids, owner, life, requests,
                   attachment, fail_me, late, starts>>

-----------------------------------------------------------------------------
(* Start, Stop and Join *)

\* Start as far as StartAccept, which starts CloseIdleConnections if there is
\* an idle timeout.  The last Stop and Join must have returned.
Start ==
    /\ owner = "out" /\ stopper = "out" /\ server = "READY" /\ starts < MaxStarts
    /\ status \in {"UNINITIALIZED", "READY"}
    /\ server' = "RUNNING" /\ status' = "RUNNING" /\ listened_fd' = TRUE /\ acception' = "ok"
    /\ idle' \in BOOLEAN
    /\ starts' = starts + 1
    /\ UNCHANGED <<socket_map, accepter, sock, stopper, ids, owner, conns, late>>

Stops(l) == stopper' = l /\ UNCHANGED <<socket_map, accepter, sock, idle, owner, late, starts>>

Stop ==
    /\ stopper = "out" /\ server = "RUNNING"
    /\ server' = "STOPPING"
    /\ Stops("stop_accept")
    /\ UNCHANGED <<status, listened_fd, acception, ids, conns>>

StopAccept ==
    /\ stopper = "stop_accept" /\ status = "RUNNING"
    /\ status' = "STOPPING"
    /\ Stops("fail_acception")
    /\ UNCHANGED <<server, listened_fd, acception, ids, conns>>

FailAcception ==
    /\ stopper = "fail_acception"
    /\ acception' = IF acception = "ok" THEN "failed" ELSE acception
    /\ Stops("list")
    /\ UNCHANGED <<server, status, listened_fd, ids, conns>>

ListConnections ==
    /\ stopper = "list"
    /\ ids' = socket_map
    /\ Stops("each")
    /\ UNCHANGED <<serving, conns>>

StopEach ==
    /\ stopper = "each"
    /\ \/ \E c \in ids :
            /\ IF ~Addressable(c) THEN UNCHANGED <<failed, extra>>
               ELSE IF fail_me[c] THEN SetFailed(c) ELSE ReleaseAdditionalReference(c)
            /\ ids' = ids \ {c}
            /\ Stops("each")
       \/ ids = {} /\ ids' = ids /\ Stops("out") /\ UNCHANGED <<failed, extra>>
    /\ UNCHANGED <<serving, life, requests, attachment, fail_me>>

Joins(l) == owner' = l /\ UNCHANGED <<socket_map, accepter, sock, stopper, ids, conns, late, starts>>

Join ==
    /\ owner = "out" /\ server \in {"RUNNING", "STOPPING"}
    /\ Joins("join")
    /\ UNCHANGED <<serving, idle>>

\* What Join waits for.
MustWait == listened_fd \/ socket_map # {}

\* Under the mutex: the loop around _empty_cond.
JoinWait ==
    /\ owner = "join"
    /\ Joins(IF MustWait THEN "asleep" ELSE "join_idle")
    /\ UNCHANGED <<serving, idle>>

\* fiber_stop and fiber_join of CloseIdleConnections.
JoinIdle ==
    /\ owner = "join_idle"
    /\ idle' = FALSE
    /\ Joins("ready")
    /\ UNCHANGED serving

JoinReturns ==
    /\ owner = "ready"
    /\ status' = "READY" /\ server' = "READY"
    /\ Joins("out")
    /\ UNCHANGED <<listened_fd, acception, idle>>

-----------------------------------------------------------------------------
AccepterStep ==
    \/ AddressNew \/ Insert \/ Discard \/ NoMoreConnections \/ CheckAcception
    \/ \E c \in Conns : Create(c)
StopperStep == StopAccept \/ FailAcception \/ ListConnections \/ StopEach
OwnerStep == JoinWait \/ JoinIdle \/ JoinReturns
Recycling(c) == Unreferenced(c) \/ BeforeRecycle(c)

Next ==
    \/ Start \/ Stop \/ Join \/ StopperStep \/ OwnerStep
    \/ OnNewConnections \/ AccepterStep \/ AcceptionRecycled
    \/ \E c \in Conns :
         \/ Recycling(c) \/ Request(c) \/ CreateProgressiveAttachment(c) \/ Respond(c)
         \/ EndAttachment(c) \/ HangUp(c) \/ CloseIdle(c)

Spec == Init /\ [][Next]_vars

-----------------------------------------------------------------------------
(* Properties *)

\* Once Join has returned nothing of the server is left: no service runs, no
\* fiber accepts or closes connections, and no Socket that the acceptor has
\* added will come back to its BeforeRecycle.  A Socket that was recycled
\* before it could be added is the exception.
NothingAfterJoin ==
    status \in {"UNINITIALIZED", "READY"} =>
        /\ socket_map = {} /\ acception = "none" /\ accepter = "out" /\ ~idle
        /\ \A c \in Conns : life[c] # "live" /\ requests[c] = 0

\* After StopAccept every connection is on its way out, although connections
\* were made and added meanwhile: it was told by StopAccept or will be by the
\* accepter, so that Join waits for requests only; one with a FORCE_STOP
\* attachment has failed, unless the service created it later; and a joining
\* thread never sleeps once there is nothing to wait for.
StopReachesAll ==
    /\ status = "STOPPING" /\ stopper = "out" /\ accepter = "out" =>
           \A c \in Conns : life[c] = "live" => ~extra[c] /\ (fail_me[c] => failed[c] \/ c \in late)
    /\ status = "STOPPING" /\ stopper = "out" =>
           \A c \in socket_map : extra[c] => accepter \in {"insert", "discard"} /\ c \in sock
    /\ owner = "asleep" => listened_fd \/ socket_map # {}
=============================================================================
