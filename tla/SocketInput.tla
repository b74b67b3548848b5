---------------------------- MODULE SocketInput ----------------------------
(***************************************************************************)
(* The reading side of a Socket: edge-triggered events from the            *)
(* EventDispatcher (src/flare/rpc/event_dispatcher.cc), the one fiber that *)
(* reads (Socket::StartInputEvent, InputMessenger::OnNewMessages), the     *)
(* messages it cuts and has processed, and the end of file that waits for  *)
(* them on the client side (PostponeEOF, CheckEOF, SetEOF).                *)
(*                                                                         *)
(* A read returns whole messages; the parsers are a choice between a       *)
(* message and an error.                                                   *)
(***************************************************************************)
EXTENDS Naturals, FiniteSets, FiniteSetsExt

CONSTANTS
    Slots,          \* names for ProcessEvent fibers; two, to see a second one
    MaxMessages     \* bound: messages the remote side sends

VARIABLES
    client,         \* CreatedByConnect()
    sent,           \* bound: messages sent so far
    kernel,         \* messages in the fd's receive buffer
    hung_up,        \* the remote side closed the connection
    edge,           \* epoll has an event for the fd
    dispatching,    \* EventDispatcher::Run is about to call StartInputEvent
    nevent,         \* _nevent
    pc, progress, cut, last_msg,    \* of every ProcessEvent fiber
    processing,     \* messages being processed, in other fibers or after the loop
    auth,           \* "none", "passed", "refused"
    ninprocess, eof,    \* _ninprocess without and with its EOF_FLAG
    failed          \* "no", "EEOF", or any other error

env == <<client, sent, kernel, hung_up, edge>>
fiber == <<pc, progress, cut, last_msg>>
vars == <<env, dispatching, nevent, fiber, processing, auth, ninprocess, eof, failed>>

Reading == {"read", "cut", "more", "eof"}

TypeOK ==
    /\ client \in BOOLEAN /\ hung_up \in BOOLEAN /\ edge \in BOOLEAN /\ dispatching \in BOOLEAN
    /\ sent \in Nat /\ kernel \in Nat /\ nevent \in Nat
    /\ pc \in [Slots -> Reading \cup {"none", "return"}] /\ progress \in [Slots -> Nat]
    /\ cut \in [Slots -> Nat] /\ last_msg \in [Slots -> BOOLEAN]
    /\ processing \in Nat /\ ninprocess \in Nat /\ eof \in BOOLEAN
    /\ auth \in {"none", "passed", "refused"} /\ failed \in {"no", "EEOF", "other"}

Init ==
    /\ client \in BOOLEAN /\ sent = 0 /\ kernel = 0 /\ hung_up = FALSE /\ edge = FALSE
    /\ dispatching = FALSE /\ nevent = 0
    /\ pc = [s \in Slots |-> "none"] /\ progress = [s \in Slots |-> 0]
    /\ cut = [s \in Slots |-> 0] /\ last_msg = [s \in Slots |-> FALSE]
    /\ processing = 0 /\ auth = "none" /\ ninprocess = 1 /\ eof = FALSE /\ failed = "no"

Goto(s, l) == pc' = [pc EXCEPT ![s] = l]
SetFailed(e) == failed' = IF failed = "no" THEN e ELSE failed

-----------------------------------------------------------------------------
(* The remote side, the kernel and the dispatcher *)

Arrive ==
    /\ sent < MaxMessages /\ ~hung_up
    /\ sent' = sent + 1 /\ kernel' = kernel + 1 /\ edge' = TRUE
    /\ UNCHANGED <<client, hung_up, dispatching, nevent, fiber, processing, auth, ninprocess, eof, failed>>

HangUp ==
    /\ ~hung_up
    /\ hung_up' = TRUE /\ edge' = TRUE
    /\ UNCHANGED <<client, sent, kernel, dispatching, nevent, fiber, processing, auth, ninprocess, eof, failed>>

EpollWait ==
    /\ edge /\ ~dispatching
    /\ edge' = FALSE /\ dispatching' = TRUE
    /\ UNCHANGED <<client, sent, kernel, hung_up, nevent, fiber, processing, auth, ninprocess, eof, failed>>

\* fetch_add of _nevent returned 0: nobody reads.
Starts == nevent = 0

\* Somebody reading will see the larger _nevent; Address of a failed socket
\* fails.
StartInputEvent ==
    /\ dispatching /\ dispatching' = FALSE
    /\ IF failed # "no" THEN UNCHANGED <<nevent, fiber>>
       ELSE /\ nevent' = nevent + 1
            /\ IF Starts
               THEN \E s \in Slots :
                       /\ pc[s] = "none" /\ Goto(s, "read")
                       /\ progress' = [progress EXCEPT ![s] = 1]
                       /\ UNCHANGED <<cut, last_msg>>
               ELSE UNCHANGED fiber
    /\ UNCHANGED <<env, processing, auth, ninprocess, eof, failed>>

-----------------------------------------------------------------------------
(* OnNewMessages *)

DoRead(s) ==
    /\ pc[s] = "read"
    /\ \/ \E n \in 1 .. kernel :
             kernel' = kernel - n /\ cut' = [cut EXCEPT ![s] = n] /\ Goto(s, "cut") /\ failed' = failed
       \/ kernel = 0 /\ hung_up /\ Goto(s, "eof") /\ UNCHANGED <<kernel, cut, failed>>
       \/ kernel = 0 /\ ~hung_up /\ Goto(s, "more") /\ UNCHANGED <<kernel, cut, failed>>
       \/ SetFailed("other") /\ Goto(s, "return") /\ UNCHANGED <<kernel, cut>>
    /\ UNCHANGED <<client, sent, hung_up, edge, dispatching, nevent, progress, last_msg, processing, auth, ninprocess, eof>>

\* Mutant: leaves after any event.
SawSome(s) == progress[s] > 0

\* The fiber leaves only if no event came since it looked last.
NoMoreEvents(s) == nevent = progress[s]

MoreReadEvents(s) ==
    /\ pc[s] = "more"
    /\ IF NoMoreEvents(s)
       THEN nevent' = 0 /\ Goto(s, "return") /\ progress' = progress
       ELSE progress' = [progress EXCEPT ![s] = nevent] /\ Goto(s, "read") /\ nevent' = nevent
    /\ UNCHANGED <<env, dispatching, cut, last_msg, processing, auth, ninprocess, eof, failed>>

Queue(s) == processing + IF last_msg[s] THEN 1 ELSE 0

\* Mutant: the message is not counted.
CountsNothing == ninprocess

\* On the client side a message in process postpones the end of file.
PostponeEOF == IF client THEN ninprocess + 1 ELSE ninprocess

\* Cut a message: the one before it is queued to a fiber of its own, this one
\* is kept.  The first on the connection is verified; one that is refused is
\* destroyed, which takes back its PostponeEOF.
CutInputMessage(s) ==
    /\ pc[s] = "cut"
    /\ \/ cut[s] = 0 /\ Goto(s, "read") /\ UNCHANGED <<cut, last_msg, processing, auth, ninprocess, failed>>
       \/ cut[s] > 0 /\ SetFailed("other") /\ Goto(s, "return")
          /\ UNCHANGED <<cut, last_msg, processing, auth, ninprocess>>
       \/ /\ cut[s] > 0 /\ processing' = Queue(s)
          /\ \/ /\ auth \in {"none", "passed"} /\ auth' = "passed"
                /\ last_msg' = [last_msg EXCEPT ![s] = TRUE] /\ ninprocess' = PostponeEOF
                /\ cut' = [cut EXCEPT ![s] = @ - 1] /\ UNCHANGED <<pc, failed>>
             \/ /\ auth = "none" /\ auth' = "refused"
                /\ last_msg' = [last_msg EXCEPT ![s] = FALSE]
                /\ SetFailed("other") /\ Goto(s, "return") /\ UNCHANGED <<cut, ninprocess>>
    /\ UNCHANGED <<env, dispatching, nevent, progress, eof>>

\* CheckEOFInternal
Dereferenced == ninprocess' = ninprocess - 1 /\ IF ninprocess = 1 THEN SetFailed("EEOF") ELSE failed' = failed

SetEOF(s) ==
    /\ pc[s] = "eof" /\ Goto(s, "return")
    /\ eof' = TRUE
    /\ IF eof THEN UNCHANGED <<ninprocess, failed>> ELSE Dereferenced
    /\ UNCHANGED <<env, dispatching, nevent, progress, cut, last_msg, processing, auth>>

\* Every return runs the last message.
Return(s) ==
    /\ pc[s] = "return" /\ Goto(s, "none")
    /\ processing' = Queue(s) /\ last_msg' = [last_msg EXCEPT ![s] = FALSE]
    /\ cut' = [cut EXCEPT ![s] = 0]
    /\ UNCHANGED <<env, dispatching, nevent, progress, auth, ninprocess, eof, failed>>

\* A message was processed and is destroyed: CheckEOF.
Processed ==
    /\ processing > 0 /\ processing' = processing - 1
    /\ IF client THEN Dereferenced ELSE UNCHANGED <<ninprocess, failed>>
    /\ UNCHANGED <<env, dispatching, nevent, fiber, auth, eof>>

-----------------------------------------------------------------------------
Next ==
    \/ Arrive \/ HangUp \/ EpollWait \/ StartInputEvent \/ Processed
    \/ \E s \in Slots : DoRead(s) \/ MoreReadEvents(s) \/ CutInputMessage(s) \/ SetEOF(s) \/ Return(s)

Spec == Init /\ [][Next]_vars

-----------------------------------------------------------------------------
(* Properties *)

\* At most one fiber reads the socket at a time (_nevent).
OneReader == Cardinality({s \in Slots : pc[s] \in Reading}) <= 1

\* Input is never left unread with nobody to read it: an event for it is on
\* its way, or a fiber will read again before it leaves (MoreReadEvents
\* against StartInputEvent).
NoInputForgotten ==
    (kernel > 0 \/ hung_up) /\ failed = "no" /\ ~eof =>
        \/ edge \/ dispatching
        \/ \E s \in Slots : pc[s] \in {"read", "cut", "eof"} \/ (pc[s] = "more" /\ nevent # progress[s])

\* One fiber reads, and input is never left to nobody.
InputRead == TypeOK /\ OneReader /\ NoInputForgotten

\* A client's socket fails with EEOF only when every message that came before
\* the end of file has been processed, and a socket that saw the end of file
\* stays open only while one is left (PostponeEOF, SetEOF, CheckEOF).
EofComesLast ==
    /\ failed = "EEOF" /\ client =>
          kernel = 0 /\ processing = 0 /\ \A s \in Slots : cut[s] = 0 /\ ~last_msg[s]
    /\ eof /\ failed = "no" => processing > 0 \/ \E s \in Slots : last_msg[s]
=============================================================================
