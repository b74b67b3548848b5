------------------------------ MODULE MCSocket ------------------------------
(***************************************************************************)
(* The two directions of a connection and the server's end of it on small  *)
(* instances: SocketInput, SocketWrite with two writers and three requests *)
(* and Acceptor with two connections and two starts.  One of them, "part", *)
(* takes steps in a behaviour: the others stay as they are at first, and   *)
(* the state spaces add up.                                                *)
(***************************************************************************)
EXTENDS SocketInput, TLC

CONSTANTS
    Writers, Keepers, Other,    \* of SocketWrite
    Conns                       \* of Acceptor

Kind(size, bad, piped, id, ignore) ==
    [size |-> size, bad |-> bad, piped |-> piped, id |-> id, ignore |-> ignore]

\* A pipelined request of two bytes, one byte that is sent to an overcrowded
\* socket and has no id, and a message that cannot be serialised.
MCKinds == {Kind(2, FALSE, TRUE, TRUE, FALSE), Kind(1, FALSE, TRUE, FALSE, TRUE), Kind(1, TRUE, FALSE, TRUE, FALSE)}

VARIABLES
    part,
    req, head, connected, ssl, w_failed, id_wait_list, unwritten, overcrowded, pipeline_q, w_pc, mine, w_cur, found,
    wrote, releasing, told, order, wire, swallowed,
    server, status, listened_fd, socket_map, acception, accepter, sock, idle, stopper, ids, owner,
    life, extra, a_failed, requests, attachment, fail_me, late, starts

Output == INSTANCE SocketWrite WITH
    Kinds <- MCKinds, MaxUnwritten <- 3, DATA_LIST_MAX <- 2, MaxRequests <- 3,
    pc <- w_pc, cur <- w_cur, failed <- w_failed
Servers == INSTANCE Acceptor WITH
    ForceStop <- TRUE, MaxRequests <- 1, MaxStarts <- 2, failed <- a_failed

ASSUME Output!SocketWriteAssumption

wvars == <<req, head, connected, ssl, w_failed, id_wait_list, unwritten, overcrowded, pipeline_q, w_pc, mine, w_cur,
           found, wrote, releasing, told, order, wire, swallowed>>
avars == <<server, status, listened_fd, socket_map, acception, accepter, sock, idle, stopper, ids, owner,
           life, extra, a_failed, requests, attachment, fail_me, late, starts>>
all == <<part, vars, wvars, avars>>

IsWrite == part = "write"
IsServer == part = "server"

\* The plain connection exists, the one with SSL has yet to be made.
SocketInit ==
    /\ part \in {"input", "write", "server"}
    /\ Init /\ Output!Init /\ Servers!Init
    /\ part = "input" \/ client
    /\ connected # ssl /\ (IsWrite \/ connected)

SocketNext ==
    \/ part = "input" /\ Next /\ UNCHANGED <<part, wvars, avars>>
    \/ IsWrite /\ Output!Next /\ UNCHANGED <<part, vars, avars>>
    \/ IsServer /\ Servers!Next /\ UNCHANGED <<part, vars, wvars>>

SocketSpec == SocketInit /\ [][SocketNext]_all

\* Conns has the values of Writers.
Symmetry == Permutations(Writers) \cup Permutations(Keepers)

-----------------------------------------------------------------------------
\* SocketWrite: one writer at a time.
OneWriter == IsWrite => Output!TypeOK /\ Output!SingleWriter

\* SocketWrite: until the socket fails, requests reach the wire whole and in the
\* order of the exchanges of _write_head, and so do their pipelined infos.
WireInOrder == IsWrite => Output!WireInOrder

\* SocketWrite: _unwritten_bytes counts what is neither written nor given up,
\* nor swallowed by SSL.
UnwrittenExact == IsWrite => Output!UnwrittenExact

\* SocketWrite: each request is written or its id told of an error once, and
\* nothing is left when nobody is inside a call.
ToldOnce == IsWrite => Output!ToldOnce

\* Acceptor: Stop reaches every connection, and nothing is left after Join.
ServerStops == IsServer => Servers!TypeOK /\ Servers!StopReachesAll /\ Servers!NothingAfterJoin
=============================================================================
