----------------------------- MODULE MCHandles -----------------------------
(***************************************************************************)
(* What is reached through ids that outlive it, on small instances:        *)
(* SocketRef, Token, and Fiber with its sleeps, waits and joins.  One of   *)
(* them, "part", takes steps in a behaviour: the others stay as they are   *)
(* at first, and the state spaces add up.                                  *)
(***************************************************************************)
EXTENDS SocketRef, Token, TLC

VARIABLES
    part,
    version, stop, interrupted, current_waiter, current_sleep, tid, f_ids, f_pc, ready, timer, adding, sleep_tid,
    queued, ipc, given, got, jpc, joined, owed, overwritten, checks, waits, nint

\* A fiber_entity with two fibers, of two sleeps and a wait, and two calls that
\* interrupt or stop one of them.
Entity == INSTANCE Fiber WITH
    Interrupters <- Threads, Joiners <- {"joiner"}, VerMod <- 64,
    MaxLives <- 2, MaxSleeps <- 2, MaxWaits <- 1, MaxInterrupts <- 2, pc <- f_pc, ids <- f_ids

ASSUME SocketRefAssumption

\* Sockets of an Acceptor, of a SocketMap without and with removal and health
\* check.
Accepted == {"address", "failed_as_well", "set_failed", "notify"}
Mapped == {"address", "set_failed", "notify", "map"}
Checked == {"address", "set_failed", "idle_release", "notify", "map", "remove", "health_check"}

MCUses == {Accepted, Mapped, Checked}

fvars == <<version, stop, interrupted, current_waiter, current_sleep, tid, f_ids, f_pc, ready, timer, adding, sleep_tid,
           queued, ipc, given, got, jpc, joined, owed, overwritten, checks, waits, nint>>
all == <<part, vars, tvars, fvars>>

IsFiber == part = "fiber"

\* Where the socket takes no step one kind of it is enough.
HandlesInit ==
    /\ part \in {"socket", "token", "fiber"}
    /\ Init /\ TokenInit /\ Entity!Init
    /\ part # "socket" => uses = Accepted

HandlesNext ==
    \/ part = "socket" /\ Next /\ UNCHANGED <<part, tvars, fvars>>
    \/ part = "token" /\ TokenNext /\ UNCHANGED <<part, vars, fvars>>
    \/ IsFiber /\ Entity!Next /\ UNCHANGED <<part, vars, tvars>>

HandlesSpec == HandlesInit /\ [][HandlesNext]_all

\* The parts share their threads, which keeps the group small: a part that
\* takes no step is as symmetric as its Init.
Symmetry == Permutations(Threads)

----------------------------------------------------------------------------
\* Fiber: a fiber is made runnable once for each time it blocks, is there as
\* long as an interrupter has its waiter, and wakes its joiners when it ends.
RunnableOnce == IsFiber => Entity!TypeOK /\ Entity!RunnableOnce /\ Entity!WaiterGoesBack /\ Entity!JoinersWoken

\* Fiber: an interruption is remembered, and cuts a sleep or a wait short.
InterruptKept == IsFiber => Entity!InterruptKept
============================================================================
