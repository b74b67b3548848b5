---------------------------- MODULE MCTimerThread ----------------------------
(* TimerThread on small instances. *)
EXTENDS TimerThread, TLC

Symmetry == Permutations(Slots) \cup Permutations(Threads \ {Self})
=============================================================================
