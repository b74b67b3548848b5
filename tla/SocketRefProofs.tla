-------------------------- MODULE SocketRefProofs --------------------------
(***************************************************************************)
(* Proofs about SocketRef for every number of threads, health checkers,    *)
(* lives and operations, and every kind of socket.                         *)
(*                                                                         *)
(* What makes addressing safe is that nref never falls below the units     *)
(* that somebody can still give back.  The inductive invariant therefore   *)
(* counts these units, and says which of the three states the slot is in:  *)
(* in the pool or on its way there, being created, or a socket.            *)
(* The second half of the module counts the units exactly: every unit of   *)
(* nref has an owner, a recycled socket leaves none behind, and each token *)
(* registered with NotifyOnFailed gets its error once.                     *)
(***************************************************************************)
EXTENDS SocketRef, FiniteSetTheorems, TLAPS

Types ==
    /\ ver \in Nat /\ this_id \in Nat /\ nref \in Nat /\ nfree \in {0, 1}
    /\ pc \in [Procs -> Labels] /\ ret \in [Procs -> Labels]
    /\ arg \in [Procs -> Nat] /\ seen \in [Procs -> Nat]
    /\ refs \in [Procs -> {0, 1}]
    /\ ids \subseteq Nat /\ hc_tasks \subseteq ids

(* Where a process surely has a SocketUniquePtr, and where it has none *)
WithRef == {"sf_error", "sf_reset", "release_extra", "deref_extra", "deref",
            "removed", "wait_reset", "reset", "check", "revive", "revived"}

WithoutRef == {"undo", "undo_failed", "undo_cas", "deref_cas", "recycle",
               "return_resource", "hc_sleep", "create", "insert"}

CheckerLabels == {"idle", "undo_failed", "undo_cas", "deref", "deref_cas", "recycle",
                  "return_resource", "hc_sleep", "wait_reset", "reset", "check", "revive", "revived"}

Undoing == {"undo", "undo_failed"}

(* A process that is about to recycle saw a version of this life or of an   *)
(* earlier one                                                              *)
Local(p) ==
    /\ pc[p] \in WithRef => refs[p] = 1
    /\ pc[p] \in WithoutRef => refs[p] = 0
    /\ pc[p] \in {"create", "insert", "removed"} => p = Map
    /\ pc[p] \in {"release_extra", "deref_extra"} =>
          p \notin Checkers /\ (ret[p] = "idle" \/ (ret[p] = "removed" /\ p = Map))
    /\ pc[p] \in Undoing \cup {"undo_cas", "deref", "deref_cas", "recycle", "return_resource"} =>
          ret[p] = "idle" \/ (ret[p] = "hc_sleep" /\ p \in Checkers)
    /\ p \in Checkers => /\ pc[p] \in CheckerLabels
                         /\ pc[p] = "idle" => refs[p] = 0
                         /\ pc[p] # "idle" => arg[p] \in ids
    /\ pc[p] = "hc_sleep" => p \in Checkers
    /\ pc[p] = "deref_cas" => /\ arg[p] % 2 = 0 /\ arg[p] <= this_id
                              /\ seen[p] \in {arg[p], arg[p] + 1}
    /\ pc[p] = "undo_cas" => seen[p] % 2 = 1 /\ seen[p] <= this_id + 1

Recycling == {p \in Procs : pc[p] \in {"recycle", "return_resource"}}

Dead == nfree > 0 \/ pc[Map] = "create" \/ Recycling # {}

OnePhase ==
    /\ \A p, q \in Recycling : p = q
    /\ Recycling # {} => nfree = 0 /\ pc[Map] # "create" /\ recycle_flag
    /\ pc[Map] = "create" => nfree = 0

Global ==
    /\ this_id % 2 = 0
    /\ \A v \in ids : v % 2 = 0 /\ v <= this_id
    /\ Dead => ver = this_id + 2 \/ (ver = this_id /\ ids = {})
    /\ ~Dead => ver = this_id \/ ver = this_id + 1
    /\ ids = {} => \A p \in Procs : pc[p] \in {"idle", "create", "insert"}
    /\ pc[Map] = "insert" => /\ ~Dead /\ ver = this_id /\ ~recycle_flag
                             /\ \A v \in ids : v < this_id

Held ==
    \A p \in Procs : refs[p] = 1 =>
        ~Dead /\ this_id \in ids /\ (p # Map => arg[p] = this_id)

Holders == {p \in Procs : refs[p] = 1}

Owing == {p \in Procs : pc[p] \in {"undo", "undo_failed", "deref_extra"}}

Reviving == {c \in Checkers : pc[c] = "revived"}

Extra == IF InUse /\ ~recycle_flag THEN 1 ELSE 0

Units == Cardinality(Holders) + Cardinality(Owing) + Cardinality(Reviving) + Extra

(* Without health checks the count is exact, no CHECK fails, and a version  *)
(* that Address saw can only have turned odd                                *)
Unchecked ==
    /\ ~check_failed /\ hc_tasks = {}
    /\ \A c \in Checkers : pc[c] = "idle"
    /\ \A p \in Procs : pc[p] \in Undoing =>
          ver = seen[p] \/ (ver = seen[p] + 1 /\ ver % 2 = 1)

Counted ==
    /\ nref >= Units
    /\ "health_check" \notin uses => nref = Units /\ Unchecked

Phases == (\A p \in Procs : Local(p)) /\ OnePhase /\ Global /\ Held

IInv == Types /\ Phases /\ Counted

----------------------------------------------------------------------------
(* Only process p moves *)
Moves(p) ==
    \A q \in Procs \ {p} : /\ pc'[q] = pc[q] /\ ret'[q] = ret[q] /\ refs'[q] = refs[q]
                           /\ arg'[q] = arg[q] /\ seen'[q] = seen[q]

LEMMA Parity ==
    ASSUME NEW n \in Nat
    PROVE  /\ n % 2 = 0 => (n + 1) % 2 = 1 /\ (n + 2) % 2 = 0
           /\ n % 2 = 1 => (n + 1) % 2 = 0
           /\ n % 2 = 0 \/ n % 2 = 1
  OBVIOUS

(* Two finite sets that agree except on one element *)
LEMMA CardStep ==
    ASSUME NEW S, NEW T, NEW p, IsFiniteSet(S), IsFiniteSet(T), S \ {p} = T \ {p}
    PROVE  /\ Cardinality(S) \in Nat /\ Cardinality(T) \in Nat
           /\ (p \in S <=> p \in T) => Cardinality(T) = Cardinality(S)
           /\ p \in S /\ p \notin T => Cardinality(T) = Cardinality(S) - 1
           /\ p \notin S /\ p \in T => Cardinality(T) = Cardinality(S) + 1
<1>1. Cardinality(S) \in Nat /\ Cardinality(T) \in Nat
  BY FS_CardinalityType, Zenon
<1>2. ASSUME p \in S <=> p \in T PROVE Cardinality(T) = Cardinality(S)
  <2>1. S = T
    BY <1>2
  <2> QED  BY <2>1, Zenon
<1>3. ASSUME p \in S, p \notin T PROVE Cardinality(T) = Cardinality(S) - 1
  <2>1. T = S \ {p}
    BY <1>3, Zenon
  <2> QED  BY <1>3, <2>1, FS_RemoveElement, Zenon
<1>4. ASSUME p \notin S, p \in T PROVE Cardinality(T) = Cardinality(S) + 1
  <2>1. S = T \ {p}
    BY <1>4, Zenon
  <2>2. Cardinality(S) = Cardinality(T) - 1
    BY <1>4, <2>1, FS_RemoveElement, Zenon
  <2> QED  BY <1>1, <2>2
<1> QED  BY <1>1, <1>2, <1>3, <1>4, Zenon

LEMMA SetsFinite ==
    ASSUME IsFiniteSet(Procs)
    PROVE  /\ IsFiniteSet(Holders) /\ IsFiniteSet(Owing) /\ IsFiniteSet(Reviving)
           /\ IsFiniteSet(Holders') /\ IsFiniteSet(Owing') /\ IsFiniteSet(Reviving')
           /\ IsFiniteSet(Recycling)
<1>1. /\ Holders \subseteq Procs /\ Owing \subseteq Procs /\ Reviving \subseteq Procs
      /\ Holders' \subseteq Procs /\ Owing' \subseteq Procs /\ Reviving' \subseteq Procs
      /\ Recycling \subseteq Procs
  BY Zenon DEF Holders, Owing, Reviving, Recycling, Procs
<1> QED  BY <1>1, FS_Subset, Zenon

(* The units that p alone accounts for *)
Own(p) == refs[p] + (IF pc[p] \in {"undo", "undo_failed", "deref_extra"} THEN 1 ELSE 0)
                  + (IF p \in Checkers /\ pc[p] = "revived" THEN 1 ELSE 0)

(* What p accounts for at its places, and what the slot does *)
LEMMA OwnIs ==
    ASSUME NEW p
    PROVE  /\ refs[p] = 0 /\ pc[p] \notin {"undo", "undo_failed", "deref_extra", "revived"} => Own(p) = 0
           /\ refs[p] = 1 /\ pc[p] \notin {"undo", "undo_failed", "deref_extra", "revived"} => Own(p) = 1
           /\ refs[p] = 0 /\ pc[p] \in {"undo", "undo_failed", "deref_extra"} => Own(p) = 1
           /\ refs[p] = 1 /\ pc[p] \in {"undo", "undo_failed", "deref_extra"} => Own(p) = 2
           /\ refs[p] = 1 /\ pc[p] = "revived" /\ p \in Checkers => Own(p) = 2
           /\ refs[p] = 1 => Own(p) \in {1, 2}
           /\ refs'[p] = 0 /\ pc'[p] \notin {"undo", "undo_failed", "deref_extra", "revived"} => Own(p)' = 0
           /\ refs'[p] = 1 /\ pc'[p] \notin {"undo", "undo_failed", "deref_extra", "revived"} => Own(p)' = 1
           /\ refs'[p] = 0 /\ pc'[p] \in {"undo", "undo_failed", "deref_extra"} => Own(p)' = 1
           /\ refs'[p] = 1 /\ pc'[p] \in {"undo", "undo_failed", "deref_extra"} => Own(p)' = 2
           /\ refs'[p] = 1 /\ pc'[p] = "revived" /\ p \in Checkers => Own(p)' = 2
  BY DEF Own

LEMMA ExtraIs ==
    /\ Extra \in {0, 1} /\ Extra' \in {0, 1} /\ Extra \in Nat /\ Extra' \in Nat
    /\ InUse /\ ~recycle_flag => Extra = 1
    /\ ~InUse \/ recycle_flag => Extra = 0
    /\ InUse' /\ ~recycle_flag' => Extra' = 1
    /\ ~InUse' \/ recycle_flag' => Extra' = 0
    /\ recycle_flag' = recycle_flag /\ (InUse' <=> InUse) => Extra' = Extra
  BY DEF Extra

(* Units changes by what p, and the slot, account for *)
LEMMA UnitsStep ==
    ASSUME IsFiniteSet(Procs), Types, Types', NEW p \in Procs, Moves(p)
    PROVE  /\ Units \in Nat /\ Units' \in Nat /\ Own(p) \in Nat /\ Own(p)' \in Nat
           /\ Extra \in {0, 1} /\ Extra' \in {0, 1}
           /\ Units' + Own(p) + Extra = Units + Own(p)' + Extra'
<1>1. /\ Holders \ {p} = Holders' \ {p}
      /\ Owing \ {p} = Owing' \ {p}
      /\ Reviving \ {p} = Reviving' \ {p}
  BY Zenon DEF Holders, Owing, Reviving, Moves, Procs
<1> DEFINE h == Holders  h1 == Holders'  o == Owing  o1 == Owing'  r == Reviving  r1 == Reviving'
<1>2. /\ p \in h <=> refs[p] = 1
      /\ p \in h1 <=> refs'[p] = 1
      /\ refs[p] \in {0, 1} /\ refs'[p] \in {0, 1}
      /\ Own(p) = refs[p] + (IF p \in o THEN 1 ELSE 0) + (IF p \in r THEN 1 ELSE 0)
      /\ Own(p)' = refs'[p] + (IF p \in o1 THEN 1 ELSE 0) + (IF p \in r1 THEN 1 ELSE 0)
  BY Zenon DEF Holders, Owing, Reviving, Own, Types
<1>3. /\ IsFiniteSet(h) /\ IsFiniteSet(h1) /\ h \ {p} = h1 \ {p}
      /\ IsFiniteSet(o) /\ IsFiniteSet(o1) /\ o \ {p} = o1 \ {p}
      /\ IsFiniteSet(r) /\ IsFiniteSet(r1) /\ r \ {p} = r1 \ {p}
  BY <1>1, SetsFinite, Zenon
<1> DEFINE e == Extra  e1 == Extra'
<1>4. e \in {0, 1} /\ e1 \in {0, 1}
  BY Zenon DEF Extra
<1>5. /\ Units = Cardinality(h) + Cardinality(o) + Cardinality(r) + e
      /\ Units' = Cardinality(h1) + Cardinality(o1) + Cardinality(r1) + e1
  BY Zenon DEF Units
<1> HIDE DEF h, h1, o, o1, r, r1, e, e1
<1>6. /\ Cardinality(h) \in Nat /\ Cardinality(h1) \in Nat
      /\ (p \in h <=> p \in h1) => Cardinality(h1) = Cardinality(h)
      /\ p \in h /\ p \notin h1 => Cardinality(h1) = Cardinality(h) - 1
      /\ p \notin h /\ p \in h1 => Cardinality(h1) = Cardinality(h) + 1
  BY <1>3, CardStep, Zenon
<1>7. /\ Cardinality(o) \in Nat /\ Cardinality(o1) \in Nat
      /\ (p \in o <=> p \in o1) => Cardinality(o1) = Cardinality(o)
      /\ p \in o /\ p \notin o1 => Cardinality(o1) = Cardinality(o) - 1
      /\ p \notin o /\ p \in o1 => Cardinality(o1) = Cardinality(o) + 1
  BY <1>3, CardStep, Zenon
<1>8. /\ Cardinality(r) \in Nat /\ Cardinality(r1) \in Nat
      /\ (p \in r <=> p \in r1) => Cardinality(r1) = Cardinality(r)
      /\ p \in r /\ p \notin r1 => Cardinality(r1) = Cardinality(r) - 1
      /\ p \notin r /\ p \in r1 => Cardinality(r1) = Cardinality(r) + 1
  BY <1>3, CardStep, Zenon
<1>9. /\ Units \in Nat /\ Units' \in Nat /\ Own(p) \in Nat /\ Own(p)' \in Nat
      /\ Units' + Own(p) + e = Units + Own(p)' + e1
  BY <1>2, <1>4, <1>5, <1>6, <1>7, <1>8
<1> QED  BY <1>4, <1>9, Zenon DEF e, e1

(* What a process accounts for is in nref; where nothing is, nobody holds   *)
(* or owes anything                                                         *)
LEMMA UnitsFacts ==
    ASSUME IsFiniteSet(Procs), Types, Counted
    PROVE  /\ Extra \in {0, 1}
           /\ \A p \in Procs : Own(p) \in Nat /\ Own(p) + Extra <= nref
           /\ nref = 0 => /\ Extra = 0
                          /\ \A p \in Procs : /\ refs[p] = 0
                                              /\ pc[p] \notin Undoing \cup {"deref_extra"}
<1>1. /\ Cardinality(Holders) \in Nat /\ Cardinality(Owing) \in Nat
      /\ Cardinality(Reviving) \in Nat
  BY SetsFinite, FS_CardinalityType, Zenon
<1>2. Extra \in {0, 1}
  BY Zenon DEF Extra
<1>3. \A S : IsFiniteSet(S) /\ Cardinality(S) = 0 => S = {}
  BY FS_EmptySet, Zenon
<1>4. /\ Holders # {} => Cardinality(Holders) # 0
      /\ Owing # {} => Cardinality(Owing) # 0
      /\ Reviving # {} => Cardinality(Reviving) # 0
  BY <1>3, SetsFinite, Zenon
<1>5. ASSUME NEW p \in Procs
      PROVE  /\ Own(p) \in Nat /\ Own(p) + Extra <= nref
             /\ Own(p) = 0 => refs[p] = 0 /\ pc[p] \notin Undoing \cup {"deref_extra"}
  <2> DEFINE o == IF pc[p] \in {"undo", "undo_failed", "deref_extra"} THEN 1 ELSE 0
             r == IF p \in Checkers /\ pc[p] = "revived" THEN 1 ELSE 0
  <2>1. /\ refs[p] = 1 => Holders # {}
        /\ o = 1 => Owing # {}
        /\ r = 1 => Reviving # {}
    BY DEF Holders, Owing, Reviving
  <2>2. refs[p] \in {0, 1} /\ o \in {0, 1} /\ r \in {0, 1} /\ Own(p) = refs[p] + o + r
    BY Zenon DEF Types, Own
  <2>3. o = 0 => pc[p] \notin Undoing \cup {"deref_extra"}
    BY DEF Undoing
  <2> HIDE DEF o, r
  <2>4. /\ refs[p] <= Cardinality(Holders)
        /\ o <= Cardinality(Owing)
        /\ r <= Cardinality(Reviving)
    BY <1>1, <1>4, <2>1, <2>2
  <2>5. nref \in Nat /\ nref >= Units
    BY Zenon DEF Counted, Types
  <2>6. Own(p) \in Nat /\ Own(p) + Extra <= nref
    BY <1>1, <1>2, <2>2, <2>4, <2>5 DEF Units
  <2>7. Own(p) = 0 => refs[p] = 0 /\ o = 0
    BY <2>2
  <2> QED  BY <2>3, <2>6, <2>7, Zenon
<1>6. ASSUME nref = 0 PROVE Extra = 0 /\ \A p \in Procs : Own(p) = 0
  <2>1. ASSUME NEW p \in Procs PROVE Extra = 0 /\ Own(p) = 0
    BY <1>2, <1>5, <1>6
  <2>2. Map \in Procs
    BY Zenon DEF Procs
  <2> QED  BY <2>1, <2>2, Zenon
<1> QED  BY <1>2, <1>5, <1>6, Zenon

(* A step that changes nref by what p and the slot account for *)
LEMMA CountedStep ==
    ASSUME IsFiniteSet(Procs), Types, Types', Counted, NEW p \in Procs, Moves(p), uses' = uses,
           nref' + Own(p) + Extra = nref + Own(p)' + Extra',
           "health_check" \notin uses => Unchecked'
    PROVE  Counted'
<1>1. nref \in Nat /\ nref' \in Nat
  BY Zenon DEF Types
<1>2. /\ nref' >= Units'
      /\ nref = Units => nref' = Units'
  BY <1>1, UnitsStep DEF Counted
<1> QED  BY <1>2, Zenon DEF Counted

----------------------------------------------------------------------------
(* A step by which the socket stays the socket it is, or the slot stays in  *)
(* the pool, and no version changes                                         *)
LEMMA SamePhase ==
    ASSUME Types, Types', Phases, NEW p \in Procs, Moves(p), Local(p)',
           UNCHANGED <<ver, this_id, nfree, ids, recycle_flag>>,
           pc[p] \notin {"create", "insert", "recycle", "return_resource"},
           pc'[p] \notin {"create", "insert", "recycle", "return_resource"},
           refs'[p] = 1 => ~Dead /\ this_id \in ids /\ (p # Map => arg'[p] = this_id),
           ids # {}
    PROVE  Phases' /\ (Dead' <=> Dead) /\ (InUse' <=> InUse)
<1>1. Recycling' = Recycling
  BY Zenon DEF Recycling, Moves
<1>2. /\ pc'[Map] = "create" <=> pc[Map] = "create"
      /\ pc'[Map] = "insert" <=> pc[Map] = "insert"
  BY Zenon DEF Moves, Procs
<1>3. (Dead' <=> Dead) /\ (InUse' <=> InUse)
  BY <1>1, <1>2, Zenon DEF Dead, InUse
<1>4. \A q \in Procs : Local(q)'
  <2>1. ASSUME NEW q \in Procs, q # p PROVE Local(q)'
    BY <2>1, Zenon DEF Phases, Local, Moves
  <2> QED  BY <2>1, Zenon
<1>5. OnePhase'
  BY <1>1, <1>2, Zenon DEF Phases, OnePhase
<1>6. Held'
  BY <1>3, Zenon DEF Phases, Held, Moves
<1>7. Global'
  BY <1>2, <1>3, Zenon DEF Phases, Global
<1> QED  BY <1>3, <1>4, <1>5, <1>6, <1>7, Zenon DEF Phases

(* The version stays: what p saw is what it is *)
LEMMA UncheckedStep ==
    ASSUME Unchecked, NEW p \in Procs, Moves(p), ver' = ver, hc_tasks' = {}, ~check_failed',
           p \notin Checkers, pc'[p] \in Undoing => seen'[p] = ver
    PROVE  Unchecked'
<1>1. \A c \in Checkers : pc'[c] = "idle"
  BY Zenon DEF Unchecked, Moves, Procs
<1>2. ASSUME NEW q \in Procs, pc'[q] \in Undoing
      PROVE  ver' = seen'[q] \/ (ver' = seen'[q] + 1 /\ ver' % 2 = 1)
  <2>1. CASE q = p
    BY <1>2, <2>1, Zenon
  <2>2. CASE q # p
    BY <1>2, <2>2, Zenon DEF Unchecked, Moves
  <2> QED  BY <2>1, <2>2, Zenon
<1> QED  BY <1>1, <1>2, Zenon DEF Unchecked

(* A step that touches no reference *)
LEMMA Walk ==
    ASSUME SocketRefAssumption, IInv, Types', NEW p \in Procs, Moves(p), Local(p)',
           UNCHANGED <<uses, ver, nref, this_id, nfree, ids, recycle_flag>>,
           refs'[p] = refs[p], arg'[p] = arg[p],
           "health_check" \notin uses =>
               hc_tasks' = hc_tasks /\ p \notin Checkers /\ (check_failed' <=> check_failed),
           pc[p] \notin {"create", "insert", "recycle", "return_resource",
                         "undo", "undo_failed", "deref_extra", "revived"},
           pc'[p] \notin {"create", "insert", "recycle", "return_resource",
                          "undo", "undo_failed", "deref_extra", "revived"},
           ids # {}
    PROVE  IInv'
<1>1. refs'[p] = 1 => ~Dead /\ this_id \in ids /\ (p # Map => arg'[p] = this_id)
  BY Zenon DEF IInv, Phases, Held
<1>2. Phases' /\ (InUse' <=> InUse)
  <2>1. UNCHANGED <<ver, this_id, nfree, ids, recycle_flag>>
    BY Zenon
  <2>2. Types /\ Phases
    BY Zenon DEF IInv
  <2>3. /\ pc[p] \notin {"create", "insert", "recycle", "return_resource"}
        /\ pc'[p] \notin {"create", "insert", "recycle", "return_resource"}
    BY Zenon
  <2> QED  BY <1>1, <2>1, <2>2, <2>3, SamePhase, Zenon
<1>3. Own(p)' = Own(p) /\ Extra' = Extra
  BY <1>2, Zenon DEF Own, Extra
<1>4. nref' + Own(p) + Extra = nref + Own(p)' + Extra'
  BY <1>3, Zenon
<1>5. ASSUME "health_check" \notin uses PROVE Unchecked'
  <2>1. Unchecked
    BY <1>5, Zenon DEF IInv, Counted
  <2>2. hc_tasks' = {} /\ ~check_failed' /\ ver' = ver /\ pc'[p] \notin Undoing
    BY <1>5, <2>1, Zenon DEF Unchecked, Undoing
  <2> QED  BY <1>5, <2>1, <2>2, UncheckedStep, Zenon
<1>6. Counted'
  BY <1>4, <1>5, CountedStep, Zenon DEF IInv, SocketRefAssumption
<1> QED  BY <1>2, <1>6, Zenon DEF IInv

(* The steps of a process that keeps its reference and walks on *)
Strolls(p) ==
    \/ Release(p) \/ SetFailedError(p) \/ SetFailedResetList(p)
    \/ p \in Threads /\ (ReleaseReferenceIfIdle(p) \/ NotifyOnFailed(p) \/ (SetFailed(p) /\ Failed))
    \/ p = Map /\ (Remove \/ ReplaceFailed \/ Removed)
    \/ p \in Checkers /\ (WaitAndReset(p) \/ Reset(p) \/ CheckHealth(p) \/ (Revive(p) /\ nref <= 1))
    \/ ReleaseAdditionalReference(p) /\ recycle_flag

LEMMA StrollShape ==
    ASSUME SocketRefAssumption, IInv, NEW p \in Procs, Strolls(p)
    PROVE  /\ UNCHANGED <<ver, nref, this_id, nfree, ids, recycle_flag, refs, arg, seen>>
           /\ refs[p] = 1
           /\ \/ pc' = pc /\ ret' = ret
              \/ /\ pc' = [pc EXCEPT ![p] = "deref"] /\ ret' = [ret EXCEPT ![p] = "idle"]
              \/ /\ pc' = [pc EXCEPT ![p] = "deref"] /\ ret' = [ret EXCEPT ![p] = "hc_sleep"]
                 /\ p \in Checkers
              \/ /\ pc' = [pc EXCEPT ![p] = "release_extra"] /\ ret' = [ret EXCEPT ![p] = "idle"]
                 /\ p \notin Checkers
              \/ /\ pc' = [pc EXCEPT ![p] = "release_extra"] /\ ret' = [ret EXCEPT ![p] = "removed"]
                 /\ p = Map
              \/ /\ pc' = [pc EXCEPT ![p] = "sf_reset"] /\ ret' = ret /\ p \notin Checkers
              \/ /\ pc' = [pc EXCEPT ![p] = "reset"] /\ ret' = ret
              \/ /\ pc' = [pc EXCEPT ![p] = "check"] /\ ret' = ret
              \/ /\ pc' = [pc EXCEPT ![p] = "revive"] /\ ret' = ret
              \/ /\ pc' = [pc EXCEPT ![p] = ret[p]] /\ ret' = ret /\ pc[p] = "release_extra"
           /\ pc[p] \in {"idle", "sf_error", "sf_reset", "release_extra", "removed",
                         "wait_reset", "reset", "check", "revive"}
<1>1. refs[p] \in {0, 1} /\ Local(p)
  BY Zenon DEF IInv, Types, Phases
<1>2. p \in Threads \/ p = Map => p \notin Checkers
  BY Zenon DEF SocketRefAssumption
<1>3. CASE Release(p)
  BY <1>1, <1>2, <1>3 DEF Release, Call, Goto, socket, vref
<1>4. CASE SetFailedError(p)
  BY <1>1, <1>4, Zenon DEF SetFailedError, Goto, socket, vref, locals, Local, WithRef, CheckerLabels
<1>5. CASE SetFailedResetList(p)
  BY <1>1, <1>5, Zenon DEF SetFailedResetList, Call, Goto, socket, vref, Local, WithRef, CheckerLabels
<1>6. CASE p \in Threads /\ ReleaseReferenceIfIdle(p)
  BY <1>1, <1>2, <1>6 DEF ReleaseReferenceIfIdle, StartOp, Call, Goto, socket, vref
<1>7. CASE p \in Threads /\ NotifyOnFailed(p)
  BY <1>1, <1>7 DEF NotifyOnFailed, StartOp, vref, locals
<1>8. CASE SetFailed(p) /\ Failed
  BY <1>1, <1>8 DEF SetFailed, StartOp, vref, locals
<1>9. CASE p = Map /\ (Remove \/ ReplaceFailed \/ Removed)
  BY <1>1, <1>2, <1>9 DEF Remove, ReplaceFailed, Removed, Call, Goto, socket, vref, Local, WithRef
<1>10. CASE WaitAndReset(p)
  BY <1>1, <1>10, Zenon DEF WaitAndReset, Call, Goto, socket, vref, Local, WithRef
<1>11. CASE p \in Checkers /\ (Reset(p) \/ CheckHealth(p))
  BY <1>1, <1>11, Zenon DEF Reset, CheckHealth, Call, Goto, socket, vref, Local, WithRef
<1>12. CASE Revive(p) /\ nref <= 1
  BY <1>1, <1>12, Zenon DEF Revive, Call, Goto, vref, Local, WithRef
<1>13. CASE ReleaseAdditionalReference(p) /\ recycle_flag
  <2>1. recycle_flag' = recycle_flag
    BY <1>13, Zenon DEF ReleaseAdditionalReference, IInv
  <2> QED  BY <1>1, <1>13, <2>1, Zenon DEF ReleaseAdditionalReference, Return, Goto, vref, Local, WithRef
<1> QED  BY <1>3, <1>4, <1>5, <1>6, <1>7, <1>8, <1>9, <1>10, <1>11, <1>12, <1>13, Zenon DEF Strolls

LEMMA StrollStep ==
    ASSUME SocketRefAssumption, IInv, NEW p \in Procs, Strolls(p), uses' = uses
    PROVE  IInv'
<1>1. /\ UNCHANGED <<ver, nref, this_id, nfree, ids, recycle_flag, refs, arg, seen>>
      /\ refs[p] = 1
  BY StrollShape, Zenon
<1>2. Local(p) /\ Types
  BY Zenon DEF IInv, Phases
<1>3. this_id \in ids
  BY <1>1, Zenon DEF IInv, Phases, Held
<1>4. hc_tasks' = hc_tasks \/ ("health_check" \in uses /\ hc_tasks' = hc_tasks \cup {this_id})
  BY Zenon DEF Strolls, Release, SetFailedError, SetFailedResetList, ReleaseReferenceIfIdle, NotifyOnFailed,
         SetFailed, Remove, ReplaceFailed, Removed, WaitAndReset, Reset, CheckHealth, Revive,
         ReleaseAdditionalReference
<1>5. p \in Checkers \/ (check_failed' <=> check_failed)
  BY Zenon DEF Strolls, Release, SetFailedError, SetFailedResetList, ReleaseReferenceIfIdle, NotifyOnFailed,
         SetFailed, Remove, ReplaceFailed, Removed, WaitAndReset, Reset, CheckHealth, Revive,
         ReleaseAdditionalReference, history
<1>6. pc[p] \in {"idle", "sf_error", "sf_reset", "release_extra", "removed", "wait_reset",
                 "reset", "check", "revive"}
  BY StrollShape, Zenon
<1>7. p \in Checkers => pc[p] # "idle"
  BY <1>1, <1>2 DEF Local
<1>8. Types' /\ Moves(p) /\ Local(p)'
      /\ pc'[p] \in {"idle", "deref", "release_extra", "sf_reset", "reset", "check", "revive", "removed",
                      "sf_error", "wait_reset"}
  <2>1. ASSUME NEW l \in Labels, NEW r \in Labels, pc' = [pc EXCEPT ![p] = l],
               ret' = [ret EXCEPT ![p] = r]
        PROVE  Types' /\ Moves(p) /\ pc'[p] = l /\ ret'[p] = r
    <3>1. hc_tasks' \subseteq ids'
      BY <1>1, <1>2, <1>3, <1>4, Zenon DEF Types
    <3>2. pc' \in [Procs -> Labels] /\ ret' \in [Procs -> Labels] /\ pc'[p] = l /\ ret'[p] = r
      BY <1>2, <2>1, Zenon DEF Types
    <3>3. Moves(p)
      BY <1>1, <1>2, <2>1, Zenon DEF Moves, Types
    <3> QED  BY <1>1, <1>2, <3>1, <3>2, <3>3, Zenon DEF Types
  <2>2. /\ ret[p] \in Labels /\ pc[p] \in Labels
        /\ ret = [ret EXCEPT ![p] = ret[p]] /\ pc = [pc EXCEPT ![p] = pc[p]]
        /\ {"idle", "deref", "hc_sleep", "release_extra", "removed", "sf_reset", "reset", "check", "revive"}
              \subseteq Labels
    BY <1>2, Zenon DEF Types, Labels
  <2>3. PICK l \in Labels, r \in Labels :
           /\ pc' = [pc EXCEPT ![p] = l] /\ ret' = [ret EXCEPT ![p] = r]
           /\ \/ l = pc[p] /\ r = ret[p]
              \/ l = "deref" /\ r = "idle"
              \/ l = "deref" /\ r = "hc_sleep" /\ p \in Checkers
              \/ l = "release_extra" /\ r = "idle" /\ p \notin Checkers
              \/ l = "release_extra" /\ r = "removed" /\ p = Map
              \/ l = "sf_reset" /\ p \notin Checkers
              \/ l = "reset" \/ l = "check" \/ l = "revive"
              \/ l = ret[p] /\ pc[p] = "release_extra"
    BY <2>2, StrollShape, Zenon
  <2>4. Types' /\ Moves(p) /\ pc'[p] = l /\ ret'[p] = r
    BY <2>1, <2>3, Zenon
  <2>5. Local(p)'
    <3>1. Map \notin Checkers
      BY Zenon DEF SocketRefAssumption
    <3>2. CASE l = pc[p] /\ r = ret[p]
      BY <1>1, <1>2, <2>4, <3>2, Zenon DEF Local
    <3>3. refs'[p] = 1 /\ (p \in Checkers => arg'[p] \in ids')
      BY <1>1, <1>2, <1>7, Zenon DEF Local
    <3>4. CASE l = ret[p] /\ pc[p] = "release_extra"
      BY <1>2, <2>4, <3>1, <3>3, <3>4, Zenon DEF Local, WithRef, WithoutRef, CheckerLabels, Undoing
    <3>5. CASE l = "deref" /\ (r = "idle" \/ (r = "hc_sleep" /\ p \in Checkers))
      BY <2>4, <3>3, <3>5, Zenon DEF Local, WithRef, WithoutRef, CheckerLabels, Undoing
    <3>6. CASE l = "release_extra" /\ p \notin Checkers /\ (r = "idle" \/ (r = "removed" /\ p = Map))
      BY <2>4, <3>3, <3>6, Zenon DEF Local, WithRef, WithoutRef, CheckerLabels, Undoing
    <3>7. CASE (l = "sf_reset" /\ p \notin Checkers) \/ l \in {"reset", "check", "revive"}
      BY <2>4, <3>3, <3>7, Zenon DEF Local, WithRef, WithoutRef, CheckerLabels, Undoing
    <3>8. \/ l = pc[p] /\ r = ret[p]
          \/ l = ret[p] /\ pc[p] = "release_extra"
          \/ l = "deref" /\ (r = "idle" \/ (r = "hc_sleep" /\ p \in Checkers))
          \/ l = "release_extra" /\ p \notin Checkers /\ (r = "idle" \/ (r = "removed" /\ p = Map))
          \/ (l = "sf_reset" /\ p \notin Checkers) \/ l \in {"reset", "check", "revive"}
      BY <2>3, <3>1, Zenon
    <3> QED  BY <3>2, <3>4, <3>5, <3>6, <3>7, <3>8, Zenon
  <2>6. pc'[p] \in {"idle", "deref", "release_extra", "sf_reset", "reset", "check", "revive", "removed",
                    "sf_error", "wait_reset"}
    BY <1>2, <1>6, <2>3, <2>4, Zenon DEF Local
  <2> QED  BY <2>4, <2>5, <2>6, Zenon
<1>9. "health_check" \notin uses =>
         hc_tasks' = hc_tasks /\ p \notin Checkers /\ (check_failed' <=> check_failed)
  BY <1>4, <1>5, <1>7, Zenon DEF IInv, Counted, Unchecked
<1> QED  BY <1>1, <1>3, <1>6, <1>8, <1>9, Walk, Zenon

----------------------------------------------------------------------------
(* An id whose version matches is the id of the socket in the slot *)
LEMMA MatchIsCurrent ==
    ASSUME IInv, NEW v \in ids, ver \in {v, v + 1}
    PROVE  ~Dead /\ v = this_id
<1>1. /\ ver \in Nat /\ this_id \in Nat /\ v \in Nat /\ this_id % 2 = 0
      /\ v % 2 = 0 /\ v <= this_id
      /\ Dead => ver = this_id + 2
      /\ ~Dead => ver = this_id \/ ver = this_id + 1
  BY Zenon DEF IInv, Types, Phases, Global
<1>2. ver = v \/ ver = v + 1
  BY Zenon
<1>3. ~Dead
  BY <1>1, <1>2
<1>4. (v + 1) % 2 = 1 /\ (this_id + 1) % 2 = 1
  BY <1>1, Parity, Zenon
<1> QED  BY <1>1, <1>2, <1>3, <1>4

(* fetch_add: what every call of AddRef leaves alone *)
Adds(p, v, accepted) ==
    /\ AddRef(p, v, accepted) /\ p # Map /\ v \in ids /\ accepted \in {{v}, {v, v + 1}}
    /\ UNCHANGED <<ver, this_id, recycle_flag, nfree, ids, uses>>
    /\ hc_tasks' \subseteq hc_tasks
    /\ refs[p] = 0 /\ pc[p] \in {"idle", "hc_sleep"}
    /\ "health_check" \notin uses => p \notin Checkers /\ (check_failed' <=> check_failed)

LEMMA AddsShape ==
    ASSUME SocketRefAssumption, IInv, NEW p \in Procs, NEW v, NEW accepted, Adds(p, v, accepted),
           NEW l \in Labels, NEW r \in Labels,
           pc' = [pc EXCEPT ![p] = l], ret' = [ret EXCEPT ![p] = r]
    PROVE  /\ Types' /\ Moves(p) /\ pc'[p] = l /\ ret'[p] = r
           /\ nref' = nref + 1 /\ arg'[p] = v /\ seen'[p] = ver
           /\ refs'[p] = IF ver \in accepted THEN 1 ELSE 0
<1>1. Types /\ v \in Nat
  BY Zenon DEF IInv, Adds, Types
<1>2. pc' \in [Procs -> Labels] /\ ret' \in [Procs -> Labels] /\ pc'[p] = l /\ ret'[p] = r
  BY <1>1, Zenon DEF Types
<1>3. /\ arg' \in [Procs -> Nat] /\ seen' \in [Procs -> Nat] /\ arg'[p] = v /\ seen'[p] = ver
      /\ nref' = nref + 1 /\ nref' \in Nat
  BY <1>1 DEF Types, Adds, AddRef
<1>4. /\ refs' \in [Procs -> {0, 1}]
      /\ refs'[p] = IF ver \in accepted THEN 1 ELSE 0
  BY <1>1 DEF Types, Adds, AddRef
<1>5. Moves(p)
  BY <1>1, Zenon DEF Moves, Types, Adds, AddRef
<1>6. /\ ver' \in Nat /\ this_id' \in Nat /\ nfree' \in {0, 1} /\ ids' \subseteq Nat
      /\ hc_tasks' \subseteq ids'
  BY <1>1, Zenon DEF Types, Adds
<1> QED  BY <1>2, <1>3, <1>4, <1>5, <1>6, Zenon DEF Types

LEMMA AddsAccepted ==
    ASSUME SocketRefAssumption, IInv, NEW p \in Procs, NEW v, NEW accepted, Adds(p, v, accepted),
           NEW l \in {"idle", "wait_reset", "check"}, p \in Checkers <=> l # "idle",
           NEW r \in Labels, pc' = [pc EXCEPT ![p] = l], ret' = [ret EXCEPT ![p] = r],
           ver \in accepted
    PROVE  IInv'
<1>1. Types /\ Phases /\ Local(p)
  BY Zenon DEF IInv, Phases
<1>2. l \in Labels
  BY Zenon DEF Labels
<1>3. /\ Types' /\ Moves(p) /\ pc'[p] = l
      /\ nref' = nref + 1 /\ arg'[p] = v /\ seen'[p] = ver /\ refs'[p] = 1
  <2>1. /\ Types' /\ Moves(p) /\ pc'[p] = l /\ nref' = nref + 1
        /\ arg'[p] = v /\ seen'[p] = ver /\ refs'[p] = IF ver \in accepted THEN 1 ELSE 0
    BY <1>2, AddsShape, Zenon
  <2> QED  BY <2>1, Zenon
<1>4. /\ UNCHANGED <<ver, this_id, nfree, ids, recycle_flag, uses>> /\ v \in ids
      /\ pc[p] \in {"idle", "hc_sleep"} /\ refs[p] = 0 /\ p # Map
  BY Zenon DEF Adds
<1>5. ~Dead /\ v = this_id
  <2>1. ver \in {v, v + 1}
    BY Zenon DEF Adds
  <2> QED  BY <1>4, <2>1, MatchIsCurrent, Zenon
<1>6. Local(p)'
  BY <1>3, <1>4, Zenon DEF Local, WithRef, WithoutRef, CheckerLabels, Undoing
<1>7. Phases' /\ (InUse' <=> InUse)
  <2>1. ids # {} /\ (refs'[p] = 1 => ~Dead /\ this_id \in ids /\ (p # Map => arg'[p] = this_id))
    BY <1>3, <1>4, <1>5, Zenon
  <2>2. /\ pc[p] \notin {"create", "insert", "recycle", "return_resource"}
        /\ pc'[p] \notin {"create", "insert", "recycle", "return_resource"}
    BY <1>3, <1>4, Zenon
  <2> QED  BY <1>1, <1>3, <1>4, <1>6, <2>1, <2>2, SamePhase, Zenon
<1>8. Own(p)' = 1 /\ Own(p) = 0 /\ Extra' = Extra /\ Extra \in Nat
  BY <1>3, <1>4, <1>7, OwnIs, ExtraIs, Zenon
<1>9. nref' + Own(p) + Extra = nref + Own(p)' + Extra'
  BY <1>1, <1>3, <1>8 DEF Types
<1>10. ASSUME "health_check" \notin uses PROVE Unchecked'
  <2>1. Unchecked
    BY <1>10, Zenon DEF IInv, Counted
  <2>2. hc_tasks' = {} /\ ~check_failed' /\ pc'[p] \notin Undoing /\ p \notin Checkers
    BY <1>3, <1>10, <2>1, Zenon DEF Unchecked, Undoing, Adds
  <2> QED  BY <1>3, <1>4, <2>1, <2>2, UncheckedStep, Zenon
<1>11. Counted'
  BY <1>3, <1>4, <1>9, <1>10, CountedStep, Zenon DEF IInv, SocketRefAssumption
<1> QED  BY <1>3, <1>7, <1>11, Zenon DEF IInv

LEMMA AddsRejected ==
    ASSUME SocketRefAssumption, IInv, NEW p \in Procs, NEW v, NEW accepted, Adds(p, v, accepted),
           NEW l \in Undoing, p \in Checkers => l = "undo_failed",
           pc' = [pc EXCEPT ![p] = l], ret' = [ret EXCEPT ![p] = "idle"], ver \notin accepted
    PROVE  IInv'
<1>1. Types /\ Phases /\ Local(p)
  BY Zenon DEF IInv, Phases
<1>2. l \in Labels /\ "idle" \in Labels
  BY Zenon DEF Undoing, Labels
<1>3. /\ Types' /\ Moves(p) /\ pc'[p] = l /\ ret'[p] = "idle"
      /\ nref' = nref + 1 /\ arg'[p] = v /\ seen'[p] = ver /\ refs'[p] = 0
  BY <1>2, AddsShape, Zenon
<1>4. /\ UNCHANGED <<ver, this_id, nfree, ids, recycle_flag, uses>> /\ v \in ids
      /\ pc[p] \in {"idle", "hc_sleep"} /\ refs[p] = 0 /\ p # Map
  BY Zenon DEF Adds
<1>5. Local(p)'
  BY <1>3, <1>4, Zenon DEF Local, WithRef, WithoutRef, CheckerLabels, Undoing
<1>6. Phases' /\ (InUse' <=> InUse)
  <2>1. ids # {} /\ (refs'[p] = 1 => ~Dead /\ this_id \in ids /\ (p # Map => arg'[p] = this_id))
    BY <1>3, <1>4
  <2>2. /\ pc[p] \notin {"create", "insert", "recycle", "return_resource"}
        /\ pc'[p] \notin {"create", "insert", "recycle", "return_resource"}
    BY <1>3, <1>4, Zenon DEF Undoing
  <2> QED  BY <1>1, <1>3, <1>4, <1>5, <2>1, <2>2, SamePhase, Zenon
<1>7. Own(p)' = 1 /\ Own(p) = 0 /\ Extra' = Extra /\ Extra \in Nat
  BY <1>3, <1>4, <1>6, OwnIs, ExtraIs, Zenon DEF Undoing
<1>8. nref' + Own(p) + Extra = nref + Own(p)' + Extra'
  BY <1>1, <1>3, <1>7 DEF Types
<1>9. ASSUME "health_check" \notin uses PROVE Unchecked'
  <2>1. Unchecked
    BY <1>9, Zenon DEF IInv, Counted
  <2>2. hc_tasks' = {} /\ ~check_failed' /\ p \notin Checkers
    BY <1>9, <2>1, Zenon DEF Unchecked, Adds
  <2> QED  BY <1>3, <1>4, <2>1, <2>2, UncheckedStep, Zenon
<1>10. Counted'
  BY <1>3, <1>4, <1>8, <1>9, CountedStep, Zenon DEF IInv, SocketRefAssumption
<1> QED  BY <1>3, <1>6, <1>10, Zenon DEF IInv

LEMMA AddressStep ==
    ASSUME SocketRefAssumption, IInv, NEW p \in Threads, NEW v \in ids, uses' = uses,
           Address(p, v) \/ AddressFailedAsWell(p, v)
    PROVE  IInv'
<1>1. /\ p \in Procs /\ p # Map /\ p \notin Checkers /\ Types
      /\ "idle" \in Labels /\ ret[p] \in Labels /\ ret = [ret EXCEPT ![p] = ret[p]]
      /\ pc[p] = "idle" => pc = [pc EXCEPT ![p] = "idle"]
  BY Zenon DEF SocketRefAssumption, Procs, IInv, Types, Labels
<1>2. CASE Address(p, v)
  <2>1. Adds(p, v, {v})
    BY <1>1, <1>2, Zenon DEF Adds, Address, StartOp, history
  <2>2. CASE ver = v
    <3>1. pc' = [pc EXCEPT ![p] = "idle"] /\ ret' = [ret EXCEPT ![p] = ret[p]]
      BY <1>1, <1>2, <2>2, Zenon DEF Address, StartOp
    <3> QED  BY <1>1, <2>1, <2>2, <3>1, AddsAccepted, Zenon
  <2>3. CASE ver # v
    <3>1. pc' = [pc EXCEPT ![p] = "undo"] /\ ret' = [ret EXCEPT ![p] = "idle"]
      BY <1>2, <2>3, Zenon DEF Address, Call, Goto
    <3>2. "undo" \in Undoing /\ ver \notin {v}
      BY <2>3, Zenon DEF Undoing
    <3> QED  BY <1>1, <2>1, <3>1, <3>2, AddsRejected, Zenon
  <2> QED  BY <2>2, <2>3, Zenon
<1>3. CASE AddressFailedAsWell(p, v)
  <2>1. Adds(p, v, {v, v + 1})
    BY <1>1, <1>3, Zenon DEF Adds, AddressFailedAsWell, StartOp, history
  <2>2. CASE ver \in {v, v + 1}
    <3>1. pc' = [pc EXCEPT ![p] = "idle"] /\ ret' = [ret EXCEPT ![p] = ret[p]]
      BY <1>1, <1>3, <2>2, Zenon DEF AddressFailedAsWell, StartOp
    <3> QED  BY <1>1, <2>1, <2>2, <3>1, AddsAccepted, Zenon
  <2>3. CASE ver \notin {v, v + 1}
    <3>1. pc' = [pc EXCEPT ![p] = "undo_failed"] /\ ret' = [ret EXCEPT ![p] = "idle"]
      BY <1>3, <2>3, Zenon DEF AddressFailedAsWell, Call, Goto
    <3>2. "undo_failed" \in Undoing
      BY Zenon DEF Undoing
    <3> QED  BY <1>1, <2>1, <2>3, <3>1, <3>2, AddsRejected, Zenon
  <2> QED  BY <2>2, <2>3, Zenon
<1> QED  BY <1>2, <1>3, Zenon

LEMMA TriggerStep ==
    ASSUME SocketRefAssumption, IInv, NEW c \in Checkers, uses' = uses,
           HcTrigger(c) \/ HcTriggerAgain(c)
    PROVE  IInv'
<1>1. /\ c \in Procs /\ c # Map /\ Types
      /\ ret[c] \in Labels /\ ret = [ret EXCEPT ![c] = ret[c]] /\ Local(c)
  BY Zenon DEF SocketRefAssumption, Procs, IInv, Types, Labels, Phases
<1>2. "health_check" \in uses
  <2>1. ASSUME "health_check" \notin uses PROVE FALSE
    <3>1. hc_tasks = {} /\ pc[c] = "idle"
      BY <2>1, Zenon DEF IInv, Counted, Unchecked
    <3> QED  BY <3>1, Zenon DEF HcTrigger, HcTriggerAgain
  <2> QED  BY <2>1, Zenon
<1>3. "undo_failed" \in Undoing
  BY Zenon DEF Undoing
<1>4. refs[c] = 0
  BY <1>1, Zenon DEF HcTrigger, HcTriggerAgain, Local, WithoutRef
<1>5. CASE HcTrigger(c)
  <2>1. PICK v \in hc_tasks :
          /\ AddRef(c, v, {v, v + 1})
          /\ IF ver \in {v, v + 1} THEN Goto(c, "wait_reset") /\ UNCHANGED ret
                                   ELSE Call(c, "undo_failed", "idle")
          /\ hc_tasks' = hc_tasks \ {v}
    BY <1>5, Zenon DEF HcTrigger
  <2>2. Adds(c, v, {v, v + 1})
    BY <1>1, <1>2, <1>4, <1>5, <2>1, Zenon DEF Adds, HcTrigger, Types
  <2>3. CASE ver \in {v, v + 1}
    <3>1. pc' = [pc EXCEPT ![c] = "wait_reset"] /\ ret' = [ret EXCEPT ![c] = ret[c]]
      BY <1>1, <2>1, <2>3, Zenon DEF Goto
    <3> QED  BY <1>1, <2>2, <2>3, <3>1, AddsAccepted, Zenon
  <2>4. CASE ver \notin {v, v + 1}
    <3>1. pc' = [pc EXCEPT ![c] = "undo_failed"] /\ ret' = [ret EXCEPT ![c] = "idle"]
      BY <2>1, <2>4, Zenon DEF Call, Goto
    <3> QED  BY <1>1, <1>3, <2>2, <2>4, <3>1, AddsRejected, Zenon
  <2> QED  BY <2>3, <2>4, Zenon
<1>6. CASE HcTriggerAgain(c)
  <2> DEFINE v == arg[c]
  <2>1. v \in ids
    BY <1>1, <1>6, Zenon DEF Local, HcTriggerAgain
  <2>2. Adds(c, v, {v, v + 1})
    BY <1>1, <1>2, <1>4, <1>6, <2>1, Zenon DEF Adds, HcTriggerAgain
  <2>3. CASE ver \in {v, v + 1}
    <3>1. pc' = [pc EXCEPT ![c] = "check"] /\ ret' = [ret EXCEPT ![c] = ret[c]]
      BY <1>1, <1>6, <2>3, Zenon DEF HcTriggerAgain, Goto
    <3> HIDE DEF v
    <3> QED  BY <1>1, <2>2, <2>3, <3>1, AddsAccepted, Zenon
  <2>4. CASE ver \notin {v, v + 1}
    <3>1. pc' = [pc EXCEPT ![c] = "undo_failed"] /\ ret' = [ret EXCEPT ![c] = "idle"]
      BY <1>6, <2>4, Zenon DEF HcTriggerAgain, Call, Goto
    <3> HIDE DEF v
    <3> QED  BY <1>1, <1>3, <2>2, <2>4, <3>1, AddsRejected, Zenon
  <2> QED  BY <2>3, <2>4, Zenon
<1> QED  BY <1>5, <1>6, Zenon

----------------------------------------------------------------------------
(* fetch_sub *)

LEMMA UndoStep ==
    ASSUME SocketRefAssumption, IInv, NEW p \in Procs, Undo(p), uses' = uses
    PROVE  IInv'
<1>1. Types /\ Phases /\ Local(p) /\ Counted /\ IsFiniteSet(Procs)
  BY Zenon DEF IInv, Phases, SocketRefAssumption
<1>2. /\ UNCHANGED <<ver, this_id, nfree, ids, recycle_flag, uses>>
      /\ refs' = refs /\ arg' = arg /\ ret' = ret /\ hc_tasks' = hc_tasks
      /\ nref' = nref - 1 /\ seen' = [seen EXCEPT ![p] = ver]
      /\ pc[p] \in {"undo", "undo_failed"}
  BY Zenon DEF Undo, Return
<1>3. refs[p] = 0 /\ (ret[p] = "idle" \/ (ret[p] = "hc_sleep" /\ p \in Checkers))
  BY <1>1, <1>2, Zenon DEF Local, WithoutRef, Undoing
<1>4. Own(p) = 1 /\ nref >= 1 /\ nref \in Nat
  <2>1. Own(p) = 1
    BY <1>2, <1>3, OwnIs, Zenon
  <2>2. Extra \in {0, 1} /\ Own(p) + Extra <= nref
    BY <1>1, UnitsFacts, Zenon
  <2> QED  BY <1>1, <2>1, <2>2 DEF Types
<1>5. PICK l \in Labels : /\ pc' = [pc EXCEPT ![p] = l]
                          /\ l = ret[p] \/ (l = "undo_cas" /\ ver % 2 = 1)
  <2>1. "undo_cas" \in Labels /\ ret[p] \in Labels
    BY <1>1, Zenon DEF Labels, Types
  <2> QED  BY <2>1, Zenon DEF Undo, UndoMayRecycle, Return, Goto
<1>6. Types' /\ Moves(p) /\ pc'[p] = l /\ seen'[p] = ver
  <2>1. pc' \in [Procs -> Labels] /\ seen' \in [Procs -> Nat] /\ pc'[p] = l /\ seen'[p] = ver
    BY <1>1, <1>2, <1>5, Zenon DEF Types
  <2>2. Moves(p)
    BY <1>1, <1>2, <1>5, Zenon DEF Types, Moves
  <2> QED  BY <1>1, <1>2, <1>4, <2>1, <2>2 DEF Types
<1>7. ver % 2 = 1 => ver <= this_id + 1
  <2>1. (this_id + 2) % 2 = 0 /\ ver \in Nat /\ this_id \in Nat
    BY <1>1, Parity, Zenon DEF Types, Phases, Global
  <2> QED  BY <1>1, <2>1 DEF Phases, Global
<1>8. Local(p)'
  <2>1. p \in Checkers => arg[p] \in ids
    BY <1>1, <1>2, Zenon DEF Local
  <2> QED  BY <1>2, <1>3, <1>5, <1>6, <1>7, <2>1, Zenon DEF Local, WithRef, WithoutRef, CheckerLabels, Undoing
<1>9. Phases' /\ (InUse' <=> InUse)
  <2>1. refs'[p] = 0 /\ ids # {}
    BY <1>1, <1>2, <1>3, Zenon DEF Phases, Global
  <2>2. /\ pc[p] \notin {"create", "insert", "recycle", "return_resource"}
        /\ pc'[p] \notin {"create", "insert", "recycle", "return_resource"}
    BY <1>2, <1>3, <1>5, <1>6, Zenon
  <2>3. refs'[p] = 1 => ~Dead /\ this_id \in ids /\ (p # Map => arg'[p] = this_id)
    BY <2>1
  <2> QED  BY <1>1, <1>2, <1>6, <1>8, <2>1, <2>2, <2>3, SamePhase, Zenon
<1>10. Own(p)' = 0 /\ Extra' = Extra /\ Extra \in Nat
  BY <1>2, <1>3, <1>5, <1>6, <1>9, OwnIs, ExtraIs, Zenon
<1>11. nref' + Own(p) + Extra = nref + Own(p)' + Extra'
  BY <1>2, <1>4, <1>10
<1>12. ASSUME "health_check" \notin uses PROVE Unchecked'
  <2>1. Unchecked
    BY <1>1, <1>12, Zenon DEF Counted
  <2>2. ver = seen[p] \/ (ver = seen[p] + 1 /\ ver % 2 = 1)
    BY <1>2, <2>1, Zenon DEF Unchecked, Undoing
  <2>3. hc_tasks' = {} /\ p \notin Checkers /\ pc'[p] \notin Undoing
    BY <1>2, <1>3, <1>5, <1>6, <2>1, Zenon DEF Unchecked, Undoing
  <2>4. ~check_failed'
    BY <1>4, <2>1, <2>2 DEF Undo, UndoMayRecycle, Unchecked
  <2> QED  BY <1>2, <1>6, <2>1, <2>3, <2>4, UncheckedStep, Zenon
<1>13. Counted'
  BY <1>1, <1>6, <1>11, <1>12, CountedStep, Zenon
<1> QED  BY <1>6, <1>9, <1>13, Zenon DEF IInv

LEMMA DereferenceStep ==
    ASSUME SocketRefAssumption, IInv, NEW p \in Procs, Dereference(p), uses' = uses
    PROVE  IInv'
<1>1. Types /\ Phases /\ Local(p) /\ Counted /\ IsFiniteSet(Procs)
  BY Zenon DEF IInv, Phases, SocketRefAssumption
<1>2. /\ UNCHANGED <<ver, this_id, nfree, ids, recycle_flag, uses>>
      /\ ret' = ret /\ hc_tasks' = hc_tasks
      /\ nref' = nref - 1 /\ seen' = [seen EXCEPT ![p] = ver] /\ arg' = [arg EXCEPT ![p] = this_id]
      /\ refs' = IF pc[p] = "deref" THEN [refs EXCEPT ![p] = @ - 1] ELSE refs
      /\ pc[p] \in {"deref", "deref_extra"}
  BY Zenon DEF Dereference, Return
<1>3. /\ refs[p] = 1
      /\ \/ ret[p] = "idle"
         \/ ret[p] = "removed" /\ p = Map /\ pc[p] = "deref_extra"
         \/ ret[p] = "hc_sleep" /\ p \in Checkers /\ pc[p] = "deref"
      /\ pc[p] = "deref_extra" => p \notin Checkers
  BY <1>1, <1>2, Zenon DEF Local, WithRef, Undoing
<1>4. ~Dead /\ this_id \in ids /\ ver \in {this_id, this_id + 1} /\ (p # Map => arg[p] = this_id)
  BY <1>1, <1>3, Zenon DEF Phases, Held, Global
<1>5. /\ Own(p) = (IF pc[p] = "deref" THEN 1 ELSE 2) /\ nref >= Own(p) /\ nref \in Nat
  <2>1. Own(p) = IF pc[p] = "deref" THEN 1 ELSE 2
    BY <1>2, <1>3, OwnIs, Zenon
  <2>2. Extra \in {0, 1} /\ Own(p) + Extra <= nref
    BY <1>1, UnitsFacts, Zenon
  <2> QED  BY <1>1, <2>1, <2>2 DEF Types
<1>6. PICK l \in Labels : /\ pc' = [pc EXCEPT ![p] = l]
                          /\ l = ret[p] \/ (l = "deref_cas" /\ nref = 1)
  <2>1. "deref_cas" \in Labels /\ ret[p] \in Labels
    BY <1>1, Zenon DEF Labels, Types
  <2> QED  BY <2>1, Zenon DEF Dereference, Return, Goto
<1>7. /\ Types' /\ Moves(p) /\ pc'[p] = l /\ seen'[p] = ver /\ arg'[p] = this_id
      /\ refs'[p] = IF pc[p] = "deref" THEN 0 ELSE 1
  <2>1. /\ pc' \in [Procs -> Labels] /\ seen' \in [Procs -> Nat] /\ pc'[p] = l /\ seen'[p] = ver
        /\ arg' \in [Procs -> Nat] /\ arg'[p] = this_id
    BY <1>1, <1>2, <1>6, Zenon DEF Types
  <2>2. refs' \in [Procs -> {0, 1}] /\ refs'[p] = IF pc[p] = "deref" THEN 0 ELSE 1
    BY <1>1, <1>2, <1>3 DEF Types
  <2>3. Moves(p)
    BY <1>1, <1>2, <1>6, Zenon DEF Types, Moves
  <2>4. nref' \in Nat
    BY <1>2, <1>5
  <2> QED  BY <1>1, <1>2, <2>1, <2>2, <2>3, <2>4, Zenon DEF Types
<1>8. l = "deref_cas" => pc[p] = "deref"
  BY <1>2, <1>3, <1>5, <1>6
<1>9. Local(p)'
  <2>1. this_id % 2 = 0 /\ this_id \in Nat
    BY <1>1, Zenon DEF Phases, Global, Types
  <2> QED  BY <1>2, <1>3, <1>4, <1>6, <1>7, <1>8, <2>1
             DEF Local, WithRef, WithoutRef, CheckerLabels, Undoing
<1>10. Phases' /\ (InUse' <=> InUse)
  <2>1. ids # {} /\ (refs'[p] = 1 => ~Dead /\ this_id \in ids /\ (p # Map => arg'[p] = this_id))
    BY <1>4, <1>7, Zenon
  <2>2. /\ pc[p] \notin {"create", "insert", "recycle", "return_resource"}
        /\ pc'[p] \notin {"create", "insert", "recycle", "return_resource"}
    BY <1>2, <1>3, <1>6, <1>7, Zenon
  <2> QED  BY <1>1, <1>2, <1>7, <1>9, <2>1, <2>2, SamePhase, Zenon
<1>11. Own(p)' = (IF pc[p] = "deref" THEN 0 ELSE 1) /\ Extra' = Extra /\ Extra \in Nat
  BY <1>2, <1>3, <1>6, <1>7, <1>10, OwnIs, ExtraIs, Zenon
<1>12. nref' + Own(p) + Extra = nref + Own(p)' + Extra'
  BY <1>2, <1>5, <1>11
<1>13. ASSUME "health_check" \notin uses PROVE Unchecked'
  <2>1. Unchecked
    BY <1>1, <1>13, Zenon DEF Counted
  <2>2. hc_tasks' = {} /\ p \notin Checkers /\ pc'[p] \notin Undoing
    BY <1>2, <1>3, <1>6, <1>7, <2>1, Zenon DEF Unchecked, Undoing
  <2>3. ~check_failed'
    <3>1. ~(nref < 1) /\ ~(ver \notin {this_id, this_id + 1}) /\ ~check_failed
      BY <1>4, <1>5, <2>1 DEF Unchecked
    <3>2. check_failed' = (check_failed \/ nref < 1
                           \/ (nref = 1 /\ ver \notin {this_id, this_id + 1}))
      BY Zenon DEF Dereference
    <3> QED  BY <3>1, <3>2, Zenon
  <2> QED  BY <1>2, <1>7, <2>1, <2>2, <2>3, UncheckedStep, Zenon
<1>14. Counted'
  BY <1>1, <1>7, <1>12, <1>13, CountedStep, Zenon
<1> QED  BY <1>7, <1>10, <1>14, Zenon DEF IInv

----------------------------------------------------------------------------
(* Steps after which the slot is in another phase, or has another version *)

LEMMA OthersStay ==
    ASSUME Types, Types', Phases, NEW p \in Procs, Moves(p), ids \subseteq ids', this_id <= this_id'
    PROVE  \A q \in Procs \ {p} : Local(q)'
<1> SUFFICES ASSUME NEW q \in Procs \ {p} PROVE Local(q)'
  BY Zenon
<1>1. /\ pc'[q] = pc[q] /\ ret'[q] = ret[q] /\ refs'[q] = refs[q]
      /\ arg'[q] = arg[q] /\ seen'[q] = seen[q] /\ Local(q)
  BY Zenon DEF Moves, Phases
<1>2. /\ arg[q] \in Nat /\ seen[q] \in Nat /\ this_id \in Nat /\ this_id' \in Nat
  BY Zenon DEF Types
<1>3. /\ arg[q] <= this_id => arg[q] <= this_id'
      /\ seen[q] <= this_id + 1 => seen[q] <= this_id' + 1
  BY <1>2
<1>4. arg[q] \in ids => arg[q] \in ids'
  BY Zenon
<1> QED  BY <1>1, <1>3, <1>4, Zenon DEF Local

(* The compare_exchange succeeds only for a socket nobody refers to any     *)
(* more, and makes its version that of the next life                        *)
LEMMA ClaimStep ==
    ASSUME SocketRefAssumption, IInv, NEW p \in Procs, UndoCas(p) \/ DerefCas(p), uses' = uses
    PROVE  IInv'
<1>1. Types /\ Phases /\ Local(p) /\ Counted /\ IsFiniteSet(Procs)
  BY Zenon DEF IInv, Phases, SocketRefAssumption
<1>2. /\ UNCHANGED <<nref, this_id, nfree, ids, recycle_flag, uses, ret, arg, seen, refs, hc_tasks,
                     check_failed>>
      /\ pc[p] \in {"undo_cas", "deref_cas"}
  BY Zenon DEF UndoCas, DerefCas, Claim, locals, history
<1>3. refs[p] = 0 /\ (ret[p] = "idle" \/ (ret[p] = "hc_sleep" /\ p \in Checkers))
  BY <1>1, <1>2, Zenon DEF Local, WithoutRef, Undoing
<1>4. p \in Checkers => arg[p] \in ids
  BY <1>1, <1>2, Zenon DEF Local
<1>5. ids # {}
  BY <1>1, <1>2, Zenon DEF Phases, Global
<1>6. ret[p] \in Labels /\ "recycle" \in Labels
  BY <1>1, Zenon DEF Types, Labels
<1>7. CASE vref # <<seen[p], 0>>
  <2>1. ver' = ver /\ pc' = [pc EXCEPT ![p] = ret[p]]
    BY <1>7, Zenon DEF UndoCas, DerefCas, Claim, Goto
  <2>2. Types' /\ pc'[p] = ret[p] /\ Moves(p)
    <3>1. pc' \in [Procs -> Labels] /\ pc'[p] = ret[p] /\ Moves(p)
      BY <1>1, <1>2, <1>6, <2>1, Zenon DEF Types, Moves
    <3> QED  BY <1>1, <1>2, <2>1, <3>1, Zenon DEF Types
  <2>3. Local(p)'
    BY <1>2, <1>3, <1>4, <2>2, Zenon DEF Local, WithRef, WithoutRef, CheckerLabels, Undoing
  <2>4. "health_check" \notin uses => p \notin Checkers
    BY <1>1, <1>2, Zenon DEF Counted, Unchecked
  <2> QED  BY <1>2, <1>3, <1>5, <2>1, <2>2, <2>3, <2>4, Walk, Zenon
<1>8. CASE vref = <<seen[p], 0>>
  <2>1. nref = 0 /\ ver = seen[p] /\ pc' = [pc EXCEPT ![p] = "recycle"]
    BY <1>8, Zenon DEF UndoCas, DerefCas, Claim, Goto, vref
  <2>2. /\ Extra = 0
        /\ \A q \in Procs : refs[q] = 0 /\ pc[q] \notin Undoing \cup {"deref_extra"}
    BY <1>1, <2>1, UnitsFacts, Zenon
  <2>3. ~Dead /\ ver' = this_id + 2
    <3>1. /\ ver \in Nat /\ this_id \in Nat /\ arg[p] \in Nat /\ this_id % 2 = 0
          /\ Dead => ver = this_id + 2
          /\ ~Dead => ver = this_id \/ ver = this_id + 1
      BY <1>1, <1>5, Zenon DEF Types, Phases, Global
    <3>2. (this_id + 1) % 2 = 1 /\ (this_id + 2) % 2 = 0
      BY <3>1, Parity, Zenon
    <3>3. CASE pc[p] = "undo_cas"
      <4>1. ver % 2 = 1 /\ ver' = ver + 1
        BY <1>1, <1>8, <2>1, <3>3, Zenon DEF Local, UndoCas, DerefCas, Claim
      <4> QED  BY <3>1, <3>2, <4>1
    <3>4. CASE pc[p] = "deref_cas"
      <4>1. /\ arg[p] % 2 = 0 /\ arg[p] <= this_id /\ (ver = arg[p] \/ ver = arg[p] + 1)
            /\ ver' = arg[p] + 2
        BY <1>1, <1>8, <2>1, <3>4, Zenon DEF Local, UndoCas, DerefCas, Claim
      <4>2. (arg[p] + 1) % 2 = 1
        BY <3>1, <4>1, Parity, Zenon
      <4> QED  BY <3>1, <3>2, <4>1, <4>2
    <3> QED  BY <1>2, <3>3, <3>4, Zenon
  <2>4. Types' /\ pc'[p] = "recycle" /\ Moves(p)
    <3>1. pc' \in [Procs -> Labels] /\ pc'[p] = "recycle" /\ Moves(p)
      BY <1>1, <1>2, <1>6, <2>1, Zenon DEF Types, Moves
    <3>2. ver' \in Nat
      BY <1>1, <2>3 DEF Types
    <3> QED  BY <1>1, <1>2, <3>1, <3>2, Zenon DEF Types
  <2>5. recycle_flag /\ pc[Map] # "insert" /\ pc[Map] # "create" /\ nfree = 0 /\ Recycling = {}
    <3>1. pc[Map] # "create" /\ nfree = 0 /\ Recycling = {}
      BY <1>1, <2>3 DEF Dead, Types
    <3>2. recycle_flag
      BY <2>2, <3>1 DEF Extra, InUse
    <3> QED  BY <1>1, <3>1, <3>2, Zenon DEF Phases, Global
  <2>6. pc'[Map] # "insert" /\ pc'[Map] # "create"
    BY <2>4, <2>5, Zenon DEF Moves, Procs
  <2>7. Recycling' = {p}
    BY <2>4, <2>5, Zenon DEF Recycling, Moves
  <2>8. Dead' /\ OnePhase'
    BY <1>2, <2>5, <2>6, <2>7, Zenon DEF Dead, OnePhase
  <2>9. Held'
    BY <1>2, <2>2 DEF Held
  <2>10. Global'
    <3>1. ver' = this_id' + 2 /\ ids' # {}
      BY <1>2, <1>5, <2>3, Zenon
    <3>2. this_id' % 2 = 0 /\ (\A v \in ids' : v % 2 = 0 /\ v <= this_id')
      BY <1>1, <1>2, Zenon DEF Phases, Global
    <3> QED  BY <2>6, <2>8, <3>1, <3>2, Zenon DEF Global
  <2>11. \A q \in Procs : Local(q)'
    <3>1. Local(p)'
      BY <1>2, <1>3, <1>4, <2>4, Zenon DEF Local, WithRef, WithoutRef, CheckerLabels, Undoing
    <3>2. ids \subseteq ids' /\ this_id <= this_id'
      BY <1>1, <1>2 DEF Types
    <3> QED  BY <1>1, <2>4, <3>1, <3>2, OthersStay, Zenon
  <2>12. Phases'
    BY <2>8, <2>9, <2>10, <2>11, Zenon DEF Phases
  <2>13. Own(p)' = 0 /\ Own(p) = 0 /\ Extra = 0 /\ Extra' = 0
    BY <1>2, <1>3, <2>2, <2>4, <2>5, OwnIs, ExtraIs, Zenon
  <2>14. ASSUME "health_check" \notin uses PROVE Unchecked'
    <3>1. Unchecked
      BY <1>1, <2>14, Zenon DEF Counted
    <3>2. hc_tasks' = {} /\ ~check_failed' /\ p \notin Checkers
      BY <1>2, <3>1, Zenon DEF Unchecked
    <3>3. \A c \in Checkers : pc'[c] = "idle"
      BY <2>4, <3>1, <3>2, Zenon DEF Unchecked, Moves, Procs
    <3>4. \A q \in Procs : pc'[q] \notin Undoing
      BY <2>2, <2>4, Zenon DEF Moves, Undoing
    <3> QED  BY <3>2, <3>3, <3>4, Zenon DEF Unchecked
  <2>15. nref' + Own(p) + Extra = nref + Own(p)' + Extra'
    BY <1>2, <2>13, Zenon
  <2>16. Counted'
    BY <1>1, <2>4, <2>14, <2>15, CountedStep, Zenon
  <2> QED  BY <2>4, <2>12, <2>16, Zenon DEF IInv
<1> QED  BY <1>7, <1>8, Zenon

LEMMA RecycleStep ==
    ASSUME SocketRefAssumption, IInv, NEW p \in Procs, OnRecycle(p) \/ ReturnResource(p), uses' = uses
    PROVE  IInv'
<1>1. Types /\ Phases /\ Local(p) /\ Counted /\ IsFiniteSet(Procs)
  BY Zenon DEF IInv, Phases, SocketRefAssumption
<1>2. /\ UNCHANGED <<ver, nref, this_id, ids, recycle_flag, uses, ret, arg, seen, refs, hc_tasks,
                     check_failed>>
      /\ pc[p] \in {"recycle", "return_resource"}
  BY Zenon DEF OnRecycle, ReturnResource, Return, locals, history, vref
<1>3. refs[p] = 0 /\ (ret[p] = "idle" \/ (ret[p] = "hc_sleep" /\ p \in Checkers))
  BY <1>1, <1>2, Zenon DEF Local, WithoutRef, Undoing
<1>4. p \in Checkers => arg[p] \in ids
  BY <1>1, <1>2, Zenon DEF Local
<1>5. /\ Recycling = {p} /\ Dead /\ nfree = 0 /\ pc[Map] # "create" /\ recycle_flag
      /\ pc[Map] # "insert" /\ ids # {}
  <2>1. p \in Recycling
    BY <1>2, Zenon DEF Recycling
  <2>2. Recycling = {p} /\ Dead /\ nfree = 0 /\ pc[Map] # "create" /\ recycle_flag
    BY <1>1, <2>1, Zenon DEF Phases, OnePhase, Dead
  <2> QED  BY <1>1, <1>2, <2>2, Zenon DEF Phases, Global
<1>6. PICK l \in Labels : /\ pc' = [pc EXCEPT ![p] = l]
                          /\ \/ l = "return_resource" /\ nfree' = 0
                             \/ l = ret[p] /\ nfree' = 1
  <2>1. "return_resource" \in Labels /\ ret[p] \in Labels
    BY <1>1, Zenon DEF Labels, Types
  <2>2. CASE OnRecycle(p)
    <3>1. pc' = [pc EXCEPT ![p] = "return_resource"] /\ nfree' = 0
      BY <1>5, <2>2, Zenon DEF OnRecycle, Goto
    <3> QED  BY <2>1, <3>1, Zenon
  <2>3. CASE ReturnResource(p)
    <3>1. pc' = [pc EXCEPT ![p] = ret[p]] /\ nfree' = 1
      BY <1>5, <2>3 DEF ReturnResource, Return, Goto
    <3> QED  BY <2>1, <3>1, Zenon
  <2> QED  BY <2>2, <2>3, Zenon
<1>7. Types' /\ pc'[p] = l /\ Moves(p)
  <2>1. pc' \in [Procs -> Labels] /\ pc'[p] = l /\ Moves(p) /\ nfree' \in {0, 1}
    BY <1>1, <1>2, <1>6, Zenon DEF Types, Moves
  <2> QED  BY <1>1, <1>2, <2>1, Zenon DEF Types
<1>8. /\ pc'[Map] # "create" /\ pc'[Map] # "insert"
      /\ Recycling' = (IF l = "return_resource" THEN {p} ELSE {})
  <2>1. pc'[Map] # "create" /\ pc'[Map] # "insert"
    BY <1>3, <1>5, <1>6, <1>7, Zenon DEF Moves, Procs
  <2>2. \A q \in Procs : q # p => pc'[q] \notin {"recycle", "return_resource"}
    BY <1>5, <1>7, Zenon DEF Moves, Recycling
  <2>3. l # "return_resource" => l # "recycle"
    BY <1>3, <1>6, Zenon
  <2> QED  BY <1>7, <2>1, <2>2, <2>3, Zenon DEF Recycling
<1>9. Dead' /\ OnePhase'
  BY <1>2, <1>3, <1>5, <1>6, <1>8 DEF Dead, OnePhase
<1>10. Held'
  BY <1>1, <1>2, <1>5, Zenon DEF Held, Phases
<1>11. Global'
  BY <1>1, <1>2, <1>5, <1>8, <1>9, Zenon DEF Global, Phases
<1>12. \A q \in Procs : Local(q)'
  <2>1. Local(p)'
    BY <1>2, <1>3, <1>4, <1>6, <1>7, Zenon DEF Local, WithRef, WithoutRef, CheckerLabels, Undoing
  <2>2. ids \subseteq ids' /\ this_id <= this_id'
    BY <1>1, <1>2 DEF Types
  <2> QED  BY <1>1, <1>7, <2>1, <2>2, OthersStay, Zenon
<1>13. Phases'
  BY <1>9, <1>10, <1>11, <1>12, Zenon DEF Phases
<1>14. Own(p)' = 0 /\ Own(p) = 0 /\ Extra = 0 /\ Extra' = 0
  BY <1>2, <1>3, <1>5, <1>6, <1>7, OwnIs, ExtraIs, Zenon
<1>15. ASSUME "health_check" \notin uses PROVE Unchecked'
  <2>1. Unchecked
    BY <1>1, <1>15, Zenon DEF Counted
  <2>2. hc_tasks' = {} /\ ~check_failed' /\ p \notin Checkers /\ pc'[p] \notin Undoing
    BY <1>2, <1>3, <1>6, <1>7, <2>1, Zenon DEF Unchecked, Undoing
  <2> QED  BY <1>2, <1>7, <2>1, <2>2, UncheckedStep, Zenon
<1>16. nref' + Own(p) + Extra = nref + Own(p)' + Extra'
  BY <1>2, <1>14, Zenon
<1>17. Counted'
  BY <1>1, <1>7, <1>15, <1>16, CountedStep, Zenon
<1> QED  BY <1>7, <1>13, <1>17, Zenon DEF IInv

(* The holder of a reference changes the version or the flag of its socket *)
LEMMA HolderStep ==
    ASSUME SocketRefAssumption, IInv, NEW p \in Procs, refs[p] = 1,
           UNCHANGED <<this_id, nfree, ids, uses, refs, arg, seen>>, Types', Moves(p), Local(p)',
           ver' = this_id \/ ver' = this_id + 1,
           pc[p] \notin {"create", "insert", "recycle", "return_resource"},
           pc'[p] \notin {"create", "insert", "recycle", "return_resource"}
    PROVE  Phases' /\ InUse /\ InUse'
<1>1. Types /\ Phases /\ ~Dead /\ this_id \in ids /\ (p # Map => arg[p] = this_id)
  BY Zenon DEF IInv, Phases, Held
<1>2. pc[Map] # "insert" /\ pc[Map] # "create" /\ nfree = 0 /\ Recycling = {}
  <2>1. pc[Map] # "create" /\ nfree = 0 /\ Recycling = {}
    BY <1>1 DEF Dead, Types
  <2>2. ASSUME pc[Map] = "insert" PROVE FALSE
    <3>1. this_id < this_id /\ this_id \in Nat
      BY <1>1, <2>2, Zenon DEF Phases, Global, Types
    <3> QED  BY <3>1
  <2> QED  BY <2>1, <2>2, Zenon
<1>3. pc'[Map] # "insert" /\ pc'[Map] # "create" /\ Recycling' = {}
  BY <1>2, Zenon DEF Moves, Procs, Recycling
<1>4. ~Dead' /\ InUse /\ InUse' /\ OnePhase'
  BY <1>2, <1>3 DEF Dead, InUse, OnePhase
<1>5. Held'
  BY <1>1, <1>4, Zenon DEF Phases, Held
<1>6. Global'
  BY <1>1, <1>3, <1>4, Zenon DEF Phases, Global
<1>7. \A q \in Procs : Local(q)'
  <2>1. ids \subseteq ids' /\ this_id <= this_id'
    BY <1>1 DEF Types
  <2> QED  BY <1>1, <2>1, OthersStay, Zenon
<1> QED  BY <1>4, <1>5, <1>6, <1>7, Zenon DEF Phases

LEMMA SetFailedStep ==
    ASSUME SocketRefAssumption, IInv, NEW p \in Threads, SetFailed(p), ~Failed, uses' = uses
    PROVE  IInv'
<1>1. /\ Types /\ Phases /\ Local(p) /\ Counted /\ IsFiniteSet(Procs)
      /\ p \in Procs /\ p \notin Checkers /\ p # Map
  BY Zenon DEF IInv, Phases, SocketRefAssumption, Procs
<1>2. /\ UNCHANGED <<nref, this_id, nfree, ids, recycle_flag, uses, ret, arg, seen, refs, hc_tasks,
                     check_failed>>
      /\ ver = this_id /\ ver' = this_id + 1 /\ pc[p] = "idle" /\ refs[p] > 0
      /\ pc' = [pc EXCEPT ![p] = "sf_error"]
  BY Zenon DEF SetFailed, StartOp, Goto, Failed, locals, history
<1>3. refs[p] = 1
  BY <1>1, <1>2 DEF Types
<1>4. Types' /\ pc'[p] = "sf_error" /\ Moves(p)
  <2>1. pc' \in [Procs -> Labels] /\ pc'[p] = "sf_error" /\ Moves(p)
    BY <1>1, <1>2, Zenon DEF Types, Moves, Labels
  <2>2. ver' \in Nat
    BY <1>1, <1>2 DEF Types
  <2> QED  BY <1>1, <1>2, <2>1, <2>2, Zenon DEF Types
<1>5. Local(p)'
  BY <1>1, <1>2, <1>3, <1>4, Zenon DEF Local, WithRef, WithoutRef, CheckerLabels, Undoing
<1>6. Phases' /\ InUse /\ InUse'
  BY <1>1, <1>2, <1>3, <1>4, <1>5, HolderStep, Zenon
<1>7. Own(p)' = Own(p) /\ Extra' = Extra
  BY <1>2, <1>4, <1>6, Zenon DEF Own, Extra
<1>8. nref' + Own(p) + Extra = nref + Own(p)' + Extra'
  BY <1>2, <1>7, Zenon
<1>9. ASSUME "health_check" \notin uses PROVE Unchecked'
  <2>1. Unchecked
    BY <1>1, <1>9, Zenon DEF Counted
  <2>2. \A c \in Checkers : pc'[c] = "idle"
    BY <1>1, <1>4, <2>1, Zenon DEF Unchecked, Moves, Procs
  <2>3. ASSUME NEW q \in Procs, pc'[q] \in Undoing
        PROVE  ver' = seen'[q] + 1 /\ ver' % 2 = 1
    <3>1. ver % 2 = 0 /\ ver \in Nat /\ ver' = ver + 1
      BY <1>1, <1>2, Zenon DEF Phases, Global, Types
    <3>2. pc[q] \in Undoing
      BY <1>4, <2>3, Zenon DEF Moves, Undoing
    <3>3. ver = seen[q]
      BY <2>1, <3>1, <3>2 DEF Unchecked
    <3> QED  BY <1>2, <3>1, <3>3, Parity, Zenon
  <2> QED  BY <1>2, <2>1, <2>2, <2>3, Zenon DEF Unchecked
<1>10. Counted'
  BY <1>1, <1>4, <1>8, <1>9, CountedStep, Zenon
<1> QED  BY <1>4, <1>6, <1>10, Zenon DEF IInv

LEMMA ReleaseStep ==
    ASSUME SocketRefAssumption, IInv, NEW p \in Procs, ReleaseAdditionalReference(p), ~recycle_flag,
           uses' = uses
    PROVE  IInv'
<1>1. Types /\ Phases /\ Local(p) /\ Counted /\ IsFiniteSet(Procs)
  BY Zenon DEF IInv, Phases, SocketRefAssumption
<1>2. /\ UNCHANGED <<ver, nref, this_id, nfree, ids, uses, ret, arg, seen, refs, hc_tasks,
                     check_failed>>
      /\ pc[p] = "release_extra" /\ recycle_flag' = TRUE
      /\ pc' = [pc EXCEPT ![p] = "deref_extra"]
  BY Zenon DEF ReleaseAdditionalReference, Goto, vref, history
<1>3. /\ refs[p] = 1 /\ p \notin Checkers
      /\ ret[p] = "idle" \/ (ret[p] = "removed" /\ p = Map)
  BY <1>1, <1>2, Zenon DEF Local, WithRef
<1>4. Types' /\ pc'[p] = "deref_extra" /\ Moves(p)
  <2>1. pc' \in [Procs -> Labels] /\ pc'[p] = "deref_extra" /\ Moves(p)
    BY <1>1, <1>2, Zenon DEF Types, Moves, Labels
  <2> QED  BY <1>1, <1>2, <2>1, Zenon DEF Types
<1>5. Local(p)'
  BY <1>1, <1>2, <1>3, <1>4, Zenon DEF Local, WithRef, WithoutRef, CheckerLabels, Undoing
<1>6. Phases' /\ InUse /\ InUse'
  <2>1. ver' = this_id \/ ver' = this_id + 1
    BY <1>1, <1>2, <1>3, Zenon DEF Phases, Held, Global
  <2> QED  BY <1>1, <1>2, <1>3, <1>4, <1>5, <2>1, HolderStep, Zenon
<1>7. Own(p)' = 2 /\ Own(p) = 1 /\ Extra = 1 /\ Extra' = 0 /\ nref \in Nat
  BY <1>1, <1>2, <1>3, <1>4, <1>6, OwnIs, ExtraIs, Zenon DEF Types
<1>8. nref' + Own(p) + Extra = nref + Own(p)' + Extra'
  BY <1>2, <1>7
<1>9. ASSUME "health_check" \notin uses PROVE Unchecked'
  <2>1. Unchecked
    BY <1>1, <1>9, Zenon DEF Counted
  <2>2. hc_tasks' = {} /\ ~check_failed' /\ pc'[p] \notin Undoing
    BY <1>2, <1>4, <2>1, Zenon DEF Unchecked, Undoing
  <2> QED  BY <1>2, <1>3, <1>4, <2>1, <2>2, UncheckedStep, Zenon
<1>10. Counted'
  BY <1>1, <1>4, <1>8, <1>9, CountedStep, Zenon
<1> QED  BY <1>4, <1>6, <1>10, Zenon DEF IInv

LEMMA CheckerWorks ==
    ASSUME IInv, NEW c \in Checkers, pc[c] # "idle"
    PROVE  "health_check" \in uses
  BY Zenon DEF IInv, Counted, Unchecked

LEMMA ReviveStep ==
    ASSUME SocketRefAssumption, IInv, NEW c \in Checkers, Revive(c), ~(nref <= 1), uses' = uses
    PROVE  IInv'
<1>1. /\ Types /\ Phases /\ Local(c) /\ Counted /\ IsFiniteSet(Procs) /\ c \in Procs /\ c # Map
  BY Zenon DEF IInv, Phases, SocketRefAssumption, Procs
<1>2. /\ UNCHANGED <<this_id, nfree, ids, recycle_flag, uses, ret, arg, seen, refs, hc_tasks>>
      /\ pc[c] = "revive" /\ ver' = arg[c] /\ nref' = nref + 1
      /\ pc' = [pc EXCEPT ![c] = "revived"]
  BY Zenon DEF Revive, Goto
<1>3. refs[c] = 1 /\ arg[c] = this_id /\ arg[c] \in ids
  BY <1>1, <1>2, Zenon DEF Local, WithRef, Phases, Held
<1>4. Types' /\ pc'[c] = "revived" /\ Moves(c)
  <2>1. pc' \in [Procs -> Labels] /\ pc'[c] = "revived" /\ Moves(c)
    BY <1>1, <1>2, Zenon DEF Types, Moves, Labels
  <2>2. ver' \in Nat /\ nref' \in Nat
    BY <1>1, <1>2 DEF Types
  <2> QED  BY <1>1, <1>2, <2>1, <2>2, Zenon DEF Types
<1>5. Local(c)'
  BY <1>2, <1>3, <1>4, Zenon DEF Local, WithRef, WithoutRef, CheckerLabels, Undoing
<1>6. Phases' /\ InUse /\ InUse'
  BY <1>1, <1>2, <1>3, <1>4, <1>5, HolderStep, Zenon
<1>7. Own(c)' = 2 /\ Own(c) = 1 /\ Extra' = Extra /\ Extra \in Nat /\ nref \in Nat
  BY <1>1, <1>2, <1>3, <1>4, <1>6, OwnIs, ExtraIs, Zenon DEF Types
<1>8. nref' + Own(c) + Extra = nref + Own(c)' + Extra'
  BY <1>2, <1>7
<1>9. "health_check" \in uses
  BY <1>2, CheckerWorks, Zenon
<1>10. Counted'
  BY <1>1, <1>4, <1>8, <1>9, CountedStep, Zenon
<1> QED  BY <1>4, <1>6, <1>10, Zenon DEF IInv

(* The additional reference of Revive may be one too many: the flag was     *)
(* never set, or another Revive has reset it already                        *)
LEMMA RevivedStep ==
    ASSUME SocketRefAssumption, IInv, NEW c \in Checkers, Revived(c), uses' = uses
    PROVE  IInv'
<1>1. /\ Types /\ Phases /\ Local(c) /\ Counted /\ IsFiniteSet(Procs) /\ c \in Procs /\ c # Map
  BY Zenon DEF IInv, Phases, SocketRefAssumption, Procs
<1>2. /\ UNCHANGED <<ver, nref, this_id, nfree, ids, uses, arg, seen, refs, hc_tasks>>
      /\ pc[c] = "revived" /\ recycle_flag' = FALSE
      /\ pc' = [pc EXCEPT ![c] = "deref"] /\ ret' = [ret EXCEPT ![c] = "idle"]
  BY Zenon DEF Revived, Call, Goto, vref
<1>3. refs[c] = 1 /\ arg[c] \in ids
  BY <1>1, <1>2, Zenon DEF Local, WithRef
<1>4. Types' /\ pc'[c] = "deref" /\ ret'[c] = "idle" /\ Moves(c)
  <2>1. /\ pc' \in [Procs -> Labels] /\ pc'[c] = "deref"
        /\ ret' \in [Procs -> Labels] /\ ret'[c] = "idle" /\ Moves(c)
    BY <1>1, <1>2, Zenon DEF Types, Moves, Labels
  <2> QED  BY <1>1, <1>2, <2>1, Zenon DEF Types
<1>5. Local(c)'
  BY <1>2, <1>3, <1>4, Zenon DEF Local, WithRef, WithoutRef, CheckerLabels, Undoing
<1>6. Phases' /\ InUse /\ InUse'
  <2>1. ver' = this_id \/ ver' = this_id + 1
    BY <1>1, <1>2, <1>3, Zenon DEF Phases, Held, Global
  <2> QED  BY <1>1, <1>2, <1>3, <1>4, <1>5, <2>1, HolderStep, Zenon
<1>7. Own(c)' = 1 /\ Own(c) = 2 /\ Extra' \in {0, 1}
  BY <1>2, <1>3, <1>4, OwnIs, ExtraIs, Zenon
<1>8. nref' \in Nat /\ nref' >= Units'
  <2>1. /\ Units \in Nat /\ Units' \in Nat /\ Extra \in {0, 1}
        /\ Units' + Own(c) + Extra = Units + Own(c)' + Extra'
    BY <1>1, <1>4, UnitsStep, Zenon
  <2>2. nref \in Nat /\ nref >= Units /\ nref' = nref
    BY <1>1, <1>2, Zenon DEF Types, Counted
  <2> QED  BY <1>7, <2>1, <2>2
<1>9. "health_check" \in uses
  BY <1>2, CheckerWorks, Zenon
<1>10. Counted'
  BY <1>2, <1>8, <1>9, Zenon DEF Counted
<1> QED  BY <1>4, <1>6, <1>10, Zenon DEF IInv

----------------------------------------------------------------------------
(* Socket::Create *)

LEMMA GetResourceStep ==
    ASSUME SocketRefAssumption, IInv, GetResource, uses' = uses
    PROVE  IInv'
<1>1. /\ Types /\ Phases /\ Local(Map) /\ Counted /\ IsFiniteSet(Procs)
      /\ Map \in Procs /\ Map \notin Checkers
  BY Zenon DEF IInv, Phases, SocketRefAssumption, Procs
<1>2. /\ UNCHANGED <<ver, nref, this_id, ids, recycle_flag, uses, ret, arg, seen, refs, hc_tasks,
                     check_failed>>
      /\ pc[Map] = "idle" /\ refs[Map] = 0 /\ nfree > 0 /\ nfree' = nfree - 1
      /\ pc' = [pc EXCEPT ![Map] = "create"]
  BY Zenon DEF GetResource, Goto, locals, history, vref
<1>3. nfree = 1 /\ nfree' = 0 /\ Dead /\ Recycling = {}
  BY <1>1, <1>2 DEF Types, Dead, Phases, OnePhase
<1>4. Types' /\ pc'[Map] = "create" /\ Moves(Map)
  <2>1. pc' \in [Procs -> Labels] /\ pc'[Map] = "create" /\ Moves(Map)
    BY <1>1, <1>2, Zenon DEF Types, Moves, Labels
  <2> QED  BY <1>1, <1>2, <1>3, <2>1, Zenon DEF Types
<1>5. Recycling' = {}
  BY <1>3, <1>4, Zenon DEF Recycling, Moves
<1>6. Dead' /\ OnePhase'
  BY <1>3, <1>4, <1>5, Zenon DEF Dead, OnePhase
<1>7. Held'
  BY <1>1, <1>2, <1>3, Zenon DEF Phases, Held
<1>8. Global'
  <2>1. ids' = {} => \A p \in Procs : pc'[p] \in {"idle", "create", "insert"}
    BY <1>1, <1>2, <1>4, Zenon DEF Phases, Global, Moves
  <2> QED  BY <1>1, <1>2, <1>3, <1>4, <1>6, <2>1, Zenon DEF Phases, Global
<1>9. \A q \in Procs : Local(q)'
  <2>1. Local(Map)'
    BY <1>1, <1>2, <1>4, Zenon DEF Local, WithRef, WithoutRef, Undoing
  <2>2. ids \subseteq ids' /\ this_id <= this_id'
    BY <1>1, <1>2 DEF Types
  <2> QED  BY <1>1, <1>4, <2>1, <2>2, OthersStay, Zenon
<1>10. Phases'
  BY <1>6, <1>7, <1>8, <1>9, Zenon DEF Phases
<1>11. Own(Map)' = 0 /\ Own(Map) = 0 /\ Extra = 0 /\ Extra' = 0
  BY <1>1, <1>2, <1>3, <1>4, OwnIs, ExtraIs, Zenon DEF InUse
<1>12. nref' + Own(Map) + Extra = nref + Own(Map)' + Extra'
  BY <1>2, <1>11, Zenon
<1>13. ASSUME "health_check" \notin uses PROVE Unchecked'
  <2>1. Unchecked
    BY <1>1, <1>13, Zenon DEF Counted
  <2>2. hc_tasks' = {} /\ ~check_failed' /\ pc'[Map] \notin Undoing
    BY <1>2, <1>4, <2>1, Zenon DEF Unchecked, Undoing
  <2> QED  BY <1>1, <1>2, <1>4, <2>1, <2>2, UncheckedStep, Zenon
<1>14. Counted'
  BY <1>1, <1>4, <1>12, <1>13, CountedStep, Zenon
<1> QED  BY <1>4, <1>10, <1>14, Zenon DEF IInv

LEMMA CreateStep ==
    ASSUME SocketRefAssumption, IInv, Create, uses' = uses
    PROVE  IInv'
<1>1. /\ Types /\ Phases /\ Local(Map) /\ Counted /\ IsFiniteSet(Procs)
      /\ Map \in Procs /\ Map \notin Checkers
  BY Zenon DEF IInv, Phases, SocketRefAssumption, Procs
<1>2. /\ UNCHANGED <<ver, nfree, uses, ret, arg, seen, refs, hc_tasks, check_failed>>
      /\ pc[Map] = "create" /\ nref' = nref + 1 /\ this_id' = ver /\ recycle_flag' = FALSE
  BY Zenon DEF Create, locals
<1>3. PICK l \in {"insert", "idle"} : /\ pc' = [pc EXCEPT ![Map] = l]
                                      /\ l = "insert" => ids' = ids
                                      /\ l = "idle" => ids' = ids \cup {ver}
  BY Zenon DEF Create, Goto
<1>4. nfree = 0 /\ Dead /\ Recycling = {} /\ refs[Map] = 0
  BY <1>1, <1>2, Zenon DEF Dead, Phases, OnePhase, Local, WithoutRef
<1>5. ver = this_id + 2 \/ (ver = this_id /\ ids = {})
  BY <1>1, <1>4, Zenon DEF Phases, Global
<1>6. ver \in Nat /\ this_id \in Nat /\ ids \subseteq Nat /\ ids \subseteq ids' /\ ids' \subseteq ids \cup {ver}
  BY <1>1, <1>3, Zenon DEF Types
<1>7. Types' /\ pc'[Map] = l /\ Moves(Map)
  <2>1. pc' \in [Procs -> Labels] /\ pc'[Map] = l /\ Moves(Map)
    BY <1>1, <1>2, <1>3, Zenon DEF Types, Moves, Labels
  <2>2. ids' \subseteq Nat /\ hc_tasks' \subseteq ids' /\ nref' \in Nat /\ this_id' \in Nat
    BY <1>1, <1>2, <1>6 DEF Types
  <2> QED  BY <1>1, <1>2, <2>1, <2>2, Zenon DEF Types
<1>8. Recycling' = {}
  BY <1>3, <1>4, <1>7, Zenon DEF Recycling, Moves
<1>9. ~Dead' /\ OnePhase'
  BY <1>2, <1>3, <1>4, <1>7, <1>8 DEF Dead, OnePhase
<1>10. \A p \in Procs : refs[p] = 0
  BY <1>1, <1>4, Zenon DEF Phases, Held, Types
<1>11. Held'
  BY <1>2, <1>10 DEF Held
<1>12. Global'
  <2>1. this_id' % 2 = 0
    <3>1. this_id % 2 = 0
      BY <1>1, Zenon DEF Phases, Global
    <3> QED  BY <1>2, <1>5, <1>6, <3>1, Parity, Zenon
  <2>2. \A v \in ids : v % 2 = 0 /\ v < ver
    <3>1. \A v \in ids : v % 2 = 0 /\ v <= this_id
      BY <1>1, Zenon DEF Phases, Global
    <3> QED  BY <1>5, <1>6, <3>1
  <2>3. \A v \in ids' : v % 2 = 0 /\ v <= this_id'
    BY <1>2, <1>6, <2>1, <2>2
  <2>4. ids' = {} => \A p \in Procs : pc'[p] \in {"idle", "create", "insert"}
    <3>1. ids' = {} => ids = {}
      BY <1>6, Zenon
    <3> QED  BY <1>1, <1>3, <1>7, <3>1, Zenon DEF Phases, Global, Moves
  <2>5. pc'[Map] = "insert" => \A v \in ids' : v < this_id'
    BY <1>2, <1>3, <1>7, <2>2, Zenon
  <2> QED  BY <1>2, <1>9, <2>1, <2>3, <2>4, <2>5, Zenon DEF Global
<1>13. \A q \in Procs : Local(q)'
  <2>1. Local(Map)'
    BY <1>1, <1>2, <1>3, <1>4, <1>7, Zenon DEF Local, WithRef, WithoutRef, Undoing
  <2>2. this_id <= this_id'
    BY <1>2, <1>5, <1>6
  <2> QED  BY <1>1, <1>6, <1>7, <2>1, <2>2, OthersStay, Zenon
<1>14. Phases'
  BY <1>9, <1>11, <1>12, <1>13, Zenon DEF Phases
<1>15. Own(Map)' = 0 /\ Own(Map) = 0 /\ Extra = 0 /\ Extra' = 1
  BY <1>1, <1>2, <1>3, <1>4, <1>7, OwnIs, ExtraIs, Zenon DEF InUse
<1>16. nref' + Own(Map) + Extra = nref + Own(Map)' + Extra'
  BY <1>1, <1>2, <1>15 DEF Types
<1>17. ASSUME "health_check" \notin uses PROVE Unchecked'
  <2>1. Unchecked
    BY <1>1, <1>17, Zenon DEF Counted
  <2>2. hc_tasks' = {} /\ ~check_failed' /\ pc'[Map] \notin Undoing
    BY <1>2, <1>3, <1>7, <2>1, Zenon DEF Unchecked, Undoing
  <2> QED  BY <1>1, <1>2, <1>7, <2>1, <2>2, UncheckedStep, Zenon
<1>18. Counted'
  BY <1>1, <1>7, <1>16, <1>17, CountedStep, Zenon
<1> QED  BY <1>7, <1>14, <1>18, Zenon DEF IInv

LEMMA InsertStep ==
    ASSUME SocketRefAssumption, IInv, Insert, uses' = uses
    PROVE  IInv'
<1>1. /\ Types /\ Phases /\ Local(Map) /\ Counted /\ IsFiniteSet(Procs)
      /\ Map \in Procs /\ Map \notin Checkers
  BY Zenon DEF IInv, Phases, SocketRefAssumption, Procs
<1>2. /\ UNCHANGED <<ver, nfree, this_id, recycle_flag, uses, ret, arg, seen, hc_tasks, check_failed>>
      /\ pc[Map] = "insert" /\ nref' = nref + 1 /\ refs' = [refs EXCEPT ![Map] = 1]
      /\ ids' = ids \cup {this_id} /\ pc' = [pc EXCEPT ![Map] = "idle"]
  BY Zenon DEF Insert, Goto, history
<1>3. ~Dead /\ ver = this_id /\ nfree = 0 /\ Recycling = {} /\ refs[Map] = 0
  BY <1>1, <1>2 DEF Dead, Phases, Global, Local, WithoutRef, Types
<1>4. \A p \in Procs : refs[p] = 0
  <2>1. this_id \notin ids
    <3>1. \A v \in ids : v < this_id
      BY <1>1, <1>2, Zenon DEF Phases, Global
    <3> QED  BY <1>1, <3>1 DEF Types
  <2> QED  BY <1>1, <2>1, Zenon DEF Phases, Held, Types
<1>5. Types' /\ pc'[Map] = "idle" /\ refs'[Map] = 1 /\ Moves(Map)
  <2>1. /\ pc' \in [Procs -> Labels] /\ pc'[Map] = "idle" /\ Moves(Map)
        /\ refs' \in [Procs -> {0, 1}] /\ refs'[Map] = 1
    BY <1>1, <1>2, Zenon DEF Types, Moves, Labels
  <2>2. ids' \subseteq Nat /\ hc_tasks' \subseteq ids' /\ nref' \in Nat
    BY <1>1, <1>2 DEF Types
  <2> QED  BY <1>1, <1>2, <2>1, <2>2, Zenon DEF Types
<1>6. Recycling' = {}
  BY <1>3, <1>5, Zenon DEF Recycling, Moves
<1>7. ~Dead' /\ OnePhase'
  BY <1>2, <1>3, <1>5, <1>6, Zenon DEF Dead, OnePhase
<1>8. Held'
  BY <1>2, <1>4, <1>5, <1>7 DEF Held, Moves
<1>9. Global'
  <2>1. this_id % 2 = 0 /\ (\A v \in ids : v % 2 = 0 /\ v <= this_id) /\ this_id \in Nat
    BY <1>1, Zenon DEF Phases, Global, Types
  <2>2. \A v \in ids' : v % 2 = 0 /\ v <= this_id'
    BY <1>2, <2>1
  <2> QED  BY <1>2, <1>3, <1>5, <1>7, <2>1, <2>2, Zenon DEF Global
<1>10. \A q \in Procs : Local(q)'
  <2>1. Local(Map)'
    BY <1>1, <1>2, <1>5, Zenon DEF Local, WithRef, WithoutRef, Undoing
  <2>2. ids \subseteq ids' /\ this_id <= this_id'
    BY <1>1, <1>2 DEF Types
  <2> QED  BY <1>1, <1>5, <2>1, <2>2, OthersStay, Zenon
<1>11. Phases'
  BY <1>7, <1>8, <1>9, <1>10, Zenon DEF Phases
<1>12. Own(Map)' = 1 /\ Own(Map) = 0 /\ Extra' = Extra /\ Extra \in Nat
  BY <1>1, <1>2, <1>3, <1>5, OwnIs, ExtraIs, Zenon DEF InUse
<1>13. nref' + Own(Map) + Extra = nref + Own(Map)' + Extra'
  BY <1>1, <1>2, <1>12 DEF Types
<1>14. ASSUME "health_check" \notin uses PROVE Unchecked'
  <2>1. Unchecked
    BY <1>1, <1>14, Zenon DEF Counted
  <2>2. hc_tasks' = {} /\ ~check_failed' /\ pc'[Map] \notin Undoing
    BY <1>2, <1>5, <2>1, Zenon DEF Unchecked, Undoing
  <2> QED  BY <1>1, <1>2, <1>5, <2>1, <2>2, UncheckedStep, Zenon
<1>15. Counted'
  BY <1>1, <1>5, <1>13, <1>14, CountedStep, Zenon
<1> QED  BY <1>5, <1>11, <1>15, Zenon DEF IInv

----------------------------------------------------------------------------
LEMMA IInvInit ==
    ASSUME SocketRefAssumption, Init
    PROVE  IInv
<1>1. Types
  BY Zenon DEF Init, Types, Labels
<1>2. \A p \in Procs : pc[p] = "idle" /\ refs[p] = 0 /\ ret[p] = "idle"
  BY Zenon DEF Init
<1>3. pc[Map] = "idle" /\ Map \in Procs
  BY <1>2, Zenon DEF Procs
<1>4. Recycling = {} /\ Dead
  BY <1>2 DEF Recycling, Dead, Init
<1>5. \A p \in Procs : Local(p)
  BY <1>2, Zenon DEF Local, WithRef, WithoutRef, CheckerLabels, Undoing
<1>6. OnePhase /\ Held
  BY <1>2, <1>3, <1>4 DEF OnePhase, Held
<1>7. Global
  BY <1>2, <1>3, <1>4 DEF Global, Init
<1>8. Units = 0
  <2>1. Holders = {} /\ Owing = {} /\ Reviving = {} /\ Extra = 0
    BY <1>2 DEF Holders, Owing, Reviving, Extra, InUse, Init, Procs
  <2> QED  BY <2>1, FS_EmptySet DEF Units
<1>9. Unchecked
  BY <1>2, Zenon DEF Unchecked, Init, Undoing, Procs
<1>10. Counted
  BY <1>8, <1>9 DEF Counted, Init
<1> QED  BY <1>1, <1>5, <1>6, <1>7, <1>10, Zenon DEF IInv, Phases

LEMMA IInvStep ==
    ASSUME SocketRefAssumption, IInv, [Next]_vars
    PROVE  IInv'
<1>1. CASE UNCHANGED vars
  <2>1. UNCHANGED <<uses, ver, nref, this_id, recycle_flag, nfree, pc, ret, arg, seen, refs, hc_tasks,
                    ids, check_failed>>
    BY <1>1, Zenon DEF vars, socket, vref, locals, history
  <2>2. Types'
    BY <2>1, Zenon DEF IInv, Types
  <2>3. Recycling' = Recycling /\ (Dead' <=> Dead) /\ Holders' = Holders /\ Owing' = Owing
        /\ Reviving' = Reviving /\ Extra' = Extra
    BY <2>1, Zenon DEF Recycling, Dead, Holders, Owing, Reviving, Extra, InUse
  <2>4. Phases'
    BY <2>1, <2>3, Zenon DEF IInv, Phases, Local, OnePhase, Global, Held
  <2>5. Counted'
    BY <2>1, <2>3, Zenon DEF IInv, Counted, Unchecked, Units
  <2> QED  BY <2>2, <2>4, <2>5, Zenon DEF IInv
<1>2. CASE Begin /\ uses' = uses
  <2>1. Map \in Procs /\ Threads \subseteq Procs
    BY Zenon DEF Procs
  <2>2. CASE GetResource
    BY <1>2, <2>2, GetResourceStep, Zenon
  <2>3. CASE Remove \/ ReplaceFailed
    BY <1>2, <2>1, <2>3, StrollStep, Zenon DEF Strolls
  <2>4. ASSUME NEW t \in Threads, NEW v \in ids, Address(t, v) \/ AddressFailedAsWell(t, v)
        PROVE  IInv'
    BY <1>2, <2>4, AddressStep, Zenon
  <2>5. ASSUME NEW t \in Threads, ReleaseReferenceIfIdle(t) \/ NotifyOnFailed(t) PROVE IInv'
    BY <1>2, <2>1, <2>5, StrollStep, Zenon DEF Strolls
  <2>6. ASSUME NEW t \in Threads, SetFailed(t) PROVE IInv'
    <3>1. CASE Failed
      BY <1>2, <2>1, <2>6, <3>1, StrollStep, Zenon DEF Strolls
    <3>2. CASE ~Failed
      BY <1>2, <2>6, <3>2, SetFailedStep, Zenon
    <3> QED  BY <3>1, <3>2, Zenon
  <2> QED  BY <1>2, <2>2, <2>3, <2>4, <2>5, <2>6, Zenon DEF Begin
<1>3. ASSUME NEW p \in Procs, Continue(p), uses' = uses PROVE IInv'
  <2>1. CASE p = Map /\ Create
    BY <1>3, <2>1, CreateStep, Zenon
  <2>2. CASE p = Map /\ Insert
    BY <1>3, <2>2, InsertStep, Zenon
  <2>3. CASE Undo(p)
    BY <1>3, <2>3, UndoStep, Zenon
  <2>4. CASE UndoCas(p) \/ DerefCas(p)
    BY <1>3, <2>4, ClaimStep, Zenon
  <2>5. CASE Dereference(p)
    BY <1>3, <2>5, DereferenceStep, Zenon
  <2>6. CASE OnRecycle(p) \/ ReturnResource(p)
    BY <1>3, <2>6, RecycleStep, Zenon
  <2>7. CASE ReleaseAdditionalReference(p)
    <3>1. CASE recycle_flag
      BY <1>3, <2>7, <3>1, StrollStep, Zenon DEF Strolls
    <3>2. CASE ~recycle_flag
      BY <1>3, <2>7, <3>2, ReleaseStep, Zenon
    <3> QED  BY <3>1, <3>2, Zenon
  <2>8. CASE Release(p) \/ SetFailedError(p) \/ SetFailedResetList(p) \/ (p = Map /\ Removed)
    BY <1>3, <2>8, StrollStep, Zenon DEF Strolls
  <2>9. CASE p \in Checkers /\ (HcTrigger(p) \/ HcTriggerAgain(p))
    BY <1>3, <2>9, TriggerStep, Zenon
  <2>10. CASE p \in Checkers /\ (WaitAndReset(p) \/ Reset(p) \/ CheckHealth(p))
    BY <1>3, <2>10, StrollStep, Zenon DEF Strolls
  <2>11. CASE p \in Checkers /\ Revive(p)
    <3>1. CASE nref <= 1
      BY <1>3, <2>11, <3>1, StrollStep, Zenon DEF Strolls
    <3>2. CASE ~(nref <= 1)
      BY <1>3, <2>11, <3>2, ReviveStep, Zenon
    <3> QED  BY <3>1, <3>2, Zenon
  <2>12. CASE p \in Checkers /\ Revived(p)
    BY <1>3, <2>12, RevivedStep, Zenon
  <2> QED  BY <1>3, <2>1, <2>2, <2>3, <2>4, <2>5, <2>6, <2>7, <2>8, <2>9, <2>10, <2>11, <2>12, Zenon
             DEF Continue
<1> QED  BY <1>1, <1>2, <1>3, Zenon DEF Next

(* The inductive invariant holds in every reachable state: socket_inl.h and *)
(* socket.cc keep _versioned_ref at least as large as what its users can    *)
(* still give back, and move the slot between pool and users one at a time. *)
THEOREM Invariance ==
    ASSUME SocketRefAssumption
    PROVE  Spec => []IInv
<1>1. Init => IInv
  BY IInvInit, Zenon
<1>2. IInv /\ [Next]_vars => IInv'
  BY IInvStep, Zenon
<1> QED  BY <1>1, <1>2, PTL DEF Spec

(* Whoever holds a SocketUniquePtr holds the socket it addressed, and a     *)
(* slot is recycled by one process, once, before it is allocated again.     *)
THEOREM RefsSafe ==
    ASSUME SocketRefAssumption
    PROVE  Spec => []HoldersSafe
<1>1. IInv => NoUseAfterRecycle
  <2> SUFFICES ASSUME IInv, NEW p \in Procs, refs[p] > 0
               PROVE  /\ InUse /\ ver \in {this_id, this_id + 1}
                      /\ p # Map => arg[p] = this_id
    BY Zenon DEF NoUseAfterRecycle
  <2>1. refs[p] = 1
    BY DEF IInv, Types
  <2>2. ~Dead /\ (p # Map => arg[p] = this_id)
    BY <2>1, Zenon DEF IInv, Phases, Held
  <2>3. InUse
    BY <2>2 DEF Dead, InUse, IInv, Types
  <2> QED  BY <2>2, <2>3, Zenon DEF IInv, Phases, Global
<1>2. SocketRefAssumption /\ IInv => RecycledOnce
  <2> SUFFICES ASSUME SocketRefAssumption, IInv PROVE Cardinality(Recycling) + nfree <= 1
    BY Zenon DEF RecycledOnce, Recycling
  <2>1. nfree \in {0, 1}
    BY Zenon DEF IInv, Types
  <2>2. CASE Recycling = {}
    BY <2>1, <2>2, FS_EmptySet
  <2>3. CASE Recycling # {}
    <3>1. nfree = 0
      BY <2>3, Zenon DEF IInv, Phases, OnePhase
    <3>2. PICK p : Recycling = {p}
      BY <2>3 DEF IInv, Phases, OnePhase
    <3>3. Cardinality({p}) = 1
      BY FS_Singleton, Zenon
    <3> QED  BY <3>1, <3>2, <3>3
  <2> QED  BY <2>2, <2>3, Zenon
<1> QED  BY <1>1, <1>2, Invariance, PTL DEF HoldersSafe

----------------------------------------------------------------------------
(* A second invariant, for sockets whose additional reference is released   *)
(* only by SetFailed: every SetFailed that has not released it yet has a    *)
(* unit of its own to release, and a socket that has not failed one more.   *)

Quiet == uses \cap {"idle_release", "remove"} = {}

Pending == {p \in Procs : pc[p] \in {"sf_error", "sf_reset", "release_extra"}}

Valid == IF ver = this_id THEN 1 ELSE 0

Backing == Cardinality(Holders) + Cardinality(Owing) + Cardinality(Pending) + Valid

Backed ==
    Quiet /\ ~Dead => /\ nref >= Backing
                      /\ "health_check" \notin uses => nref = Backing

(* Who brought the count to 0 is about to claim the slot *)
Claimed ==
    Quiet /\ "health_check" \notin uses /\ ~Dead /\ nref = 0 =>
        \E p \in Procs : pc[p] \in {"undo_cas", "deref_cas"} /\ seen[p] = ver

Listing == \E p \in Procs : pc[p] \in {"sf_error", "sf_reset"}

Returning == \E p \in Procs : pc[p] = "return_resource"

Notices ==
    /\ notified \in [Threads -> Nat]
    /\ Quiet \/ (InUse /\ ~Returning) =>
          /\ wait_list \subseteq asked
          /\ \A t \in Threads : notified[t] = IF t \in asked \ wait_list THEN 1 ELSE 0
    /\ ver = this_id + 1 /\ ~Listing => wait_list = {}
    /\ Quiet /\ Dead => wait_list = {}

Owed == Backed /\ Claimed /\ Notices

(* The units that p alone accounts for *)
Share(p) == refs[p] + (IF pc[p] \in {"undo", "undo_failed", "deref_extra"} THEN 1 ELSE 0)
                    + (IF pc[p] \in {"sf_error", "sf_reset", "release_extra"} THEN 1 ELSE 0)

(* What p accounts for at its places, and what a valid version does *)
LEMMA ShareIs ==
    ASSUME NEW p
    PROVE  /\ refs[p] = 0 /\ pc[p] \notin {"undo", "undo_failed", "deref_extra", "sf_error", "sf_reset", "release_extra"}
                => Share(p) = 0
           /\ refs[p] = 1 /\ pc[p] \notin {"undo", "undo_failed", "deref_extra", "sf_error", "sf_reset", "release_extra"}
                => Share(p) = 1
           /\ refs[p] = 0 /\ pc[p] \in {"undo", "undo_failed", "deref_extra", "sf_error", "sf_reset", "release_extra"}
                => Share(p) = 1
           /\ refs[p] = 1 /\ pc[p] \in {"undo", "undo_failed", "deref_extra", "sf_error", "sf_reset", "release_extra"}
                => Share(p) = 2
           /\ refs'[p] = 0 /\ pc'[p] \notin {"undo", "undo_failed", "deref_extra", "sf_error", "sf_reset", "release_extra"}
                => Share(p)' = 0
           /\ refs'[p] = 1 /\ pc'[p] \notin {"undo", "undo_failed", "deref_extra", "sf_error", "sf_reset", "release_extra"}
                => Share(p)' = 1
           /\ refs'[p] = 0 /\ pc'[p] \in {"undo", "undo_failed", "deref_extra", "sf_error", "sf_reset", "release_extra"}
                => Share(p)' = 1
           /\ refs'[p] = 1 /\ pc'[p] \in {"undo", "undo_failed", "deref_extra", "sf_error", "sf_reset", "release_extra"}
                => Share(p)' = 2
  BY DEF Share

LEMMA ValidIs ==
    /\ Valid \in {0, 1} /\ Valid' \in {0, 1}
    /\ ver = this_id => Valid = 1
    /\ ver' # this_id' => Valid' = 0
    /\ ver' = ver /\ this_id' = this_id => Valid' = Valid
  BY DEF Valid

LEMMA BackingStep ==
    ASSUME IsFiniteSet(Procs), Types, Types', NEW p \in Procs, Moves(p)
    PROVE  /\ Backing \in Nat /\ Backing' \in Nat /\ Share(p) \in Nat /\ Share(p)' \in Nat
           /\ Valid \in {0, 1} /\ Valid' \in {0, 1}
           /\ Backing' + Share(p) + Valid = Backing + Share(p)' + Valid'
<1>1. /\ Holders \ {p} = Holders' \ {p}
      /\ Owing \ {p} = Owing' \ {p}
      /\ Pending \ {p} = Pending' \ {p}
  BY Zenon DEF Holders, Owing, Pending, Moves
<1> DEFINE h == Holders  h1 == Holders'  o == Owing  o1 == Owing'  r == Pending  r1 == Pending'
<1>2. /\ p \in h <=> refs[p] = 1
      /\ p \in h1 <=> refs'[p] = 1
      /\ refs[p] \in {0, 1} /\ refs'[p] \in {0, 1}
      /\ Share(p) = refs[p] + (IF p \in o THEN 1 ELSE 0) + (IF p \in r THEN 1 ELSE 0)
      /\ Share(p)' = refs'[p] + (IF p \in o1 THEN 1 ELSE 0) + (IF p \in r1 THEN 1 ELSE 0)
  BY Zenon DEF Holders, Owing, Pending, Share, Types
<1>3. /\ IsFiniteSet(h) /\ IsFiniteSet(h1) /\ h \ {p} = h1 \ {p}
      /\ IsFiniteSet(o) /\ IsFiniteSet(o1) /\ o \ {p} = o1 \ {p}
      /\ IsFiniteSet(r) /\ IsFiniteSet(r1) /\ r \ {p} = r1 \ {p}
  <2>1. r \subseteq Procs /\ r1 \subseteq Procs
    BY Zenon DEF Pending
  <2>2. IsFiniteSet(r) /\ IsFiniteSet(r1)
    BY <2>1, FS_Subset, Zenon
  <2> QED  BY <1>1, <2>2, SetsFinite, Zenon
<1> DEFINE e == Valid  e1 == Valid'
<1>4. e \in {0, 1} /\ e1 \in {0, 1}
  BY Zenon DEF Valid
<1>5. /\ Backing = Cardinality(h) + Cardinality(o) + Cardinality(r) + e
      /\ Backing' = Cardinality(h1) + Cardinality(o1) + Cardinality(r1) + e1
  BY Zenon DEF Backing
<1> HIDE DEF h, h1, o, o1, r, r1, e, e1
<1>6. /\ Cardinality(h) \in Nat /\ Cardinality(h1) \in Nat
      /\ (p \in h <=> p \in h1) => Cardinality(h1) = Cardinality(h)
      /\ p \in h /\ p \notin h1 => Cardinality(h1) = Cardinality(h) - 1
      /\ p \notin h /\ p \in h1 => Cardinality(h1) = Cardinality(h) + 1
  BY <1>3, CardStep, Zenon
<1>7. /\ Cardinality(o) \in Nat /\ Cardinality(o1) \in Nat
      /\ (p \in o <=> p \in o1) => Cardinality(o1) = Cardinality(o)
      /\ p \in o /\ p \notin o1 => Cardinality(o1) = Cardinality(o) - 1
      /\ p \notin o /\ p \in o1 => Cardinality(o1) = Cardinality(o) + 1
  BY <1>3, CardStep, Zenon
<1>8. /\ Cardinality(r) \in Nat /\ Cardinality(r1) \in Nat
      /\ (p \in r <=> p \in r1) => Cardinality(r1) = Cardinality(r)
      /\ p \in r /\ p \notin r1 => Cardinality(r1) = Cardinality(r) - 1
      /\ p \notin r /\ p \in r1 => Cardinality(r1) = Cardinality(r) + 1
  BY <1>3, CardStep, Zenon
<1>9. /\ Backing \in Nat /\ Backing' \in Nat /\ Share(p) \in Nat /\ Share(p)' \in Nat
      /\ Backing' + Share(p) + e = Backing + Share(p)' + e1
  BY <1>2, <1>4, <1>5, <1>6, <1>7, <1>8
<1> QED  BY <1>4, <1>9, Zenon DEF e, e1

(* How the books must change for Backed to stay *)
KeepsBooks(p) ==
    /\ nref' + Share(p) + Valid >= nref + Share(p)' + Valid'
    /\ "health_check" \notin uses => nref' + Share(p) + Valid = nref + Share(p)' + Valid'

LEMMA BackedStep ==
    ASSUME IsFiniteSet(Procs), Types, Types', Backed, NEW p \in Procs, Moves(p), uses' = uses,
           Quiet /\ ~Dead' => ~Dead /\ KeepsBooks(p)
    PROVE  Backed'
<1>1. nref \in Nat /\ nref' \in Nat /\ (Quiet' <=> Quiet)
  BY Zenon DEF Types, Quiet
<1>2. ASSUME Quiet, ~Dead' PROVE nref' >= Backing' /\ ("health_check" \notin uses => nref' = Backing')
  <2>1. ~Dead /\ KeepsBooks(p)
    BY <1>2, Zenon
  <2>2. nref >= Backing /\ ("health_check" \notin uses => nref = Backing)
    BY <1>2, <2>1, Zenon DEF Backed
  <2> QED  BY <1>1, <2>1, <2>2, BackingStep DEF KeepsBooks
<1> QED  BY <1>1, <1>2, Zenon DEF Backed

LEMMA ClaimedStep ==
    ASSUME Claimed, NEW p \in Procs, Moves(p), uses' = uses,
           Quiet /\ "health_check" \notin uses /\ ~Dead' /\ nref' = 0 =>
               \/ pc'[p] \in {"undo_cas", "deref_cas"} /\ seen'[p] = ver'
               \/ ~Dead /\ nref = 0 /\ ver' = ver /\ pc[p] \notin {"undo_cas", "deref_cas"}
    PROVE  Claimed'
<1> SUFFICES ASSUME Quiet, "health_check" \notin uses, ~Dead', nref' = 0
             PROVE  \E q \in Procs : pc'[q] \in {"undo_cas", "deref_cas"} /\ seen'[q] = ver'
  BY Zenon DEF Claimed, Quiet
<1>1. CASE pc'[p] \in {"undo_cas", "deref_cas"} /\ seen'[p] = ver'
  BY <1>1, Zenon
<1>2. CASE ~Dead /\ nref = 0 /\ ver' = ver /\ pc[p] \notin {"undo_cas", "deref_cas"}
  <2>1. PICK q \in Procs : pc[q] \in {"undo_cas", "deref_cas"} /\ seen[q] = ver
    BY <1>2, Zenon DEF Claimed
  <2>2. pc'[q] = pc[q] /\ seen'[q] = seen[q]
    BY <1>2, <2>1, Zenon DEF Moves
  <2> QED  BY <1>2, <2>1, <2>2, Zenon
<1> QED  BY <1>1, <1>2, Zenon

(* A step within a phase *)
LEMMA PhaseStays ==
    ASSUME NEW p \in Procs, Moves(p), nfree' = nfree,
           pc[p] \notin {"create", "recycle", "return_resource"},
           pc'[p] \notin {"create", "recycle", "return_resource"}
    PROVE  (Dead' <=> Dead) /\ (InUse' <=> InUse) /\ (Returning' <=> Returning)
<1>1. Recycling' = Recycling /\ (Returning' <=> Returning)
  BY Zenon DEF Recycling, Returning, Moves
<1>2. pc'[Map] = "create" <=> pc[Map] = "create"
  BY Zenon DEF Moves, Procs
<1> QED  BY <1>1, <1>2, Zenon DEF Dead, InUse

LEMMA NoticesStay ==
    ASSUME Notices, NEW p \in Procs, Moves(p), uses' = uses, this_id' = this_id,
           UNCHANGED <<asked, wait_list, notified>>,
           (Dead' <=> Dead), (InUse' <=> InUse), (Returning' <=> Returning),
           \/ ver' = ver /\ pc[p] \notin {"sf_error", "sf_reset"}
           \/ pc'[p] \in {"sf_error", "sf_reset"}
           \/ ver' # this_id + 1
    PROVE  Notices'
<1>1. ver' = this_id' + 1 /\ ~Listing' => wait_list' = {}
  <2> SUFFICES ASSUME ver' = this_id' + 1, ~Listing' PROVE wait_list = {}
    BY Zenon
  <2>1. ver' = ver /\ pc[p] \notin {"sf_error", "sf_reset"}
    BY Zenon DEF Listing
  <2>2. ~Listing
    BY <2>1, Zenon DEF Listing, Moves
  <2> QED  BY <2>1, <2>2, Zenon DEF Notices
<1>2. Quiet' <=> Quiet
  BY Zenon DEF Quiet
<1> QED  BY <1>1, <1>2, Zenon DEF Notices

(* A step within a phase that sends no notice *)
LEMMA WithinPhase ==
    ASSUME SocketRefAssumption, IInv, IInv', Owed, NEW p \in Procs, Moves(p),
           UNCHANGED <<uses, nfree, this_id, asked, wait_list, notified>>,
           pc[p] \notin {"create", "recycle", "return_resource"},
           pc'[p] \notin {"create", "recycle", "return_resource"},
           Quiet /\ ~Dead => KeepsBooks(p),
           \/ ver' = ver /\ pc[p] \notin {"sf_error", "sf_reset"}
           \/ pc'[p] \in {"sf_error", "sf_reset"}
           \/ ver' # this_id + 1,
           Quiet /\ "health_check" \notin uses /\ ~Dead /\ nref' = 0 =>
               \/ pc'[p] \in {"undo_cas", "deref_cas"} /\ seen'[p] = ver'
               \/ nref = 0 /\ ver' = ver /\ pc[p] \notin {"undo_cas", "deref_cas"}
    PROVE  Owed'
<1>1. (Dead' <=> Dead) /\ (InUse' <=> InUse) /\ (Returning' <=> Returning)
  BY PhaseStays, Zenon
<1>2. Backed'
  BY <1>1, BackedStep, Zenon DEF IInv, Owed, SocketRefAssumption
<1>3. Claimed'
  BY <1>1, ClaimedStep, Zenon DEF Owed
<1>4. Notices'
  BY <1>1, NoticesStay, Zenon DEF Owed
<1> QED  BY <1>2, <1>3, <1>4, Zenon DEF Owed

LEMMA HolderCounts ==
    ASSUME SocketRefAssumption, IInv, NEW p \in Procs, refs[p] = 1
    PROVE  /\ ~Dead /\ nref \in Nat /\ nref >= 1
           /\ ver = this_id \/ ver = this_id + 1
           /\ ver \in Nat /\ this_id \in Nat
<1>1. Types /\ Counted /\ IsFiniteSet(Procs) /\ ~Dead
  BY Zenon DEF IInv, Phases, Held, SocketRefAssumption
<1>2. Own(p) \in Nat /\ Own(p) + Extra <= nref /\ Extra \in {0, 1} /\ nref \in Nat
  BY <1>1, UnitsFacts, Zenon DEF Types
<1>3. Own(p) \in {1, 2}
  BY OwnIs, Zenon
<1>4. nref >= 1
  BY <1>2, <1>3
<1> QED  BY <1>1, <1>2, <1>4, Zenon DEF IInv, Phases, Global, Types

(* While SetFailed has not released the additional reference, and in a      *)
(* socket that has not failed, the flag is not set                          *)
LEMMA FlagIsClear ==
    ASSUME SocketRefAssumption, IInv, Owed, Quiet, "health_check" \notin uses, ~Dead,
           Pending # {} \/ ver = this_id
    PROVE  ~recycle_flag
<1>1. Types /\ IsFiniteSet(Procs) /\ nref = Units /\ nref = Backing /\ Unchecked
  BY Zenon DEF IInv, Counted, Owed, Backed, SocketRefAssumption
<1>2. Reviving = {}
  BY <1>1, Zenon DEF Unchecked, Reviving
<1>3. Pending \subseteq Procs /\ IsFiniteSet(Pending) /\ IsFiniteSet(Holders) /\ IsFiniteSet(Owing)
  BY <1>1, SetsFinite, FS_Subset, Zenon DEF Pending
<1>4. /\ Cardinality(Pending) \in Nat /\ Cardinality(Holders) \in Nat /\ Cardinality(Owing) \in Nat
      /\ (Pending # {} => Cardinality(Pending) # 0) /\ Cardinality(Reviving) = 0
  BY <1>2, <1>3, FS_CardinalityType, FS_EmptySet, Zenon
<1>5. Valid \in {0, 1} /\ (ver = this_id => Valid = 1) /\ Extra \in {0, 1}
  BY Zenon DEF Valid, Extra
<1>6. Extra = Cardinality(Pending) + Valid
  BY <1>1, <1>4, <1>5 DEF Units, Backing
<1>7. Extra = 1
  BY <1>4, <1>5, <1>6
<1> QED  BY <1>7 DEF Extra

LEMMA StrollOwed ==
    ASSUME SocketRefAssumption, IInv, IInv', Owed, NEW p \in Procs, Strolls(p), uses' = uses
    PROVE  Owed'
<1>1. /\ UNCHANGED <<ver, nref, this_id, nfree, ids, recycle_flag, refs, arg, seen>>
      /\ refs[p] = 1
      /\ pc[p] \in {"idle", "sf_error", "sf_reset", "release_extra", "removed",
                    "wait_reset", "reset", "check", "revive"}
  BY StrollShape, Zenon
<1>2. Types /\ Types' /\ IsFiniteSet(Procs) /\ Local(p)
  BY Zenon DEF IInv, SocketRefAssumption, Phases
<1>3. ~Dead /\ nref \in Nat /\ nref >= 1
  BY <1>1, HolderCounts, Zenon
<1>4. Moves(p) /\ pc'[p] \in {"idle", "deref", "hc_sleep", "release_extra", "sf_reset", "reset", "check",
                               "revive", "removed", "wait_reset", "sf_error"}
  <2>1. \A q \in Procs \ {p} : pc'[q] = pc[q] /\ ret'[q] = ret[q]
    BY <1>2, StrollShape DEF Types
  <2>2. pc'[p] \in {"idle", "deref", "hc_sleep", "release_extra", "sf_reset", "reset", "check",
                    "revive", "removed", "wait_reset", "sf_error"}
    BY <1>2, StrollShape DEF Types, Local
  <2> QED  BY <1>1, <2>1, <2>2, Zenon DEF Moves
<1>5. ASSUME Quiet PROVE KeepsBooks(p)
  <2>1. Share(p) \in Nat /\ Share(p)' \in Nat /\ Valid' = Valid /\ Valid \in {0, 1}
    BY <1>1, <1>2, <1>4, BackingStep, Zenon DEF Valid
  <2>2. CASE ReleaseAdditionalReference(p) /\ recycle_flag
    <3>1. Share(p) = 2 /\ Share(p)' \in {1, 2}
      BY <1>1, <1>4, <2>2, ShareIs, Zenon DEF ReleaseAdditionalReference
    <3>2. "health_check" \in uses
      <4>1. p \in Pending
        BY <2>2, Zenon DEF Pending, ReleaseAdditionalReference
      <4> QED  BY <1>3, <1>5, <2>2, <4>1, FlagIsClear, Zenon
    <3> QED  BY <1>1, <1>3, <2>1, <3>1, <3>2 DEF KeepsBooks
  <2>3. CASE \/ Release(p) \/ SetFailedError(p) \/ SetFailedResetList(p)
             \/ p = Map /\ (ReplaceFailed \/ Removed)
             \/ p \in Checkers /\ (WaitAndReset(p) \/ Reset(p) \/ CheckHealth(p) \/ (Revive(p) /\ nref <= 1))
             \/ NotifyOnFailed(p) \/ (SetFailed(p) /\ Failed)
    <3>1. \/ pc' = pc
          \/ pc[p] \in {"sf_error", "sf_reset"} /\ pc'[p] \in {"sf_reset", "release_extra"}
          \/ /\ pc[p] \in {"idle", "removed", "wait_reset", "reset", "check", "revive"}
             /\ pc'[p] \in {"deref", "reset", "check", "revive"}
      <4>1. pc \in [Procs -> Labels]
        BY <1>2, Zenon DEF Types
      <4> QED  BY <2>3, <4>1, Zenon DEF Release, SetFailedError, SetFailedResetList, ReplaceFailed, Removed,
              WaitAndReset, Reset, CheckHealth, Revive, NotifyOnFailed, SetFailed, Call, Goto
    <3>2. Share(p)' = Share(p)
      BY <1>1, <3>1, Zenon DEF Share
    <3> QED  BY <1>1, <1>3, <2>1, <3>2 DEF KeepsBooks
  <2>4. CASE (p = Map /\ Remove) \/ ReleaseReferenceIfIdle(p)
    BY <1>5, <2>4, Zenon DEF Quiet, Remove, ReleaseReferenceIfIdle, StartOp
  <2> QED  BY <2>2, <2>3, <2>4, Zenon DEF Strolls
<1>6. CASE UNCHANGED <<asked, wait_list, notified>> /\ (pc[p] = "sf_reset" => pc'[p] \in {"sf_error", "sf_reset"})
  <2>1. pc[p] = "sf_error" => pc'[p] \in {"sf_error", "sf_reset"}
    <3>1. pc \in [Procs -> Labels]
      BY <1>2, Zenon DEF Types
    <3> QED  BY <3>1, Zenon DEF Strolls, Release, SetFailedError, SetFailedResetList, ReleaseReferenceIfIdle,
              NotifyOnFailed, SetFailed, Remove, ReplaceFailed, Removed, WaitAndReset, Reset, CheckHealth,
              Revive, ReleaseAdditionalReference, StartOp, Goto
  <2> QED  BY <1>1, <1>3, <1>4, <1>5, <1>6, <2>1, WithinPhase, Zenon
<1>7. CASE (p \in Threads /\ NotifyOnFailed(p)) \/ SetFailedResetList(p)
  <2>1. (Dead' <=> Dead) /\ (InUse' <=> InUse) /\ (Returning' <=> Returning)
    BY <1>1, <1>4, PhaseStays, Zenon
  <2>2. Backed'
    BY <1>2, <1>4, <1>5, <2>1, BackedStep, Zenon DEF Owed
  <2>3. Claimed'
    BY <1>1, <1>3, <1>4, ClaimedStep, Zenon DEF Owed
  <2>4. InUse /\ ~Returning /\ Notices
    BY <1>2, <1>3 DEF Dead, InUse, Returning, Recycling, Types, Owed
  <2>5. /\ notified \in [Threads -> Nat] /\ wait_list \subseteq asked
        /\ \A t \in Threads : notified[t] = IF t \in asked \ wait_list THEN 1 ELSE 0
        /\ ver = this_id + 1 /\ ~Listing => wait_list = {}
    BY <2>4, Zenon DEF Notices
  <2>6. CASE p \in Threads /\ NotifyOnFailed(p)
    <3>1. p \notin asked /\ asked' = asked \cup {p} /\ pc' = pc
      BY <2>6, Zenon DEF NotifyOnFailed
    <3>2. CASE Failed
      <4>1. wait_list' = wait_list /\ notified' = [notified EXCEPT ![p] = @ + 1]
        BY <2>6, <3>2, Zenon DEF NotifyOnFailed
      <4>2. /\ notified' \in [Threads -> Nat] /\ wait_list' \subseteq asked'
            /\ \A t \in Threads : notified'[t] = IF t \in asked' \ wait_list' THEN 1 ELSE 0
        <5>1. notified' \in [Threads -> Nat] /\ wait_list' \subseteq asked'
          <6>1. notified \in [Threads -> Nat] /\ notified[p] \in Nat
            BY <2>5, <2>6, Zenon
          <6> QED  BY <2>5, <2>6, <3>1, <4>1, <6>1
        <5>2. ASSUME NEW t \in Threads, t # p
              PROVE  notified'[t] = IF t \in asked' \ wait_list' THEN 1 ELSE 0
          BY <2>5, <3>1, <4>1, <5>2, Zenon
        <5>3. notified'[p] = IF p \in asked' \ wait_list' THEN 1 ELSE 0
          <6>1. notified[p] = 0 /\ p \notin wait_list
            BY <2>5, <2>6, <3>1, Zenon
          <6>2. notified'[p] = 1
            BY <2>5, <2>6, <4>1, <6>1
          <6> QED  BY <3>1, <4>1, <6>1, <6>2, Zenon
        <5> QED  BY <5>1, <5>2, <5>3, Zenon
      <4>3. ver' = this_id' + 1 /\ ~Listing' => wait_list' = {}
        BY <1>1, <2>5, <3>1, <4>1, Zenon DEF Listing
      <4> QED  BY <1>3, <2>1, <2>2, <2>3, <4>2, <4>3, Zenon DEF Notices, Owed
    <3>3. CASE ~Failed
      <4>1. wait_list' = wait_list \cup {p} /\ notified' = notified
        BY <2>6, <3>3, Zenon DEF NotifyOnFailed
      <4>2. /\ notified' \in [Threads -> Nat] /\ wait_list' \subseteq asked'
            /\ \A t \in Threads : notified'[t] = IF t \in asked' \ wait_list' THEN 1 ELSE 0
        BY <2>5, <3>1, <4>1, Zenon
      <4>3. ver' # this_id' + 1
        BY <1>1, <1>2, <3>3 DEF Failed, Types
      <4> QED  BY <1>3, <2>1, <2>2, <2>3, <4>2, <4>3, Zenon DEF Notices, Owed
    <3> QED  BY <3>2, <3>3, Zenon
  <2>7. CASE SetFailedResetList(p)
    <3>1. /\ wait_list' = {} /\ asked' = asked
          /\ notified' = [u \in Threads |-> IF u \in wait_list THEN notified[u] + 1 ELSE notified[u]]
      BY <2>7, Zenon DEF SetFailedResetList
    <3>2. /\ notified' \in [Threads -> Nat] /\ wait_list' \subseteq asked'
          /\ \A t \in Threads : notified'[t] = IF t \in asked' \ wait_list' THEN 1 ELSE 0
      BY <2>5, <3>1
    <3> QED  BY <2>2, <2>3, <3>1, <3>2, Zenon DEF Notices, Owed
  <2> QED  BY <1>7, <2>6, <2>7, Zenon
<1>8. \/ (p \in Threads /\ NotifyOnFailed(p)) \/ SetFailedResetList(p)
      \/ UNCHANGED <<asked, wait_list, notified>> /\ (pc[p] = "sf_reset" => pc'[p] \in {"sf_error", "sf_reset"})
  BY <1>2, Zenon DEF Strolls, Release, SetFailedError, ReleaseReferenceIfIdle, SetFailed, Remove, ReplaceFailed,
        Removed, WaitAndReset, Reset, CheckHealth, Revive, ReleaseAdditionalReference, StartOp, history, socket, Types
<1> QED  BY <1>6, <1>7, <1>8, Zenon

(* fetch_add and fetch_sub, and a holder's steps: one unit each way *)
LEMMA CountOwed ==
    ASSUME SocketRefAssumption, IInv, IInv', Owed, NEW p \in Procs, uses' = uses,
           \/ \E v \in ids : p \in Threads /\ (Address(p, v) \/ AddressFailedAsWell(p, v))
           \/ p \in Checkers /\ (HcTrigger(p) \/ HcTriggerAgain(p))
    PROVE  Owed'
<1>1. Types /\ Types' /\ IsFiniteSet(Procs) /\ Local(p)
  BY Zenon DEF IInv, SocketRefAssumption, Phases
<1>2. UNCHANGED <<ver, this_id, nfree, asked, wait_list, notified>> /\ nref' = nref + 1
  BY Zenon DEF Address, AddressFailedAsWell, HcTrigger, HcTriggerAgain, AddRef, history
<1>3. Moves(p)
  <2>1. PICK v, accepted : AddRef(p, v, accepted)
    BY Zenon DEF Address, AddressFailedAsWell, HcTrigger, HcTriggerAgain
  <2>2. \A q \in Procs \ {p} : arg'[q] = arg[q] /\ seen'[q] = seen[q] /\ refs'[q] = refs[q]
    BY <1>1, <2>1, Zenon DEF AddRef, Types
  <2>3. /\ pc' = pc \/ \E l : pc' = [pc EXCEPT ![p] = l]
        /\ ret' = ret \/ \E r : ret' = [ret EXCEPT ![p] = r]
    BY Zenon DEF Address, AddressFailedAsWell, HcTrigger, HcTriggerAgain, Call, Goto
  <2>4. \A q \in Procs \ {p} : pc'[q] = pc[q] /\ ret'[q] = ret[q]
    BY <1>1, <2>3, Zenon DEF Types
  <2> QED  BY <2>2, <2>4, Zenon DEF Moves
<1>4. refs[p] = 0 /\ pc[p] \in {"idle", "hc_sleep"}
  BY <1>1, Zenon DEF Address, AddressFailedAsWell, HcTrigger, HcTriggerAgain, StartOp, Local, WithoutRef
<1>5. \/ pc'[p] \in {"idle", "wait_reset", "check"} /\ refs'[p] = 1
      \/ pc'[p] \in {"undo", "undo_failed"} /\ refs'[p] = 0
  <2>1. pc \in [Procs -> Labels] /\ refs \in [Procs -> {0, 1}]
    BY <1>1, Zenon DEF Types
  <2>2. ASSUME NEW v \in ids, Address(p, v)
        PROVE  \/ pc'[p] \in {"idle", "wait_reset", "check"} /\ refs'[p] = 1
               \/ pc'[p] \in {"undo", "undo_failed"} /\ refs'[p] = 0
    BY <1>4, <2>1, <2>2 DEF Address, AddRef, StartOp, Call, Goto
  <2>3. ASSUME NEW v \in ids, AddressFailedAsWell(p, v)
        PROVE  \/ pc'[p] \in {"idle", "wait_reset", "check"} /\ refs'[p] = 1
               \/ pc'[p] \in {"undo", "undo_failed"} /\ refs'[p] = 0
    BY <1>4, <2>1, <2>3 DEF AddressFailedAsWell, AddRef, StartOp, Call, Goto
  <2>4. CASE HcTrigger(p)
    BY <1>4, <2>1, <2>4 DEF HcTrigger, AddRef, Call, Goto
  <2>5. CASE HcTriggerAgain(p)
    BY <1>4, <2>1, <2>5 DEF HcTriggerAgain, AddRef, Call, Goto
  <2> QED  BY <2>2, <2>3, <2>4, <2>5, Zenon
<1>6. Share(p)' = 1 /\ Share(p) = 0 /\ Valid' = Valid /\ Valid \in {0, 1} /\ nref \in Nat
  BY <1>1, <1>2, <1>4, <1>5, ShareIs, ValidIs, Zenon DEF Types
<1>7. KeepsBooks(p) /\ nref' # 0
  BY <1>2, <1>6 DEF KeepsBooks
<1> QED  BY <1>2, <1>3, <1>4, <1>5, <1>7, WithinPhase, Zenon

LEMMA UndoOwed ==
    ASSUME SocketRefAssumption, IInv, IInv', Owed, NEW p \in Procs, uses' = uses, Undo(p)
    PROVE  Owed'
<1>1. Types /\ Types' /\ IsFiniteSet(Procs) /\ Local(p) /\ Counted
  BY Zenon DEF IInv, SocketRefAssumption, Phases
<1>2. /\ UNCHANGED <<ver, this_id, nfree, asked, wait_list, notified, refs, arg, ret>>
      /\ nref' = nref - 1 /\ seen' = [seen EXCEPT ![p] = ver] /\ pc[p] \in {"undo", "undo_failed"}
  BY Zenon DEF Undo, Return
<1>3. Moves(p) /\ seen'[p] = ver
  BY <1>1, <1>2, Zenon DEF Undo, Return, Goto, Moves, Types
<1>4. /\ refs[p] = 0 /\ refs'[p] = 0 /\ pc'[p] \in {"idle", "hc_sleep", "undo_cas"}
      /\ nref = 1 /\ UndoMayRecycle(p) => pc'[p] = "undo_cas"
  BY <1>1, <1>2, Zenon DEF Undo, Return, Goto, Local, WithoutRef, Undoing, Types
<1>5. Share(p) = 1 /\ Share(p)' = 0 /\ Valid' = Valid /\ Valid \in {0, 1}
  BY <1>2, <1>4, ShareIs, ValidIs, Zenon
<1>6. nref \in Nat /\ nref >= 1
  <2>1. Own(p) \in Nat /\ Own(p) + Extra <= nref /\ Extra \in {0, 1}
    BY <1>1, UnitsFacts, Zenon
  <2>2. Own(p) >= 1
    BY <1>2, <1>4, OwnIs
  <2> QED  BY <1>1, <2>1, <2>2 DEF Types
<1>7. KeepsBooks(p)
  BY <1>2, <1>5, <1>6 DEF KeepsBooks
<1>8. ASSUME Quiet, "health_check" \notin uses, ~Dead, nref' = 0 PROVE pc'[p] = "undo_cas"
  <2>1. nref = 1
    BY <1>2, <1>6, <1>8
  <2>2. Own(p) + Extra <= nref /\ Own(p) = 1 /\ Extra \in {0, 1} /\ (p \in Checkers => FALSE)
    BY <1>1, <1>2, <1>4, <1>8, UnitsFacts, OwnIs, Zenon DEF Counted, Unchecked
  <2>3. Extra = 0
    BY <2>1, <2>2
  <2>4. recycle_flag
    BY <1>1, <1>8, <2>3 DEF Extra, InUse, Dead, Types
  <2>5. ver # this_id
    BY <1>8, <2>4, FlagIsClear, Zenon
  <2>6. ver = this_id + 1 /\ this_id % 2 = 0 /\ this_id \in Nat
    BY <1>1, <1>8, <2>5, Zenon DEF IInv, Phases, Global, Types
  <2>7. ver % 2 = 1
    BY <2>6, Parity, Zenon
  <2>8. ver = seen[p] \/ ver = seen[p] + 1
    BY <1>1, <1>2, <1>8, Zenon DEF Counted, Unchecked, Undoing
  <2> QED  BY <1>4, <2>1, <2>7, <2>8, Zenon DEF UndoMayRecycle
<1> QED  BY <1>2, <1>3, <1>4, <1>7, <1>8, WithinPhase, Zenon

LEMMA DereferenceOwed ==
    ASSUME SocketRefAssumption, IInv, IInv', Owed, NEW p \in Procs, uses' = uses, Dereference(p)
    PROVE  Owed'
<1>1. Types /\ Types' /\ IsFiniteSet(Procs) /\ Local(p) /\ Counted
  BY Zenon DEF IInv, SocketRefAssumption, Phases
<1>2. /\ UNCHANGED <<ver, this_id, nfree, asked, wait_list, notified, ret>>
      /\ nref' = nref - 1 /\ seen' = [seen EXCEPT ![p] = ver] /\ pc[p] \in {"deref", "deref_extra"}
  BY Zenon DEF Dereference, Return
<1>3. Moves(p) /\ seen'[p] = ver
  BY <1>1, <1>2, Zenon DEF Dereference, Return, Goto, Moves, Types
<1>4. refs[p] = 1
  BY <1>1, <1>2, Zenon DEF Local, WithRef
<1>5. ~Dead /\ nref \in Nat /\ nref >= 1 /\ (ver = this_id \/ ver = this_id + 1)
  BY <1>4, HolderCounts, Zenon
<1>6. /\ refs'[p] = (IF pc[p] = "deref" THEN 0 ELSE 1)
      /\ pc'[p] \in {"idle", "hc_sleep", "removed", "deref_cas"}
      /\ nref = 1 => pc'[p] = "deref_cas"
  <2>1. pc'[p] \in {"deref_cas", ret[p]} /\ (nref = 1 => pc'[p] = "deref_cas")
    BY <1>1, <1>5, Zenon DEF Dereference, Return, Goto, Types
  <2>2. ret[p] \in {"idle", "hc_sleep", "removed"}
    BY <1>1, <1>2, Zenon DEF Local, Undoing
  <2>3. refs' = IF pc[p] = "deref" THEN [refs EXCEPT ![p] = @ - 1] ELSE refs
    BY Zenon DEF Dereference
  <2>4. refs'[p] = (IF pc[p] = "deref" THEN 0 ELSE 1)
    BY <1>1, <1>4, <2>3 DEF Types
  <2> QED  BY <2>1, <2>2, <2>4, Zenon
<1>7. /\ (Share(p) = 1 /\ Share(p)' = 0) \/ (Share(p) = 2 /\ Share(p)' = 1)
      /\ Valid' = Valid /\ Valid \in {0, 1}
  BY <1>2, <1>4, <1>6, ShareIs, ValidIs, Zenon
<1>8. KeepsBooks(p)
  BY <1>2, <1>5, <1>7 DEF KeepsBooks
<1>9. nref' = 0 => pc'[p] = "deref_cas"
  BY <1>2, <1>5, <1>6
<1> QED  BY <1>2, <1>3, <1>6, <1>8, <1>9, WithinPhase, Zenon

(* Whoever claims a quiet socket finds it failed and its list empty *)
LEMMA ClaimOwed ==
    ASSUME SocketRefAssumption, IInv, IInv', Owed, NEW p \in Procs, uses' = uses,
           UndoCas(p) \/ DerefCas(p)
    PROVE  Owed'
<1>1. Types /\ Types' /\ IsFiniteSet(Procs) /\ Local(p) /\ Counted
  BY Zenon DEF IInv, SocketRefAssumption, Phases
<1>2. /\ UNCHANGED <<nref, this_id, nfree, asked, wait_list, notified, refs, arg, ret, seen>>
      /\ pc[p] \in {"undo_cas", "deref_cas"}
  BY Zenon DEF UndoCas, DerefCas, Claim, locals, history
<1>3. Moves(p)
  BY <1>1, <1>2, Zenon DEF UndoCas, DerefCas, Claim, Goto, Moves, Types
<1>4. refs[p] = 0 /\ ret[p] \in {"idle", "hc_sleep"}
  BY <1>1, <1>2, Zenon DEF Local, WithoutRef, Undoing
<1>5. CASE vref # <<seen[p], 0>>
  <2>1. ver' = ver /\ pc'[p] = ret[p]
    BY <1>1, <1>5, Zenon DEF UndoCas, DerefCas, Claim, Goto, Types
  <2>2. KeepsBooks(p)
    <3>1. Share(p)' = 0 /\ Share(p) = 0 /\ Valid' = Valid /\ Valid \in {0, 1} /\ nref \in Nat
      BY <1>1, <1>2, <1>4, <2>1, ShareIs, ValidIs, Zenon DEF Types
    <3> QED  BY <1>2, <3>1 DEF KeepsBooks
  <2>3. (Dead' <=> Dead) /\ (InUse' <=> InUse) /\ (Returning' <=> Returning)
    BY <1>2, <1>3, <1>4, <2>1, PhaseStays, Zenon
  <2>4. Backed' /\ Notices'
    <3>1. Backed'
      BY <1>1, <1>3, <2>2, <2>3, BackedStep, Zenon DEF Owed
    <3>2. Notices'
      BY <1>2, <1>3, <2>1, <2>3, NoticesStay, Zenon DEF Owed
    <3> QED  BY <3>1, <3>2, Zenon
  <2>5. Claimed'
    <3> SUFFICES ASSUME Quiet, "health_check" \notin uses, ~Dead, nref = 0
                 PROVE  \E q \in Procs : pc'[q] \in {"undo_cas", "deref_cas"} /\ seen'[q] = ver'
      BY <1>2, <2>3, Zenon DEF Claimed, Quiet
    <3>1. PICK q \in Procs : pc[q] \in {"undo_cas", "deref_cas"} /\ seen[q] = ver
      BY Zenon DEF Owed, Claimed
    <3>2. q # p
      BY <1>5, <3>1, Zenon DEF vref
    <3> QED  BY <1>3, <2>1, <3>1, <3>2, Zenon DEF Moves
  <2> QED  BY <2>4, <2>5, Zenon DEF Owed
<1>6. CASE vref = <<seen[p], 0>>
  <2>1. nref = 0 /\ ver = seen[p] /\ pc'[p] = "recycle"
    BY <1>1, <1>6, Zenon DEF UndoCas, DerefCas, Claim, Goto, vref, Types
  <2>2. p \in Recycling'
    BY <2>1, Zenon DEF Recycling
  <2>3. Dead' /\ ver' # this_id' + 1
    <3>1. Dead'
      BY <2>2, Zenon DEF Dead
    <3>2. ver' = this_id' + 2 \/ ver' = this_id'
      BY <3>1, Zenon DEF IInv, Phases, Global
    <3>3. this_id' \in Nat
      BY <1>1, Zenon DEF Types
    <3>4. this_id' + 2 # this_id' + 1 /\ this_id' # this_id' + 1
      <4>1. \A n \in Nat : n + 2 # n + 1 /\ n # n + 1
        OBVIOUS
      <4> QED  BY <3>3, <4>1, Zenon
    <3> QED  BY <3>1, <3>2, <3>4, Zenon
  <2>4. ~Dead
    <3>1. ASSUME Dead PROVE FALSE
      <4>1. /\ ver = this_id + 2 /\ ver \in Nat /\ this_id \in Nat /\ this_id % 2 = 0 /\ arg[p] \in Nat
        BY <1>1, <1>2, <3>1, Zenon DEF IInv, Phases, Global, Types
      <4>2. \/ ver % 2 = 1
            \/ arg[p] <= this_id /\ (ver = arg[p] \/ ver = arg[p] + 1)
        BY <1>1, <1>2, <2>1, Zenon DEF Local
      <4> QED  BY <4>1, <4>2, Parity
    <3> QED  BY <3>1, Zenon
  <2>5. Quiet => wait_list = {}
    <3> SUFFICES ASSUME Quiet PROVE wait_list = {}
      BY Zenon
    <3>1. nref >= Backing /\ Backing \in Nat
      BY <1>1, <1>3, <2>4, BackingStep, Zenon DEF Owed, Backed
    <3>2. Valid = 0
      <4>1. IsFiniteSet(Holders) /\ IsFiniteSet(Owing) /\ IsFiniteSet(Pending)
        <5>1. Pending \subseteq Procs
          BY Zenon DEF Pending
        <5> QED  BY <1>1, <5>1, SetsFinite, FS_Subset, Zenon
      <4>2. Cardinality(Holders) \in Nat /\ Cardinality(Owing) \in Nat /\ Cardinality(Pending) \in Nat
        BY <4>1, FS_CardinalityType, Zenon
      <4>3. Valid \in {0, 1}
        BY Zenon DEF Valid
      <4> QED  BY <2>1, <3>1, <4>2, <4>3 DEF Backing
    <3>3. ver = this_id + 1
      BY <2>4, <3>2 DEF Valid, IInv, Phases, Global
    <3>4. ~Listing
      <4>1. \A q \in Procs : refs[q] = 0
        BY <1>1, <2>1, UnitsFacts, Zenon
      <4>2. \A q \in Procs : pc[q] \in {"sf_error", "sf_reset"} => refs[q] = 1
        BY Zenon DEF IInv, Phases, Local, WithRef
      <4> QED  BY <4>1, <4>2 DEF Listing
    <3> QED  BY <3>3, <3>4, Zenon DEF Owed, Notices
  <2>6. InUse /\ ~Returning
    BY <1>1, <2>4 DEF Dead, InUse, Returning, Recycling, Types
  <2>7. Notices'
    BY <1>2, <2>3, <2>5, <2>6, Zenon DEF Owed, Notices, Quiet
  <2> QED  BY <2>3, <2>7, Zenon DEF Owed, Backed, Claimed
<1> QED  BY <1>5, <1>6, Zenon

LEMMA PoolOwed ==
    ASSUME SocketRefAssumption, IInv, IInv', Owed, NEW p \in Procs, uses' = uses,
           OnRecycle(p) \/ ReturnResource(p) \/ (p = Map /\ GetResource)
    PROVE  Owed'
<1>1. Types /\ Types' /\ Map \in Procs
  BY Zenon DEF IInv, Procs
<1>2. /\ UNCHANGED <<ver, this_id, asked, notified>>
      /\ wait_list' = {} \/ wait_list' = wait_list
  BY Zenon DEF OnRecycle, ReturnResource, GetResource, vref, history
<1>3. Dead
  BY Zenon DEF Dead, Recycling, OnRecycle, ReturnResource, GetResource
<1>4. Dead'
  <2>1. CASE OnRecycle(p)
    <3>1. pc'[p] = "return_resource"
      BY <1>1, <2>1, Zenon DEF OnRecycle, Goto, Types
    <3> QED  BY <3>1, Zenon DEF Dead, Recycling
  <2>2. CASE ReturnResource(p)
    BY <1>1, <2>2 DEF ReturnResource, Dead, Types
  <2>3. CASE p = Map /\ GetResource
    BY <1>1, <2>3, Zenon DEF GetResource, Goto, Dead, Types
  <2> QED  BY <2>1, <2>2, <2>3, Zenon
<1>5. InUse' /\ ~Returning' => FALSE
  <2>1. CASE OnRecycle(p)
    <3>1. pc'[p] = "return_resource"
      BY <1>1, <2>1, Zenon DEF OnRecycle, Goto, Types
    <3> QED  BY <3>1, Zenon DEF Returning
  <2>2. CASE ReturnResource(p)
    <3>1. nfree' = nfree + 1 /\ nfree \in {0, 1}
      BY <1>1, <2>2, Zenon DEF ReturnResource, Types
    <3> QED  BY <3>1 DEF InUse
  <2>3. CASE p = Map /\ GetResource
    <3>1. pc'[Map] = "create"
      BY <1>1, <2>3, Zenon DEF GetResource, Goto, Types
    <3> QED  BY <3>1, Zenon DEF InUse
  <2> QED  BY <2>1, <2>2, <2>3, Zenon
<1>6. ver' # this_id' + 1
  <2>1. ver' = this_id' + 2 \/ ver' = this_id'
    BY <1>4, Zenon DEF IInv, Phases, Global
  <2>2. this_id' \in Nat
    BY <1>1, Zenon DEF Types
  <2>3. \A n \in Nat : n + 2 # n + 1 /\ n # n + 1
    OBVIOUS
  <2> QED  BY <2>1, <2>2, <2>3, Zenon
<1>7. Notices'
  <2>1. Quiet => wait_list = {} /\ wait_list' = {}
    BY <1>2, <1>3, Zenon DEF Owed, Notices
  <2>2. Quiet' <=> Quiet
    BY Zenon DEF Quiet
  <2> QED  BY <1>2, <1>5, <1>6, <2>1, <2>2, Zenon DEF Owed, Notices
<1> QED  BY <1>4, <1>7, Zenon DEF Owed, Backed, Claimed

LEMMA HolderOwed ==
    ASSUME SocketRefAssumption, IInv, IInv', Owed, NEW p \in Procs, uses' = uses,
           \/ p \in Threads /\ SetFailed(p) /\ ~Failed
           \/ ReleaseAdditionalReference(p) /\ ~recycle_flag
           \/ p \in Checkers /\ ((Revive(p) /\ ~(nref <= 1)) \/ Revived(p))
    PROVE  Owed'
<1>1. Types /\ Types' /\ IsFiniteSet(Procs) /\ Local(p) /\ refs[p] \in {0, 1}
  BY Zenon DEF IInv, SocketRefAssumption, Phases, Types
<1>2. UNCHANGED <<this_id, nfree, asked, wait_list, notified, refs, arg, seen>>
  <2>1. CASE SetFailed(p)
    BY <2>1, Zenon DEF SetFailed, locals, history
  <2>2. CASE ReleaseAdditionalReference(p)
    BY <2>2, Zenon DEF ReleaseAdditionalReference, history
  <2>3. CASE Revive(p)
    BY <2>3, Zenon DEF Revive
  <2>4. CASE Revived(p)
    BY <2>4, Zenon DEF Revived, history
  <2> QED  BY <2>1, <2>2, <2>3, <2>4, Zenon
<1>3. Moves(p)
  BY <1>1, <1>2, Zenon DEF SetFailed, ReleaseAdditionalReference, Revive, Revived, Goto, Call, Moves, Types, locals
<1>4. refs[p] = 1
  <2>1. refs[p] > 0 \/ pc[p] \in {"release_extra", "revive", "revived"}
    BY Zenon DEF SetFailed, ReleaseAdditionalReference, Revive, Revived
  <2>2. CASE refs[p] > 0
    BY <1>1, <2>2
  <2>3. CASE pc[p] \in {"release_extra", "revive", "revived"}
    BY <1>1, <2>3, Zenon DEF Local, WithRef
  <2> QED  BY <2>1, <2>2, <2>3, Zenon
<1>5. ~Dead /\ nref \in Nat /\ nref >= 1 /\ this_id \in Nat
  BY <1>4, HolderCounts, Zenon
<1>6. CASE SetFailed(p) /\ ~Failed
  <2>1. /\ ver = this_id /\ ver' = this_id + 1 /\ nref' = nref /\ pc[p] = "idle"
        /\ pc'[p] = "sf_error"
    BY <1>1, <1>6, Zenon DEF SetFailed, StartOp, Goto, Failed, Types
  <2>2. Share(p) = 1 /\ Share(p)' = 2 /\ Valid = 1 /\ Valid' = 0
    <3>1. ver' # this_id'
      BY <1>2, <1>5, <2>1, SMTT(30)
    <3> QED  BY <1>2, <1>4, <2>1, <3>1, ShareIs, ValidIs, Zenon
  <2>3. KeepsBooks(p) /\ nref' # 0
    BY <1>5, <2>1, <2>2 DEF KeepsBooks
  <2> QED  BY <1>2, <1>3, <2>1, <2>3, WithinPhase, Zenon
<1>7. CASE ReleaseAdditionalReference(p) /\ ~recycle_flag
  <2>1. ver' = ver /\ nref' = nref /\ pc[p] = "release_extra" /\ pc'[p] = "deref_extra"
    BY <1>1, <1>7, Zenon DEF ReleaseAdditionalReference, Goto, Types, vref
  <2>2. Share(p) = 2 /\ Share(p)' = 2 /\ Valid' = Valid /\ Valid \in {0, 1}
    BY <1>2, <1>4, <2>1, ShareIs, ValidIs, Zenon
  <2>3. KeepsBooks(p) /\ nref' # 0
    BY <1>5, <2>1, <2>2 DEF KeepsBooks
  <2> QED  BY <1>2, <1>3, <2>1, <2>3, WithinPhase, Zenon
<1>8. CASE p \in Checkers /\ Revive(p) /\ ~(nref <= 1)
  <2>1. ver' = arg[p] /\ nref' = nref + 1 /\ pc[p] = "revive" /\ pc'[p] = "revived"
    BY <1>1, <1>8, Zenon DEF Revive, Goto, Types
  <2>2. Share(p) = 1 /\ Share(p)' = 1 /\ Valid' \in {0, 1} /\ Valid \in {0, 1}
    BY <1>2, <1>4, <2>1, ShareIs, ValidIs, Zenon
  <2>3. "health_check" \in uses
    BY <1>8, <2>1, CheckerWorks, Zenon
  <2>4. ver' # this_id + 1
    <3>1. p # Map
      BY <1>8, Zenon DEF SocketRefAssumption
    <3>2. arg[p] = this_id
      BY <1>4, <3>1, Zenon DEF IInv, Phases, Held
    <3>3. \A n \in Nat : n # n + 1
      OBVIOUS
    <3> QED  BY <1>5, <2>1, <3>2, <3>3, Zenon
  <2>5. KeepsBooks(p) /\ nref' # 0
    <3>1. nref' + Share(p) + Valid >= nref + Share(p)' + Valid'
      <4> DEFINE a == Share(p)  b == Share(p)'  v == Valid  w == Valid'
      <4>1. a = 1 /\ b = 1 /\ v \in {0, 1} /\ w \in {0, 1}
        BY <2>2, Zenon
      <4> HIDE DEF a, b, v, w
      <4>2. nref' + a + v >= nref + b + w
        BY <1>5, <2>1, <4>1
      <4> QED  BY <4>2, Zenon DEF a, b, v, w
    <3>2. nref' # 0
      BY <1>5, <2>1
    <3> QED  BY <2>3, <3>1, <3>2, Zenon DEF KeepsBooks
  <2> QED  BY <1>2, <1>3, <2>1, <2>3, <2>4, <2>5, WithinPhase, Zenon
<1>9. CASE p \in Checkers /\ Revived(p)
  <2>1. ver' = ver /\ nref' = nref /\ pc[p] = "revived" /\ pc'[p] = "deref"
    BY <1>1, <1>9, Zenon DEF Revived, Call, Goto, Types, vref
  <2>2. Share(p) = 1 /\ Share(p)' = 1 /\ Valid' = Valid /\ Valid \in {0, 1}
    BY <1>2, <1>4, <2>1, ShareIs, ValidIs, Zenon
  <2>3. KeepsBooks(p) /\ nref' # 0
    BY <1>5, <2>1, <2>2 DEF KeepsBooks
  <2> QED  BY <1>2, <1>3, <2>1, <2>3, WithinPhase, Zenon
<1> QED  BY <1>6, <1>7, <1>8, <1>9, Zenon

LEMMA InsertOwed ==
    ASSUME SocketRefAssumption, IInv, IInv', Owed, uses' = uses, Insert
    PROVE  Owed'
<1>1. Types /\ Types' /\ Map \in Procs /\ Local(Map)
  BY Zenon DEF IInv, Procs, Phases
<1>2. /\ UNCHANGED <<ver, this_id, nfree, asked, wait_list, notified, arg, seen, ret>>
      /\ nref' = nref + 1 /\ refs' = [refs EXCEPT ![Map] = 1]
      /\ pc[Map] = "insert" /\ pc' = [pc EXCEPT ![Map] = "idle"]
  BY Zenon DEF Insert, Goto, history
<1>3. Moves(Map) /\ pc'[Map] = "idle" /\ refs'[Map] = 1 /\ refs[Map] = 0
  BY <1>1, <1>2, Zenon DEF Moves, Types, Local, WithoutRef
<1>4. Share(Map) = 0 /\ Share(Map)' = 1 /\ Valid' = Valid /\ Valid \in {0, 1} /\ nref \in Nat
  BY <1>1, <1>2, <1>3, ShareIs, ValidIs, Zenon DEF Types
<1>5. KeepsBooks(Map) /\ nref' # 0
  BY <1>2, <1>4 DEF KeepsBooks
<1> QED  BY <1>1, <1>2, <1>3, <1>5, WithinPhase, Zenon

LEMMA CreateOwed ==
    ASSUME SocketRefAssumption, IInv, IInv', Owed, uses' = uses, Create
    PROVE  Owed'
<1>1. Types /\ Types' /\ Map \in Procs /\ IsFiniteSet(Procs) /\ Counted
  BY Zenon DEF IInv, Procs, SocketRefAssumption
<1>2. /\ UNCHANGED <<ver, nfree, refs, arg, seen, ret>> /\ nref' = nref + 1 /\ this_id' = ver
      /\ wait_list' = {} /\ asked' = {} /\ notified' = [t \in Threads |-> 0] /\ pc[Map] = "create"
  BY Zenon DEF Create, locals
<1>3. Moves(Map) /\ pc'[Map] \in {"insert", "idle"}
  BY <1>1, <1>2, Zenon DEF Create, Goto, Moves, Types
<1>4. Dead /\ \A q \in Procs : refs[q] = 0
  BY <1>1, <1>2, Zenon DEF Dead, IInv, Phases, Held, Types
<1>5. Notices'
  BY <1>2, Zenon DEF Notices
<1>6. Holders' = {} /\ Pending' = {} /\ Reviving = {} /\ Owing' = Owing /\ Extra = 0 /\ Holders = {}
  <2>1. Holders' = {} /\ Holders = {}
    BY <1>2, <1>4 DEF Holders
  <2>2. Pending = {} /\ Reviving = {}
    <3>1. \A q \in Procs : pc[q] \notin WithRef
      BY <1>4 DEF IInv, Phases, Local
    <3>2. {"sf_error", "sf_reset", "release_extra", "revived"} \subseteq WithRef
      BY Zenon DEF WithRef
    <3> QED  BY <3>1, <3>2, Zenon DEF Pending, Reviving, Procs
  <2>3. Pending' = {}
    BY <1>3, <2>2, Zenon DEF Pending, Moves
  <2>4. Owing' = Owing
    BY <1>2, <1>3, Zenon DEF Owing, Moves
  <2>5. Extra = 0
    BY <1>2, Zenon DEF Extra, InUse
  <2> QED  BY <2>1, <2>2, <2>3, <2>4, <2>5, Zenon
<1>7. Valid' = 1
  BY <1>2, Zenon DEF Valid
<1>8. Cardinality(Owing) \in Nat /\ nref \in Nat /\ Cardinality({}) = 0
  BY <1>1, SetsFinite, FS_CardinalityType, FS_EmptySet, Zenon DEF Types
<1>9. /\ nref' >= Backing'
      /\ "health_check" \notin uses => nref' = Backing'
  <2>1. Backing' = Cardinality(Owing) + 1
    BY <1>6, <1>7, <1>8 DEF Backing
  <2>2. Units = Cardinality(Owing)
    BY <1>6, <1>8 DEF Units
  <2> QED  BY <1>1, <1>2, <1>8, <2>1, <2>2 DEF Counted
<1>10. nref' # 0
  BY <1>2, <1>8
<1> QED  BY <1>5, <1>9, <1>10, Zenon DEF Owed, Backed, Claimed

LEMMA OwedInit ==
    ASSUME SocketRefAssumption, Init
    PROVE  Owed
<1>1. Dead
  BY DEF Init, Dead
<1>2. Notices
  BY Zenon DEF Init, Notices
<1> QED  BY <1>1, <1>2, Zenon DEF Owed, Backed, Claimed

LEMMA OwedStep ==
    ASSUME SocketRefAssumption, IInv, IInv', Owed, [Next]_vars
    PROVE  Owed'
<1>1. CASE UNCHANGED vars
  <2>1. UNCHANGED <<uses, ver, nref, this_id, nfree, wait_list, pc, seen, refs, asked, notified>>
    BY <1>1, Zenon DEF vars, socket, vref, locals, history
  <2>2. /\ (Dead' <=> Dead) /\ Holders' = Holders /\ Owing' = Owing /\ Pending' = Pending
        /\ Valid' = Valid /\ (Quiet' <=> Quiet) /\ (InUse' <=> InUse)
        /\ (Listing' <=> Listing) /\ (Returning' <=> Returning)
    BY <2>1, Zenon DEF Recycling, Dead, Holders, Owing, Pending, Valid, Quiet, InUse, Listing, Returning
  <2>3. Backed' /\ Claimed'
    BY <2>1, <2>2, Zenon DEF Owed, Backed, Claimed, Backing
  <2>4. Notices'
    BY <2>1, <2>2, Zenon DEF Owed, Notices
  <2> QED  BY <2>3, <2>4, Zenon DEF Owed
<1>2. CASE Begin /\ uses' = uses
  <2>1. Map \in Procs /\ Threads \subseteq Procs
    BY Zenon DEF Procs
  <2>2. CASE GetResource
    BY <1>2, <2>1, <2>2, PoolOwed, Zenon
  <2>3. CASE Remove \/ ReplaceFailed
    BY <1>2, <2>1, <2>3, StrollOwed, Zenon DEF Strolls
  <2>4. ASSUME NEW t \in Threads, NEW v \in ids, Address(t, v) \/ AddressFailedAsWell(t, v)
        PROVE  Owed'
    BY <1>2, <2>1, <2>4, CountOwed, Zenon
  <2>5. ASSUME NEW t \in Threads, ReleaseReferenceIfIdle(t) \/ NotifyOnFailed(t) PROVE Owed'
    BY <1>2, <2>1, <2>5, StrollOwed, Zenon DEF Strolls
  <2>6. ASSUME NEW t \in Threads, SetFailed(t) PROVE Owed'
    <3>1. CASE Failed
      BY <1>2, <2>1, <2>6, <3>1, StrollOwed, Zenon DEF Strolls
    <3>2. CASE ~Failed
      BY <1>2, <2>1, <2>6, <3>2, HolderOwed, Zenon
    <3> QED  BY <3>1, <3>2, Zenon
  <2> QED  BY <1>2, <2>2, <2>3, <2>4, <2>5, <2>6, Zenon DEF Begin
<1>3. ASSUME NEW p \in Procs, Continue(p), uses' = uses PROVE Owed'
  <2>1. CASE p = Map /\ Create
    BY <1>3, <2>1, CreateOwed, Zenon
  <2>2. CASE p = Map /\ Insert
    BY <1>3, <2>2, InsertOwed, Zenon
  <2>3. CASE Undo(p)
    BY <1>3, <2>3, UndoOwed, Zenon
  <2>4. CASE UndoCas(p) \/ DerefCas(p)
    BY <1>3, <2>4, ClaimOwed, Zenon
  <2>5. CASE Dereference(p)
    BY <1>3, <2>5, DereferenceOwed, Zenon
  <2>6. CASE OnRecycle(p) \/ ReturnResource(p)
    BY <1>3, <2>6, PoolOwed, Zenon
  <2>7. CASE ReleaseAdditionalReference(p)
    <3>1. CASE recycle_flag
      BY <1>3, <2>7, <3>1, StrollOwed, Zenon DEF Strolls
    <3>2. CASE ~recycle_flag
      BY <1>3, <2>7, <3>2, HolderOwed, Zenon
    <3> QED  BY <3>1, <3>2, Zenon
  <2>8. CASE Release(p) \/ SetFailedError(p) \/ SetFailedResetList(p) \/ (p = Map /\ Removed)
    BY <1>3, <2>8, StrollOwed, Zenon DEF Strolls
  <2>9. CASE p \in Checkers /\ (HcTrigger(p) \/ HcTriggerAgain(p))
    BY <1>3, <2>9, CountOwed, Zenon
  <2>10. CASE p \in Checkers /\ (WaitAndReset(p) \/ Reset(p) \/ CheckHealth(p))
    BY <1>3, <2>10, StrollOwed, Zenon DEF Strolls
  <2>11. CASE p \in Checkers /\ Revive(p)
    <3>1. CASE nref <= 1
      BY <1>3, <2>11, <3>1, StrollOwed, Zenon DEF Strolls
    <3>2. CASE ~(nref <= 1)
      BY <1>3, <2>11, <3>2, HolderOwed, Zenon
    <3> QED  BY <3>1, <3>2, Zenon
  <2>12. CASE p \in Checkers /\ Revived(p)
    BY <1>3, <2>12, HolderOwed, Zenon
  <2> QED  BY <1>3, <2>1, <2>2, <2>3, <2>4, <2>5, <2>6, <2>7, <2>8, <2>9, <2>10, <2>11, <2>12, Zenon
             DEF Continue
<1> QED  BY <1>1, <1>2, <1>3, Zenon DEF Next

(* Both invariants together *)
THEOREM OwedInvariance ==
    ASSUME SocketRefAssumption
    PROVE  Spec => [](IInv /\ Owed)
<1>1. Init => Owed
  BY OwedInit, Zenon
<1>2. IInv /\ IInv' /\ Owed /\ [Next]_vars => Owed'
  BY OwedStep, Zenon
<1> QED  BY <1>1, <1>2, Invariance, PTL DEF Spec

LEMMA RefsAreCounted ==
    ASSUME SocketRefAssumption, IInv
    PROVE  RefsAccountedFor
<1>1. Types /\ Counted /\ IsFiniteSet(Procs)
  BY Zenon DEF IInv, SocketRefAssumption
<1> DEFINE reviving == \E c \in Checkers : pc[c] = "revived"
           extra == IF InUse /\ (~recycle_flag \/ reviving) THEN 1 ELSE 0
<1>2. IsFiniteSet(Holders) /\ IsFiniteSet(Owing) /\ IsFiniteSet(Reviving)
  BY <1>1, SetsFinite, Zenon
<1>3. /\ Cardinality(Holders) \in Nat /\ Cardinality(Owing) \in Nat /\ Cardinality(Reviving) \in Nat
      /\ (Reviving # {} => Cardinality(Reviving) # 0) /\ (Reviving = {} => Cardinality(Reviving) = 0)
  BY <1>2, FS_CardinalityType, FS_EmptySet, Zenon
<1>4. reviving <=> Reviving # {}
  BY Zenon DEF Reviving
<1>5. Extra \in {0, 1} /\ extra \in {0, 1} /\ nref \in Nat
  BY <1>1, Zenon DEF Extra, Types
<1>6. /\ Reviving = {} => extra = Extra
      /\ extra <= Cardinality(Reviving) + Extra
  <2>1. Reviving = {} => extra = Extra
    BY <1>4, Zenon DEF Extra
  <2> HIDE DEF extra
  <2> QED  BY <1>3, <1>5, <2>1
<1>7. "health_check" \notin uses => Reviving = {} /\ ~check_failed /\ nref = Units
  BY <1>1, Zenon DEF Counted, Unchecked, Reviving
<1> HIDE DEF extra, reviving
<1> DEFINE owned == Cardinality(Holders) + Cardinality(Owing) + extra
<1>8. nref >= owned /\ ("health_check" \notin uses => nref = owned)
  BY <1>1, <1>3, <1>5, <1>6, <1>7 DEF Counted, Units
<1> QED  BY <1>7, <1>8, Zenon DEF RefsAccountedFor, Holders, Owing, extra, reviving

LEMMA NothingLeaks ==
    ASSUME SocketRefAssumption, IInv, Owed
    PROVE  NoLeak
<1> SUFFICES ASSUME InUse, uses \cap {"idle_release", "remove", "health_check"} = {},
                    \A p \in Procs : pc[p] = "idle" /\ (p # Map => refs[p] = 0)
             PROVE  nref > 0 /\ (Failed => nref = refs[Map])
  BY Zenon DEF NoLeak
<1>1. Types /\ Counted /\ IsFiniteSet(Procs) /\ Quiet /\ "health_check" \notin uses /\ Map \in Procs
  BY Zenon DEF IInv, SocketRefAssumption, Quiet, Procs
<1>2. ~Dead
  BY DEF Dead, InUse, Recycling, Procs
<1>3. nref \in Nat /\ refs[Map] \in {0, 1}
  BY <1>1, Zenon DEF Types
<1>4. nref # 0
  <2>1. nref = 0 => \E p \in Procs : pc[p] \in {"undo_cas", "deref_cas"}
    BY <1>1, <1>2, Zenon DEF Owed, Claimed
  <2> QED  BY <2>1, Zenon
<1>5. ASSUME Failed PROVE nref = refs[Map]
  <2>1. Owing = {} /\ Pending = {} /\ Valid = 0
    BY <1>5, Zenon DEF Owing, Pending, Valid, Failed
  <2>2. Holders = (IF refs[Map] = 1 THEN {Map} ELSE {})
    BY <1>1 DEF Holders
  <2>3. Cardinality({}) = 0 /\ Cardinality({Map}) = 1
    BY FS_EmptySet, FS_Singleton, Zenon
  <2>4. Cardinality(Holders) = refs[Map]
    BY <1>3, <2>2, <2>3, Zenon
  <2>5. nref = Backing
    BY <1>1, <1>2, Zenon DEF Owed, Backed
  <2> QED  BY <1>3, <2>1, <2>3, <2>4, <2>5 DEF Backing
<1> QED  BY <1>3, <1>4, <1>5

LEMMA NoticesCount ==
    ASSUME SocketRefAssumption, IInv, Owed
    PROVE  NotifiedOnce
<1> DEFINE recycled == ~InUse \/ \E p \in Procs : pc[p] = "return_resource"
<1>1. Notices
  BY Zenon DEF Owed
<1>2. ASSUME recycled => uses \cap {"remove", "idle_release"} = {}, NEW t \in Threads
      PROVE  notified[t] + Cardinality(wait_list \cap {t}) = Cardinality(asked \cap {t})
  <2>1. Quiet \/ (InUse /\ ~Returning)
    BY <1>2, Zenon DEF Quiet, Returning
  <2>2. wait_list \subseteq asked /\ notified[t] = IF t \in asked \ wait_list THEN 1 ELSE 0
    BY <1>1, <2>1, Zenon DEF Notices
  <2>3. Cardinality({}) = 0 /\ Cardinality({t}) = 1
    BY FS_EmptySet, FS_Singleton, Zenon
  <2>4. /\ wait_list \cap {t} = (IF t \in wait_list THEN {t} ELSE {})
        /\ asked \cap {t} = (IF t \in asked THEN {t} ELSE {})
    BY Zenon
  <2>5. /\ Cardinality(wait_list \cap {t}) = (IF t \in wait_list THEN 1 ELSE 0)
        /\ Cardinality(asked \cap {t}) = (IF t \in asked THEN 1 ELSE 0)
    BY <2>3, <2>4, Zenon
  <2> QED  BY <2>2, <2>5
<1>3. ASSUME InUse, ver = this_id + 1, \A p \in Procs : pc[p] \notin {"sf_error", "sf_reset"}
      PROVE  wait_list = {}
  BY <1>1, <1>3, Zenon DEF Notices, Listing
<1> QED  BY <1>2, <1>3, Zenon DEF NotifiedOnce

(* The types of the variables that the two invariants do not speak of *)
MoreTypes ==
    /\ recycle_flag \in BOOLEAN /\ check_failed \in BOOLEAN
    /\ wait_list \subseteq Threads /\ asked \subseteq Threads
    /\ ops \in Nat /\ lives \in Nat /\ uses \in Uses

LEMMA MoreTypesBegin ==
    ASSUME MoreTypes, Begin, uses' = uses
    PROVE  MoreTypes'
<1> USE DEF MoreTypes
<1>1. \A n \in Nat : n + 1 \in Nat
  OBVIOUS
<1>2. CASE GetResource
  BY <1>1, <1>2, Zenon DEF GetResource, history
<1>3. CASE Remove
  BY <1>1, <1>3, Zenon DEF Remove, socket, history, bounds
<1>4. CASE ReplaceFailed
  BY <1>1, <1>4, Zenon DEF ReplaceFailed, socket, history, bounds
<1>5. CASE \E t \in Threads : \E v \in ids : Address(t, v) \/ AddressFailedAsWell(t, v)
  BY <1>1, <1>5, Zenon DEF Address, AddressFailedAsWell, StartOp, history
<1>6. CASE \E t \in Threads : SetFailed(t)
  BY <1>1, <1>6, Zenon DEF SetFailed, StartOp, history
<1>7. CASE \E t \in Threads : ReleaseReferenceIfIdle(t)
  BY <1>1, <1>7, Zenon DEF ReleaseReferenceIfIdle, StartOp, socket, history
<1>8. CASE \E t \in Threads : NotifyOnFailed(t)
  BY <1>1, <1>8, Zenon DEF NotifyOnFailed, StartOp
<1> QED  BY <1>2, <1>3, <1>4, <1>5, <1>6, <1>7, <1>8, Zenon DEF Begin

LEMMA MoreTypesContinue ==
    ASSUME MoreTypes, NEW p \in Procs, Continue(p), uses' = uses
    PROVE  MoreTypes'
<1> USE DEF MoreTypes
<1>1. CASE Create
  BY <1>1, Zenon DEF Create, bounds
<1>2. CASE Insert
  BY <1>2, Zenon DEF Insert, history, bounds
<1>3. CASE Removed
  BY <1>3, Zenon DEF Removed, socket, history, bounds
<1>4. CASE Undo(p)
  BY <1>4, Zenon DEF Undo, bounds
<1>5. CASE UndoCas(p)
  BY <1>5, Zenon DEF UndoCas, Claim, history, bounds
<1>6. CASE Dereference(p)
  BY <1>6, Zenon DEF Dereference, bounds
<1>7. CASE DerefCas(p)
  BY <1>7, Zenon DEF DerefCas, Claim, history, bounds
<1>8. CASE OnRecycle(p)
  BY <1>8, Zenon DEF OnRecycle, history, bounds
<1>9. CASE ReturnResource(p)
  BY <1>9, Zenon DEF ReturnResource, history, bounds
<1>10. CASE ReleaseAdditionalReference(p)
  BY <1>10, Zenon DEF ReleaseAdditionalReference, history, bounds
<1>11. CASE Release(p)
  BY <1>11, Zenon DEF Release, socket, history, bounds
<1>12. CASE SetFailedError(p)
  BY <1>12, Zenon DEF SetFailedError, socket, history, bounds
<1>13. CASE SetFailedResetList(p)
  BY <1>13, Zenon DEF SetFailedResetList, bounds
<1>14. CASE HcTrigger(p)
  BY <1>14, Zenon DEF HcTrigger, history, bounds
<1>15. CASE HcTriggerAgain(p)
  BY <1>15, Zenon DEF HcTriggerAgain, bounds
<1>16. CASE WaitAndReset(p)
  BY <1>16, Zenon DEF WaitAndReset, socket, history, bounds
<1>17. CASE Reset(p) \/ CheckHealth(p)
  BY <1>17, Zenon DEF Reset, CheckHealth, socket, history, bounds
<1>18. CASE Revive(p)
  BY <1>18, Zenon DEF Revive, bounds
<1>19. CASE Revived(p)
  BY <1>19, Zenon DEF Revived, history, bounds
<1> QED  BY <1>1, <1>2, <1>3, <1>4, <1>5, <1>6, <1>7, <1>8, <1>9,
             <1>10, <1>11, <1>12, <1>13, <1>14, <1>15, <1>16, <1>17, <1>18, <1>19, Zenon DEF Continue

LEMMA MoreTypesInvariance == Spec => []MoreTypes
<1>1. Init => MoreTypes
  <2>1. 0 \in Nat
    OBVIOUS
  <2> QED  BY <2>1, Zenon DEF Init, MoreTypes
<1>2. MoreTypes /\ [Next]_vars => MoreTypes'
  <2>1. ASSUME MoreTypes, Next PROVE MoreTypes'
    BY <2>1, MoreTypesBegin, MoreTypesContinue, Zenon DEF Next
  <2>2. ASSUME MoreTypes, UNCHANGED vars PROVE MoreTypes'
    BY <2>2, Zenon DEF MoreTypes, vars, socket, history, bounds
  <2> QED  BY <2>1, <2>2, Zenon
<1> QED  BY <1>1, <1>2, PTL DEF Spec

(* Every unit of nref is somebody's, the CHECKs of Address and Dereference  *)
(* hold for a socket that is not health-checked, and it is recycled once.   *)
(* A failed socket that nobody uses any more is down to its creator's       *)
(* reference, and a token registered with NotifyOnFailed is told exactly    *)
(* once, whatever the order of SetFailed and NotifyOnFailed, for revived    *)
(* sockets too.                                                             *)
THEOREM RefsCounted ==
    ASSUME SocketRefAssumption
    PROVE  Spec => []RefsExact
<1>1. IInv /\ Owed => RefsAccountedFor /\ NoLeak /\ NotifiedOnce
  BY RefsAreCounted, NothingLeaks, NoticesCount, Zenon
<1>2. IInv /\ Owed /\ MoreTypes => TypeOK
  BY Zenon DEF IInv, Types, Owed, Notices, MoreTypes, TypeOK
<1> QED  BY <1>1, <1>2, OwedInvariance, MoreTypesInvariance, PTL DEF RefsExact

----------------------------------------------------------------------------
(* Between the moment a socket fails and the moment it is revived, at most  *)
(* one process is in charge of it: the SetFailed that has yet to start the  *)
(* health check, then the fiber that runs it.                               *)

InCharge(p) ==
    \/ pc[p] = "sf_error"
    \/ /\ p \in Checkers /\ arg[p] = this_id
       /\ \/ pc[p] \in {"wait_reset", "reset", "check", "revive", "hc_sleep"}
          \/ /\ pc[p] \in {"deref", "deref_cas", "undo", "undo_failed", "undo_cas",
                        "recycle", "return_resource"}
             /\ ret[p] = "hc_sleep"

OneInCharge ==
    /\ \A p, q \in Procs : InCharge(p) /\ InCharge(q) => p = q
    /\ \A p \in Procs : InCharge(p) => this_id \notin hc_tasks /\ ver # this_id
    /\ ver = this_id => this_id \notin hc_tasks

(* Nobody got a reference since the look that found two *)
StillAlone ==
    "failed_as_well" \notin uses =>
        \A c \in Checkers : pc[c] = "reset" /\ refs[Map] = 1 => \A t \in Threads : refs[t] = 0

Guarded == OneInCharge /\ StillAlone

(* A step of p that neither puts it in charge nor gives it a reference *)
Plain(p) ==
    /\ Moves(p) /\ (InCharge(p)' => InCharge(p))
    /\ this_id' = this_id /\ hc_tasks' \subseteq hc_tasks /\ (ver' = ver \/ ver' # this_id)
    /\ p \in Checkers /\ pc'[p] = "reset" => pc[p] = "reset"
    /\ p \in Checkers \/ (refs'[p] = 1 => refs[p] = 1)
    /\ uses' = uses

LEMMA PlainOneInCharge ==
    ASSUME OneInCharge, NEW p \in Procs, Moves(p), InCharge(p)' => InCharge(p),
           this_id' = this_id, hc_tasks' \subseteq hc_tasks, ver' = ver \/ ver' # this_id
    PROVE  OneInCharge'
<1>1. ASSUME NEW q \in Procs, InCharge(q)' PROVE InCharge(q)
  BY <1>1, Zenon DEF InCharge, Moves
<1> QED  BY <1>1, Zenon DEF OneInCharge

LEMMA PlainStillAlone ==
    ASSUME SocketRefAssumption, IInv, IInv', StillAlone, NEW p \in Procs, Moves(p), uses' = uses,
           p \in Checkers /\ pc'[p] = "reset" => pc[p] = "reset",
           p \in Checkers \/ (refs'[p] = 1 => refs[p] = 1)
    PROVE  StillAlone'
<1>1. /\ Map \in Procs /\ Map \notin Checkers /\ Threads \subseteq Procs /\ Checkers \subseteq Procs
      /\ Threads \cap Checkers = {}
  BY Zenon DEF SocketRefAssumption, Procs
<1>2. refs \in [Procs -> {0, 1}] /\ refs' \in [Procs -> {0, 1}]
  BY Zenon DEF IInv, Types
<1>3. ASSUME NEW q \in Procs, q \notin Checkers, refs'[q] = 1 PROVE refs[q] = 1
  BY <1>3, Zenon DEF Moves
<1>4. ASSUME NEW c \in Checkers, pc'[c] = "reset" PROVE pc[c] = "reset"
  BY <1>1, <1>4, Zenon DEF Moves
<1>5. ASSUME NEW t \in Threads, refs[t] = 0 PROVE refs'[t] = 0
  <2>1. refs'[t] # 1
    BY <1>1, <1>3, <1>5
  <2> QED  BY <1>1, <1>2, <2>1
<1> QED  BY <1>1, <1>3, <1>4, <1>5, Zenon DEF StillAlone

LEMMA PlainStep ==
    ASSUME SocketRefAssumption, IInv, IInv', Guarded, NEW p \in Procs, Plain(p)
    PROVE  Guarded'
  BY PlainOneInCharge, PlainStillAlone, Zenon DEF Guarded, Plain

(* Where a process is after Goto, Call and Return *)
LEMMA Moved ==
    ASSUME Types, NEW p \in Procs
    PROVE  /\ \A l : Goto(p, l) => pc'[p] = l /\ \A q \in Procs \ {p} : pc'[q] = pc[q]
           /\ \A l, r : Call(p, l, r) => /\ pc'[p] = l /\ ret'[p] = r
                                         /\ \A q \in Procs \ {p} : pc'[q] = pc[q] /\ ret'[q] = ret[q]
           /\ Return(p) => /\ pc'[p] = ret[p] /\ ret' = ret
                           /\ \A q \in Procs \ {p} : pc'[q] = pc[q]
  BY Zenon DEF Types, Goto, Call, Return

(* The steps that change neither a reference nor a version *)
LEMMA QuietPlain ==
    ASSUME SocketRefAssumption, IInv, NEW p \in Procs, uses' = uses,
           \/ GetResource /\ p = Map
           \/ p = Map /\ (Remove \/ ReplaceFailed \/ Removed)
           \/ ReleaseReferenceIfIdle(p) \/ NotifyOnFailed(p)
           \/ SetFailed(p) /\ Failed
           \/ Release(p) \/ SetFailedResetList(p) \/ ReleaseAdditionalReference(p)
           \/ OnRecycle(p) \/ ReturnResource(p)
           \/ p \in Checkers /\ (Reset(p) \/ CheckHealth(p) \/ Revived(p) \/ (Revive(p) /\ nref <= 1))
    PROVE  Plain(p)
<1>1. Types /\ Local(p)
  BY Zenon DEF IInv, Phases
<1>2. UNCHANGED <<ver, this_id, hc_tasks, arg, seen, refs>>
  BY Zenon DEF GetResource, Remove, ReplaceFailed, Removed, ReleaseReferenceIfIdle, NotifyOnFailed, SetFailed,
       Release, SetFailedResetList, ReleaseAdditionalReference, OnRecycle, ReturnResource, Reset, CheckHealth,
       Revived, Revive, socket, vref, locals
<1> SUFFICES Moves(p) /\ (InCharge(p)' => InCharge(p)) /\ (pc'[p] = "reset" => pc[p] = "reset")
  BY <1>2, Zenon DEF Plain
<1>3. ASSUME \A q \in Procs \ {p} : pc'[q] = pc[q] /\ ret'[q] = ret[q] PROVE Moves(p)
  BY <1>2, <1>3, Zenon DEF Moves
<1>4. CASE GetResource /\ p = Map
  <2>1. pc'[p] = "create" /\ ret' = ret /\ \A q \in Procs \ {p} : pc'[q] = pc[q]
    BY <1>1, <1>4, Moved, Zenon DEF GetResource, locals
  <2> QED  BY <1>3, <2>1, Zenon DEF InCharge
<1>5. CASE p = Map /\ (Remove \/ ReplaceFailed \/ Removed)
  <2>1. PICK l \in {"release_extra", "deref"}, r \in {"removed", "idle"} : Call(p, l, r)
    BY <1>5, Zenon DEF Remove, ReplaceFailed, Removed
  <2>2. /\ pc'[p] = l /\ ret'[p] = r
        /\ \A q \in Procs \ {p} : pc'[q] = pc[q] /\ ret'[q] = ret[q]
    BY <1>1, <2>1, Moved, Zenon
  <2> QED  BY <1>3, <2>1, <2>2, Zenon DEF InCharge
<1>6. CASE ReleaseReferenceIfIdle(p) \/ Release(p) \/ SetFailedResetList(p)
  <2>1. PICK l \in {"release_extra", "deref"} : Call(p, l, "idle")
    BY <1>6, Zenon DEF ReleaseReferenceIfIdle, Release, SetFailedResetList
  <2>2. /\ pc'[p] = l /\ ret'[p] = "idle"
        /\ \A q \in Procs \ {p} : pc'[q] = pc[q] /\ ret'[q] = ret[q]
    BY <1>1, <2>1, Moved, Zenon
  <2> QED  BY <1>3, <2>1, <2>2, Zenon DEF InCharge
<1>7. CASE NotifyOnFailed(p) \/ (SetFailed(p) /\ Failed)
  <2>1. pc' = pc /\ ret' = ret
    BY <1>7, Zenon DEF NotifyOnFailed, SetFailed, locals
  <2> QED  BY <1>2, <1>3, <2>1, Zenon DEF InCharge
<1>8. CASE ReleaseAdditionalReference(p)
  <2>1. /\ ret' = ret /\ pc'[p] \in {ret[p], "deref_extra"} /\ \A q \in Procs \ {p} : pc'[q] = pc[q]
    BY <1>1, <1>8, Moved, Zenon DEF ReleaseAdditionalReference
  <2>2. ret[p] \in {"idle", "removed"}
    BY <1>1, <1>8, Zenon DEF ReleaseAdditionalReference, Local
  <2> QED  BY <1>3, <2>1, <2>2, Zenon DEF InCharge
<1>9. CASE OnRecycle(p)
  <2>1. /\ ret' = ret /\ pc'[p] = "return_resource" /\ pc[p] = "recycle"
        /\ \A q \in Procs \ {p} : pc'[q] = pc[q]
    BY <1>1, <1>9, Moved, Zenon DEF OnRecycle, locals
  <2> QED  BY <1>2, <1>3, <2>1, Zenon DEF InCharge
<1>10. CASE ReturnResource(p)
  <2>1. /\ ret' = ret /\ pc'[p] = ret[p] /\ pc[p] = "return_resource"
        /\ \A q \in Procs \ {p} : pc'[q] = pc[q]
    BY <1>1, <1>10, Moved, Zenon DEF ReturnResource
  <2>2. ret[p] = "idle" \/ (ret[p] = "hc_sleep" /\ p \in Checkers)
    BY <1>1, <2>1, Zenon DEF Local
  <2> QED  BY <1>2, <1>3, <2>1, <2>2, Zenon DEF InCharge
<1>11. CASE p \in Checkers /\ (Reset(p) \/ CheckHealth(p))
  <2>1. /\ pc[p] \in {"reset", "check"}
        /\ \/ Goto(p, "check") /\ ret' = ret
           \/ Goto(p, "revive") /\ ret' = ret
           \/ Call(p, "deref", "idle")
           \/ Call(p, "deref", "hc_sleep")
    BY <1>11, Zenon DEF Reset, CheckHealth
  <2>2. /\ pc'[p] \in {"check", "revive", "deref"}
        /\ \A q \in Procs \ {p} : pc'[q] = pc[q] /\ ret'[q] = ret[q]
    BY <1>1, <2>1, Moved, Zenon
  <2> QED  BY <1>2, <1>3, <1>11, <2>1, <2>2, Zenon DEF InCharge
<1>12. CASE p \in Checkers /\ (Revived(p) \/ (Revive(p) /\ nref <= 1))
  <2>1. Call(p, "deref", "idle")
    BY <1>12, Zenon DEF Revived, Revive
  <2>2. /\ pc'[p] = "deref" /\ ret'[p] = "idle"
        /\ \A q \in Procs \ {p} : pc'[q] = pc[q] /\ ret'[q] = ret[q]
    BY <1>1, <2>1, Moved, Zenon
  <2> QED  BY <1>3, <2>2, Zenon DEF InCharge
<1> QED  BY <1>4, <1>5, <1>6, <1>7, <1>8, <1>9, <1>10, <1>11, <1>12, Zenon

(* fetch_sub, and the compare_exchange after it *)
LEMMA SubPlain ==
    ASSUME SocketRefAssumption, IInv, NEW p \in Procs, uses' = uses,
           Undo(p) \/ Dereference(p)
    PROVE  Plain(p)
<1>1. Types /\ Local(p) /\ (p \in Checkers => p # Map)
  BY Zenon DEF IInv, Phases, SocketRefAssumption
<1>2. UNCHANGED <<ver, this_id, hc_tasks, ret>> /\ seen' = [seen EXCEPT ![p] = ver]
  BY Zenon DEF Undo, Dereference, Return
<1>3. \A q \in Procs \ {p} : seen'[q] = seen[q]
  BY <1>1, <1>2, Zenon DEF Types
<1>4. CASE Undo(p)
  <2>1. /\ refs' = refs /\ arg' = arg /\ pc[p] \in {"undo", "undo_failed"}
        /\ pc'[p] \in {"undo_cas", ret[p]} /\ \A q \in Procs \ {p} : pc'[q] = pc[q]
    BY <1>1, <1>4, Moved, Zenon DEF Undo
  <2>2. ret[p] = "idle" \/ (ret[p] = "hc_sleep" /\ p \in Checkers)
    BY <1>1, <2>1, Zenon DEF Local, Undoing
  <2>3. Moves(p)
    BY <1>2, <1>3, <2>1, Zenon DEF Moves
  <2>4. InCharge(p)' => InCharge(p)
    BY <1>2, <2>1, <2>2, Zenon DEF InCharge
  <2> QED  BY <1>2, <2>1, <2>2, <2>3, <2>4, Zenon DEF Plain
<1>5. CASE Dereference(p)
  <2>1. /\ arg' = [arg EXCEPT ![p] = this_id] /\ pc[p] \in {"deref", "deref_extra"}
        /\ pc'[p] \in {"deref_cas", ret[p]} /\ \A q \in Procs \ {p} : pc'[q] = pc[q]
        /\ refs' = IF pc[p] = "deref" THEN [refs EXCEPT ![p] = @ - 1] ELSE refs
    BY <1>1, <1>5, Moved, Zenon DEF Dereference
  <2>2. refs[p] = 1 /\ (p \in Checkers => arg[p] = this_id)
    BY <1>1, <2>1, Zenon DEF Local, WithRef, IInv, Phases, Held
  <2>3. \/ pc[p] = "deref" /\ (ret[p] = "idle" \/ (ret[p] = "hc_sleep" /\ p \in Checkers))
        \/ pc[p] = "deref_extra" /\ p \notin Checkers /\ ret[p] \in {"idle", "removed"}
    BY <1>1, <2>1, Zenon DEF Local
  <2>4. \A q \in Procs \ {p} : arg'[q] = arg[q] /\ refs'[q] = refs[q]
    BY <1>1, <2>1, Zenon DEF Types
  <2>5. Moves(p)
    BY <1>2, <1>3, <2>1, <2>4, Zenon DEF Moves
  <2>6. InCharge(p)' => InCharge(p)
    BY <1>2, <2>1, <2>2, <2>3, Zenon DEF InCharge
  <2>7. pc'[p] # "reset"
    BY <2>1, <2>3, Zenon
  <2> QED  BY <1>2, <2>2, <2>5, <2>6, <2>7, Zenon DEF Plain
<1> QED  BY <1>4, <1>5, Zenon

LEMMA ClaimPlain ==
    ASSUME SocketRefAssumption, IInv, IInv', NEW p \in Procs, uses' = uses, UndoCas(p) \/ DerefCas(p)
    PROVE  Plain(p)
<1>1. Types /\ Local(p)
  BY Zenon DEF IInv, Phases
<1>2. /\ UNCHANGED <<this_id, hc_tasks, ret, arg, seen, refs>> /\ pc[p] \in {"undo_cas", "deref_cas"}
      /\ \/ ver' = ver /\ Goto(p, ret[p])
         \/ Goto(p, "recycle")
  BY Zenon DEF UndoCas, DerefCas, Claim, locals
<1>3. ret[p] = "idle" \/ (ret[p] = "hc_sleep" /\ p \in Checkers)
  BY <1>1, <1>2, Zenon DEF Local
<1>4. \A q \in Procs \ {p} : pc'[q] = pc[q]
  BY <1>1, <1>2, Moved, Zenon
<1>5. /\ pc'[p] \in {ret[p], "recycle"}
      /\ ver' = ver \/ pc'[p] = "recycle"
  BY <1>1, <1>2, Moved, Zenon
<1>6. ver' = ver \/ ver' # this_id
  <2>1. CASE pc'[p] = "recycle"
    <3>1. Dead' /\ ids' # {}
      BY <2>1, Zenon DEF Dead, Recycling, IInv, Phases, Global
    <3>2. ver' = this_id' + 2 /\ this_id' \in Nat
      BY <3>1, Zenon DEF IInv, Phases, Global, Types
    <3> QED  BY <1>2, <3>2
  <2> QED  BY <1>5, <2>1, Zenon
<1>7. Moves(p)
  BY <1>2, <1>4, Zenon DEF Moves
<1>8. InCharge(p)' => InCharge(p)
  BY <1>2, <1>3, <1>5, Zenon DEF InCharge
<1> QED  BY <1>2, <1>3, <1>5, <1>6, <1>7, <1>8, Zenon DEF Plain

(* fetch_add: a checker whose version matches was in charge before, or took *)
(* the task that was waiting for it; a thread whose version matches meets a *)
(* socket that nobody is in charge of                                       *)
LEMMA AddressGuarded ==
    ASSUME SocketRefAssumption, IInv, IInv', Guarded, NEW t \in Threads, NEW v \in ids, uses' = uses,
           Address(t, v) \/ AddressFailedAsWell(t, v)
    PROVE  Guarded'
<1>1. t \in Procs /\ t \notin Checkers /\ Types
  BY Zenon DEF SocketRefAssumption, Procs, IInv
<1>2. PICK a : AddRef(t, v, a)
  BY Zenon DEF Address, AddressFailedAsWell
<1>3. /\ UNCHANGED <<ver, this_id, hc_tasks>> /\ pc[t] = "idle"
      /\ \/ pc' = pc /\ ret' = ret
         \/ Call(t, "undo", "idle")
         \/ Call(t, "undo_failed", "idle")
  BY Zenon DEF Address, AddressFailedAsWell, StartOp
<1>4. /\ pc'[t] \in {"idle", "undo", "undo_failed"}
      /\ \A q \in Procs \ {t} : pc'[q] = pc[q] /\ ret'[q] = ret[q]
  BY <1>1, <1>3, Moved, Zenon
<1>5. \A q \in Procs \ {t} : arg'[q] = arg[q] /\ seen'[q] = seen[q] /\ refs'[q] = refs[q]
  BY <1>1, <1>2, Zenon DEF AddRef, Types
<1>6. Moves(t) /\ ~InCharge(t)'
  BY <1>1, <1>4, <1>5, Zenon DEF Moves, InCharge
<1>7. OneInCharge'
  BY <1>1, <1>3, <1>6, PlainOneInCharge, Zenon DEF Guarded
<1>8. CASE "failed_as_well" \in uses
  BY <1>7, <1>8, Zenon DEF Guarded, StillAlone
<1>9. CASE "failed_as_well" \notin uses /\ ver # v
  <2>1. refs' = refs
    BY <1>9, Zenon DEF Address, AddressFailedAsWell, StartOp, AddRef
  <2> QED  BY <1>1, <1>6, <1>7, <2>1, PlainStillAlone, Zenon DEF Guarded
<1>10. CASE ver = v
  <2>1. ver = this_id
    <3>1. ver \in {v, v + 1}
      BY <1>10, Zenon
    <3> QED  BY <1>10, <3>1, MatchIsCurrent, Zenon
  <2>2. ASSUME NEW c \in Checkers, pc'[c] = "reset" PROVE FALSE
    <3>1. c \in Procs /\ c # Map /\ pc[c] = "reset"
      BY <1>1, <1>4, <2>2, Zenon DEF SocketRefAssumption, Procs
    <3>2. arg[c] = this_id
      BY <3>1, Zenon DEF IInv, Phases, Local, WithRef, Held
    <3>3. InCharge(c)
      BY <3>1, <3>2, Zenon DEF InCharge
    <3> QED  BY <2>1, <3>1, <3>3, Zenon DEF Guarded, OneInCharge
  <2> QED  BY <1>7, <2>2, Zenon DEF Guarded, StillAlone
<1> QED  BY <1>8, <1>9, <1>10, Zenon

LEMMA TriggerGuarded ==
    ASSUME SocketRefAssumption, IInv, IInv', Guarded, NEW c \in Checkers, uses' = uses,
           HcTrigger(c) \/ HcTriggerAgain(c)
    PROVE  Guarded'
<1>1. c \in Procs /\ Types /\ Local(c)
  BY Zenon DEF Procs, IInv, Phases
<1>2. PICK v \in ids :
        /\ AddRef(c, v, {v, v + 1})
        /\ \/ pc[c] = "idle" /\ v \in hc_tasks /\ hc_tasks' = hc_tasks \ {v}
           \/ pc[c] = "hc_sleep" /\ v = arg[c] /\ hc_tasks' = hc_tasks
        /\ \/ /\ ver \in {v, v + 1} /\ ret' = ret
              /\ Goto(c, "wait_reset") \/ Goto(c, "check")
           \/ Call(c, "undo_failed", "idle")
  <2>1. hc_tasks \subseteq ids
    BY <1>1, Zenon DEF Types
  <2>2. CASE HcTrigger(c)
    BY <2>1, <2>2, Zenon DEF HcTrigger
  <2>3. CASE HcTriggerAgain(c)
    <3>1. arg[c] \in ids
      BY <1>1, <2>3, Zenon DEF HcTriggerAgain, Local
    <3> QED  BY <2>3, <3>1, Zenon DEF HcTriggerAgain
  <2> QED  BY <2>2, <2>3, Zenon
<1>3. UNCHANGED <<ver, this_id>>
  BY Zenon DEF HcTrigger, HcTriggerAgain
<1>4. /\ pc'[c] \in {"wait_reset", "check", "undo_failed"}
      /\ pc'[c] \in {"wait_reset", "check"} => ver \in {v, v + 1}
      /\ pc'[c] = "undo_failed" => ret'[c] = "idle"
      /\ \A q \in Procs \ {c} : pc'[q] = pc[q] /\ ret'[q] = ret[q]
  <2>1. CASE ver \in {v, v + 1} /\ ret' = ret /\ (Goto(c, "wait_reset") \/ Goto(c, "check"))
    <3>1. /\ pc'[c] = "wait_reset" \/ pc'[c] = "check"
          /\ \A q \in Procs \ {c} : pc'[q] = pc[q]
      BY <1>1, <2>1, Moved, Zenon
    <3> QED  BY <2>1, <3>1
  <2>2. CASE Call(c, "undo_failed", "idle")
    <3>1. /\ pc'[c] = "undo_failed" /\ ret'[c] = "idle"
          /\ \A q \in Procs \ {c} : pc'[q] = pc[q] /\ ret'[q] = ret[q]
      BY <1>1, <2>2, Moved, Zenon
    <3> QED  BY <3>1
  <2> QED  BY <1>2, <2>1, <2>2, Zenon
<1>5. /\ arg'[c] = v
      /\ \A q \in Procs \ {c} : arg'[q] = arg[q] /\ seen'[q] = seen[q] /\ refs'[q] = refs[q]
  BY <1>1, <1>2, Zenon DEF AddRef, Types
<1>6. Moves(c)
  BY <1>4, <1>5, Zenon DEF Moves
<1>7. StillAlone'
  BY <1>1, <1>4, <1>6, PlainStillAlone, Zenon DEF Guarded
<1>8. CASE pc[c] = "hc_sleep" \/ ~InCharge(c)'
  <2>1. ASSUME InCharge(c)', pc[c] = "hc_sleep" PROVE InCharge(c)
    <3>1. v = arg[c] /\ pc'[c] # "sf_error"
      BY <1>2, <1>4, <2>1
    <3>2. arg[c] = this_id
      BY <1>3, <1>5, <2>1, <3>1, Zenon DEF InCharge
    <3> QED  BY <2>1, <3>2, Zenon DEF InCharge
  <2>2. hc_tasks' \subseteq hc_tasks
    BY <1>2, Zenon
  <2> QED  BY <1>1, <1>3, <1>6, <1>7, <1>8, <2>1, <2>2, PlainOneInCharge, Zenon DEF Guarded
<1>9. CASE pc[c] = "idle" /\ InCharge(c)'
  <2>1. v \in hc_tasks /\ hc_tasks' = hc_tasks \ {v} /\ ver \in {v, v + 1}
    BY <1>2, <1>4, <1>9, Zenon DEF InCharge
  <2>2. v = this_id
    BY <1>2, <2>1, MatchIsCurrent, Zenon
  <2>3. ASSUME NEW q \in Procs, InCharge(q) PROVE FALSE
    BY <2>1, <2>2, <2>3, Zenon DEF Guarded, OneInCharge
  <2>4. ASSUME NEW q \in Procs, q # c, InCharge(q)' PROVE FALSE
    <3>1. InCharge(q)
      BY <1>3, <2>4, <1>6, Zenon DEF InCharge, Moves
    <3> QED  BY <2>3, <3>1, Zenon
  <2>5. this_id' \notin hc_tasks' /\ ver' # this_id'
    BY <1>3, <2>1, <2>2, Zenon DEF Guarded, OneInCharge
  <2>6. OneInCharge'
    BY <2>4, <2>5, Zenon DEF OneInCharge
  <2> QED  BY <1>7, <2>6, Zenon DEF Guarded
<1> QED  BY <1>2, <1>8, <1>9, Zenon

(* The socket fails, its health check starts, and it is revived *)
LEMMA SetFailedGuarded ==
    ASSUME SocketRefAssumption, IInv, IInv', Guarded, NEW p \in Procs, uses' = uses,
           \/ SetFailed(p) /\ ~Failed
           \/ SetFailedError(p)
           \/ p \in Checkers /\ Revive(p) /\ ~(nref <= 1)
    PROVE  Guarded'
<1>1. Types /\ Local(p)
  BY Zenon DEF IInv, Phases
<1>2. UNCHANGED <<this_id, ret, arg, seen, refs>>
  BY Zenon DEF SetFailed, SetFailedError, Revive, socket, locals
<1>3. /\ pc'[p] \in {"sf_error", "sf_reset", "revived"}
      /\ \A q \in Procs \ {p} : pc'[q] = pc[q]
  BY <1>1, Moved, Zenon DEF SetFailed, SetFailedError, Revive
<1>4. Moves(p)
  BY <1>2, <1>3, Zenon DEF Moves
<1>5. StillAlone'
  BY <1>2, <1>3, <1>4, PlainStillAlone, Zenon DEF Guarded
<1>6. ASSUME NEW q \in Procs, q # p, InCharge(q)' PROVE InCharge(q)
  BY <1>2, <1>4, <1>6, Zenon DEF InCharge, Moves
<1>7. CASE SetFailed(p) /\ ~Failed
  <2>1. hc_tasks' = hc_tasks /\ ver = this_id /\ ver' = this_id + 1 /\ this_id \in Nat
    BY <1>1, <1>7, Zenon DEF SetFailed, Failed, Types
  <2>2. this_id' \notin hc_tasks' /\ ver' # this_id'
    <3>1. this_id \notin hc_tasks
      BY <2>1, Zenon DEF Guarded, OneInCharge
    <3>2. this_id + 1 # this_id
      BY <2>1
    <3> QED  BY <1>2, <2>1, <3>1, <3>2, Zenon
  <2>3. ASSUME NEW q \in Procs, q # p, InCharge(q)' PROVE FALSE
    BY <1>6, <2>1, <2>3, Zenon DEF Guarded, OneInCharge
  <2> QED  BY <1>5, <2>2, <2>3, Zenon DEF Guarded, OneInCharge
<1>8. CASE SetFailedError(p)
  <2>1. /\ ver' = ver /\ pc[p] = "sf_error" /\ pc'[p] = "sf_reset"
    BY <1>1, <1>8, Moved, Zenon DEF SetFailedError, socket, vref
  <2>2. InCharge(p) /\ ~InCharge(p)'
    BY <2>1, Zenon DEF InCharge
  <2>3. ver' # this_id'
    BY <1>2, <2>1, <2>2, Zenon DEF Guarded, OneInCharge
  <2>4. ASSUME NEW q \in Procs, InCharge(q)' PROVE FALSE
    BY <1>6, <2>2, <2>4, Zenon DEF Guarded, OneInCharge
  <2> QED  BY <1>5, <2>3, <2>4, Zenon DEF Guarded, OneInCharge
<1>9. CASE p \in Checkers /\ Revive(p) /\ ~(nref <= 1)
  <2>1. hc_tasks' = hc_tasks /\ pc[p] = "revive" /\ pc'[p] = "revived"
    BY <1>1, <1>9, Moved, Zenon DEF Revive
  <2>2. p # Map /\ refs[p] = 1
    BY <1>1, <1>9, <2>1, Zenon DEF SocketRefAssumption, Local, WithRef
  <2>3. arg[p] = this_id
    BY <2>2, Zenon DEF IInv, Phases, Held
  <2>4. InCharge(p) /\ ~InCharge(p)'
    BY <1>9, <2>1, <2>3, Zenon DEF InCharge
  <2>5. this_id' \notin hc_tasks'
    BY <1>2, <2>1, <2>4, Zenon DEF Guarded, OneInCharge
  <2>6. ASSUME NEW q \in Procs, InCharge(q)' PROVE FALSE
    BY <1>6, <2>4, <2>6, Zenon DEF Guarded, OneInCharge
  <2> QED  BY <1>5, <2>5, <2>6, Zenon DEF Guarded, OneInCharge
<1> QED  BY <1>7, <1>8, <1>9, Zenon

(* A new socket: what is left of an earlier life has a smaller id *)
LEMMA CreateGuarded ==
    ASSUME SocketRefAssumption, IInv, IInv', Guarded, uses' = uses, Create \/ Insert
    PROVE  Guarded'
<1>1. Types /\ Map \in Procs /\ Local(Map) /\ Checkers \subseteq Procs /\ Map \notin Checkers
  BY Zenon DEF IInv, Phases, SocketRefAssumption, Procs
<1>2. /\ UNCHANGED <<ver, hc_tasks, ret, arg, seen>> /\ pc'[Map] \in {"insert", "idle"}
      /\ \A q \in Procs \ {Map} : pc'[q] = pc[q] /\ refs'[q] = refs[q]
      /\ pc[Map] \in {"create", "insert"}
  BY <1>1, Moved, Zenon DEF Create, Insert, locals, Types
<1>3. Moves(Map) /\ ~InCharge(Map)'
  BY <1>1, <1>2, Zenon DEF Moves, InCharge
<1>4. CASE Create
  <2>1. refs' = refs /\ this_id' = ver /\ pc[Map] = "create"
    BY <1>4, Zenon DEF Create, locals
  <2>2. StillAlone'
    BY <1>1, <1>3, <2>1, PlainStillAlone, Zenon DEF Guarded
  <2>3. Dead /\ (\A q \in Procs : refs[q] # 1)
    BY <2>1, Zenon DEF Dead, IInv, Phases, Held
  <2>4. ASSUME NEW v \in ids PROVE v # ver
    <3>1. v \in Nat /\ this_id \in Nat /\ v <= this_id /\ ver = this_id + 2
      BY <1>1, <2>3, Zenon DEF Types, IInv, Phases, Global
    <3> QED  BY <3>1
  <2>5. this_id' \notin hc_tasks'
    BY <1>1, <1>2, <2>1, <2>4, Zenon DEF Types
  <2>6. ASSUME NEW q \in Procs, InCharge(q)' PROVE FALSE
    <3>1. q # Map /\ pc'[q] = pc[q] /\ ret'[q] = ret[q] /\ arg'[q] = arg[q] /\ Local(q)
      BY <1>2, <1>3, <2>6, Zenon DEF IInv, Phases
    <3>2. pc[q] # "sf_error"
      BY <2>3, <3>1, Zenon DEF Local, WithRef
    <3>3. q \in Checkers /\ arg[q] = ver /\ pc[q] # "idle"
      BY <2>1, <2>6, <3>1, <3>2, Zenon DEF InCharge
    <3> QED  BY <2>4, <3>1, <3>3, Zenon DEF Local
  <2> QED  BY <2>2, <2>5, <2>6, Zenon DEF Guarded, OneInCharge
<1>5. CASE Insert
  <2>1. this_id' = this_id /\ ver = this_id
    BY <1>5, Zenon DEF Insert, IInv, Phases, Global
  <2>2. OneInCharge'
    BY <1>1, <1>2, <1>3, <2>1, PlainOneInCharge, Zenon DEF Guarded
  <2>3. ASSUME NEW c \in Checkers, pc'[c] = "reset" PROVE FALSE
    <3>1. c \in Procs /\ c # Map /\ pc[c] = "reset"
      BY <1>1, <1>2, <2>3, Zenon
    <3>2. arg[c] = this_id
      BY <3>1, Zenon DEF IInv, Phases, Local, WithRef, Held
    <3>3. InCharge(c)
      BY <3>1, <3>2, Zenon DEF InCharge
    <3> QED  BY <2>1, <3>1, <3>3, Zenon DEF Guarded, OneInCharge
  <2> QED  BY <2>2, <2>3, Zenon DEF Guarded, StillAlone
<1> QED  BY <1>4, <1>5, Zenon

(* Two references: the checker's and the SocketMap's *)
LEMMA LookGuarded ==
    ASSUME SocketRefAssumption, IInv, IInv', Guarded, NEW c \in Checkers, uses' = uses, WaitAndReset(c)
    PROVE  Guarded'
<1>1. /\ Types /\ Counted /\ IsFiniteSet(Procs) /\ Local(c) /\ c \in Procs /\ c # Map
      /\ Map \in Procs /\ Threads \subseteq Procs /\ c \notin Threads /\ Map \notin Threads
  BY Zenon DEF IInv, SocketRefAssumption, Phases, Procs
<1>2. /\ UNCHANGED <<ver, this_id, hc_tasks, arg, seen, refs>> /\ pc[c] = "wait_reset"
      /\ \/ nref = 2 /\ Goto(c, "reset") /\ ret' = ret
         \/ Call(c, "deref", "idle")
  BY Zenon DEF WaitAndReset, socket, vref
<1>3. /\ pc'[c] \in {"reset", "deref"} /\ (pc'[c] = "reset" => nref = 2)
      /\ pc'[c] = "deref" => ret'[c] = "idle"
      /\ \A q \in Procs \ {c} : pc'[q] = pc[q] /\ ret'[q] = ret[q]
  <2>1. CASE nref = 2 /\ Goto(c, "reset") /\ ret' = ret
    <3>1. pc'[c] = "reset" /\ \A q \in Procs \ {c} : pc'[q] = pc[q]
      BY <1>1, <2>1, Moved, Zenon
    <3> QED  BY <2>1, <3>1
  <2>2. CASE Call(c, "deref", "idle")
    <3>1. /\ pc'[c] = "deref" /\ ret'[c] = "idle"
          /\ \A q \in Procs \ {c} : pc'[q] = pc[q] /\ ret'[q] = ret[q]
      BY <1>1, <2>2, Moved, Zenon
    <3> QED  BY <3>1
  <2> QED  BY <1>2, <2>1, <2>2, Zenon
<1>4. Moves(c) /\ (InCharge(c)' => InCharge(c))
  BY <1>2, <1>3, Zenon DEF Moves, InCharge
<1>5. OneInCharge'
  BY <1>1, <1>2, <1>4, PlainOneInCharge, Zenon DEF Guarded
<1>6. CASE pc'[c] = "deref"
  BY <1>1, <1>2, <1>4, <1>5, <1>6, PlainStillAlone, Zenon DEF Guarded
<1>7. CASE nref = 2
  <2>1. refs[c] = 1
    BY <1>1, <1>2, Zenon DEF Local, WithRef
  <2>2. ASSUME NEW t \in Threads, refs[t] = 1, refs[Map] = 1 PROVE FALSE
    <3>0. t \in Procs /\ t # c /\ t # Map
      BY <1>1, Zenon
    <3>1. {c, Map, t} \subseteq Holders /\ IsFiniteSet(Holders)
      BY <1>1, <2>1, <2>2, <3>0, SetsFinite, Zenon DEF Holders
    <3>2. Cardinality({c, Map, t}) = 3
      <4>1. IsFiniteSet({c}) /\ Cardinality({c}) = 1
        BY FS_Singleton, Zenon
      <4>2. IsFiniteSet({c} \cup {Map}) /\ Cardinality({c} \cup {Map}) = 2
        <5>1. /\ IsFiniteSet({c} \cup {Map})
              /\ Cardinality({c} \cup {Map}) = IF Map \in {c} THEN Cardinality({c})
                                                            ELSE Cardinality({c}) + 1
          BY <4>1, FS_AddElement, Zenon
        <5> QED  BY <1>1, <4>1, <5>1
      <4>3. Cardinality({c} \cup {Map} \cup {t}) = 3
        <5> DEFINE S == {c} \cup {Map}
        <5>1. t \notin S
          BY <3>0, Zenon
        <5> HIDE DEF S
        <5>2. Cardinality(S \cup {t}) = IF t \in S THEN Cardinality(S) ELSE Cardinality(S) + 1
          BY <4>2, FS_AddElement, Zenon DEF S
        <5>3. Cardinality(S \cup {t}) = 3
          BY <4>2, <5>1, <5>2 DEF S
        <5> QED  BY <5>3, Zenon DEF S
      <4>4. {c} \cup {Map} \cup {t} = {c, Map, t}
        BY Zenon
      <4> QED  BY <4>3, <4>4, Zenon
    <3>3. Cardinality(Holders) >= 3 /\ Cardinality(Holders) \in Nat
      BY <3>1, <3>2, FS_Subset, FS_CardinalityType, Zenon
    <3>4. Cardinality(Owing) \in Nat /\ Cardinality(Reviving) \in Nat /\ Extra \in {0, 1}
      BY <1>1, SetsFinite, FS_CardinalityType, Zenon DEF Extra
    <3> QED  BY <1>1, <1>7, <3>3, <3>4 DEF Counted, Units
  <2>3. ASSUME NEW t \in Threads, refs[Map] = 1 PROVE refs[t] = 0
    BY <1>1, <2>2, <2>3, Zenon DEF Types
  <2> QED  BY <1>2, <1>5, <2>3, Zenon DEF Guarded, StillAlone
<1> QED  BY <1>3, <1>6, <1>7, Zenon

LEMMA GuardedStep ==
    ASSUME SocketRefAssumption, IInv, IInv', Guarded, [Next]_vars
    PROVE  Guarded'
<1>1. CASE UNCHANGED vars
  BY <1>1, ZenonT(30) DEF vars, socket, vref, locals, Guarded, OneInCharge, StillAlone, InCharge
<1>2. CASE Begin /\ uses' = uses
  <2>1. Map \in Procs /\ Threads \subseteq Procs
    BY Zenon DEF Procs
  <2>2. CASE GetResource \/ Remove \/ ReplaceFailed
    BY <1>2, <2>1, <2>2, QuietPlain, PlainStep, Zenon
  <2>3. ASSUME NEW t \in Threads, NEW v \in ids, Address(t, v) \/ AddressFailedAsWell(t, v)
        PROVE  Guarded'
    BY <1>2, <2>3, AddressGuarded, Zenon
  <2>4. ASSUME NEW t \in Threads, SetFailed(t) \/ ReleaseReferenceIfIdle(t) \/ NotifyOnFailed(t)
        PROVE  Guarded'
    BY <1>2, <2>1, <2>4, QuietPlain, PlainStep, SetFailedGuarded, Zenon
  <2> QED  BY <1>2, <2>2, <2>3, <2>4, Zenon DEF Begin
<1>3. ASSUME NEW p \in Procs, Continue(p), uses' = uses PROVE Guarded'
  <2>1. CASE p = Map /\ (Create \/ Insert)
    BY <1>3, <2>1, CreateGuarded, Zenon
  <2>2. CASE \/ p = Map /\ Removed
             \/ OnRecycle(p) \/ ReturnResource(p) \/ ReleaseAdditionalReference(p)
             \/ Release(p) \/ SetFailedResetList(p)
             \/ p \in Checkers /\ (Reset(p) \/ CheckHealth(p) \/ Revived(p))
    BY <1>3, <2>2, QuietPlain, PlainStep, Zenon
  <2>3. CASE Undo(p) \/ Dereference(p)
    BY <1>3, <2>3, SubPlain, PlainStep, Zenon
  <2>4. CASE UndoCas(p) \/ DerefCas(p)
    BY <1>3, <2>4, ClaimPlain, PlainStep, Zenon
  <2>5. CASE SetFailedError(p)
    BY <1>3, <2>5, SetFailedGuarded, Zenon
  <2>6. CASE p \in Checkers /\ (HcTrigger(p) \/ HcTriggerAgain(p))
    BY <1>3, <2>6, TriggerGuarded, Zenon
  <2>7. CASE p \in Checkers /\ WaitAndReset(p)
    BY <1>3, <2>7, LookGuarded, Zenon
  <2>8. CASE p \in Checkers /\ Revive(p)
    BY <1>3, <2>8, QuietPlain, PlainStep, SetFailedGuarded, Zenon
  <2> QED  BY <1>3, <2>1, <2>2, <2>3, <2>4, <2>5, <2>6, <2>7, <2>8, Zenon DEF Continue
<1> QED  BY <1>1, <1>2, <1>3, Zenon DEF Next

(* health_check.cc: HealthCheckTask resets the descriptor only when no      *)
(* thread has a reference to the socket, as long as the SocketMap keeps     *)
(* its own and nobody addresses failed sockets: between the look that finds *)
(* two references and the reset, nobody else can revive the socket, and so  *)
(* nobody can address it.                                                   *)
THEOREM ResetsAlone ==
    ASSUME SocketRefAssumption
    PROVE  Spec => ResetAlone
<1>1. Init => Guarded
  <2> SUFFICES ASSUME Init PROVE Guarded
    OBVIOUS
  <2>1. \A p \in Procs : pc[p] = "idle" /\ p \in Procs
    BY Zenon DEF Init
  <2>2. Checkers \subseteq Procs /\ hc_tasks = {}
    BY Zenon DEF Init, Procs
  <2>3. ASSUME NEW p \in Procs, InCharge(p) PROVE FALSE
    BY <2>1, <2>3, Zenon DEF InCharge
  <2> QED  BY <2>1, <2>2, <2>3, Zenon DEF Guarded, OneInCharge, StillAlone
<1>2. IInv /\ IInv' /\ Guarded /\ [Next]_vars => Guarded'
  BY GuardedStep, Zenon
<1>3. Guarded => [\A c \in Checkers :
                     /\ pc[c] = "reset" /\ pc'[c] = "check"
                     /\ refs[Map] = 1 /\ "failed_as_well" \notin uses
                     => \A p \in Threads : refs[p] = 0]_vars
  BY Zenon DEF Guarded, StillAlone
<1> QED  BY <1>1, <1>2, <1>3, Invariance, PTL DEF Spec, ResetAlone
============================================================================
