-------------------------- MODULE SocketInputProofs --------------------------
(***************************************************************************)
(* That one fiber reads a socket at a time, that no input is left to       *)
(* nobody, and that the end of file of a client's socket waits for the     *)
(* messages before it: for any number of fibers and messages.              *)
(***************************************************************************)
EXTENDS SocketInput, FiniteSetTheorems, TLAPS

\* Fibers that hold the last message they cut.
Kept == {s \in Slots : last_msg[s]}

\* _nevent counts the events since the one fiber that reads started.
Events ==
    /\ \A s, t \in Slots : pc[s] \in Reading /\ pc[t] \in Reading => s = t
    /\ \A s \in Slots : pc[s] \in Reading => ~eof /\ progress[s] > 0 /\ progress[s] <= nevent
    /\ eof => nevent > 0
    /\ nevent > 0 /\ failed = "no" /\ ~eof => \E s \in Slots : pc[s] \in Reading

\* _ninprocess counts the connection until its end of file, and a client's
\* messages.
Counted ==
    /\ IsFiniteSet(Kept)
    /\ ninprocess = (IF eof THEN 0 ELSE 1) + (IF client THEN processing + Cardinality(Kept) ELSE 0)
    /\ ninprocess = 0 => failed # "no"

\* Nothing comes after the end of file.
AfterEof ==
    /\ eof \/ (\E s \in Slots : pc[s] = "eof") => kernel = 0 /\ hung_up
    /\ \A s \in Slots : cut[s] > 0 => pc[s] = "cut" \/ (pc[s] = "return" /\ failed = "other")
    /\ failed = "EEOF" => eof /\ (client => processing = 0 /\ Kept = {})

IInv == TypeOK /\ Events /\ NoInputForgotten /\ Counted /\ AfterEof

LEMMA InitIInv == Init => IInv
<1> SUFFICES ASSUME Init PROVE IInv
  OBVIOUS
<1>1. TypeOK
  BY Zenon DEF Init, TypeOK
<1>2. Kept = {}
  BY DEF Init, Kept
<1>3. Counted
  BY <1>2, FS_EmptySet DEF Init, Counted
<1>4. Events /\ NoInputForgotten /\ AfterEof
  BY <1>2 DEF Init, Events, NoInputForgotten, AfterEof, Reading
<1> QED  BY <1>1, <1>3, <1>4 DEF IInv

LEMMA ArriveIInv == ASSUME IInv, Arrive PROVE IInv'
<1> USE DEF IInv, Arrive, fiber
<1>a. Kept' = Kept
  BY DEF Kept
<1>1. TypeOK'
  BY <1>a DEF TypeOK, Reading
<1>2. Events'
  BY <1>a DEF Events, TypeOK, Reading
<1>3. NoInputForgotten'
  BY <1>a DEF NoInputForgotten, TypeOK, Events, Reading
<1>4. Counted'
  BY <1>a DEF Counted, TypeOK
<1>5. AfterEof'
  BY <1>a DEF AfterEof, Events, TypeOK, Reading
<1> QED  BY <1>1, <1>2, <1>3, <1>4, <1>5

LEMMA HangUpIInv == ASSUME IInv, HangUp PROVE IInv'
<1> USE DEF IInv, HangUp, fiber
<1>a. Kept' = Kept
  BY DEF Kept
<1>1. TypeOK'
  BY <1>a DEF TypeOK, Reading
<1>2. Events'
  BY <1>a DEF Events, TypeOK, Reading
<1>3. NoInputForgotten'
  BY <1>a DEF NoInputForgotten, TypeOK, Events, Reading
<1>4. Counted'
  BY <1>a DEF Counted, TypeOK
<1>5. AfterEof'
  BY <1>a DEF AfterEof, Events, TypeOK, Reading
<1> QED  BY <1>1, <1>2, <1>3, <1>4, <1>5

LEMMA EpollWaitIInv == ASSUME IInv, EpollWait PROVE IInv'
<1> USE DEF IInv, EpollWait, fiber
<1>a. Kept' = Kept
  BY DEF Kept
<1>1. TypeOK'
  BY <1>a, Zenon DEF TypeOK, Reading
<1>2. Events'
  BY <1>a DEF Events, TypeOK, Reading
<1>3. NoInputForgotten'
  BY <1>a DEF NoInputForgotten, TypeOK, Events, Reading
<1>4. Counted'
  BY <1>a DEF Counted, TypeOK
<1>5. AfterEof'
  BY <1>a DEF AfterEof, Events, TypeOK, Reading
<1> QED  BY <1>1, <1>2, <1>3, <1>4, <1>5

LEMMA StartInputEventIInv == ASSUME IInv, StartInputEvent PROVE IInv'
<1> USE DEF IInv, StartInputEvent, fiber, env, Starts, Goto
<1>a. Kept' = Kept
  BY DEF Kept
<1>1. TypeOK'
  <2>1. pc' \in [Slots -> Reading \cup {"none", "return"}] /\ progress' \in [Slots -> Nat] /\ nevent' \in Nat
    BY DEF TypeOK, Reading
  <2> QED  BY <2>1, Zenon DEF TypeOK
<1>2. Events'
  BY <1>a DEF Events, TypeOK, Reading
<1>3. NoInputForgotten'
  BY <1>a DEF NoInputForgotten, TypeOK, Events, Reading
<1>4. Counted'
  BY <1>a DEF Counted, TypeOK
<1>5. AfterEof'
  BY <1>a DEF AfterEof, Events, TypeOK, Reading
<1> QED  BY <1>1, <1>2, <1>3, <1>4, <1>5

LEMMA DoReadIInv == ASSUME IInv, NEW s \in Slots, DoRead(s) PROVE IInv'
<1> USE DEF IInv, DoRead, Goto, SetFailed
<1>a. Kept' = Kept
  BY DEF Kept
<1>1. TypeOK'
  BY <1>a DEF TypeOK, Reading
<1>2. Events'
  BY <1>a DEF Events, TypeOK, Reading
<1>3. NoInputForgotten'
  BY <1>a DEF NoInputForgotten, TypeOK, Events, Reading
<1>4. Counted'
  BY <1>a DEF Counted, TypeOK
<1>5. AfterEof'
  BY <1>a DEF AfterEof, Events, TypeOK, Reading
<1> QED  BY <1>1, <1>2, <1>3, <1>4, <1>5

LEMMA MoreReadEventsIInv == ASSUME IInv, NEW s \in Slots, MoreReadEvents(s) PROVE IInv'
<1> USE DEF IInv, MoreReadEvents, env, NoMoreEvents, Goto
<1>a. Kept' = Kept
  BY DEF Kept
<1>1. TypeOK'
  BY <1>a DEF TypeOK, Reading
<1>2. Events'
  BY <1>a DEF Events, TypeOK, Reading
<1>3. NoInputForgotten'
  BY <1>a DEF NoInputForgotten, TypeOK, Events, Reading
<1>4. Counted'
  BY <1>a DEF Counted, TypeOK
<1>5. AfterEof'
  BY <1>a DEF AfterEof, Events, TypeOK, Reading
<1> QED  BY <1>1, <1>2, <1>3, <1>4, <1>5

\* How the number of last messages changes.
LEMMA KeptFacts ==
    ASSUME IInv, NEW s \in Slots
    PROVE  LET one == IF last_msg[s] THEN 1 ELSE 0
           IN  /\ Cardinality(Kept) \in Nat /\ (Cardinality(Kept) = 0 <=> Kept = {})
               /\ IsFiniteSet(Kept \cup {s}) /\ Cardinality(Kept \cup {s}) = Cardinality(Kept) + 1 - one
               /\ IsFiniteSet(Kept \ {s}) /\ Cardinality(Kept \ {s}) = Cardinality(Kept) - one
               /\ one \in {0, 1} /\ (one = 1 => Cardinality(Kept) > 0)
<1>1. IsFiniteSet(Kept) /\ (s \in Kept <=> last_msg[s])
  BY DEF IInv, Counted, Kept
<1>2. Cardinality(Kept) \in Nat /\ (Cardinality(Kept) = 0 <=> Kept = {})
  BY <1>1, FS_CardinalityType, FS_EmptySet
<1>3. IsFiniteSet(Kept \cup {s}) /\ Cardinality(Kept \cup {s}) = IF s \in Kept THEN Cardinality(Kept) ELSE Cardinality(Kept) + 1
  BY <1>1, FS_AddElement
<1>4. IsFiniteSet(Kept \ {s}) /\ Cardinality(Kept \ {s}) = IF s \in Kept THEN Cardinality(Kept) - 1 ELSE Cardinality(Kept)
  BY <1>1, FS_RemoveElement
<1> QED  BY <1>1, <1>2, <1>3, <1>4

LEMMA CutInputMessageIInv == ASSUME IInv, NEW s \in Slots, CutInputMessage(s) PROVE IInv'
<1> USE DEF IInv, CutInputMessage, env, Goto, SetFailed
<1> DEFINE one == IF last_msg[s] THEN 1 ELSE 0
<1>a. /\ Cardinality(Kept) \in Nat /\ IsFiniteSet(Kept)
      /\ IsFiniteSet(Kept \cup {s}) /\ Cardinality(Kept \cup {s}) = Cardinality(Kept) + 1 - one
      /\ IsFiniteSet(Kept \ {s}) /\ Cardinality(Kept \ {s}) = Cardinality(Kept) - one
      /\ one \in {0, 1} /\ (one = 1 => Cardinality(Kept) > 0)
  BY KeptFacts DEF Counted
<1>b. \/ Kept' = Kept /\ processing' = processing /\ ninprocess' = ninprocess /\ last_msg' = last_msg
      \/ /\ Kept' = Kept \cup {s} /\ processing' = processing + one /\ ninprocess' = PostponeEOF
         /\ last_msg' = [last_msg EXCEPT ![s] = TRUE]
      \/ /\ Kept' = Kept \ {s} /\ processing' = processing + one /\ ninprocess' = ninprocess /\ failed' # "no"
         /\ last_msg' = [last_msg EXCEPT ![s] = FALSE]
  BY DEF Kept, Queue, TypeOK
<1> HIDE DEF one
<1>1. TypeOK'
  <2>1. processing' \in Nat /\ ninprocess' \in Nat
    BY <1>a, <1>b DEF TypeOK, PostponeEOF
  <2>2. last_msg' \in [Slots -> BOOLEAN]
    BY <1>b, Zenon DEF TypeOK
  <2>3. pc' \in [Slots -> Reading \cup {"none", "return"}] /\ cut' \in [Slots -> Nat]
    BY DEF TypeOK, Reading
  <2> QED  BY <2>1, <2>2, <2>3 DEF TypeOK
<1>2. Events'
  BY DEF Events, TypeOK, Reading
<1>3. NoInputForgotten'
  BY DEF NoInputForgotten, TypeOK, Events, Reading
<1>4. Counted'
  <2>1. ninprocess' = 0 => failed' # "no"
    BY <1>b DEF Counted, PostponeEOF, TypeOK
  <2>2. IsFiniteSet(Kept)' /\ Cardinality(Kept)' \in Nat
    <3>1. IsFiniteSet(Kept')
      BY <1>a, <1>b, Zenon
    <3> QED  BY <3>1, FS_CardinalityType
  <2>3. /\ client' = client /\ eof' = eof /\ processing \in Nat /\ ninprocess \in Nat
        /\ ninprocess = (IF eof THEN 0 ELSE 1) + (IF client THEN processing + Cardinality(Kept) ELSE 0)
    BY DEF Counted, TypeOK
  <2>4. client => processing' + Cardinality(Kept)' = processing + Cardinality(Kept) + (ninprocess' - ninprocess)
    <3>1. CASE Kept' = Kept /\ processing' = processing /\ ninprocess' = ninprocess
      BY <1>a, <2>3, <3>1
    <3>2. CASE Kept' = Kept \cup {s} /\ processing' = processing + one /\ ninprocess' = PostponeEOF
      BY <1>a, <2>3, <3>2 DEF PostponeEOF
    <3>3. CASE Kept' = Kept \ {s} /\ processing' = processing + one /\ ninprocess' = ninprocess
      BY <1>a, <2>3, <3>3
    <3> QED  BY <1>b, <3>1, <3>2, <3>3
  <2>5. ~client => ninprocess' = ninprocess
    BY <1>b DEF PostponeEOF
  <2>6. ninprocess' \in Nat /\ processing' \in Nat
    BY <1>a, <1>b, <2>3 DEF PostponeEOF
  <2>7. ninprocess' = (IF eof' THEN 0 ELSE 1) + (IF client' THEN processing' + Cardinality(Kept)' ELSE 0)
    BY <1>a, <2>2, <2>3, <2>4, <2>5, <2>6
  <2> QED  BY <2>1, <2>2, <2>7 DEF Counted
<1>5. AfterEof'
  BY DEF AfterEof, Events, TypeOK, Reading
<1> QED  BY <1>1, <1>2, <1>3, <1>4, <1>5

LEMMA SetEOFIInv == ASSUME IInv, NEW s \in Slots, SetEOF(s) PROVE IInv'
<1> USE DEF IInv, SetEOF, env, Goto, SetFailed
<1>a. Kept' = Kept
  BY DEF Kept
<1>b. Cardinality(Kept) \in Nat /\ (Cardinality(Kept) = 0 <=> Kept = {})
  BY KeptFacts, Zenon
<1>c. ~eof /\ ninprocess' = ninprocess - 1 /\ failed' = IF ninprocess = 1 /\ failed = "no" THEN "EEOF" ELSE failed
  BY DEF Dereferenced, Events, Reading
<1>d. ninprocess \in Nat /\ ninprocess > 0
  BY <1>b, <1>c DEF Counted, TypeOK
<1>1. TypeOK'
  <2>1. ninprocess' \in Nat /\ pc' \in [Slots -> Reading \cup {"none", "return"}] /\ failed' \in {"no", "EEOF", "other"}
    BY <1>c, <1>d DEF TypeOK, Reading
  <2> QED  BY <2>1 DEF TypeOK
<1>2. Events'
  BY <1>a DEF Events, TypeOK, Reading
<1>3. NoInputForgotten'
  BY DEF NoInputForgotten
<1>4. Counted'
  BY <1>a, <1>b, <1>c, <1>d DEF Counted, TypeOK
<1>5. AfterEof'
  <2>1. ninprocess = 1 => (client => processing = 0 /\ Kept = {})
    <3>1. client /\ ninprocess = 1 => processing + Cardinality(Kept) = 0 /\ processing \in Nat
      BY <1>b, <1>c DEF Counted, TypeOK
    <3> QED  BY <1>b, <3>1
  <2> QED  BY <1>a, <1>c, <2>1 DEF AfterEof, Events, TypeOK, Reading
<1> QED  BY <1>1, <1>2, <1>3, <1>4, <1>5

LEMMA ReturnIInv == ASSUME IInv, NEW s \in Slots, Return(s) PROVE IInv'
<1> USE DEF IInv, Return, env, Goto
<1> DEFINE one == IF last_msg[s] THEN 1 ELSE 0
<1>a. /\ Cardinality(Kept) \in Nat /\ (Cardinality(Kept) = 0 <=> Kept = {})
      /\ IsFiniteSet(Kept \ {s}) /\ Cardinality(Kept \ {s}) = Cardinality(Kept) - one /\ one \in {0, 1}
      /\ (one = 1 => Cardinality(Kept) > 0)
  BY KeptFacts, Zenon
<1>b. Kept' = Kept \ {s} /\ processing' = processing + one
  BY DEF Kept, Queue, TypeOK
<1> HIDE DEF one
<1>1. TypeOK'
  <2>1. processing' \in Nat
    BY <1>a, <1>b DEF TypeOK
  <2> QED  BY <2>1 DEF TypeOK, Reading
<1>2. Events'
  BY DEF Events, TypeOK, Reading
<1>3. NoInputForgotten'
  BY DEF NoInputForgotten, TypeOK, Events, Reading
<1>4. Counted'
  BY <1>a, <1>b DEF Counted, TypeOK
<1>5. AfterEof'
  BY <1>a, <1>b DEF AfterEof, TypeOK, Reading
<1> QED  BY <1>1, <1>2, <1>3, <1>4, <1>5

LEMMA ProcessedIInv == ASSUME IInv, Processed PROVE IInv'
<1> USE DEF IInv, Processed, fiber, env, SetFailed
<1>a. Kept' = Kept
  BY DEF Kept
<1>b. Cardinality(Kept) \in Nat /\ (Cardinality(Kept) = 0 <=> Kept = {})
  BY FS_CardinalityType, FS_EmptySet DEF Counted
<1>c. CASE client
  <2>1. ninprocess' = ninprocess - 1 /\ failed' = IF ninprocess = 1 /\ failed = "no" THEN "EEOF" ELSE failed
    BY <1>c DEF Dereferenced
  <2>2. ninprocess \in Nat /\ ninprocess > 0 /\ processing \in Nat
    BY <1>b, <1>c DEF Counted, TypeOK
  <2>3. ninprocess = 1 => eof /\ processing = 1 /\ Kept = {}
    BY <1>b, <1>c, <2>2 DEF Counted, TypeOK
  <2>4. ninprocess' \in Nat /\ processing' \in Nat /\ failed' \in {"no", "EEOF", "other"}
    BY <2>1, <2>2 DEF TypeOK
  <2>5. TypeOK'
    BY <2>4 DEF TypeOK
  <2>6. Events'
    BY <2>1 DEF Events, TypeOK
  <2>7. NoInputForgotten'
    BY <2>1 DEF NoInputForgotten
  <2>8. Counted'
    BY <1>a, <1>b, <1>c, <2>1, <2>2 DEF Counted, TypeOK
  <2>9. AfterEof'
    BY <1>a, <1>c, <2>1, <2>2, <2>3 DEF AfterEof, TypeOK
  <2> QED  BY <2>5, <2>6, <2>7, <2>8, <2>9
<1>d. CASE ~client
  <2> USE <1>d
  <2>1. TypeOK'
    BY DEF TypeOK
  <2>2. Events' /\ NoInputForgotten' /\ AfterEof'
    BY <1>a DEF Events, NoInputForgotten, AfterEof
  <2>3. Counted'
    BY <1>a DEF Counted
  <2> QED  BY <2>1, <2>2, <2>3
<1> QED  BY <1>c, <1>d

LEMMA NextIInv == IInv /\ [Next]_vars => IInv'
<1> SUFFICES ASSUME IInv, [Next]_vars PROVE IInv'
  OBVIOUS
<1>1. CASE UNCHANGED vars
  BY <1>1 DEF vars, env, fiber, IInv, TypeOK, Events, NoInputForgotten, Counted, AfterEof, Kept
<1>2. CASE Arrive \/ HangUp \/ EpollWait \/ StartInputEvent \/ Processed
  BY <1>2, ArriveIInv, HangUpIInv, EpollWaitIInv, StartInputEventIInv, ProcessedIInv, Zenon
<1>3. ASSUME NEW s \in Slots, DoRead(s) \/ MoreReadEvents(s) \/ CutInputMessage(s) \/ SetEOF(s) \/ Return(s)
      PROVE  IInv'
  BY <1>3, DoReadIInv, MoreReadEventsIInv, CutInputMessageIInv, SetEOFIInv, ReturnIInv, Zenon
<1> QED  BY <1>1, <1>2, <1>3 DEF Next

-----------------------------------------------------------------------------
(* Theorems *)

\* The counters of the socket agree with who reads and what is in process.
THEOREM Invariance == Spec => []IInv
BY InitIInv, NextIInv, PTL DEF Spec

LEMMA IInvSound == IInv => OneReader /\ NoInputForgotten /\ EofComesLast
<1> SUFFICES ASSUME IInv PROVE OneReader /\ NoInputForgotten /\ EofComesLast
  OBVIOUS
<1> USE DEF IInv
<1>1. OneReader
  <2> DEFINE readers == {s \in Slots : pc[s] \in Reading}
  <2>1. readers = {} \/ \E s \in Slots : readers = {s}
    BY DEF Events
  <2>2. ASSUME NEW s \in Slots, readers = {s} PROVE Cardinality(readers) <= 1
    <3>1. Cardinality({s}) = 1
      BY FS_Singleton, Zenon
    <3> QED  BY <2>2, <3>1
  <2>3. CASE readers = {}
    <3>1. Cardinality({}) = 0
      BY FS_EmptySet, Zenon
    <3> QED  BY <2>3, <3>1 DEF OneReader
  <2> QED  BY <2>1, <2>2, <2>3 DEF OneReader
<1>2. EofComesLast
  <2>1. ASSUME failed = "EEOF", client
        PROVE  kernel = 0 /\ processing = 0 /\ \A s \in Slots : cut[s] = 0 /\ ~last_msg[s]
    BY <2>1 DEF AfterEof, Events, Kept, TypeOK, Reading
  <2>2. ASSUME eof, failed = "no" PROVE processing > 0 \/ \E s \in Slots : last_msg[s]
    <3>1. processing \in Nat /\ (processing = 0 => Cardinality(Kept) # 0)
      BY <2>2 DEF Counted, TypeOK
    <3>2. Kept = {} => Cardinality(Kept) = 0
      BY FS_EmptySet
    <3> QED  BY <3>1, <3>2 DEF Kept
  <2> QED  BY <2>1, <2>2 DEF EofComesLast
<1> QED  BY <1>1, <1>2

\* One fiber at a time reads a socket, and the input of a socket that has not
\* failed always has an event on its way or a fiber that will read again.
THEOREM InputIsRead == Spec => []InputRead
<1>1. IInv => InputRead
  BY IInvSound, Zenon DEF IInv, InputRead
<1> QED  BY <1>1, Invariance, PTL

\* A client's socket fails with EEOF after the last message before the end of
\* file was processed, and does fail then.
THEOREM EofIsLast == Spec => []EofComesLast
BY Invariance, IInvSound, PTL
==============================================================================
