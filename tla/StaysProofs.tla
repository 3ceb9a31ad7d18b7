----------------------------- MODULE StaysProofs -----------------------------
(***************************************************************************)
(* Proofs about Stays.tla: what its promise comes to for the occupied      *)
(* rooms.  HotelProofs carries the results over to the hotel.              *)
(***************************************************************************)
EXTENDS Stays, TLAPS

\* The two halves of the correspondence of rooms and guests are inductive with
\* the types, each on its own: a departure empties a room under the guest who
\* shares it, and is what the second one then points to.
StayInv ==
    /\ StaysTypeOK
    /\ OccupiedIsStayedIn
    /\ StayedInIsOccupiedUnlessShared

LEMMA StayInit == Init => StayInv
BY DEF Init, StayInv, StaysTypeOK, OccupiedIsStayedIn, StayedInIsOccupiedUnlessShared, Stages

LEMMA StayStep == StayInv /\ [Next]_stayVars => StayInv'
<1> SUFFICES ASSUME StayInv, [Next]_stayVars
             PROVE  StayInv'
  OBVIOUS
<1> USE DEF StayInv, StaysTypeOK, OccupiedIsStayedIn, StayedInIsOccupiedUnlessShared, Stages
<1>1. ASSUME NEW x \in Stays, NEW p \in Places, Book(x, p)
      PROVE  StayInv'
  BY <1>1 DEF Book
<1>2. ASSUME NEW x \in Stays, NEW p \in Places, Move(x, p)
      PROVE  StayInv'
  BY <1>2 DEF Move
<1>3. ASSUME NEW x \in Stays, CallOff(x)
      PROVE  StayInv'
  BY <1>3 DEF CallOff
<1>4. ASSUME NEW x \in Stays, Arrive(x)
      PROVE  StayInv'
  BY <1>4 DEF Arrive
<1>5. ASSUME NEW x \in Stays, Leave(x)
      PROVE  StayInv'
  BY <1>5 DEF Leave
<1>6. CASE UNCHANGED stayVars
  BY <1>6 DEF stayVars
<1> QED
  BY <1>1, <1>2, <1>3, <1>4, <1>5, <1>6 DEF Next

\* Whoever keeps the promise has no occupied room without its guest.
THEOREM PromiseOccupied == Spec => []OccupiedIsStayedIn
<1>1. StayInv => OccupiedIsStayedIn
  BY DEF StayInv
<1> QED
  BY StayInit, StayStep, <1>1, PTL DEF Spec

\* And no guest without the room, unless another guest left it.
THEOREM PromiseShared == Spec => []StayedInIsOccupiedUnlessShared
<1>1. StayInv => StayedInIsOccupiedUnlessShared
  BY DEF StayInv
<1> QED
  BY StayInit, StayStep, <1>1, PTL DEF Spec
=============================================================================
