-------------------------------- MODULE Stays --------------------------------
(***************************************************************************)
(* What the front desk promises of stays and rooms, and no more: a stay is *)
(* booked for a room, may be moved or called off until the guest arrives,  *)
(* and then runs to its departure in that room; a room is occupied from an *)
(* arrival in it to the next departure from it and by nothing else         *)
(* (room_controller.py:19).  Hotel.tla implements it.                      *)
(***************************************************************************)
CONSTANTS Stays, Places, NoPlace

VARIABLES
    stage,    \* where each stay is in its life
    place,    \* the room it is booked for
    occupied  \* the rooms that are occupied

stayVars == <<stage, place, occupied>>

Init ==
    /\ stage = [x \in Stays |-> "none"]
    /\ place = [x \in Stays |-> NoPlace]
    /\ occupied = {}

Book(x, p) ==
    /\ stage[x] = "none"
    /\ stage' = [stage EXCEPT ![x] = "confirmed"]
    /\ place' = [place EXCEPT ![x] = p]
    /\ UNCHANGED occupied

Move(x, p) ==
    /\ stage[x] = "confirmed"
    /\ place' = [place EXCEPT ![x] = p]
    /\ UNCHANGED <<stage, occupied>>

CallOff(x) ==
    /\ stage[x] = "confirmed"
    /\ \E end \in {"cancelled", "no_show"} : stage' = [stage EXCEPT ![x] = end]
    /\ UNCHANGED <<place, occupied>>

Arrive(x) ==
    /\ stage[x] = "confirmed"
    /\ stage' = [stage EXCEPT ![x] = "checked_in"]
    /\ occupied' = occupied \cup {place[x]}
    /\ UNCHANGED place

Leave(x) ==
    /\ stage[x] = "checked_in"
    /\ stage' = [stage EXCEPT ![x] = "checked_out"]
    /\ occupied' = occupied \ {place[x]}
    /\ UNCHANGED place

Next ==
    \E x \in Stays :
        \/ \E p \in Places : Book(x, p) \/ Move(x, p)
        \/ CallOff(x)
        \/ Arrive(x)
        \/ Leave(x)

Spec == Init /\ [][Next]_stayVars

-----------------------------------------------------------------------------
Stages == {"none", "confirmed", "checked_in", "checked_out", "cancelled", "no_show"}

\* Type invariant; a stay that was ever booked has a room.
StaysTypeOK ==
    /\ stage \in [Stays -> Stages]
    /\ \A x \in Stays : stage[x] # "none" => place[x] \in Places
    /\ place \in [Stays -> Places \cup {NoPlace}]
    /\ occupied \subseteq Places

\* A room is occupied only while a guest who arrived in it has not left.
OccupiedIsStayedIn ==
    \A p \in occupied : \E x \in Stays : stage[x] = "checked_in" /\ place[x] = p

\* The room of a guest who arrived and has not left is occupied, unless
\* another guest has left it.
StayedInIsOccupiedUnlessShared ==
    \A x \in Stays : stage[x] = "checked_in" =>
        \/ place[x] \in occupied
        \/ \E y \in Stays : stage[y] = "checked_out" /\ place[y] = place[x]
=============================================================================
