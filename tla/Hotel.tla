-------------------------------- MODULE Hotel --------------------------------
(***************************************************************************)
(* Rooms, reservations, guests and their folios: the operations of         *)
(* reservation_controller.py and the operations of room_controller.py and  *)
(* guest_controller.py that they meet, each one a whole request, on top of *)
(* the folio operations of Billing.tla.                                    *)
(*                                                                         *)
(* A reservation and its folio share a name: Folios is the set of          *)
(* reservations there may ever be.  Dates are day numbers.  The party of a *)
(* reservation is adults + children, the one sum the code looks at.        *)
(* Confirmation numbers, which matter only when requests overlap, are left *)
(* out here.                                                               *)
(***************************************************************************)
EXTENDS Billing, FiniteSets

CONSTANTS
    Guests,       \* the guests of the hotel at the start
    Rooms,        \* its rooms
    RoomTypes,    \* its room types
    Parties,      \* party sizes a request may ask for
    Capacities,   \* values of max_occupancy
    LastDay,      \* bound: days are 0..LastDay
    NoReservation \* the row of a reservation not made yet

Days == 0..LastDay

ReservationStatus == {"confirmed", "checked_in", "checked_out", "cancelled", "no_show"}

RoomStatus == {"available", "occupied", "housekeeping", "maintenance", "out_of_order"}

ReservationRow ==
    [status : ReservationStatus, guest_id : Guests, room_id : Rooms,
     check_in_date : Days, check_out_date : Days, party : Parties, rate_per_night : Rates]

RoomRow == [status : RoomStatus, room_type : RoomTypes]

RoomTypeRow == [base_rate : Rates, max_occupancy : Capacities]

ASSUME HotelAssumption ==
    /\ LastDay \in Nat
    /\ Parties \subseteq Int
    /\ Capacities \subseteq Int
    /\ NoReservation \notin ReservationRow

VARIABLES
    reservations,  \* reservations table
    rooms,         \* rooms table
    roomTypes,     \* room_types table
    guests,        \* ids in the guests table
    today          \* datetime.now(timezone.utc).date()

deskVars == <<reservations, rooms, roomTypes, guests, today>>
hotelVars == <<reservations, rooms, roomTypes, guests, today, billingVars>>

Reservations == Folios

Booked(x) == reservations[x] # NoReservation

HasStatus(x, status) == Booked(x) /\ reservations[x].status = status

\* The statuses that hold a room.
Active(x) == HasStatus(x, "confirmed") \/ HasStatus(x, "checked_in")

-----------------------------------------------------------------------------
(* Helpers of the code *)

\* utils/date_helpers.py
NightCount(check_in, check_out) ==
    IF check_out > check_in THEN check_out - check_in ELSE 0

\* Mutant of Overlapping: only a stay that covers the new arrival is seen.
OverlappingArrival(x, check_in, check_out) ==
    /\ reservations[x].check_in_date <= check_in
    /\ reservations[x].check_out_date > check_in

Overlapping(x, check_in, check_out) ==
    /\ reservations[x].check_in_date < check_out
    /\ reservations[x].check_out_date > check_in

AvailableRooms(check_in, check_out) ==
    {r \in Rooms :
        /\ rooms[r].status = "available"
        /\ ~ \E x \in Reservations :
                /\ Active(x)
                /\ reservations[x].room_id = r
                /\ Overlapping(x, check_in, check_out)}

\* Mutant of AllowedManually: staff may release an occupied room.
AllowedFromAnyStatus ==
    [available |-> {"housekeeping", "maintenance"},
     housekeeping |-> {"available", "maintenance"},
     maintenance |-> {"available", "housekeeping"},
     out_of_order |-> {"maintenance", "available"},
     occupied |-> {"housekeeping"}]

\* _ALLOWED_MANUAL_TRANSITIONS: what staff may set a room to, by its status.
AllowedManually ==
    [available |-> {"housekeeping", "maintenance"},
     housekeeping |-> {"available", "maintenance"},
     maintenance |-> {"available", "housekeeping"},
     out_of_order |-> {"maintenance", "available"},
     occupied |-> {}]

-----------------------------------------------------------------------------
(* Reservations *)

SetReservationStatus(x, status) ==
    reservations' = [reservations EXCEPT ![x].status = status]

SetRoomStatus(r, status) == rooms' = [rooms EXCEPT ![r].status = status]

\* Mutant of CreateReservation: the folio is left for later.
CreateWithoutFolio(x, guest, room, check_in, check_out, party) ==
    /\ ~ Booked(x)
    /\ guest \in guests
    /\ check_in < check_out
    /\ room \in AvailableRooms(check_in, check_out)
    /\ reservations' = [reservations EXCEPT ![x] =
            [status |-> "confirmed", guest_id |-> guest, room_id |-> room,
             check_in_date |-> check_in, check_out_date |-> check_out, party |-> party,
             rate_per_night |-> roomTypes[rooms[room].room_type].base_rate]]
    /\ UNCHANGED <<rooms, roomTypes, guests, today, billingVars>>

\* The dates come in order from the schema; the rate is the room type's now.
CreateReservation(x, guest, room, check_in, check_out, party) ==
    /\ ~ Booked(x)
    /\ guest \in guests
    /\ check_in < check_out
    /\ room \in AvailableRooms(check_in, check_out)
    /\ LET type == roomTypes[rooms[room].room_type] IN
       /\ party <= type.max_occupancy
       /\ reservations' = [reservations EXCEPT ![x] =
            [status |-> "confirmed", guest_id |-> guest, room_id |-> room,
             check_in_date |-> check_in, check_out_date |-> check_out,
             party |-> party, rate_per_night |-> type.base_rate]]
    /\ CreateFolio(x)
    /\ UNCHANGED <<rooms, roomTypes, guests, today>>

\* Mutant of UpdateReservation: a checked-in guest may be moved.
UpdateActive(x, room, check_in, check_out, party) ==
    /\ Active(x)
    /\ check_in < check_out
    /\ room # reservations[x].room_id => room \in AvailableRooms(check_in, check_out)
    /\ reservations' = [reservations EXCEPT
                          ![x].room_id = room,
                          ![x].check_in_date = check_in,
                          ![x].check_out_date = check_out,
                          ![x].party = party]
    /\ UNCHANGED <<rooms, roomTypes, guests, today, billingVars>>

\* A patch names some of the columns; the arguments are the row's values after
\* it.  The schema compares the two dates only when the patch names both, which
\* it must when both change.  Availability is asked for only when the room
\* changes: a reservation keeps its room whatever its new dates.
UpdateReservation(x, room, check_in, check_out, party) ==
    /\ HasStatus(x, "confirmed")
    /\ (/\ check_in # reservations[x].check_in_date
        /\ check_out # reservations[x].check_out_date) => check_in < check_out
    /\ room # reservations[x].room_id => room \in AvailableRooms(check_in, check_out)
    /\ reservations' = [reservations EXCEPT
                          ![x].room_id = room,
                          ![x].check_in_date = check_in,
                          ![x].check_out_date = check_out,
                          ![x].party = party]
    /\ UNCHANGED <<rooms, roomTypes, guests, today, billingVars>>

\* Mutant of CancelReservation: a stay that is over may be cancelled.
CancelUnlessCheckedIn(x) ==
    /\ Booked(x) /\ ~ HasStatus(x, "checked_in")
    /\ SetReservationStatus(x, "cancelled")
    /\ UNCHANGED <<rooms, roomTypes, guests, today, billingVars>>

CancelReservation(x) ==
    /\ HasStatus(x, "confirmed")
    /\ SetReservationStatus(x, "cancelled")
    /\ UNCHANGED <<rooms, roomTypes, guests, today, billingVars>>

MarkNoShow(x) ==
    /\ HasStatus(x, "confirmed")
    /\ SetReservationStatus(x, "no_show")
    /\ UNCHANGED <<rooms, roomTypes, guests, today, billingVars>>

\* Mutant of CheckIn: the first night at the room type's rate of the day.
CheckInAtCurrentRate(x) ==
    /\ HasStatus(x, "confirmed")
    /\ SetReservationStatus(x, "checked_in")
    /\ SetRoomStatus(reservations[x].room_id, "occupied")
    /\ ApplyRoomCharges(x, roomTypes[rooms[reservations[x].room_id].room_type].base_rate, 1)
    /\ UNCHANGED <<roomTypes, guests, today>>

\* On any day, whatever the room's status; the first night is charged.
CheckIn(x) ==
    /\ HasStatus(x, "confirmed")
    /\ SetReservationStatus(x, "checked_in")
    /\ SetRoomStatus(reservations[x].room_id, "occupied")
    /\ ApplyRoomCharges(x, reservations[x].rate_per_night, 1)
    /\ UNCHANGED <<roomTypes, guests, today>>

\* Nights from yesterday, or from arrival when that is later, to departure.
NightsLeft(row) ==
    NightCount(IF row.check_in_date > today - 1 THEN row.check_in_date ELSE today - 1,
               row.check_out_date)

RemainingNights(x) == NightsLeft(reservations[x])

CheckOut(x) ==
    /\ HasStatus(x, "checked_in")
    /\ SetReservationStatus(x, "checked_out")
    /\ SetRoomStatus(reservations[x].room_id, "housekeeping")
    /\ \/ /\ RemainingNights(x) > 0
          /\ ApplyRoomCharges(x, reservations[x].rate_per_night, RemainingNights(x))
       \/ /\ RemainingNights(x) = 0
          /\ UNCHANGED billingVars
    /\ UNCHANGED <<roomTypes, guests, today>>

-----------------------------------------------------------------------------
(* Rooms, room types and guests *)

UpdateRoomStatus(r, status) ==
    /\ status \in AllowedManually[rooms[r].status]
    /\ SetRoomStatus(r, status)
    /\ UNCHANGED <<reservations, roomTypes, guests, today, billingVars>>

UpdateRoom(r, type) ==
    /\ rooms' = [rooms EXCEPT ![r].room_type = type]
    /\ UNCHANGED <<reservations, roomTypes, guests, today, billingVars>>

UpdateRoomType(type, rate, capacity) ==
    /\ roomTypes' = [roomTypes EXCEPT ![type] =
                       [base_rate |-> rate, max_occupancy |-> capacity]]
    /\ UNCHANGED <<reservations, rooms, guests, today, billingVars>>

\* Mutant of DeleteGuest: only an active reservation keeps its guest.
DeleteGuestWithHistory(guest) ==
    /\ guest \in guests
    /\ ~ \E x \in Reservations : Active(x) /\ reservations[x].guest_id = guest
    /\ guests' = guests \ {guest}
    /\ UNCHANGED <<reservations, rooms, roomTypes, today, billingVars>>

\* An active reservation is refused by the handler, a past one by the database:
\* the ORM sets reservations.guest_id to NULL, which the column does not allow.
DeleteGuest(guest) ==
    /\ guest \in guests
    /\ ~ \E x \in Reservations : Booked(x) /\ reservations[x].guest_id = guest
    /\ guests' = guests \ {guest}
    /\ UNCHANGED <<reservations, rooms, roomTypes, today, billingVars>>

\* Midnight, UTC.
NextDay ==
    /\ today < LastDay
    /\ today' = today + 1
    /\ UNCHANGED <<reservations, rooms, roomTypes, guests, billingVars>>

-----------------------------------------------------------------------------
HotelInit ==
    /\ reservations = [x \in Reservations |-> NoReservation]
    /\ rooms \in [Rooms -> [status : {"available"}, room_type : RoomTypes]]
    /\ roomTypes \in [RoomTypes -> RoomTypeRow]
    /\ guests = Guests
    /\ today = 0
    /\ BillingInit

ReservationEndpoint ==
    \E x \in Reservations :
        \/ \E guest \in Guests, room \in Rooms, check_in, check_out \in Days, party \in Parties :
              CreateReservation(x, guest, room, check_in, check_out, party)
        \/ \E room \in Rooms, check_in, check_out \in Days, party \in Parties :
              UpdateReservation(x, room, check_in, check_out, party)
        \/ CancelReservation(x)
        \/ MarkNoShow(x)
        \/ CheckIn(x)
        \/ CheckOut(x)

RoomEndpoint ==
    \/ \E r \in Rooms :
          \/ \E status \in RoomStatus : UpdateRoomStatus(r, status)
          \/ \E type \in RoomTypes : UpdateRoom(r, type)
    \/ \E type \in RoomTypes, rate \in Rates, capacity \in Capacities :
          UpdateRoomType(type, rate, capacity)

GuestEndpoint == \E guest \in Guests : DeleteGuest(guest)

HotelNext ==
    \/ ReservationEndpoint
    \/ RoomEndpoint
    \/ GuestEndpoint
    \/ NextDay
    \/ BillingEndpoint /\ UNCHANGED deskVars

HotelSpec == HotelInit /\ [][HotelNext]_hotelVars

-----------------------------------------------------------------------------
(* Properties *)

DeskTypeOK ==
    /\ reservations \in [Reservations -> ReservationRow \cup {NoReservation}]
    /\ rooms \in [Rooms -> RoomRow]
    /\ roomTypes \in [RoomTypes -> RoomTypeRow]
    /\ guests \subseteq Guests
    /\ today \in Days

FolioPerReservation ==
    \A x \in Reservations : Booked(x) <=> folio[x].status # "none"

\* Type invariant; a reservation has a folio and only a reservation has one.
HotelTypeOK == DeskTypeOK /\ BillingTypeOK /\ FolioPerReservation

\* A room is occupied only while a guest checked into it has not checked out
\* (room_controller.py:19): staff cannot release it by hand, so an occupied
\* room without a guest would stay so for ever.
OccupiedHasGuest ==
    \A r \in Rooms : rooms[r].status = "occupied" =>
        \E x \in Reservations :
            HasStatus(x, "checked_in") /\ reservations[x].room_id = r

\* The other direction is weaker.  A guest's room stops being occupied only
\* because somebody else checked into the same room and out of it again.
GuestHasRoomUnlessShared ==
    \A x \in Reservations : HasStatus(x, "checked_in") =>
        \/ rooms[reservations[x].room_id].status = "occupied"
        \/ \E y \in Reservations :
              /\ HasStatus(y, "checked_out")
              /\ reservations[y].room_id = reservations[x].room_id

\* The hotel implements the promise of Stays.tla: the life of every stay, and
\* rooms occupied by arrivals and released by departures alone.
Stage == [x \in Reservations |-> IF Booked(x) THEN reservations[x].status ELSE "none"]

Place == [x \in Reservations |-> IF Booked(x) THEN reservations[x].room_id ELSE NoReservation]

Occupied == {r \in Rooms : rooms[r].status = "occupied"}

Promise == INSTANCE Stays WITH
    Stays <- Reservations, Places <- Rooms, NoPlace <- NoReservation,
    stage <- Stage, place <- Place, occupied <- Occupied

KeepsPromise == Promise!Spec

Nights(x) == {d \in Days : reservations[x].check_in_date <= d
                          /\ d < reservations[x].check_out_date}

\* Two reservations hold the same room on the same night.
DoubleBooked(x, y) ==
    /\ x # y
    /\ Active(x) /\ Active(y)
    /\ reservations[x].room_id = reservations[y].room_id
    /\ Nights(x) \cap Nights(y) # {}

\* The one step that can put two reservations in a room on the same night is
\* a change of dates that keeps the room.
DoubleBookedByRedating ==
    [][\A x, y \in Reservations :
         (~ DoubleBooked(x, y) /\ DoubleBooked(x, y)') =>
            \E z \in {x, y} :
               /\ HasStatus(z, "confirmed") /\ HasStatus(z, "confirmed")'
               /\ reservations'[z].room_id = reservations[z].room_id
               /\ ~ Nights(z)' \subseteq Nights(z)]_hotelVars

BookedNights(x) ==
    NightCount(reservations[x].check_in_date, reservations[x].check_out_date)

\* The lines of x but for the voids come to n nights at the reservation's rate.
ChargedNights(x, n) ==
    LET charge == [i \in DOMAIN lineItems[x] |->
                     IF lineItems[x][i].void THEN 0 ELSE lineItems[x][i].total]
    IN  SumFunction(charge) = reservations[x].rate_per_night * n

\* The room charges of a stay, when staff post no lines by hand: none unless
\* the guest arrives, one night at arrival and, at departure, up to all the
\* nights booked once more; always at the rate of the day of booking
\* (models/reservation.py:43), whatever became of the room type's since.
RoomChargesOfStay ==
    LineAmounts = {} =>
      \A x \in Reservations : Booked(x) =>
        CASE HasStatus(x, "checked_in") -> ChargedNights(x, 1)
          [] HasStatus(x, "checked_out") -> \E n \in 1..1 + BookedNights(x) : ChargedNights(x, n)
          [] OTHER -> ChargedNights(x, 0)

Over(x) == \E status \in {"checked_out", "cancelled", "no_show"} : HasStatus(x, status)

\* The end of a stay is final: its reservation never changes again, and once
\* its folio is closed as well nothing is written on that folio any more.
EndedStayIsFinal ==
    [][\A x \in Reservations : Over(x) =>
         /\ reservations'[x] = reservations[x]
         /\ folio[x].status = "closed" =>
              /\ folio'[x] = folio[x]
              /\ lineItems'[x] = lineItems[x]
              /\ payments'[x] = payments[x]]_hotelVars

\* A guest is never deleted from under a reservation, an old one included:
\* the stay history of every reservation keeps its guest.
ReservationsKeepTheirGuest ==
    \A x \in Reservations : Booked(x) => reservations[x].guest_id \in guests

-----------------------------------------------------------------------------
(* What the repository says and the code does not do *)

\* billing_controller.py:64, "Cannot add charges to a closed folio": check-in
\* and check-out do.
ClosedFolioTakesNoCharges ==
    [][\A x \in Reservations :
         folio[x].status = "closed" => lineItems'[x] = lineItems[x]]_hotelVars

\* reservation_controller.py:135, "Room is not available for the updated dates"
\* is how an update is refused; not one that moves a reservation onto another
\* in its own room.
NoDoubleBooking == \A x, y \in Reservations : ~ DoubleBooked(x, y)

\* reservation_controller.py:206, "Post one charge for each remaining night (if
\* not already posted)": a one-night stay is charged twice.
NoNightChargedTwice ==
    LineAmounts = {} =>
      \A x \in Reservations : (HasStatus(x, "checked_out") /\ BookedNights(x) > 0) =>
        \E n \in 0..BookedNights(x) : ChargedNights(x, n)
=============================================================================
