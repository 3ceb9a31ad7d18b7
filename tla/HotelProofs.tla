----------------------------- MODULE HotelProofs -----------------------------
(***************************************************************************)
(* Proofs about Hotel.tla, for any number of rooms, guests, reservations   *)
(* and days: its type invariant, that an occupied room has a guest, that   *)
(* the hotel implements the promise of Stays.tla, that guests keep their   *)
(* reservations, how rooms come to be booked twice, that ended stays are   *)
(* final, and what a stay is charged.                                      *)
(***************************************************************************)
EXTENDS Hotel, BillingProofs

-----------------------------------------------------------------------------
(* What the folio operations do to the folios' statuses *)

\* A posted line leaves every status alone.
LEMMA PostLineKeepsStatus ==
    ASSUME BillingInv, NEW f \in Folios, NEW type, NEW void, NEW ticks,
           PostLine(f, type, void, ticks)
    PROVE  \A g \in Folios : folio'[g].status = folio[g].status
<1>1. folio[f] \in FolioRow /\ folio \in [Folios -> FolioRow]
  BY DEF BillingInv, BillingTypeOK
<1>2. folio' = [folio EXCEPT ![f] = Charged(folio[f], ticks)]
  BY DEF PostLine
<1>3. Charged(folio[f], ticks).status = folio[f].status
  BY <1>1 DEF Charged, FolioRow
<1> QED
  BY <1>1, <1>2, <1>3

\* Room charges, for any rate and any number of nights.
LEMMA RoomChargesInvariant ==
    ASSUME BillingInv, NEW f \in Folios, NEW rate \in Int, NEW nights \in Int,
           ApplyRoomCharges(f, rate, nights)
    PROVE  BillingInv' /\ \A g \in Folios : folio'[g].status = folio[g].status
<1>1. Ticks(rate * nights) \in Int
  <2>1. rate * nights \in Int
    OBVIOUS
  <2> QED
    BY <2>1 DEF Ticks, TicksPerCent
<1>2. PostLine(f, "room_charge", FALSE, Ticks(rate * nights))
  BY DEF ApplyRoomCharges
<1>3. BillingInv'
  BY <1>1, <1>2, PostLineInvariant DEF LineItemType
<1> QED
  BY <1>2, <1>3, PostLineKeepsStatus

\* The endpoints of billing make no folio and take none away.
LEMMA EndpointKeepsFolios ==
    ASSUME BillingInv, BillingEndpoint
    PROVE  \A g \in Folios : folio'[g].status = "none" <=> folio[g].status = "none"
<1>1. folio \in [Folios -> FolioRow]
  BY DEF BillingInv, BillingTypeOK
<1>2. ASSUME NEW f \in Folios, NEW type \in LineItemType, NEW ticks \in LineAmounts,
             AddLineItem(f, type, ticks)
      PROVE  \A g \in Folios : folio'[g].status = folio[g].status
  BY <1>2, PostLineKeepsStatus DEF AddLineItem
<1>3. ASSUME NEW f \in Folios, NEW i \in 1..MaxEntries, VoidLineItem(f, i)
      PROVE  \A g \in Folios : folio'[g].status = folio[g].status
  BY <1>3, PostLineKeepsStatus DEF VoidLineItem
<1>4. ASSUME NEW f \in Folios, NEW ticks \in PaymentAmounts, PostPayment(f, ticks)
      PROVE  \A g \in Folios : folio'[g].status = folio[g].status
  <2>1. Paid(folio[f], ticks).status = folio[f].status
    BY <1>1 DEF Paid, FolioRow
  <2>2. folio' = [folio EXCEPT ![f] = Paid(folio[f], ticks)]
    BY <1>4 DEF PostPayment
  <2> QED
    BY <1>1, <2>1, <2>2
<1>5. ASSUME NEW f \in Folios, CloseFolio(f)
      PROVE  \A g \in Folios : folio'[g].status = "none" <=> folio[g].status = "none"
  <2>1. folio[f].status = "open" /\ folio' = [folio EXCEPT ![f].status = "closed"]
    BY <1>5 DEF CloseFolio
  <2> QED
    BY <1>1, <2>1 DEF FolioRow
<1> QED
  BY <1>2, <1>3, <1>4, <1>5 DEF BillingEndpoint

-----------------------------------------------------------------------------
(* What the desk's operations do to the tables and to the abstract state *)

\* A row of the table is either no reservation or a complete one.
LEMMA BookedRow ==
    ASSUME DeskTypeOK, NEW x \in Reservations, Booked(x)
    PROVE  reservations[x] \in ReservationRow
  BY DEF DeskTypeOK, Booked

\* The abstract state follows the two tables.
LEMMA SameTables ==
    ASSUME UNCHANGED reservations,
           \A r \in Rooms : rooms'[r].status = "occupied" <=> rooms[r].status = "occupied"
    PROVE  UNCHANGED <<Stage, Place, Occupied>>
<1>1. Stage' = Stage /\ Place' = Place
  BY DEF Stage, Place, Booked
<1>2. Occupied' = Occupied
  BY DEF Occupied
<1> QED
  BY <1>1, <1>2

\* Writing a complete row.
LEMMA WriteRow ==
    ASSUME DeskTypeOK, NEW x \in Reservations, NEW row \in ReservationRow,
           reservations' = [reservations EXCEPT ![x] = row]
    PROVE  /\ reservations' \in [Reservations -> ReservationRow \cup {NoReservation}]
           /\ \A y \in Reservations : Booked(y)' <=> Booked(y) \/ y = x
           /\ Stage' = [Stage EXCEPT ![x] = row.status]
           /\ Place' = [Place EXCEPT ![x] = row.room_id]
<1>1. reservations \in [Reservations -> ReservationRow \cup {NoReservation}]
  BY DEF DeskTypeOK
<1>2. row # NoReservation
  BY HotelAssumption
<1>3. \A y \in Reservations : reservations'[y] = IF y = x THEN row ELSE reservations[y]
  BY <1>1
<1>4. \A y \in Reservations : Booked(y)' <=> Booked(y) \/ y = x
  BY <1>2, <1>3 DEF Booked
<1>5. Stage' = [Stage EXCEPT ![x] = row.status]
  <2>1. \A y \in Reservations : Stage'[y] = IF y = x THEN row.status ELSE Stage[y]
    BY <1>2, <1>3, <1>4 DEF Stage, Booked
  <2>2. Stage = [y \in Reservations |-> Stage[y]] /\ Stage' = [y \in Reservations |-> Stage'[y]]
    BY DEF Stage
  <2> QED
    BY <2>1, <2>2
<1>6. Place' = [Place EXCEPT ![x] = row.room_id]
  <2>1. \A y \in Reservations : Place'[y] = IF y = x THEN row.room_id ELSE Place[y]
    BY <1>2, <1>3, <1>4 DEF Place, Booked
  <2>2. Place = [y \in Reservations |-> Place[y]] /\ Place' = [y \in Reservations |-> Place'[y]]
    BY DEF Place
  <2> QED
    BY <2>1, <2>2
<1> QED
  BY <1>1, <1>4, <1>5, <1>6

\* A change of status is the writing of a row that differs in the status.
LEMMA StatusRow ==
    ASSUME DeskTypeOK, NEW x \in Reservations, Booked(x), NEW status \in ReservationStatus,
           SetReservationStatus(x, status)
    PROVE  /\ reservations' \in [Reservations -> ReservationRow \cup {NoReservation}]
           /\ \A y \in Reservations : Booked(y)' <=> Booked(y)
           /\ Stage' = [Stage EXCEPT ![x] = status]
           /\ Place' = Place
<1> DEFINE row == [reservations[x] EXCEPT !.status = status]
<1>1. reservations[x] \in ReservationRow
  BY BookedRow
<1>2. row \in ReservationRow /\ row.status = status /\ row.room_id = reservations[x].room_id
  BY <1>1 DEF ReservationRow
<1>3. reservations' = [reservations EXCEPT ![x] = row]
  BY DEF SetReservationStatus
<1>4. Place[x] = row.room_id
  BY <1>2 DEF Place
<1> HIDE DEF row
<1>5. Place' = [Place EXCEPT ![x] = row.room_id]
  BY <1>2, <1>3, WriteRow
<1>6. Place' = Place
  BY <1>4, <1>5, Zenon DEF Place
<1> QED
  BY <1>2, <1>3, <1>6, WriteRow

\* A change of a room's status.
LEMMA RoomStatusRow ==
    ASSUME DeskTypeOK, NEW r \in Rooms, NEW status \in RoomStatus, SetRoomStatus(r, status)
    PROVE  /\ rooms' \in [Rooms -> RoomRow]
           /\ \A q \in Rooms : rooms'[q].status = IF q = r THEN status ELSE rooms[q].status
           /\ Occupied' = IF status = "occupied" THEN Occupied \cup {r} ELSE Occupied \ {r}
<1>1. rooms \in [Rooms -> RoomRow] /\ rooms' = [rooms EXCEPT ![r].status = status]
  BY DEF DeskTypeOK, SetRoomStatus
<1>2. rooms' \in [Rooms -> RoomRow]
  BY <1>1 DEF RoomRow
<1>3. \A q \in Rooms : rooms'[q].status = IF q = r THEN status ELSE rooms[q].status
  BY <1>1 DEF RoomRow
<1>4. Occupied' = IF status = "occupied" THEN Occupied \cup {r} ELSE Occupied \ {r}
  BY <1>3 DEF Occupied
<1> QED
  BY <1>2, <1>3, <1>4

\* What staff set a room to is never occupied, and never was.
LEMMA ManualStatus ==
    ASSUME NEW old \in RoomStatus, NEW status \in AllowedManually[old]
    PROVE  old # "occupied" /\ status # "occupied" /\ status \in RoomStatus
  BY DEF RoomStatus, AllowedManually

-----------------------------------------------------------------------------
(* The invariant and the promise, operation by operation *)

\* The types need to know that a rate and a number of nights are numbers, and
\* that a room named by a reservation is a room; room charges need the folio's
\* invariant.
HotelInv == HotelTypeOK /\ BalanceWithinACent

\* What is shown of every step.
Good == HotelInv' /\ [Promise!Next]_(Promise!stayVars)

LEMMA InvParts ==
    HotelInv <=> DeskTypeOK /\ FolioPerReservation /\ BillingInv
  BY DEF HotelInv, HotelTypeOK, BillingInv

LEMMA CreateReservationGood ==
    ASSUME HotelInv, NEW x \in Reservations, NEW guest \in Guests, NEW room \in Rooms,
           NEW check_in \in Days, NEW check_out \in Days, NEW party \in Parties,
           CreateReservation(x, guest, room, check_in, check_out, party)
    PROVE  Good
<1> DEFINE row == [status |-> "confirmed", guest_id |-> guest, room_id |-> room,
                   check_in_date |-> check_in, check_out_date |-> check_out,
                   party |-> party,
                   rate_per_night |-> roomTypes[rooms[room].room_type].base_rate]
<1>1. DeskTypeOK /\ FolioPerReservation /\ BillingInv
  BY InvParts
<1>2. row \in ReservationRow
  BY <1>1 DEF DeskTypeOK, RoomRow, RoomTypeRow, ReservationRow, ReservationStatus
<1>3. /\ reservations' = [reservations EXCEPT ![x] = row]
      /\ CreateFolio(x)
      /\ ~ Booked(x)
      /\ UNCHANGED <<rooms, roomTypes, guests, today>>
  BY DEF CreateReservation
<1>4. row.status = "confirmed" /\ row.room_id = room
  OBVIOUS
<1> HIDE DEF row
<1>5. BillingInv'
  BY <1>1, <1>3, StatusInvariant DEF CreateFolio, FolioStatus, Reservations
<1>6. \A y \in Folios : folio'[y].status = IF y = x THEN "open" ELSE folio[y].status
  BY <1>1, <1>3 DEF CreateFolio, BillingInv, BillingTypeOK, FolioRow
<1>7. DeskTypeOK' /\ FolioPerReservation'
  BY <1>1, <1>2, <1>3, <1>6, WriteRow DEF DeskTypeOK, FolioPerReservation, Reservations
<1>8. Promise!Book(x, room)
  <2>1. Stage[x] = "none"
    BY <1>3 DEF Stage
  <2>2. Occupied' = Occupied
    BY <1>3 DEF Occupied
  <2> QED
    BY <1>1, <1>2, <1>3, <1>4, <2>1, <2>2, WriteRow DEF Promise!Book
<1> QED
  BY <1>5, <1>7, <1>8
     DEF Good, Promise!Next, Reservations, HotelInv, HotelTypeOK, BillingInv

LEMMA UpdateReservationGood ==
    ASSUME HotelInv, NEW x \in Reservations, NEW room \in Rooms,
           NEW check_in \in Days, NEW check_out \in Days, NEW party \in Parties,
           UpdateReservation(x, room, check_in, check_out, party)
    PROVE  Good
<1> DEFINE row == [reservations[x] EXCEPT !.room_id = room, !.check_in_date = check_in,
                                          !.check_out_date = check_out, !.party = party]
<1>1. DeskTypeOK /\ FolioPerReservation /\ BillingInv
  BY InvParts
<1>2. /\ HasStatus(x, "confirmed")
      /\ reservations' = [reservations EXCEPT ![x] = row]
      /\ UNCHANGED <<rooms, roomTypes, guests, today, billingVars>>
  BY <1>1 DEF UpdateReservation, DeskTypeOK
<1>3. reservations[x] \in ReservationRow /\ Booked(x)
  BY <1>1, <1>2, BookedRow DEF HasStatus
<1>4. row \in ReservationRow /\ row.status = "confirmed" /\ row.room_id = room
  BY <1>2, <1>3 DEF ReservationRow, HasStatus
<1> HIDE DEF row
<1>5. BillingInv' /\ folio' = folio
  BY <1>1, <1>2 DEF billingVars, BillingInv, BillingTypeOK, BalanceWithinACent
<1>6. DeskTypeOK' /\ FolioPerReservation'
  BY <1>1, <1>2, <1>3, <1>4, <1>5, WriteRow DEF DeskTypeOK, FolioPerReservation, Reservations
<1>7. Promise!Move(x, room)
  <2>1. Stage[x] = "confirmed"
    BY <1>2, <1>3 DEF Stage, HasStatus
  <2>2. Stage' = Stage
    <3>1. Stage' = [Stage EXCEPT ![x] = Stage[x]]
      BY <1>1, <1>2, <1>4, <2>1, WriteRow
    <3> QED
      BY <3>1, Zenon DEF Stage
  <2>3. Occupied' = Occupied
    BY <1>2 DEF Occupied
  <2> QED
    BY <1>1, <1>2, <1>4, <2>1, <2>2, <2>3, WriteRow DEF Promise!Move
<1> QED
  BY <1>5, <1>6, <1>7
     DEF Good, Promise!Next, Reservations, HotelInv, HotelTypeOK, BillingInv

\* Cancelling and marking a no-show.
LEMMA CallOffGood ==
    ASSUME HotelInv, NEW x \in Reservations, NEW end \in {"cancelled", "no_show"},
           HasStatus(x, "confirmed"), SetReservationStatus(x, end),
           UNCHANGED <<rooms, roomTypes, guests, today, billingVars>>
    PROVE  Good
<1>1. DeskTypeOK /\ FolioPerReservation /\ BillingInv
  BY InvParts
<1>2. end \in ReservationStatus /\ Booked(x)
  BY DEF ReservationStatus, HasStatus
<1>3. BillingInv' /\ folio' = folio
  BY <1>1 DEF billingVars, BillingInv, BillingTypeOK, BalanceWithinACent
<1>4. DeskTypeOK' /\ FolioPerReservation'
  BY <1>1, <1>2, <1>3, StatusRow DEF DeskTypeOK, FolioPerReservation
<1>5. Promise!CallOff(x)
  <2>1. Stage[x] = "confirmed" /\ Occupied' = Occupied
    BY DEF Stage, HasStatus, Occupied
  <2> QED
    BY <1>1, <1>2, <2>1, StatusRow DEF Promise!CallOff
<1> QED
  BY <1>3, <1>4, <1>5
     DEF Good, Promise!Next, Reservations, HotelInv, HotelTypeOK, BillingInv

LEMMA CheckInGood ==
    ASSUME HotelInv, NEW x \in Reservations, CheckIn(x)
    PROVE  Good
<1> DEFINE r == reservations[x].room_id
           rate == reservations[x].rate_per_night
<1>1. DeskTypeOK /\ FolioPerReservation /\ BillingInv
  BY InvParts
<1>2. /\ HasStatus(x, "confirmed") /\ Booked(x)
      /\ SetReservationStatus(x, "checked_in")
      /\ SetRoomStatus(r, "occupied")
      /\ ApplyRoomCharges(x, rate, 1)
      /\ UNCHANGED <<roomTypes, guests, today>>
  BY DEF CheckIn, HasStatus
<1>3. r \in Rooms /\ rate \in Int
  BY <1>1, <1>2, BookedRow, MoneyAssumption DEF ReservationRow
<1> HIDE DEF r, rate
<1>4. BillingInv' /\ \A g \in Reservations : folio'[g].status = folio[g].status
  BY <1>1, <1>2, <1>3, RoomChargesInvariant DEF Reservations
<1>5. DeskTypeOK' /\ FolioPerReservation'
  BY <1>1, <1>2, <1>3, <1>4, StatusRow, RoomStatusRow
     DEF DeskTypeOK, FolioPerReservation, ReservationStatus, RoomStatus
<1>6. Promise!Arrive(x)
  <2>1. Stage[x] = "confirmed" /\ Place[x] = r
    BY <1>2 DEF Stage, Place, HasStatus, r
  <2> QED
    BY <1>1, <1>2, <1>3, <2>1, StatusRow, RoomStatusRow
       DEF Promise!Arrive, ReservationStatus, RoomStatus
<1> QED
  BY <1>4, <1>5, <1>6
     DEF Good, Promise!Next, Reservations, HotelInv, HotelTypeOK, BillingInv

LEMMA CheckOutGood ==
    ASSUME HotelInv, NEW x \in Reservations, CheckOut(x)
    PROVE  Good
<1> DEFINE r == reservations[x].room_id
           rate == reservations[x].rate_per_night
<1>1. DeskTypeOK /\ FolioPerReservation /\ BillingInv
  BY InvParts
<1>2. /\ HasStatus(x, "checked_in") /\ Booked(x)
      /\ SetReservationStatus(x, "checked_out")
      /\ SetRoomStatus(r, "housekeeping")
      /\ UNCHANGED billingVars \/ ApplyRoomCharges(x, rate, RemainingNights(x))
      /\ UNCHANGED <<roomTypes, guests, today>>
  BY DEF CheckOut, HasStatus
<1>3. r \in Rooms /\ rate \in Int
  BY <1>1, <1>2, BookedRow, MoneyAssumption DEF ReservationRow
<1>4. RemainingNights(x) \in Int
  BY <1>1, <1>2, BookedRow, HotelAssumption
     DEF RemainingNights, NightsLeft, NightCount, ReservationRow, Days, DeskTypeOK
<1> HIDE DEF r, rate
<1>5. BillingInv' /\ \A g \in Reservations : folio'[g].status = folio[g].status
  <2>1. CASE UNCHANGED billingVars
    BY <1>1, <2>1 DEF billingVars, BillingInv, BillingTypeOK, BalanceWithinACent
  <2>2. CASE ApplyRoomCharges(x, rate, RemainingNights(x))
    BY <1>1, <1>3, <1>4, <2>2, RoomChargesInvariant DEF Reservations
  <2> QED
    BY <1>2, <2>1, <2>2
<1>6. DeskTypeOK' /\ FolioPerReservation'
  BY <1>1, <1>2, <1>3, <1>5, StatusRow, RoomStatusRow
     DEF DeskTypeOK, FolioPerReservation, ReservationStatus, RoomStatus
<1>7. Promise!Leave(x)
  <2>1. Stage[x] = "checked_in" /\ Place[x] = r
    BY <1>2 DEF Stage, Place, HasStatus, r
  <2> QED
    BY <1>1, <1>2, <1>3, <2>1, StatusRow, RoomStatusRow
       DEF Promise!Leave, ReservationStatus, RoomStatus
<1> QED
  BY <1>5, <1>6, <1>7
     DEF Good, Promise!Next, Reservations, HotelInv, HotelTypeOK, BillingInv

\* Steps that the promise does not see: no reservation changes, and no room
\* becomes or stops being occupied.
LEMMA UnseenGood ==
    ASSUME DeskTypeOK', FolioPerReservation', BillingInv', UNCHANGED reservations,
           \A r \in Rooms : rooms'[r].status = "occupied" <=> rooms[r].status = "occupied"
    PROVE  Good
<1>1. UNCHANGED Promise!stayVars
  BY SameTables DEF Promise!stayVars
<1> QED
  BY <1>1 DEF Good, HotelInv, HotelTypeOK, BillingInv

LEMMA BillingUnchanged ==
    ASSUME HotelInv, UNCHANGED <<reservations, billingVars>>
    PROVE  FolioPerReservation' /\ BillingInv'
  BY DEF HotelInv, HotelTypeOK, BillingInv, FolioPerReservation, Booked, billingVars,
         BillingTypeOK, BalanceWithinACent

LEMMA RoomEndpointGood ==
    ASSUME HotelInv, RoomEndpoint
    PROVE  Good
<1>1. DeskTypeOK
  BY InvParts
<1>2. ASSUME NEW r \in Rooms, NEW status \in RoomStatus, UpdateRoomStatus(r, status)
      PROVE  Good
  <2>1. rooms[r].status # "occupied" /\ status # "occupied"
    BY <1>1, <1>2, ManualStatus DEF UpdateRoomStatus, DeskTypeOK, RoomRow
  <2>2. SetRoomStatus(r, status)
        /\ UNCHANGED <<reservations, roomTypes, guests, today, billingVars>>
    BY <1>2 DEF UpdateRoomStatus
  <2>3. DeskTypeOK'
    BY <1>1, <2>2, RoomStatusRow DEF DeskTypeOK
  <2>4. \A q \in Rooms : rooms'[q].status = "occupied" <=> rooms[q].status = "occupied"
    BY <1>1, <2>1, <2>2, RoomStatusRow
  <2> QED
    BY <2>2, <2>3, <2>4, BillingUnchanged, UnseenGood
<1>3. ASSUME NEW r \in Rooms, NEW type \in RoomTypes, UpdateRoom(r, type)
      PROVE  Good
  <2>1. rooms' = [rooms EXCEPT ![r].room_type = type]
        /\ UNCHANGED <<reservations, roomTypes, guests, today, billingVars>>
    BY <1>3 DEF UpdateRoom
  <2>2. DeskTypeOK'
    BY <1>1, <2>1 DEF DeskTypeOK, RoomRow
  <2>3. \A q \in Rooms : rooms'[q].status = rooms[q].status
    BY <1>1, <2>1 DEF DeskTypeOK, RoomRow
  <2> QED
    BY <2>1, <2>2, <2>3, BillingUnchanged, UnseenGood
<1>4. ASSUME NEW type \in RoomTypes, NEW rate \in Rates, NEW capacity \in Capacities,
             UpdateRoomType(type, rate, capacity)
      PROVE  Good
  <2>1. roomTypes' = [roomTypes EXCEPT
                        ![type] = [base_rate |-> rate, max_occupancy |-> capacity]]
        /\ UNCHANGED <<reservations, rooms, guests, today, billingVars>>
    BY <1>4 DEF UpdateRoomType
  <2>2. DeskTypeOK'
    BY <1>1, <2>1 DEF DeskTypeOK, RoomTypeRow
  <2> QED
    BY <2>1, <2>2, BillingUnchanged, UnseenGood
<1> QED
  BY <1>2, <1>3, <1>4 DEF RoomEndpoint

LEMMA BillingGood ==
    ASSUME HotelInv, BillingEndpoint, UNCHANGED deskVars
    PROVE  Good
<1>1. DeskTypeOK /\ FolioPerReservation /\ BillingInv
  BY InvParts
<1>2. BillingInv'
  BY <1>1, NextInvariant DEF BillingNext
<1>3. DeskTypeOK' /\ FolioPerReservation'
  BY <1>1, EndpointKeepsFolios
     DEF deskVars, DeskTypeOK, FolioPerReservation, Booked, Reservations
<1> QED
  BY <1>2, <1>3, UnseenGood DEF deskVars

\* Every step keeps the invariant and is a step of the promise or unseen by it.
LEMMA EveryStepIsGood == HotelInv /\ [HotelNext]_hotelVars => Good
<1> SUFFICES ASSUME HotelInv, [HotelNext]_hotelVars
             PROVE  Good
  OBVIOUS
<1>1. DeskTypeOK
  BY InvParts
<1>2. CASE ReservationEndpoint
  <2>1. ASSUME NEW x \in Reservations, CancelReservation(x) \/ MarkNoShow(x)
        PROVE  Good
    BY <2>1, CallOffGood DEF CancelReservation, MarkNoShow
  <2> QED
    BY <1>2, <2>1, CreateReservationGood, UpdateReservationGood, CheckInGood, CheckOutGood
       DEF ReservationEndpoint
<1>3. CASE RoomEndpoint
  BY <1>3, RoomEndpointGood
<1>4. CASE GuestEndpoint
  <2>1. UNCHANGED <<reservations, rooms, roomTypes, today, billingVars>> /\ guests' \subseteq guests
    BY <1>4 DEF GuestEndpoint, DeleteGuest
  <2>2. DeskTypeOK'
    BY <1>1, <2>1 DEF DeskTypeOK
  <2> QED
    BY <2>1, <2>2, BillingUnchanged, UnseenGood
<1>5. CASE NextDay
  <2>1. UNCHANGED <<reservations, rooms, roomTypes, guests, billingVars>> /\ today' \in Days
    BY <1>1, <1>5, HotelAssumption DEF NextDay, DeskTypeOK, Days
  <2>2. DeskTypeOK'
    BY <1>1, <2>1 DEF DeskTypeOK
  <2> QED
    BY <2>1, <2>2, BillingUnchanged, UnseenGood
<1>6. CASE BillingEndpoint /\ UNCHANGED deskVars
  BY <1>6, BillingGood
<1>7. CASE UNCHANGED hotelVars
  <2>1. UNCHANGED <<reservations, rooms, roomTypes, guests, today, billingVars>>
    BY <1>7 DEF hotelVars
  <2>2. DeskTypeOK'
    BY <1>1, <2>1 DEF DeskTypeOK
  <2> QED
    BY <2>1, <2>2, BillingUnchanged, UnseenGood
<1> QED
  BY <1>2, <1>3, <1>4, <1>5, <1>6, <1>7 DEF HotelNext

LEMMA HotelInitInvariant == HotelInit => HotelInv /\ Promise!Init
<1> SUFFICES ASSUME HotelInit
             PROVE  HotelInv /\ Promise!Init
  OBVIOUS
<1>1. BillingInv
  BY InitInvariant DEF HotelInit
<1>2. DeskTypeOK
  BY HotelAssumption DEF HotelInit, DeskTypeOK, RoomRow, RoomStatus, Days
<1>3. FolioPerReservation
  BY DEF HotelInit, BillingInit, FolioPerReservation, NoFolio, Booked, Reservations
<1>4. Promise!Init
  BY DEF HotelInit, Promise!Init, Stage, Place, Occupied, Booked
<1> QED
  BY <1>1, <1>2, <1>3, <1>4, InvParts

-----------------------------------------------------------------------------
(* What no step does *)

\* The rows a step may write over that of x: a new reservation, a confirmed one
\* after a patch, or the same one further on in its life.
NewRow(x, row) ==
    /\ ~ Booked(x)
    /\ row.status = "confirmed"
    /\ row.guest_id \in guests
    /\ row.room_id \in AvailableRooms(row.check_in_date, row.check_out_date)

PatchedRow(x, row) ==
    /\ HasStatus(x, "confirmed")
    /\ row.status = "confirmed"
    /\ row.guest_id = reservations[x].guest_id
    /\ row.room_id # reservations[x].room_id =>
         row.room_id \in AvailableRooms(row.check_in_date, row.check_out_date)

LaterRow(x, row) ==
    /\ HasStatus(x, "confirmed") \/ HasStatus(x, "checked_in")
    /\ row = [reservations[x] EXCEPT !.status = row.status]

RowWritten(x, row) ==
    /\ reservations' = [reservations EXCEPT ![x] = row]
    /\ guests' = guests
    /\ NewRow(x, row) \/ PatchedRow(x, row) \/ LaterRow(x, row)

LEMMA LaterRowWritten ==
    ASSUME DeskTypeOK, NEW x \in Reservations, NEW status \in ReservationStatus,
           HasStatus(x, "confirmed") \/ HasStatus(x, "checked_in"),
           SetReservationStatus(x, status), guests' = guests
    PROVE  \E row \in ReservationRow : RowWritten(x, row)
<1> DEFINE row == [reservations[x] EXCEPT !.status = status]
<1>1. reservations[x] \in ReservationRow
  BY BookedRow DEF HasStatus
<1>2. row \in ReservationRow /\ row.status = status
  BY <1>1 DEF ReservationRow
<1>3. reservations' = [reservations EXCEPT ![x] = row]
  BY DEF SetReservationStatus
<1> QED
  BY <1>2, <1>3 DEF RowWritten, LaterRow

\* A step writes no reservation or one of these.
LEMMA StepOfTheDesk ==
    ASSUME DeskTypeOK, [HotelNext]_hotelVars
    PROVE  \/ UNCHANGED reservations
           \/ \E x \in Reservations : \E row \in ReservationRow : RowWritten(x, row)
<1>1. ASSUME NEW x \in Reservations, NEW guest \in Guests, NEW room \in Rooms,
             NEW check_in \in Days, NEW check_out \in Days, NEW party \in Parties,
             CreateReservation(x, guest, room, check_in, check_out, party)
      PROVE  \E row \in ReservationRow : RowWritten(x, row)
  <2> DEFINE row == [status |-> "confirmed", guest_id |-> guest, room_id |-> room,
                     check_in_date |-> check_in, check_out_date |-> check_out,
                     party |-> party,
                     rate_per_night |-> roomTypes[rooms[room].room_type].base_rate]
  <2>1. row \in ReservationRow
    BY DEF DeskTypeOK, RoomRow, RoomTypeRow, ReservationRow, ReservationStatus
  <2>2. reservations' = [reservations EXCEPT ![x] = row] /\ guests' = guests
    BY <1>1 DEF CreateReservation
  <2>3. NewRow(x, row)
    BY <1>1 DEF CreateReservation, NewRow
  <2> QED
    BY <2>1, <2>2, <2>3 DEF RowWritten
<1>2. ASSUME NEW x \in Reservations, NEW room \in Rooms,
             NEW check_in \in Days, NEW check_out \in Days, NEW party \in Parties,
             UpdateReservation(x, room, check_in, check_out, party)
      PROVE  \E row \in ReservationRow : RowWritten(x, row)
  <2> DEFINE row == [reservations[x] EXCEPT !.room_id = room, !.check_in_date = check_in,
                                            !.check_out_date = check_out, !.party = party]
  <2>1. reservations[x] \in ReservationRow /\ reservations[x].status = "confirmed"
    BY <1>2, BookedRow DEF UpdateReservation, HasStatus
  <2>2. /\ row \in ReservationRow
        /\ row.status = "confirmed"
        /\ row.guest_id = reservations[x].guest_id
        /\ row.room_id = room
        /\ row.check_in_date = check_in
        /\ row.check_out_date = check_out
    BY <2>1 DEF ReservationRow
  <2>3. reservations' = [reservations EXCEPT ![x] = row] /\ guests' = guests
    BY <1>2 DEF UpdateReservation, DeskTypeOK
  <2> HIDE DEF row
  <2>4. PatchedRow(x, row)
    BY <1>2, <2>2 DEF UpdateReservation, PatchedRow
  <2> QED
    BY <2>2, <2>3, <2>4 DEF RowWritten
<1>3. ASSUME NEW x \in Reservations,
             CancelReservation(x) \/ MarkNoShow(x) \/ CheckIn(x) \/ CheckOut(x)
      PROVE  \E row \in ReservationRow : RowWritten(x, row)
  BY <1>3, LaterRowWritten
     DEF CancelReservation, MarkNoShow, CheckIn, CheckOut, ReservationStatus
<1>4. CASE ~ ReservationEndpoint
  BY <1>4 DEF HotelNext, hotelVars, deskVars, RoomEndpoint, GuestEndpoint, NextDay,
     UpdateRoomStatus, UpdateRoom, UpdateRoomType, DeleteGuest
<1> QED
  BY <1>1, <1>2, <1>3, <1>4 DEF ReservationEndpoint

\* The last part of the promises: a guest with a reservation is not deleted.
LEMMA GuestsKept ==
    ASSUME DeskTypeOK, ReservationsKeepTheirGuest, [HotelNext]_hotelVars
    PROVE  ReservationsKeepTheirGuest'
<1>1. CASE \E x \in Reservations : \E row \in ReservationRow : RowWritten(x, row)
  <2> PICK x \in Reservations, row \in ReservationRow : RowWritten(x, row)
    BY <1>1
  <2>1. row.guest_id \in guests
    <3>1. CASE LaterRow(x, row)
      <4>1. reservations[x] \in ReservationRow
        BY <3>1, BookedRow DEF LaterRow, HasStatus
      <4>2. row.guest_id = reservations[x].guest_id
        BY <3>1, <4>1 DEF LaterRow, ReservationRow
      <4> QED
        BY <3>1, <4>2 DEF LaterRow, HasStatus, ReservationsKeepTheirGuest
    <3> QED
      BY <3>1 DEF RowWritten, NewRow, PatchedRow, HasStatus, ReservationsKeepTheirGuest
  <2> QED
    BY <2>1 DEF RowWritten, ReservationsKeepTheirGuest, Booked, DeskTypeOK
<1>2. CASE UNCHANGED reservations
  <2>1. \/ guests' = guests
        \/ \E guest \in Guests : DeleteGuest(guest)
        \/ ReservationEndpoint
    BY DEF HotelNext, hotelVars, deskVars, RoomEndpoint, GuestEndpoint, NextDay,
       UpdateRoomStatus, UpdateRoom, UpdateRoomType
  <2>2. CASE guests' = guests \/ ReservationEndpoint
    <3>1. ASSUME NEW x \in Reservations, NEW guest, NEW room, NEW check_in, NEW check_out,
                 NEW party,
                 \/ CreateReservation(x, guest, room, check_in, check_out, party)
                 \/ UpdateReservation(x, room, check_in, check_out, party)
          PROVE  guests' = guests
      BY <3>1 DEF CreateReservation, UpdateReservation
    <3>2. ASSUME NEW x \in Reservations,
                 CancelReservation(x) \/ MarkNoShow(x) \/ CheckIn(x) \/ CheckOut(x)
          PROVE  guests' = guests
      BY <3>2 DEF CancelReservation, MarkNoShow, CheckIn, CheckOut
    <3>3. guests' = guests
      BY <2>2, <3>1, <3>2 DEF ReservationEndpoint
    <3> QED
      BY <1>2, <3>3 DEF ReservationsKeepTheirGuest, Booked
  <2>3. CASE \E guest \in Guests : DeleteGuest(guest)
    BY <1>2, <2>3 DEF DeleteGuest, ReservationsKeepTheirGuest, Booked
  <2> QED
    BY <2>1, <2>2, <2>3
<1> QED
  BY <1>1, <1>2, StepOfTheDesk

\* Two stays that were apart and are not any more: one of the two rows has been
\* written, and only one that keeps its room was not asked for its nights.
LEMMA StepDoublesByRedating ==
    ASSUME DeskTypeOK, DeskTypeOK', [HotelNext]_hotelVars,
           NEW x \in Reservations, NEW y \in Reservations,
           ~ DoubleBooked(x, y), DoubleBooked(x, y)'
    PROVE  \E z \in {x, y} :
              /\ HasStatus(z, "confirmed") /\ HasStatus(z, "confirmed")'
              /\ reservations'[z].room_id = reservations[z].room_id
              /\ ~ Nights(z)' \subseteq Nights(z)
<1>1. \A v \in Reservations : reservations'[v] = reservations[v] =>
          /\ Active(v)' <=> Active(v)
          /\ Nights(v)' = Nights(v)
  BY DEF Active, HasStatus, Booked, Nights
<1>2. ~ UNCHANGED reservations
  BY <1>1 DEF DoubleBooked
<1>3. PICK z \in Reservations, row \in ReservationRow : RowWritten(z, row)
  BY <1>2, StepOfTheDesk
<1>4. /\ reservations'[z] = row
      /\ \A v \in Reservations \ {z} : reservations'[v] = reservations[v]
  BY <1>3 DEF RowWritten, DeskTypeOK
<1>5. z \in {x, y}
  BY <1>1, <1>4 DEF DoubleBooked
<1>6. PICK other \in {x, y} : other # z
  BY <1>5 DEF DoubleBooked
<1>7. /\ other \in Reservations
      /\ Active(other) /\ Active(z)'
      /\ reservations[other].room_id = row.room_id
      /\ Nights(z)' \cap Nights(other) # {}
      /\ ~ (/\ Active(z)
           /\ reservations[other].room_id = reservations[z].room_id
           /\ Nights(z) \cap Nights(other) # {})
  BY <1>1, <1>4, <1>5, <1>6 DEF DoubleBooked
<1>8. row.room_id \notin AvailableRooms(row.check_in_date, row.check_out_date)
  <2>1. PICK d \in Days : d \in Nights(z)' /\ d \in Nights(other)
    BY <1>7 DEF Nights
  <2>2. /\ row.check_in_date <= d /\ d < row.check_out_date
        /\ reservations[other].check_in_date <= d /\ d < reservations[other].check_out_date
    BY <1>4, <2>1 DEF Nights
  <2>3. /\ row.check_in_date \in Int /\ row.check_out_date \in Int /\ d \in Int
        /\ reservations[other].check_in_date \in Int
        /\ reservations[other].check_out_date \in Int
    BY <1>7, BookedRow DEF Active, HasStatus, ReservationRow, Days
  <2>4. Overlapping(other, row.check_in_date, row.check_out_date)
    BY <2>2, <2>3 DEF Overlapping
  <2> QED
    BY <1>7, <2>4 DEF AvailableRooms
<1>9. CASE LaterRow(z, row)
  <2>1. reservations[z] \in ReservationRow /\ Active(z)
    BY <1>9, BookedRow DEF LaterRow, Active, HasStatus
  <2>2. /\ row.room_id = reservations[z].room_id
        /\ row.check_in_date = reservations[z].check_in_date
        /\ row.check_out_date = reservations[z].check_out_date
    BY <1>9, <2>1 DEF LaterRow, ReservationRow
  <2>3. Nights(z)' = Nights(z)
    BY <1>4, <2>2 DEF Nights
  <2> QED
    BY <1>7, <2>1, <2>2, <2>3
<1>10. CASE PatchedRow(z, row)
  <2>1. HasStatus(z, "confirmed") /\ HasStatus(z, "confirmed")'
    BY <1>4, <1>7, <1>10 DEF PatchedRow, Active, HasStatus, Booked
  <2>2. row.room_id = reservations[z].room_id
    BY <1>8, <1>10 DEF PatchedRow
  <2>3. ~ Nights(z)' \subseteq Nights(z)
    BY <1>7, <2>1, <2>2 DEF Active
  <2> QED
    BY <1>4, <1>5, <2>1, <2>2, <2>3
<1> QED
  BY <1>3, <1>8, <1>9, <1>10 DEF RowWritten, NewRow

\* A reservation that is over is written by no step; its folio, once closed, by
\* none either: room charges, which do not ask, are those of a guest's arrival
\* and departure.
LEMMA StepLeavesEnded ==
    ASSUME HotelInv, [HotelNext]_hotelVars, NEW x \in Reservations, Over(x)
    PROVE  /\ reservations'[x] = reservations[x]
           /\ folio[x].status = "closed" =>
                /\ folio'[x] = folio[x]
                /\ lineItems'[x] = lineItems[x]
                /\ payments'[x] = payments[x]
<1> DEFINE Left == /\ folio'[x] = folio[x]
                   /\ lineItems'[x] = lineItems[x]
                   /\ payments'[x] = payments[x]
<1>1. /\ DeskTypeOK /\ BillingTypeOK
      /\ ~ HasStatus(x, "confirmed") /\ ~ HasStatus(x, "checked_in") /\ Booked(x)
  BY InvParts DEF BillingInv, Over, HasStatus
<1>2. reservations'[x] = reservations[x]
  BY <1>1, StepOfTheDesk
     DEF RowWritten, NewRow, PatchedRow, LaterRow, DeskTypeOK
<1>3. ASSUME NEW y \in Reservations \ {x}, NEW type, NEW void, NEW ticks,
             PostLine(y, type, void, ticks)
      PROVE  Left
  BY <1>1, <1>3 DEF PostLine, BillingTypeOK, Reservations
<1>4. ASSUME NEW y \in Reservations,
             \/ \E guest \in Guests, room \in Rooms, check_in, check_out \in Days,
                   party \in Parties : CreateReservation(y, guest, room, check_in, check_out, party)
             \/ CheckIn(y) \/ CheckOut(y)
      PROVE  Left
  <2>1. y # x
    BY <1>1, <1>4 DEF CreateReservation, CheckIn, CheckOut
  <2>2. \/ CreateFolio(y) \/ UNCHANGED billingVars
        \/ \E ticks : PostLine(y, "room_charge", FALSE, ticks)
    BY <1>4 DEF CreateReservation, CheckIn, CheckOut, ApplyRoomCharges
  <2> QED
    BY <1>1, <1>3, <2>1, <2>2 DEF CreateFolio, billingVars, BillingTypeOK, Reservations
<1>5. ASSUME NEW f \in Folios, f # x,
             \/ \E type \in LineItemType, ticks \in LineAmounts : AddLineItem(f, type, ticks)
             \/ \E i \in 1..MaxEntries : VoidLineItem(f, i)
             \/ \E ticks \in PaymentAmounts : PostPayment(f, ticks)
             \/ CloseFolio(f)
      PROVE  Left
  <2>1. CASE \E type \in LineItemType, ticks \in LineAmounts : AddLineItem(f, type, ticks)
    BY <1>3, <1>5, <2>1 DEF AddLineItem, Reservations
  <2>2. CASE \E i \in 1..MaxEntries : VoidLineItem(f, i)
    BY <1>3, <1>5, <2>2 DEF VoidLineItem, Reservations
  <2>3. CASE \E ticks \in PaymentAmounts : PostPayment(f, ticks)
    BY <1>1, <1>5, <2>3 DEF PostPayment, BillingTypeOK
  <2>4. CASE CloseFolio(f)
    BY <1>1, <1>5, <2>4 DEF CloseFolio, BillingTypeOK
  <2> HIDE DEF Left
  <2> QED
    BY <1>5, <2>1, <2>2, <2>3, <2>4
<1>6. UNCHANGED billingVars => Left
  BY DEF billingVars
<1> HIDE DEF Left
<1>7. BillingEndpoint /\ folio[x].status = "closed" => Left
  BY <1>5 DEF BillingEndpoint, AddLineItem, VoidLineItem, PostPayment, CloseFolio
<1>8. CASE ReservationEndpoint
  <2>1. ASSUME NEW y \in Reservations,
               \/ \E room \in Rooms, check_in, check_out \in Days, party \in Parties :
                     UpdateReservation(y, room, check_in, check_out, party)
               \/ CancelReservation(y) \/ MarkNoShow(y)
        PROVE  UNCHANGED billingVars
    BY <2>1 DEF UpdateReservation, CancelReservation, MarkNoShow
  <2>2. Left
    BY <1>4, <1>6, <1>8, <2>1 DEF ReservationEndpoint
  <2> QED
    BY <1>2, <2>2 DEF Left
<1>9. CASE RoomEndpoint \/ GuestEndpoint \/ NextDay \/ UNCHANGED hotelVars
  <2>1. UNCHANGED billingVars
    BY <1>9 DEF RoomEndpoint, UpdateRoomStatus, UpdateRoom, UpdateRoomType, GuestEndpoint,
       DeleteGuest, NextDay, hotelVars
  <2> QED
    BY <1>2, <1>6, <2>1 DEF Left
<1>10. CASE BillingEndpoint
  BY <1>2, <1>7, <1>10 DEF Left
<1> QED
  BY <1>8, <1>9, <1>10 DEF HotelNext

-----------------------------------------------------------------------------
(* The room charges of a stay *)

\* What each line of x counts for: a void counts for nothing.
Charge(x) == [i \in DOMAIN lineItems[x] |->
                IF lineItems[x][i].void THEN 0 ELSE lineItems[x][i].total]

Charges(x) == SumFunction(Charge(x))

\* The nights that a reservation in this state has been charged.
Due(row, n) ==
    \/ row.status \in {"confirmed", "cancelled", "no_show"} /\ n = 0
    \/ row.status = "checked_in" /\ n = 1
    \/ /\ row.status = "checked_out"
       /\ n \in 1..1 + NightCount(row.check_in_date, row.check_out_date)

\* RoomChargesOfStay for one reservation, with what it needs of a reservation
\* not made yet: nothing is on its folio.
ChargedByStay(x) ==
    /\ ~ Booked(x) => lineItems[x] = <<>>
    /\ Booked(x) => \E n \in Nat : /\ Due(reservations[x], n)
                                   /\ Charges(x) = reservations[x].rate_per_night * n

StayInv == LineAmounts = {} => \A x \in Reservations : ChargedByStay(x)

\* A line posted on f adds its cents to the charges of f, unless it is a void.
LEMMA PostLineCharges ==
    ASSUME BillingTypeOK, NEW f \in Folios, NEW type \in LineItemType, NEW void \in BOOLEAN,
           NEW ticks \in Int, PostLine(f, type, void, ticks)
    PROVE  /\ Charges(f) \in Int
           /\ Charges(f)' = Charges(f) + (IF void THEN 0 ELSE RoundCents(ticks))
           /\ \A g \in Folios \ {f} : lineItems'[g] = lineItems[g]
<1> DEFINE item == [item_type |-> type, void |-> void, total |-> RoundCents(ticks)]
           n == Len(lineItems[f])
           old == Charge(f)
           new == Charge(f)'
           amount == IF void THEN 0 ELSE RoundCents(ticks)
<1>1. /\ lineItems' = [lineItems EXCEPT ![f] = Append(lineItems[f], item)]
      /\ RoundCents(ticks) \in Int
  BY RoundCentsNearest DEF PostLine
<1>2. /\ lineItems \in [Folios -> Seq(LineRow)] /\ lineItems[f] \in Seq(LineRow)
      /\ n \in Nat /\ DOMAIN lineItems[f] = 1..n
  BY DEF BillingTypeOK
<1>3. /\ DOMAIN lineItems'[f] = 1..(n + 1)
      /\ \A i \in 1..n : lineItems'[f][i] = lineItems[f][i]
      /\ lineItems'[f][n + 1] = item
  BY <1>1, <1>2
<1>4. \A i \in 1..n : old[i] \in Int
  <2>1. \A i \in 1..n : lineItems[f][i] \in LineRow
    BY <1>2
  <2>2. \A row \in LineRow : row.total \in Int
    BY DEF LineRow, Cents
  <2>3. \A i \in 1..n : old[i] = IF lineItems[f][i].void THEN 0 ELSE lineItems[f][i].total
    BY <1>2 DEF Charge
  <2> HIDE DEF old
  <2> QED
    BY <2>1, <2>2, <2>3
<1>5. DOMAIN old = 1..n /\ DOMAIN new = 1..(n + 1)
  BY <1>2, <1>3 DEF Charge
<1>6. \A i \in 1..n : new[i] = old[i]
  BY <1>2, <1>3 DEF Charge
<1>7. new[n + 1] = amount
  BY <1>2, <1>3 DEF Charge
<1>8. \A g \in Folios \ {f} : lineItems'[g] = lineItems[g]
  BY <1>1, <1>2
<1>9. amount \in Int
  BY <1>1
<1> HIDE DEF item, n, old, new, amount
<1>10. \A i \in 1..(n + 1) : new[i] \in Int
  BY <1>2, <1>4, <1>6, <1>7, <1>9
<1>11. SumFunction(new) = SumFunction(old) + amount /\ SumFunction(old) \in Int
  BY <1>2, <1>5, <1>6, <1>7, <1>10, SumAppend
<1> QED
  BY <1>8, <1>11 DEF Charges, old, new, amount

\* Nothing was posted yet.
LEMMA NoCharges ==
    ASSUME NEW x \in Reservations, lineItems[x] = <<>>
    PROVE  Charges(x) = 0
<1>1. DOMAIN Charge(x) = {}
  BY DEF Charge
<1> QED
  BY <1>1, SumByFirst, FS_EmptySet DEF Charges, SumFunction

\* A stay whose reservation, charges and emptiness a step leaves alone.
LEMMA SameStay ==
    ASSUME NEW x \in Reservations, ChargedByStay(x), reservations'[x] = reservations[x],
           lineItems'[x] = lineItems[x] \/ (Booked(x) /\ Charges(x)' = Charges(x))
    PROVE  ChargedByStay(x)'
<1>1. Booked(x)' <=> Booked(x)
  BY DEF Booked
<1>2. lineItems'[x] = lineItems[x] => Charges(x)' = Charges(x)
  BY DEF Charges, Charge
<1> QED
  BY <1>1, <1>2 DEF ChargedByStay

\* A stay whose row is written, and the nights that it is charged on top.
LEMMA NextStay ==
    ASSUME DeskTypeOK, NEW x \in Reservations, NEW row \in ReservationRow,
           reservations' = [reservations EXCEPT ![x] = row],
           NEW n \in Nat, Due(row, n), Charges(x)' = row.rate_per_night * n,
           \A y \in Reservations \ {x} : lineItems'[y] = lineItems[y],
           \A y \in Reservations : ChargedByStay(y)
    PROVE  \A y \in Reservations : ChargedByStay(y)'
<1>1. /\ reservations'[x] = row
      /\ \A y \in Reservations \ {x} : reservations'[y] = reservations[y]
  BY DEF DeskTypeOK
<1>2. row # NoReservation
  BY HotelAssumption
<1>3. ChargedByStay(x)'
  BY <1>1, <1>2 DEF ChargedByStay, Booked
<1> QED
  BY <1>1, <1>3, SameStay

\* The charge of a guest's arrival or departure.
LEMMA StayPays ==
    ASSUME BillingInv, NEW x \in Folios, NEW rate \in Int, NEW nights \in Int,
           ApplyRoomCharges(x, rate, nights)
    PROVE  /\ Charges(x) \in Int
           /\ Charges(x)' = Charges(x) + rate * nights
           /\ \A y \in Folios \ {x} : lineItems'[y] = lineItems[y]
<1>1. rate * nights \in Int
  OBVIOUS
<1>2. Ticks(rate * nights) \in Int /\ RoundCents(Ticks(rate * nights)) = rate * nights
  BY <1>1, RoundCentsExact DEF Ticks, TicksPerCent
<1>3. PostLine(x, "room_charge", FALSE, Ticks(rate * nights))
  BY DEF ApplyRoomCharges
<1>4. BillingTypeOK /\ "room_charge" \in LineItemType /\ FALSE \in BOOLEAN
  BY DEF BillingInv, LineItemType
<1> DEFINE ticks == Ticks(rate * nights)
<1> HIDE DEF ticks
<1>5. /\ Charges(x) \in Int
      /\ Charges(x)' = Charges(x) + (IF FALSE THEN 0 ELSE RoundCents(ticks))
      /\ \A y \in Folios \ {x} : lineItems'[y] = lineItems[y]
  BY <1>2, <1>3, <1>4, PostLineCharges DEF ticks
<1> QED
  BY <1>2, <1>5 DEF ticks

\* What the endpoints of billing do to a stay when staff post no lines.
LEMMA BillingKeepsStays ==
    ASSUME HotelInv, BillingEndpoint, UNCHANGED deskVars, LineAmounts = {},
           \A x \in Reservations : ChargedByStay(x)
    PROVE  \A x \in Reservations : ChargedByStay(x)'
<1>1. BillingTypeOK /\ FolioPerReservation /\ UNCHANGED reservations
  BY DEF HotelInv, HotelTypeOK, deskVars
<1>2. ASSUME NEW f \in Folios, NEW i \in 1..MaxEntries, VoidLineItem(f, i)
      PROVE  \A x \in Reservations : ChargedByStay(x)'
  <2> DEFINE item == lineItems[f][i]
  <2>1. item \in LineRow /\ Booked(f)
    BY <1>1, <1>2 DEF VoidLineItem, BillingTypeOK, FolioPerReservation, Reservations
  <2>2. item.item_type \in LineItemType /\ -Ticks(item.total) \in Int /\ TRUE \in BOOLEAN
    BY <2>1 DEF LineRow, Cents, Ticks, TicksPerCent
  <2>3. PostLine(f, item.item_type, TRUE, -Ticks(item.total))
    BY <1>2 DEF VoidLineItem
  <2> HIDE DEF item
  <2> DEFINE type == item.item_type
             ticks == -Ticks(item.total)
  <2> HIDE DEF type, ticks
  <2>4. /\ Charges(f) \in Int
        /\ Charges(f)' = Charges(f) + (IF TRUE THEN 0 ELSE RoundCents(ticks))
        /\ \A g \in Folios \ {f} : lineItems'[g] = lineItems[g]
    BY <1>1, <2>2, <2>3, PostLineCharges DEF type, ticks
  <2>5. Charges(f)' = Charges(f)
    BY <2>4
  <2> QED
    BY <1>1, <2>1, <2>4, <2>5, SameStay DEF Reservations
<1>3. ASSUME UNCHANGED lineItems
      PROVE  \A x \in Reservations : ChargedByStay(x)'
  BY <1>1, <1>3, SameStay
<1> QED
  BY <1>2, <1>3 DEF BillingEndpoint, PostPayment, CloseFolio

LEMMA CheckInPays ==
    ASSUME HotelInv, NEW x \in Reservations, CheckIn(x),
           \A y \in Reservations : ChargedByStay(y)
    PROVE  \A y \in Reservations : ChargedByStay(y)'
<1> DEFINE row == [reservations[x] EXCEPT !.status = "checked_in"]
           rate == reservations[x].rate_per_night
<1>1. DeskTypeOK /\ BillingInv
  BY InvParts
<1>2. /\ Booked(x) /\ reservations[x].status = "confirmed"
      /\ reservations' = [reservations EXCEPT ![x] = row]
      /\ ApplyRoomCharges(x, rate, 1)
  BY DEF CheckIn, HasStatus, SetReservationStatus
<1>3. reservations[x] \in ReservationRow
  BY <1>1, <1>2, BookedRow
<1>4. /\ row \in ReservationRow /\ row.status = "checked_in"
      /\ row.rate_per_night = rate /\ rate \in Int
  BY <1>3, MoneyAssumption DEF ReservationRow, ReservationStatus
<1>5. Charges(x) = rate * 0
  BY <1>2 DEF ChargedByStay, Due
<1> HIDE DEF row, rate
<1>6. /\ Charges(x)' = Charges(x) + rate * 1
      /\ \A y \in Reservations \ {x} : lineItems'[y] = lineItems[y]
  BY <1>1, <1>2, <1>4, StayPays DEF Reservations
<1>7. Charges(x)' = row.rate_per_night * 1
  BY <1>4, <1>5, <1>6
<1>8. Due(row, 1) /\ 1 \in Nat
  BY <1>4 DEF Due
<1> QED
  BY <1>1, <1>2, <1>4, <1>6, <1>7, <1>8, NextStay

LEMMA CheckOutPays ==
    ASSUME HotelInv, NEW x \in Reservations, CheckOut(x),
           \A y \in Reservations : ChargedByStay(y)
    PROVE  \A y \in Reservations : ChargedByStay(y)'
<1> DEFINE row == [reservations[x] EXCEPT !.status = "checked_out"]
           rate == reservations[x].rate_per_night
           left == RemainingNights(x)
           booked == NightCount(row.check_in_date, row.check_out_date)
<1>1. DeskTypeOK /\ BillingInv
  BY InvParts
<1>2. /\ Booked(x) /\ reservations[x].status = "checked_in"
      /\ reservations' = [reservations EXCEPT ![x] = row]
      /\ \/ ApplyRoomCharges(x, rate, left)
         \/ left = 0 /\ UNCHANGED billingVars
  BY DEF CheckOut, HasStatus, SetReservationStatus
<1>3. reservations[x] \in ReservationRow
  BY <1>1, <1>2, BookedRow
<1>4. /\ row \in ReservationRow /\ row.status = "checked_out"
      /\ row.rate_per_night = rate /\ rate \in Int
  BY <1>3, MoneyAssumption DEF ReservationRow, ReservationStatus
<1>5. left \in Nat /\ booked \in Nat /\ left <= booked
  BY <1>1, <1>3, HotelAssumption
     DEF RemainingNights, NightsLeft, NightCount, ReservationRow, Days, DeskTypeOK
<1>6. Charges(x) = rate * 1
  BY <1>2 DEF ChargedByStay, Due
<1>7. Due(row, 1 + left) /\ 1 + left \in Nat
  <2>1. 1 + left \in 1..1 + booked
    BY <1>5
  <2> HIDE DEF row, left
  <2> QED
    BY <1>4, <1>5, <2>1 DEF Due
<1> HIDE DEF row, rate, left, booked
<1>8. rate * (1 + left) = rate * 1 + rate * left /\ rate * 0 = 0
  BY <1>4, <1>5
<1>9. /\ Charges(x)' = row.rate_per_night * (1 + left)
      /\ \A y \in Reservations \ {x} : lineItems'[y] = lineItems[y]
  <2>1. CASE ApplyRoomCharges(x, rate, left)
    <3>1. left \in Int
      BY <1>5
    <3>2. /\ Charges(x)' = Charges(x) + rate * left
          /\ \A y \in Reservations \ {x} : lineItems'[y] = lineItems[y]
      BY <1>1, <1>4, <2>1, <3>1, StayPays DEF Reservations
    <3> QED
      BY <1>4, <1>6, <1>8, <3>2
  <2>2. CASE left = 0 /\ UNCHANGED billingVars
    <3>1. UNCHANGED lineItems
      BY <2>2 DEF billingVars
    <3>2. Charges(x)' = Charges(x)
      BY <3>1 DEF Charges, Charge
    <3> QED
      BY <1>4, <1>6, <2>2, <3>1, <3>2
  <2> QED
    BY <1>2, <2>1, <2>2
<1> QED
  BY <1>1, <1>2, <1>4, <1>7, <1>9, NextStay

\* A step that writes a reservation and no line.
LEMMA WritingPays ==
    ASSUME DeskTypeOK, NEW x \in Reservations, NEW row \in ReservationRow,
           reservations' = [reservations EXCEPT ![x] = row],
           row.status \in {"confirmed", "cancelled", "no_show"},
           \/ ~ Booked(x)
           \/ HasStatus(x, "confirmed") /\ row.rate_per_night = reservations[x].rate_per_night,
           UNCHANGED lineItems,
           \A y \in Reservations : ChargedByStay(y)
    PROVE  \A y \in Reservations : ChargedByStay(y)'
<1>1. row.rate_per_night \in Int
  BY MoneyAssumption DEF ReservationRow
<1>2. Charges(x) = row.rate_per_night * 0
  <2>1. CASE ~ Booked(x)
    BY <1>1, <2>1, NoCharges DEF ChargedByStay
  <2>2. CASE /\ HasStatus(x, "confirmed")
             /\ row.rate_per_night = reservations[x].rate_per_night
    BY <2>2 DEF ChargedByStay, Due, HasStatus
  <2> QED
    BY <2>1, <2>2
<1>3. Charges(x)' = Charges(x)
  BY DEF Charges, Charge
<1>4. Due(row, 0) /\ 0 \in Nat
  BY DEF Due
<1> QED
  BY <1>2, <1>3, <1>4, NextStay

LEMMA StepPays ==
    ASSUME HotelInv, [HotelNext]_hotelVars, LineAmounts = {},
           \A x \in Reservations : ChargedByStay(x)
    PROVE  \A x \in Reservations : ChargedByStay(x)'
<1> DEFINE Goal == \A x \in Reservations : ChargedByStay(x)'
<1>1. DeskTypeOK
  BY InvParts
<1>2. ASSUME NEW x \in Reservations, NEW guest \in Guests, NEW room \in Rooms,
             NEW check_in \in Days, NEW check_out \in Days, NEW party \in Parties,
             CreateReservation(x, guest, room, check_in, check_out, party)
      PROVE  Goal
  <2> DEFINE row == [status |-> "confirmed", guest_id |-> guest, room_id |-> room,
                     check_in_date |-> check_in, check_out_date |-> check_out,
                     party |-> party,
                     rate_per_night |-> roomTypes[rooms[room].room_type].base_rate]
  <2>1. row \in ReservationRow /\ row.status = "confirmed"
    BY <1>1 DEF DeskTypeOK, RoomRow, RoomTypeRow, ReservationRow, ReservationStatus
  <2>2. reservations' = [reservations EXCEPT ![x] = row] /\ UNCHANGED lineItems /\ ~ Booked(x)
    BY <1>2 DEF CreateReservation, CreateFolio
  <2> HIDE DEF row
  <2> QED
    BY <1>1, <2>1, <2>2, WritingPays
<1>3. ASSUME NEW x \in Reservations, NEW room \in Rooms,
             NEW check_in \in Days, NEW check_out \in Days, NEW party \in Parties,
             UpdateReservation(x, room, check_in, check_out, party)
      PROVE  Goal
  <2> DEFINE row == [reservations[x] EXCEPT !.room_id = room, !.check_in_date = check_in,
                                            !.check_out_date = check_out, !.party = party]
  <2>1. HasStatus(x, "confirmed") /\ reservations[x] \in ReservationRow
    BY <1>1, <1>3, BookedRow DEF UpdateReservation, HasStatus
  <2>2. /\ row \in ReservationRow /\ row.status = "confirmed"
        /\ row.rate_per_night = reservations[x].rate_per_night
    BY <2>1 DEF ReservationRow, HasStatus
  <2>3. reservations' = [reservations EXCEPT ![x] = row] /\ UNCHANGED lineItems
    BY <1>1, <1>3 DEF UpdateReservation, DeskTypeOK, billingVars
  <2> HIDE DEF row
  <2> QED
    BY <1>1, <2>1, <2>2, <2>3, WritingPays
<1>4. ASSUME NEW x \in Reservations, NEW end \in {"cancelled", "no_show"},
             HasStatus(x, "confirmed"), SetReservationStatus(x, end), UNCHANGED billingVars
      PROVE  Goal
  <2> DEFINE row == [reservations[x] EXCEPT !.status = end]
  <2>1. reservations[x] \in ReservationRow
    BY <1>1, <1>4, BookedRow DEF HasStatus
  <2>2. /\ row \in ReservationRow /\ row.status = end
        /\ row.rate_per_night = reservations[x].rate_per_night
    BY <2>1 DEF ReservationRow, ReservationStatus
  <2>3. reservations' = [reservations EXCEPT ![x] = row] /\ UNCHANGED lineItems
    BY <1>4 DEF SetReservationStatus, billingVars
  <2> HIDE DEF row
  <2> QED
    BY <1>1, <1>4, <2>2, <2>3, WritingPays
<1>5. CASE ReservationEndpoint
  <2>1. ASSUME NEW x \in Reservations, CancelReservation(x) \/ MarkNoShow(x)
        PROVE  Goal
    BY <1>4, <2>1 DEF CancelReservation, MarkNoShow
  <2> HIDE DEF Goal
  <2>2. ASSUME NEW x \in Reservations, CheckIn(x) \/ CheckOut(x)
        PROVE  Goal
    BY <2>2, CheckInPays, CheckOutPays DEF Goal
  <2>3. Goal
    BY <1>2, <1>3, <1>5, <2>1, <2>2 DEF ReservationEndpoint
  <2> QED
    BY <2>3 DEF Goal
<1>6. CASE RoomEndpoint \/ GuestEndpoint \/ NextDay \/ UNCHANGED hotelVars
  <2>1. UNCHANGED reservations /\ UNCHANGED lineItems
    BY <1>6 DEF RoomEndpoint, UpdateRoomStatus, UpdateRoom, UpdateRoomType, GuestEndpoint,
       DeleteGuest, NextDay, hotelVars, billingVars
  <2> QED
    BY <2>1, SameStay
<1>7. CASE BillingEndpoint /\ UNCHANGED deskVars
  BY <1>7, BillingKeepsStays
<1> QED
  BY <1>5, <1>6, <1>7 DEF HotelNext

-----------------------------------------------------------------------------
(* Theorems *)

\* Every row of every table is well formed, whatever the requests and their
\* order, and the folios are exactly those of the reservations.
THEOREM HotelTypes == HotelSpec => []HotelTypeOK
<1>1. HotelInv /\ [HotelNext]_hotelVars => HotelInv'
  BY EveryStepIsGood DEF Good
<1>2. HotelInv => HotelTypeOK
  BY DEF HotelInv
<1> QED
  BY HotelInitInvariant, <1>1, <1>2, PTL DEF HotelSpec

\* The hotel keeps the promise of Stays.tla: a step of the hotel is a booking,
\* a move, a call-off, an arrival or a departure, or changes nothing of it.
THEOREM HotelKeepsPromise == HotelSpec => KeepsPromise
<1>1. HotelInv /\ [HotelNext]_hotelVars => HotelInv'
  BY EveryStepIsGood DEF Good
<1>2. HotelInv /\ [HotelNext]_hotelVars => [Promise!Next]_(Promise!stayVars)
  BY EveryStepIsGood DEF Good
<1> QED
  BY HotelInitInvariant, <1>1, <1>2, PTL DEF HotelSpec, KeepsPromise, Promise!Spec

PromiseFacts == INSTANCE StaysProofs WITH
    Stays <- Reservations, Places <- Rooms, NoPlace <- NoReservation,
    stage <- Stage, place <- Place, occupied <- Occupied

\* What follows from the promise is proved of Stays.tla once.
LEMMA HotelKeepsPromiseFacts == HotelSpec => PromiseFacts!Spec
  BY HotelKeepsPromise
     DEF KeepsPromise, Promise!Spec, Promise!Init, Promise!Next, Promise!stayVars,
         Promise!Book, Promise!Move, Promise!CallOff, Promise!Arrive, Promise!Leave,
         PromiseFacts!Spec, PromiseFacts!Init, PromiseFacts!Next, PromiseFacts!stayVars,
         PromiseFacts!Book, PromiseFacts!Move, PromiseFacts!CallOff, PromiseFacts!Arrive,
         PromiseFacts!Leave

\* An occupied room has a guest who checked into it and has not checked out.
THEOREM OccupiedRoomsHaveGuests == HotelSpec => []OccupiedHasGuest
<1>1. PromiseFacts!OccupiedIsStayedIn => OccupiedHasGuest
  BY DEF PromiseFacts!OccupiedIsStayedIn, OccupiedHasGuest, Occupied, Stage, Place, HasStatus
<1> QED
  BY HotelKeepsPromiseFacts, <1>1, PromiseFacts!PromiseOccupied, PTL

\* A guest's room is occupied, unless another guest has checked out of it.
THEOREM GuestsHaveRooms == HotelSpec => []GuestHasRoomUnlessShared
<1>1. HotelInv /\ PromiseFacts!StayedInIsOccupiedUnlessShared => GuestHasRoomUnlessShared
  <2> SUFFICES ASSUME HotelInv, PromiseFacts!StayedInIsOccupiedUnlessShared,
                      NEW x \in Reservations, HasStatus(x, "checked_in")
               PROVE  \/ rooms[reservations[x].room_id].status = "occupied"
                      \/ \E y \in Reservations :
                            /\ HasStatus(y, "checked_out")
                            /\ reservations[y].room_id = reservations[x].room_id
    BY DEF GuestHasRoomUnlessShared
  <2>1. Stage[x] = "checked_in" /\ Place[x] = reservations[x].room_id
    BY DEF Stage, Place, HasStatus
  <2> QED
    BY <2>1 DEF PromiseFacts!StayedInIsOccupiedUnlessShared, Occupied, Stage, Place, HasStatus
<1>2. HotelInv /\ [HotelNext]_hotelVars => HotelInv'
  BY EveryStepIsGood DEF Good
<1> QED
  BY HotelKeepsPromiseFacts, HotelInitInvariant, <1>1, <1>2, PromiseFacts!PromiseShared, PTL
     DEF HotelSpec

\* The desk's invariant holds throughout.
LEMMA HotelInvariant == HotelSpec => []HotelInv
<1>1. HotelInv /\ [HotelNext]_hotelVars => HotelInv'
  BY EveryStepIsGood DEF Good
<1> QED
  BY HotelInitInvariant, <1>1, PTL DEF HotelSpec

\* delete_guest: no reservation, past or to come, loses its guest.
THEOREM GuestsStay == HotelSpec => []ReservationsKeepTheirGuest
<1>1. HotelInit => ReservationsKeepTheirGuest
  BY DEF HotelInit, ReservationsKeepTheirGuest, Booked
<1>2. HotelInv /\ ReservationsKeepTheirGuest /\ [HotelNext]_hotelVars
        => ReservationsKeepTheirGuest'
  BY GuestsKept, InvParts
<1> QED
  BY HotelInvariant, <1>1, <1>2, PTL DEF HotelSpec

\* create_reservation and update_reservation book no room twice, but for an
\* update of the dates that keeps the room, whose nights nobody looks at
\* (reservation_controller.py:133).
THEOREM OnlyRedatingDoubleBooks == HotelSpec => DoubleBookedByRedating
<1>1. HotelInv /\ HotelInv' /\ [HotelNext]_hotelVars =>
        \A x, y \in Reservations :
          (~ DoubleBooked(x, y) /\ DoubleBooked(x, y)') =>
            \E z \in {x, y} :
               /\ HasStatus(z, "confirmed") /\ HasStatus(z, "confirmed")'
               /\ reservations'[z].room_id = reservations[z].room_id
               /\ ~ Nights(z)' \subseteq Nights(z)
  BY StepDoublesByRedating DEF HotelInv, HotelTypeOK
<1> QED
  BY HotelInvariant, <1>1, PTL DEF HotelSpec, DoubleBookedByRedating

\* cancel_reservation, mark_no_show and check_out end a stay for good: its row,
\* and its folio from the time it is closed, are written by no request again.
THEOREM EndedStaysAreFinal == HotelSpec => EndedStayIsFinal
<1>1. HotelInv /\ [HotelNext]_hotelVars =>
        \A x \in Reservations : Over(x) =>
          /\ reservations'[x] = reservations[x]
          /\ folio[x].status = "closed" =>
               /\ folio'[x] = folio[x]
               /\ lineItems'[x] = lineItems[x]
               /\ payments'[x] = payments[x]
  BY StepLeavesEnded
<1> QED
  BY HotelInvariant, <1>1, PTL DEF HotelSpec, EndedStayIsFinal

\* check_in and check_out charge the guests who come, at the rate of the day of
\* booking and at most one night more than booked; nobody else is charged.
THEOREM StaysAreCharged == HotelSpec => []RoomChargesOfStay
<1>1. HotelInit => StayInv
  BY DEF HotelInit, BillingInit, StayInv, ChargedByStay, Booked, Reservations
<1>2. HotelInv /\ StayInv /\ [HotelNext]_hotelVars => StayInv'
  BY StepPays DEF StayInv
<1>3. StayInv => RoomChargesOfStay
  <2> SUFFICES ASSUME StayInv, LineAmounts = {}, NEW x \in Reservations, Booked(x)
               PROVE  CASE HasStatus(x, "checked_in") -> ChargedNights(x, 1)
                        [] HasStatus(x, "checked_out") ->
                             \E n \in 1..1 + BookedNights(x) : ChargedNights(x, n)
                        [] OTHER -> ChargedNights(x, 0)
    BY DEF RoomChargesOfStay
  <2>1. PICK n \in Nat : /\ Due(reservations[x], n)
                         /\ Charges(x) = reservations[x].rate_per_night * n
    BY DEF StayInv, ChargedByStay
  <2>2. \A m : ChargedNights(x, m) <=> Charges(x) = reservations[x].rate_per_night * m
    BY DEF ChargedNights, Charges, Charge
  <2>3. ChargedNights(x, n)
    BY <2>1, <2>2
  <2>4. CASE HasStatus(x, "checked_in")
    BY <2>1, <2>3, <2>4 DEF Due, HasStatus
  <2>5. CASE HasStatus(x, "checked_out")
    BY <2>1, <2>3, <2>5 DEF Due, HasStatus, BookedNights
  <2>6. CASE ~ HasStatus(x, "checked_in") /\ ~ HasStatus(x, "checked_out")
    BY <2>1, <2>3, <2>6 DEF Due, HasStatus
  <2> QED
    BY <2>4, <2>5, <2>6
<1> QED
  BY HotelInvariant, <1>1, <1>2, <1>3, PTL DEF HotelSpec
=============================================================================
