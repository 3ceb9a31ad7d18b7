--------------------------- MODULE BookingTxnProofs ---------------------------
(***************************************************************************)
(* Proofs about BookingTxn.tla, for any number of requests in any          *)
(* interleaving, with failures anywhere: its types and its locks, that a   *)
(* commit of a request whose readings still hold is the operation of       *)
(* Hotel.tla and a run of such commits a run of it, that confirmation      *)
(* numbers stay unique, that arrivals are charged, and which overlaps      *)
(* alone strand a room, take it from its guest or book it twice.           *)
(***************************************************************************)
EXTENDS BookingTxn, BillingProofs

-----------------------------------------------------------------------------
(* The invariant *)

SessionRow ==
    [stay : ReservationRow \cup {NoReservation}, room : RoomRow \cup {NoReservation},
     type : RoomTypeRow \cup {NoReservation}, number : [day : Days, seq : Nat],
     folio : FolioRow, nights : Nat]

\* The statements of each operation.
StatementsOf(op) ==
    CASE op = "create_reservation"           -> {"search", "count", "flush"}
      [] op = "update_reservation"           -> {"stay", "search", "flush"}
      [] op \in {"check_in", "check_out"}    -> {"stay", "room", "folio", "flush"}
      [] op = "update_room_status"           -> {"room", "flush"}
      [] OTHER                               -> {"stay", "flush"}

\* A request in progress asks for something and is at one of its statements;
\* the reservation it changes is there, the one it makes is not
Asks(r) ==
    /\ job[r] \in BookingJobs
    /\ phase[r] \in StatementsOf(job[r].op)
    /\ job[r].op \in ChangesStay => Booked(job[r].stay)
    /\ job[r].op = "create_reservation" => ~ Booked(job[r].stay)

JobsKnown == \A r \in Requests : InProgress(r) => Asks(r)

Makes(r) == InProgress(r) /\ job[r].op = "create_reservation"

\* and nobody else makes it.
NewStaysApart ==
    \A r, q \in Requests : r # q /\ Makes(r) /\ Makes(q) => job[r].stay # job[q].stay

\* What a request has read at each of its statements, and the checks that it
\* has passed: on the reservation,
StayRead(r) ==
    job[r].op \in ChangesStay /\ phase[r] # "stay" =>
        /\ session[r].stay \in ReservationRow
        /\ session[r].stay.status = IF job[r].op = "check_out" THEN "checked_in" ELSE "confirmed"

\* the room,
RoomRead(r) ==
    WritesRoom(r) /\ phase[r] \in {"folio", "flush"} =>
        /\ session[r].room \in RoomRow
        /\ job[r].op = "update_room_status" =>
             job[r].status \in AllowedManually[session[r].room.status]

\* the room's type,
TypeRead(r) ==
    job[r].op = "create_reservation" /\ phase[r] # "search" =>
        /\ session[r].type \in RoomTypeRow
        /\ job[r].party <= session[r].type.max_occupancy

\* the nights to charge,
NightsRead(r) ==
    phase[r] = "flush" /\ job[r].op = "check_in" => session[r].nights = 1

HasRead(r) == StayRead(r) /\ RoomRead(r) /\ TypeRead(r) /\ NightsRead(r)

Readings == \A r \in Requests : InProgress(r) => HasRead(r)

Finished == {r \in Requests : phase[r] = "committed"}

\* Nobody is deleted, and the lines of a folio are those of the seed script
\* and at most one of each request.
EntriesOfRequests ==
    /\ guests = Guests
    /\ \A x \in Reservations : Len(lineItems[x]) <= 2 + Cardinality(Finished)

DeskInv ==
    /\ BookingTypeOK
    /\ session \in [Requests -> SessionRow]
    /\ held = [r \in Requests |-> held[r]]
    /\ JobsKnown
    /\ NewStaysApart
    /\ Readings
    /\ EntriesOfRequests

Bookings == {x \in Reservations : Booked(x)}

\* No number is beyond the count of the bookings, which only grows, and none
\* that is about to be used is beyond the next.
NumbersInv ==
    /\ \A x \in Reservations : number[x].seq <= Cardinality(Bookings)
    /\ \A r \in Requests :
         Makes(r) /\ phase[r] = "flush" => session[r].number.seq <= Cardinality(Bookings) + 1
    /\ \A x, y \in Reservations : Booked(x) /\ Booked(y) /\ x # y => number[x] # number[y]

HasRoomCharge(x) == \E i \in DOMAIN lineItems[x] : lineItems[x][i].item_type = "room_charge"

Departs(r) == InProgress(r) /\ job[r].op = "check_out" /\ phase[r] # "stay"

\* The reservation that a departure has read was checked in.
ChargesInv ==
    /\ ArrivalsAreCharged
    /\ \A r \in Requests : Departs(r) => HasRoomCharge(job[r].stay)

-----------------------------------------------------------------------------
(* Rows and jobs *)

LEMMA ChangedColumns ==
    ASSUME NEW new, NEW loaded, NEW c \in DOMAIN loaded
    PROVE  c \in Changed(new, loaded) <=> new[c] # loaded[c]
  BY DEF Changed

\* What an UPDATE makes of a reservation,
LEMMA MergedStay ==
    ASSUME NEW row \in ReservationRow, NEW new \in ReservationRow, NEW loaded \in ReservationRow
    PROVE  /\ Merge(row, new, loaded) \in ReservationRow
           /\ Merge(row, new, loaded).status =
                IF new.status # loaded.status THEN new.status ELSE row.status
           /\ loaded = row => Merge(row, new, loaded) = new
<1> DEFINE columns == {"status", "guest_id", "room_id", "check_in_date", "check_out_date",
                       "party", "rate_per_night"}
           merged == Merge(row, new, loaded)
<1>1. DOMAIN row = columns /\ DOMAIN loaded = columns /\ DOMAIN new = columns
  BY DEF ReservationRow
<1>2. DOMAIN merged = columns
  BY <1>1 DEF Merge
<1>3. \A c \in columns : merged[c] = IF new[c] # loaded[c] THEN new[c] ELSE row[c]
  BY <1>1 DEF Merge, Changed
<1>4. merged = [c \in columns |-> merged[c]]
  BY <1>1 DEF Merge
<1> HIDE DEF merged
<1>5. merged = [status |-> merged.status, guest_id |-> merged.guest_id,
                room_id |-> merged.room_id, check_in_date |-> merged.check_in_date,
                check_out_date |-> merged.check_out_date, party |-> merged.party,
                rate_per_night |-> merged.rate_per_night]
  BY <1>4
<1>6. /\ merged.status = IF new.status # loaded.status THEN new.status ELSE row.status
      /\ merged.guest_id \in {new.guest_id, row.guest_id}
      /\ merged.room_id \in {new.room_id, row.room_id}
      /\ merged.check_in_date \in {new.check_in_date, row.check_in_date}
      /\ merged.check_out_date \in {new.check_out_date, row.check_out_date}
      /\ merged.party \in {new.party, row.party}
      /\ merged.rate_per_night \in {new.rate_per_night, row.rate_per_night}
  BY <1>3
<1>7. merged \in ReservationRow
  BY <1>5, <1>6 DEF ReservationRow
<1>8. ASSUME loaded = row
      PROVE  merged = new
  <2>1. \A c \in columns : merged[c] = new[c]
    BY <1>3, <1>8
  <2>2. new = [c \in columns |-> new[c]]
    BY DEF ReservationRow
  <2> QED
    BY <1>4, <2>1, <2>2
<1> QED
  BY <1>6, <1>7, <1>8 DEF merged

\* and of a folio.
LEMMA MergedFolio ==
    ASSUME NEW row \in FolioRow, NEW new \in FolioRow, NEW loaded \in FolioRow
    PROVE  /\ Merge(row, new, loaded) \in FolioRow
           /\ new.status = loaded.status => Merge(row, new, loaded).status = row.status
           /\ loaded = row => Merge(row, new, loaded) = new
<1> DEFINE columns == {"status", "total_charges", "total_payments", "balance"}
           merged == Merge(row, new, loaded)
<1>1. DOMAIN row = columns /\ DOMAIN loaded = columns /\ DOMAIN new = columns
  BY DEF FolioRow
<1>2. DOMAIN merged = columns
  BY <1>1 DEF Merge
<1>3. \A c \in columns : merged[c] = IF new[c] # loaded[c] THEN new[c] ELSE row[c]
  BY <1>1 DEF Merge, Changed
<1>4. merged = [c \in columns |-> merged[c]]
  BY <1>1 DEF Merge
<1> HIDE DEF merged
<1>5. merged = [status |-> merged.status, total_charges |-> merged.total_charges,
                total_payments |-> merged.total_payments, balance |-> merged.balance]
  BY <1>4
<1>6. /\ merged.status = IF new.status # loaded.status THEN new.status ELSE row.status
      /\ merged.total_charges \in {new.total_charges, row.total_charges}
      /\ merged.total_payments \in {new.total_payments, row.total_payments}
      /\ merged.balance \in {new.balance, row.balance}
  BY <1>3
<1>7. merged \in FolioRow
  BY <1>5, <1>6 DEF FolioRow
<1>8. ASSUME loaded = row
      PROVE  merged = new
  <2>1. \A c \in columns : merged[c] = new[c]
    BY <1>3, <1>8
  <2>2. new = [c \in columns |-> new[c]]
    BY DEF FolioRow
  <2> QED
    BY <1>4, <2>1, <2>2
<1> QED
  BY <1>6, <1>7, <1>8 DEF merged

\* What update_reservation makes of the row it has loaded.
Patched(loaded, patch) ==
    [c \in DOMAIN loaded |-> IF c \in DOMAIN patch THEN patch[c] ELSE loaded[c]]

\* A row with the columns a patch may name taken from another.
Moved(row, new) ==
    [row EXCEPT !.room_id = new.room_id, !.check_in_date = new.check_in_date,
                !.check_out_date = new.check_out_date, !.party = new.party]

\* The columns of a patched reservation.
LEMMA PatchedStay ==
    ASSUME NEW loaded \in ReservationRow, NEW patch, PatchAllowed(patch)
    PROVE  LET new == Patched(loaded, patch) IN
           /\ new \in ReservationRow
           /\ new = Moved(loaded, new)
           /\ new.status = loaded.status
           /\ (new.check_in_date # loaded.check_in_date
               /\ new.check_out_date # loaded.check_out_date)
                => new.check_in_date < new.check_out_date
<1> DEFINE new == Patched(loaded, patch)
           columns == {"status", "guest_id", "room_id", "check_in_date", "check_out_date",
                       "party", "rate_per_night"}
<1>1. DOMAIN loaded = columns
  BY DEF ReservationRow
<1>2. new = [c \in columns |-> new[c]]
      /\ \A c \in columns : new[c] = IF c \in DOMAIN patch THEN patch[c] ELSE loaded[c]
  BY <1>1 DEF Patched
<1> HIDE DEF new
<1>3. new = [status |-> new.status, guest_id |-> new.guest_id, room_id |-> new.room_id,
             check_in_date |-> new.check_in_date, check_out_date |-> new.check_out_date,
             party |-> new.party, rate_per_night |-> new.rate_per_night]
  BY <1>2
<1>4. /\ new.status = loaded.status /\ new.guest_id = loaded.guest_id
      /\ new.rate_per_night = loaded.rate_per_night
  BY <1>2 DEF PatchAllowed, PatchColumns
<1>5. /\ new.room_id \in Rooms /\ new.party \in Parties
      /\ new.check_in_date \in Days /\ new.check_out_date \in Days
  BY <1>2 DEF PatchAllowed, ReservationRow
<1>6. new \in ReservationRow
  BY <1>3, <1>4, <1>5 DEF ReservationRow
<1>7. new = Moved(loaded, new)
  <2> DEFINE moved == Moved(loaded, new)
  <2>1. loaded = [c \in columns |-> loaded[c]]
    BY DEF ReservationRow
  <2>2. moved = [c \in columns |-> moved[c]]
    BY <2>1 DEF Moved
  <2>3. \A c \in columns : moved[c] = IF c \in PatchColumns THEN new[c] ELSE loaded[c]
    BY <2>1 DEF PatchColumns, Moved
  <2>4. \A c \in columns : c \notin PatchColumns => new[c] = loaded[c]
    BY <1>2 DEF PatchAllowed
  <2> HIDE DEF moved
  <2>5. \A c \in columns : moved[c] = new[c]
    BY <2>3, <2>4
  <2>6. moved = new
    BY <1>2, <2>2, <2>5
  <2> QED
    BY <2>6 DEF moved
<1>8. (new.check_in_date # loaded.check_in_date /\ new.check_out_date # loaded.check_out_date)
        => new.check_in_date < new.check_out_date
  BY <1>2 DEF PatchAllowed
<1> QED
  BY <1>4, <1>6, <1>7, <1>8 DEF new

\* The reservation in memory is a reservation.
LEMMA NewStayRow ==
    ASSUME NEW r \in Requests, job[r] \in BookingJobs, job[r].op # "update_room_status",
           job[r].op = "create_reservation" => session[r].type \in RoomTypeRow,
           job[r].op \in ChangesStay => session[r].stay \in ReservationRow
    PROVE  /\ NewStay(r) \in ReservationRow
           /\ job[r].op = "create_reservation" => NewStay(r).status = "confirmed"
           /\ job[r].op = "update_reservation" => NewStay(r).status = session[r].stay.status
           /\ job[r].op = "check_in" => NewStay(r).status = "checked_in"
           /\ job[r].op = "check_out" => NewStay(r).status = "checked_out"
           /\ job[r].op \in {"cancel_reservation", "mark_no_show"} =>
                NewStay(r).status \in {"cancelled", "no_show"}
<1> DEFINE loaded == session[r].stay
           asked == job[r]
<1>1. asked.op \in ChangesStay \cup {"create_reservation"}
  BY BookingAssumption
<1>2. CASE asked.op = "create_reservation"
  <2>1. NewStay(r) = [status |-> "confirmed", guest_id |-> asked.guest, room_id |-> asked.room,
              check_in_date |-> asked.check_in_date, check_out_date |-> asked.check_out_date,
              party |-> asked.party, rate_per_night |-> session[r].type.base_rate]
    BY <1>2 DEF NewStay
  <2>2. /\ asked.guest \in Guests /\ asked.room \in Rooms /\ asked.party \in Parties
        /\ asked.check_in_date \in Days /\ asked.check_out_date \in Days
    BY <1>2, BookingAssumption
  <2>3. session[r].type.base_rate \in Rates
    BY <1>2 DEF RoomTypeRow
  <2> QED
    BY <1>2, <2>1, <2>2, <2>3 DEF ReservationRow, ReservationStatus, ChangesStay
<1>3. CASE asked.op = "update_reservation"
  <2>1. NewStay(r) = Patched(loaded, asked.patch)
    BY <1>3 DEF NewStay, Patched
  <2>2. PatchAllowed(asked.patch) /\ loaded \in ReservationRow
    BY <1>3, BookingAssumption DEF ChangesStay
  <2> DEFINE patch == asked.patch
  <2> HIDE DEF patch, loaded, asked
  <2>3. PatchAllowed(patch) /\ loaded \in ReservationRow
    BY <2>2 DEF patch
  <2>4. Patched(loaded, patch) \in ReservationRow
        /\ Patched(loaded, patch).status = loaded.status
    BY <2>3, PatchedStay
  <2>5. NewStay(r) \in ReservationRow /\ NewStay(r).status = loaded.status
    BY <2>1, <2>4 DEF patch
  <2> QED
    BY <1>3, <2>5 DEF ChangesStay, loaded, asked
<1>4. CASE asked.op \in {"cancel_reservation", "mark_no_show", "check_in", "check_out"}
  <2>1. loaded \in ReservationRow
    BY <1>4 DEF ChangesStay
  <2>2. PICK status \in ReservationStatus :
          /\ NewStay(r) = [loaded EXCEPT !.status = status]
          /\ asked.op = "check_in" => status = "checked_in"
          /\ asked.op = "check_out" => status = "checked_out"
          /\ asked.op \in {"cancel_reservation", "mark_no_show"} =>
               status \in {"cancelled", "no_show"}
    BY <1>4 DEF NewStay, ReservationStatus
  <2>3. NewStay(r) \in ReservationRow /\ NewStay(r).status = status
    BY <2>1, <2>2 DEF ReservationRow
  <2> QED
    BY <1>4, <2>2, <2>3
<1> QED
  BY <1>1, <1>2, <1>3, <1>4 DEF ChangesStay


-----------------------------------------------------------------------------
(* What the seed script leaves *)

LEMMA SeededStay ==
    ASSUME NEW status \in ReservationStatus, NEW guest \in Guests, NEW room \in Rooms,
           today = SeedDay, rooms[room].room_type \in RoomTypes,
           roomTypes \in [RoomTypes -> RoomTypeRow]
    PROVE  SeedStay(status, guest, room) \in ReservationRow
<1>1. SeedDay = 2 /\ LastDay \in Int /\ LastDay >= 4
  BY SeedAssumption, HotelAssumption DEF SeedDay
<1>2. SeedDates[status][1] \in 0..4 /\ SeedDates[status][2] \in 0..4
  BY <1>1 DEF SeedDates, ReservationStatus
<1>3. SeedDates[status][1] \in Days /\ SeedDates[status][2] \in Days
  BY <1>1, <1>2 DEF Days
<1>4. roomTypes[rooms[room].room_type].base_rate \in Rates /\ 1 \in Parties
  BY SeedAssumption DEF RoomTypeRow
<1> QED
  BY <1>3, <1>4 DEF SeedStay, ReservationRow

LEMMA SeededFolio ==
    ASSUME NEW status \in ReservationStatus, NEW rate \in Rates, NEW extra \in LineAmounts
    PROVE  /\ SeedFolio(status, rate, extra) \in FolioRow
           /\ SeedFolio(status, rate, extra).status # "none"
<1> DEFINE opened == [NoFolio EXCEPT !.status = "open"]
           night == Charged(opened, Ticks(rate))
           paid == Paid(night, Ticks(rate))
           both == Charged(night, extra)
<1>1. opened = [status |-> "open", total_charges |-> 0, total_payments |-> 0, balance |-> 0]
  BY DEF NoFolio
<1>2. rate \in Cents /\ rate \in Int /\ 0 \in Cents /\ extra \in Int
  BY SeedAssumption, MoneyAssumption DEF Cents
<1>3. Ticks(rate) \in Int /\ Ticks(0) = 0 /\ RoundCents(Ticks(rate)) = rate /\ RoundCents(0) = 0
  BY <1>2, RoundCentsExact DEF Ticks, TicksPerCent, RoundCents
<1>4. night = [status |-> "open", total_charges |-> rate, total_payments |-> 0, balance |-> rate]
  <2>1. RoundCents(Ticks(opened.total_charges) + Ticks(rate)) = rate
        /\ RoundCents((Ticks(opened.total_charges) + Ticks(rate))
                      - Ticks(opened.total_payments)) = rate
    BY <1>1, <1>3
  <2>2. night = [opened EXCEPT !.total_charges = rate, !.balance = rate]
    BY <2>1, Zenon DEF Charged
  <2> QED
    BY <1>1, <2>2
<1>5. night \in FolioRow
  BY <1>2, <1>4 DEF FolioRow, FolioStatus
<1>6. paid = [status |-> "open", total_charges |-> rate, total_payments |-> rate, balance |-> 0]
  <2> HIDE DEF night
  <2>0. night.total_payments = 0 /\ night.total_charges = rate
    BY <1>4
  <2>1. /\ RoundCents(Ticks(night.total_payments) + Ticks(rate)) = rate
        /\ RoundCents(Ticks(night.total_charges)
                      - (Ticks(night.total_payments) + Ticks(rate))) = 0
    <3>1. Ticks(0) + Ticks(rate) = Ticks(rate) /\ Ticks(rate) - (Ticks(0) + Ticks(rate)) = 0
      BY <1>3
    <3> QED
      BY <1>3, <2>0, <3>1
  <2>2. paid = [night EXCEPT !.total_payments = rate, !.balance = 0]
    BY <2>1, Zenon DEF Paid
  <2> QED
    BY <1>4, <2>2
<1>7. opened \in FolioRow
  BY <1>1, <1>2 DEF FolioRow, FolioStatus
<1>8. CASE status = "checked_in"
  <2>1. SeedFolio(status, rate, extra) = both
    BY <1>8 DEF SeedFolio
  <2>2. Fits(both)
    BY <1>8, <2>1, SeedAssumption
  <2>3. both \in FolioRow
    BY <1>2, <1>5, <2>2, ChargedRow
  <2>4. both.status = night.status
    BY <1>4 DEF Charged
  <2> QED
    BY <1>4, <2>1, <2>3, <2>4
<1>9. CASE status = "checked_out"
  <2>1. SeedFolio(status, rate, extra) = [paid EXCEPT !.status = "closed"]
    BY <1>9 DEF SeedFolio
  <2> QED
    BY <1>2, <1>6, <2>1 DEF FolioRow, FolioStatus
<1>10. CASE status \notin {"checked_in", "checked_out"}
  <2>1. SeedFolio(status, rate, extra) = opened
    BY <1>10 DEF SeedFolio
  <2> QED
    BY <1>1, <1>7, <2>1
<1> QED
  BY <1>8, <1>9, <1>10

LEMMA SeededLines ==
    ASSUME NEW status \in ReservationStatus, NEW rate \in Rates, NEW extra \in LineAmounts
    PROVE  /\ SeedLines(status, rate, extra) \in Seq(LineRow)
           /\ Len(SeedLines(status, rate, extra)) <= 2
           /\ status \in {"checked_in", "checked_out"} =>
                \E i \in DOMAIN SeedLines(status, rate, extra) :
                    SeedLines(status, rate, extra)[i].item_type = "room_charge"
<1> DEFINE other == [item_type |-> "extra", void |-> FALSE, total |-> RoundCents(extra)]
<1>1. Night(rate) \in LineRow /\ other \in LineRow /\ Night(rate).item_type = "room_charge"
  BY SeedAssumption DEF Night, LineRow, LineItemType
<1> HIDE DEF other
<1>2. CASE status = "checked_in"
  <2>1. SeedLines(status, rate, extra) = <<Night(rate), other>>
    BY <1>2 DEF SeedLines, other
  <2> QED
    BY <1>1, <2>1
<1>3. CASE status = "checked_out"
  <2>1. SeedLines(status, rate, extra) = <<Night(rate)>>
    BY <1>3 DEF SeedLines
  <2> QED
    BY <1>1, <2>1
<1>4. CASE status \notin {"checked_in", "checked_out"}
  <2>1. SeedLines(status, rate, extra) = <<>>
    BY <1>4 DEF SeedLines
  <2> QED
    BY <1>4, <2>1
<1> QED
  BY <1>2, <1>3, <1>4

\* Each element of a finite set has a place of its own in its sequence.
LEMMA PlaceInOrder ==
    ASSUME NEW made, IsFiniteSet(made), NEW x \in made
    PROVE  /\ PlaceIn(made, x) \in 1..Cardinality(made)
           /\ \A y \in made : PlaceIn(made, x) = PlaceIn(made, y) => x = y
<1> DEFINE order == SetToSeq(made)
           n == Cardinality(made)
<1>1. n \in Nat /\ ExistsBijection(1..n, made)
  BY FS_CardinalityType
<1>2. \E f \in [1..n -> made] : IsInjective(f)
  BY <1>1, Zenon DEF ExistsBijection, Bijection, Injection
<1>3. order \in [1..n -> made] /\ IsInjective(order)
  BY <1>2, Zenon DEF SetToSeq
<1> HIDE DEF order, n
<1>4. \A y \in made : \E i \in 1..n : order[i] = y
  <2>1. order \in Injection(1..n, made)
    BY <1>3 DEF Injection
  <2>2. Cardinality(1..n) = Cardinality(made)
    BY <1>1, FS_Interval DEF n
  <2>3. order \in Surjection(1..n, made)
    BY <2>1, <2>2, FS_Injection
  <2> QED
    BY <2>3 DEF Surjection
<1>5. ASSUME NEW y \in made
      PROVE  PlaceIn(made, y) \in 1..n /\ order[PlaceIn(made, y)] = y
  <2>1. \E i \in DOMAIN order : order[i] = y
    BY <1>3, <1>4, <1>5
  <2>2. PlaceIn(made, y) \in DOMAIN order /\ order[PlaceIn(made, y)] = y
    BY <2>1 DEF PlaceIn, order
  <2> QED
    BY <1>3, <2>2
<1> QED
  BY <1>5 DEF n

\* The tables as the script leaves them.
LEMMA SeededTables ==
    ASSUME Seeded
    PROVE  /\ HotelTypeOK
           /\ guests = Guests
           /\ \A x \in Reservations : Len(lineItems[x]) <= 2
           /\ ArrivalsAreCharged
           /\ number \in [Reservations -> [day : Days, seq : Nat]]
           /\ \A x \in Reservations : number[x].seq <= Cardinality(Bookings)
           /\ \A x, y \in Reservations :
                Booked(x) /\ Booked(y) /\ x # y => number[x] # number[y]
<1>1. PICK made, status, place, guest, extra, type :
        /\ made \in SUBSET Reservations /\ status \in [made -> ReservationStatus]
        /\ place \in [made -> Rooms] /\ guest \in [made -> Guests]
        /\ extra \in LineAmounts /\ type \in [Rooms -> RoomTypes]
        /\ SeededWith(made, status, place, guest, extra, type)
  BY DEF Seeded
<1>2. rooms \in [Rooms -> RoomRow]
  <2>1. \A s : SeedRoomStatus(s) \in RoomStatus
    BY DEF SeedRoomStatus, RoomStatus
  <2> QED
    BY <1>1, <2>1 DEF SeededWith, RoomRow, RoomStatus
<1>3. ASSUME NEW x \in made
      PROVE  /\ reservations[x] \in ReservationRow
             /\ reservations[x].status = status[x]
             /\ reservations[x].rate_per_night \in Rates
  <2>1. rooms[place[x]].room_type \in RoomTypes
    BY <1>1, <1>2 DEF RoomRow
  <2>2. reservations[x] = SeedStay(status[x], guest[x], place[x])
    BY <1>1 DEF SeededWith
  <2>3. SeedStay(status[x], guest[x], place[x]) \in ReservationRow
    BY <1>1, <2>1, SeededStay DEF SeededWith
  <2>4. SeedStay(status[x], guest[x], place[x]).status = status[x]
    BY DEF SeedStay
  <2> QED
    BY <2>2, <2>3, <2>4 DEF ReservationRow
<1>4. \A x \in Reservations : x \notin made => reservations[x] = NoReservation
  BY <1>1 DEF SeededWith
<1>5. DeskTypeOK
  <2>1. reservations \in [Reservations -> ReservationRow \cup {NoReservation}]
    <3>1. reservations = [x \in Reservations |-> reservations[x]]
      BY <1>1 DEF SeededWith
    <3> QED
      BY <1>3, <1>4, <3>1
  <2>2. today \in Days
    BY <1>1, SeedAssumption, HotelAssumption DEF SeededWith, SeedDay, Days
  <2> QED
    BY <1>1, <1>2, <2>1, <2>2 DEF DeskTypeOK, SeededWith
<1>6. \A x \in Reservations : Booked(x) <=> x \in made
  BY <1>3, <1>4, HotelAssumption DEF Booked
<1>7. ASSUME NEW x \in made
      PROVE  /\ folio[x] \in FolioRow /\ folio[x].status # "none"
             /\ lineItems[x] \in Seq(LineRow) /\ Len(lineItems[x]) <= 2
             /\ status[x] \in {"checked_in", "checked_out"} =>
                  \E i \in DOMAIN lineItems[x] : lineItems[x][i].item_type = "room_charge"
             /\ payments[x] \in Seq(Cents)
  <2> DEFINE rate == reservations[x].rate_per_night
  <2>1. /\ folio[x] = SeedFolio(status[x], rate, extra)
        /\ lineItems[x] = SeedLines(status[x], rate, extra)
        /\ payments[x] = IF status[x] = "checked_out" THEN <<rate>> ELSE <<>>
    BY <1>1 DEF SeededWith
  <2>2. rate \in Rates /\ rate \in Cents /\ status[x] \in ReservationStatus
    BY <1>1, <1>3, SeedAssumption
  <2> HIDE DEF rate
  <2>3. payments[x] \in Seq(Cents)
    BY <2>1, <2>2
  <2>4. folio[x] \in FolioRow /\ folio[x].status # "none"
    BY <1>1, <2>1, <2>2, SeededFolio
  <2>5. /\ lineItems[x] \in Seq(LineRow) /\ Len(lineItems[x]) <= 2
        /\ status[x] \in {"checked_in", "checked_out"} =>
             \E i \in DOMAIN lineItems[x] : lineItems[x][i].item_type = "room_charge"
    <3> DEFINE lines == SeedLines(status[x], rate, extra)
    <3>1. /\ lines \in Seq(LineRow) /\ Len(lines) <= 2
          /\ status[x] \in {"checked_in", "checked_out"} =>
               \E i \in DOMAIN lines : lines[i].item_type = "room_charge"
      BY <1>1, <2>2, SeededLines
    <3> QED
      BY <2>1, <3>1
  <2> QED
    BY <2>3, <2>4, <2>5
<1>8. NoFolio \in FolioRow /\ NoFolio.status = "none"
  BY MoneyAssumption DEF NoFolio, FolioRow, Cents
<1>9. ASSUME NEW x \in Reservations, x \notin made
      PROVE  /\ folio[x] \in FolioRow /\ folio[x].status = "none"
             /\ lineItems[x] \in Seq(LineRow) /\ Len(lineItems[x]) <= 2
             /\ payments[x] \in Seq(Cents)
  <2>1. folio[x] = NoFolio /\ lineItems[x] = <<>> /\ payments[x] = <<>>
    BY <1>1, <1>9 DEF SeededWith
  <2> QED
    BY <1>8, <2>1
<1>10. BillingTypeOK
  <2>1. /\ folio = [x \in Reservations |-> folio[x]]
        /\ lineItems = [x \in Reservations |-> lineItems[x]]
        /\ payments = [x \in Reservations |-> payments[x]]
    BY <1>1 DEF SeededWith
  <2>2. \A x \in Reservations : /\ folio[x] \in FolioRow
                                 /\ lineItems[x] \in Seq(LineRow)
                                 /\ payments[x] \in Seq(Cents)
    BY <1>7, <1>9
  <2>3. Reservations = Folios
    BY DEF Reservations
  <2>4. folio \in [Folios -> FolioRow]
    BY <2>1, <2>2, <2>3
  <2>5. lineItems \in [Folios -> Seq(LineRow)]
    BY <2>1, <2>2, <2>3
  <2>6. payments \in [Folios -> Seq(Cents)]
    BY <2>1, <2>2, <2>3
  <2> QED
    BY <2>4, <2>5, <2>6 DEF BillingTypeOK
<1>11. FolioPerReservation
  BY <1>6, <1>7, <1>9 DEF FolioPerReservation
<1>12. \A x \in Reservations : Len(lineItems[x]) <= 2
  BY <1>7, <1>9
<1>13. ArrivalsAreCharged
  <2>1. ASSUME NEW x \in Reservations, HasStatus(x, "checked_in") \/ HasStatus(x, "checked_out")
        PROVE  x \in made /\ status[x] \in {"checked_in", "checked_out"}
    BY <1>3, <1>6, <2>1 DEF HasStatus
  <2>2. ASSUME NEW x \in Reservations, HasStatus(x, "checked_in") \/ HasStatus(x, "checked_out")
        PROVE  \E i \in DOMAIN lineItems[x] : lineItems[x][i].item_type = "room_charge"
    <3>1. x \in made /\ status[x] \in {"checked_in", "checked_out"}
      BY <2>1, <2>2
    <3> QED
      BY <1>7, <3>1
  <2> QED
    BY <2>2 DEF ArrivalsAreCharged
<1>14. Bookings = made /\ IsFiniteSet(made)
  BY <1>1, <1>6, BookingAssumption, FS_Subset DEF Bookings
<1>15. /\ \A x \in made : number[x] = [day |-> today, seq |-> PlaceIn(made, x)]
       /\ \A x \in Reservations : x \notin made => number[x] = [day |-> 0, seq |-> 0]
       /\ number = [x \in Reservations |-> number[x]]
  BY <1>1 DEF NoNumber, SeededWith
<1>16. /\ Cardinality(made) \in Nat
       /\ \A x \in made : PlaceIn(made, x) \in 1..Cardinality(made)
       /\ \A x, y \in made : x # y => PlaceIn(made, x) # PlaceIn(made, y)
  BY <1>14, FS_CardinalityType, PlaceInOrder
<1>17. number \in [Reservations -> [day : Days, seq : Nat]]
  <2>1. today \in Days /\ 0 \in Days
    BY <1>5, HotelAssumption DEF DeskTypeOK, Days
  <2>2. ASSUME NEW x \in made
        PROVE  number[x] \in [day : Days, seq : Nat]
    <3>1. PlaceIn(made, x) \in Nat
      BY <1>16
    <3>2. number[x] = [day |-> today, seq |-> PlaceIn(made, x)]
      BY <1>15
    <3> QED
      BY <2>1, <3>1, <3>2
  <2>3. ASSUME NEW x \in Reservations, x \notin made
        PROVE  number[x] \in [day : Days, seq : Nat]
    BY <1>15, <2>1, <2>3
  <2> QED
    BY <1>15, <2>2, <2>3
<1>18. ASSUME NEW x \in Reservations
       PROVE  number[x].seq <= Cardinality(made)
  <2>1. CASE x \in made
    <3>1. number[x] = [day |-> today, seq |-> PlaceIn(made, x)]
      BY <1>15, <2>1
    <3>2. number[x].seq = PlaceIn(made, x)
      BY <3>1
    <3> QED
      BY <1>16, <2>1, <3>2
  <2>2. CASE x \notin made
    <3>1. number[x].seq = 0
      BY <1>15, <2>2
    <3> QED
      BY <1>16, <3>1
  <2> QED
    BY <2>1, <2>2
<1>19. ASSUME NEW x \in Reservations, NEW y \in Reservations, Booked(x), Booked(y), x # y
       PROVE  number[x] # number[y]
  <2>1. x \in made /\ y \in made
    BY <1>6, <1>19
  <2>2. /\ number[x] = [day |-> today, seq |-> PlaceIn(made, x)]
        /\ number[y] = [day |-> today, seq |-> PlaceIn(made, y)]
    BY <1>15, <2>1
  <2>3. PlaceIn(made, x) # PlaceIn(made, y)
    BY <1>16, <1>19, <2>1
  <2> QED
    BY <2>2, <2>3
<1>20. guests = Guests
  BY <1>1 DEF SeededWith
<1> QED
  BY <1>5, <1>10, <1>11, <1>12, <1>13, <1>14, <1>17, <1>18, <1>19, <1>20 DEF HotelTypeOK

LEMMA EmptySessionType == EmptySession \in SessionRow
  BY MoneyAssumption, HotelAssumption
     DEF EmptySession, SessionRow, NoNumber, NoFolio, FolioRow, Cents, Days

LEMMA InitDesk == BookingInit => DeskInv
<1> SUFFICES ASSUME BookingInit PROVE DeskInv
  OBVIOUS
<1>1. /\ HotelTypeOK
      /\ guests = Guests
      /\ \A x \in Reservations : Len(lineItems[x]) <= 2
      /\ number \in [Reservations -> [day : Days, seq : Nat]]
  BY SeededTables DEF BookingInit
<1>2. /\ job = [r \in Requests |-> NoJob]
      /\ phase = [r \in Requests |-> "idle"]
      /\ session = [r \in Requests |-> EmptySession]
      /\ held = [r \in Requests |-> {}]
  BY DEF BookingInit
<1>3. BookingTypeOK
  BY <1>1, <1>2 DEF BookingTypeOK, Phases
<1>4. EmptySession \in SessionRow
  BY EmptySessionType
<1>5. \A r \in Requests : ~ InProgress(r)
  BY <1>2 DEF InProgress
<1>6. Finished = {}
  BY <1>2 DEF Finished
<1>7. EntriesOfRequests
  <2>1. Cardinality(Finished) = 0
    BY <1>6, FS_EmptySet
  <2>2. \A x \in Reservations : Len(lineItems[x]) <= 2 + 0
    BY <1>1
  <2> QED
    BY <1>1, <2>1, <2>2 DEF EntriesOfRequests
<1> QED
  BY <1>2, <1>3, <1>4, <1>5, <1>7 DEF DeskInv, JobsKnown, NewStaysApart, Makes, Readings

-----------------------------------------------------------------------------
(* The steps of a request before its end *)

\* What another request does leaves what a request asks for and has read.
LEMMA OtherRequest ==
    ASSUME NEW q, job'[q] = job[q], phase'[q] = phase[q], session'[q] = session[q]
    PROVE  /\ InProgress(q)' <=> InProgress(q)
           /\ Makes(q)' <=> Makes(q)
           /\ HasRead(q)' <=> HasRead(q)
  BY DEF InProgress, Makes, HasRead, StayRead, RoomRead, TypeRead, NightsRead, WritesRoom,
         MovesGuest

\* The tables keep their types when they stay as they are.
LEMMA SameTables ==
    ASSUME HotelTypeOK, UNCHANGED hotelVars
    PROVE  HotelTypeOK'
  BY DEF HotelTypeOK, DeskTypeOK, BillingTypeOK, FolioPerReservation, Booked, hotelVars, billingVars

LEMMA SameFinished ==
    ASSUME EntriesOfRequests, UNCHANGED <<guests, lineItems>>, Finished' = Finished
    PROVE  EntriesOfRequests'
  BY DEF EntriesOfRequests

LEMMA BeginDesk ==
    ASSUME DeskInv, NEW r \in Requests, Begin(r)
    PROVE  DeskInv'
<1>1. PICK asked \in BookingJobs :
         /\ asked.op = "create_reservation" =>
              /\ ~ Booked(asked.stay)
              /\ \A q \in Requests : InProgress(q) =>
                   ~ (job[q].op = "create_reservation" /\ job[q].stay = asked.stay)
         /\ asked.op \in ChangesStay => Booked(asked.stay)
         /\ job' = [job EXCEPT ![r] = asked]
         /\ phase' = [phase EXCEPT ![r] =
              CASE asked.op = "create_reservation" -> "search"
                [] asked.op = "update_room_status" -> "room"
                [] OTHER -> "stay"]
  BY DEF Begin
<1>2. /\ phase[r] = "idle"
      /\ UNCHANGED hotelVars /\ UNCHANGED <<number, session, held>>
  BY DEF Begin
<1>3. /\ BookingTypeOK /\ HotelTypeOK
      /\ phase \in [Requests -> Phases] /\ job \in [Requests -> BookingJobs \cup {NoJob}]
  BY DEF DeskInv, BookingTypeOK
<1>4. /\ job'[r] = asked
      /\ phase'[r] = CASE asked.op = "create_reservation" -> "search"
                       [] asked.op = "update_room_status" -> "room"
                       [] OTHER -> "stay"
      /\ \A q \in Requests : q # r => job'[q] = job[q] /\ phase'[q] = phase[q]
  BY <1>1, <1>3
<1>5. asked.op \in {"create_reservation", "update_room_status", "update_reservation",
                    "cancel_reservation", "mark_no_show", "check_in", "check_out"}
  BY BookingAssumption DEF ChangesStay
<1>6. phase'[r] \in {"search", "room", "stay"}
  BY <1>4, <1>5
<1>7. BookingTypeOK'
  <2>1. phase' \in [Requests -> Phases] /\ job' \in [Requests -> BookingJobs \cup {NoJob}]
    BY <1>1, <1>3, <1>4, <1>6 DEF Phases
  <2>2. HotelTypeOK'
    BY <1>2, <1>3, SameTables
  <2>3. \A q \in Requests : held'[q] # {} => phase'[q] = "flush"
    BY <1>2, <1>3, <1>4 DEF BookingTypeOK
  <2> QED
    BY <1>2, <1>3, <2>1, <2>2, <2>3 DEF BookingTypeOK
<1>8. \A q \in Requests : q # r => /\ InProgress(q)' <=> InProgress(q)
                                   /\ Makes(q)' <=> Makes(q)
                                   /\ HasRead(q)' <=> HasRead(q)
  BY <1>2, <1>4, OtherRequest
<1>9. JobsKnown'
  <2>1. Asks(r)'
    <3>1. phase'[r] \in StatementsOf(asked.op)
      BY <1>4, <1>5 DEF StatementsOf
    <3> QED
      BY <1>1, <1>2, <1>4, <3>1 DEF Asks, Booked, hotelVars
  <2>2. \A q \in Requests : q # r /\ InProgress(q)' => Asks(q)'
    BY <1>2, <1>4, <1>8 DEF DeskInv, JobsKnown, Asks, Booked, hotelVars
  <2> QED
    BY <2>1, <2>2 DEF JobsKnown
<1>10. NewStaysApart'
  <2>1. ~ Makes(r)
    BY <1>2 DEF Makes, InProgress
  <2>2. ASSUME NEW q \in Requests, q # r, Makes(r)', Makes(q)'
        PROVE  job'[q].stay # job'[r].stay
    BY <1>1, <1>4, <1>8, <2>2 DEF Makes
  <2> QED
    BY <1>4, <1>8, <2>2 DEF DeskInv, NewStaysApart
<1>11. Readings'
  <2>1. HasRead(r)'
    BY <1>4, <1>5
       DEF HasRead, StayRead, RoomRead, TypeRead, NightsRead, WritesRoom, MovesGuest, ChangesStay
  <2> QED
    BY <1>8, <2>1 DEF DeskInv, Readings
<1>12. EntriesOfRequests'
  <2>1. Finished' = Finished
    BY <1>2, <1>4, <1>6 DEF Finished
  <2> QED
    BY <1>2, <2>1, SameFinished DEF DeskInv, hotelVars, billingVars
<1> QED
  BY <1>2, <1>7, <1>9, <1>10, <1>11, <1>12 DEF DeskInv

\* A request that reads and goes on.
LEMMA ReadDesk ==
    ASSUME DeskInv, NEW r \in Requests, NEW read \in SessionRow,
           NEW statement \in {"search", "count", "stay", "room", "folio"},
           Read(r, statement, read), HasRead(r)'
    PROVE  DeskInv'
<1>1. /\ phase[r] = statement
      /\ session' = [session EXCEPT ![r] = read]
      /\ phase' = [phase EXCEPT ![r] = Enters(r, statement)]
      /\ UNCHANGED hotelVars /\ UNCHANGED <<number, job, held>>
  BY DEF Read
<1>2. /\ BookingTypeOK /\ HotelTypeOK
      /\ phase \in [Requests -> Phases] /\ session \in [Requests -> SessionRow]
  BY DEF DeskInv, BookingTypeOK
<1>3. InProgress(r) /\ Asks(r)
  BY <1>1 DEF InProgress, DeskInv, JobsKnown
<1>4. job[r].op \in {"create_reservation", "update_room_status", "update_reservation",
                     "cancel_reservation", "mark_no_show", "check_in", "check_out"}
  BY <1>3, BookingAssumption DEF Asks, ChangesStay
<1>5. /\ Enters(r, statement) \in StatementsOf(job[r].op)
      /\ Enters(r, statement) \in {"search", "count", "stay", "room", "folio", "flush"}
  <2>1. statement \in StatementsOf(job[r].op)
    BY <1>1, <1>3 DEF Asks
  <2> QED
    BY <1>4, <2>1 DEF StatementsOf, Enters, MovesGuest
<1>6. /\ phase'[r] = Enters(r, statement) /\ session'[r] = read
      /\ \A q \in Requests : q # r => phase'[q] = phase[q] /\ session'[q] = session[q]
      /\ phase' \in [Requests -> Phases] /\ session' \in [Requests -> SessionRow]
  BY <1>1, <1>2, <1>5 DEF Phases
<1>7. BookingTypeOK'
  <2>1. HotelTypeOK'
    BY <1>1, <1>2, SameTables
  <2>2. held[r] = {}
    BY <1>1, <1>2 DEF BookingTypeOK
  <2>3. \A q \in Requests : held'[q] # {} => phase'[q] = "flush"
    BY <1>1, <1>2, <1>6, <2>2 DEF BookingTypeOK
  <2> QED
    BY <1>1, <1>2, <1>6, <2>1, <2>3 DEF BookingTypeOK
<1>8. \A q \in Requests : q # r => /\ InProgress(q)' <=> InProgress(q)
                                   /\ Makes(q)' <=> Makes(q)
                                   /\ HasRead(q)' <=> HasRead(q)
  BY <1>1, <1>6, OtherRequest
<1>9. JobsKnown'
  <2>1. Asks(r)'
    BY <1>1, <1>3, <1>5, <1>6 DEF Asks, Booked, hotelVars
  <2>2. \A q \in Requests : q # r /\ InProgress(q)' => Asks(q)'
    BY <1>1, <1>6, <1>8 DEF DeskInv, JobsKnown, Asks, Booked, hotelVars
  <2> QED
    BY <2>1, <2>2 DEF JobsKnown
<1>10. NewStaysApart'
  <2>1. Makes(r)' => Makes(r)
    BY <1>1, <1>3 DEF Makes
  <2>2. \A q \in Requests : Makes(q)' => Makes(q)
    BY <1>8, <2>1
  <2> QED
    BY <1>1, <2>2 DEF DeskInv, NewStaysApart
<1>11. Readings'
  BY <1>8 DEF DeskInv, Readings
<1>12. EntriesOfRequests'
  <2>1. Finished' = Finished
    BY <1>1, <1>5, <1>6 DEF Finished
  <2> QED
    BY <1>1, <2>1, SameFinished DEF DeskInv, hotelVars, billingVars
<1> QED
  BY <1>1, <1>6, <1>7, <1>9, <1>10, <1>11, <1>12 DEF DeskInv

\* What the steps below know of the request r.
LEMMA RequestAt ==
    ASSUME DeskInv, NEW r \in Requests, InProgress(r)
    PROVE  /\ HotelTypeOK /\ DeskTypeOK /\ BillingTypeOK
           /\ session[r] \in SessionRow
           /\ Asks(r) /\ HasRead(r)
           /\ job[r].op \in {"create_reservation", "update_room_status", "update_reservation",
                             "cancel_reservation", "mark_no_show", "check_in", "check_out"}
           /\ job[r].op # "update_room_status" => job[r].stay \in Reservations
           /\ job[r].op \in ChangesStay => reservations[job[r].stay] \in ReservationRow
  BY BookingAssumption
     DEF DeskInv, BookingTypeOK, HotelTypeOK, DeskTypeOK, JobsKnown, Asks, Readings, ChangesStay,
         Booked

LEMMA ReadStayDesk ==
    ASSUME DeskInv, NEW r \in Requests, ReadStay(r)
    PROVE  DeskInv'
<1> DEFINE read == [session[r] EXCEPT !.stay = reservations[job[r].stay]]
<1>1. Read(r, "stay", read) /\ phase[r] = "stay" /\ Passes(r) /\ InProgress(r)
  BY DEF ReadStay, Read, InProgress
<1>2. /\ session[r] \in SessionRow /\ Asks(r) /\ HasRead(r)
      /\ job[r].op \in {"create_reservation", "update_room_status", "update_reservation",
                        "cancel_reservation", "mark_no_show", "check_in", "check_out"}
      /\ job[r].op \in ChangesStay => reservations[job[r].stay] \in ReservationRow
  BY <1>1, RequestAt
<1>3. job[r].op \in {"update_reservation", "cancel_reservation", "mark_no_show",
                     "check_in", "check_out"}
  BY <1>1, <1>2 DEF Asks, StatementsOf
<1>4. reservations[job[r].stay] \in ReservationRow
  BY <1>2, <1>3 DEF ChangesStay
<1>5. read \in SessionRow /\ read.stay = reservations[job[r].stay]
  BY <1>2, <1>4 DEF SessionRow
<1>6. reservations[job[r].stay].status =
        IF job[r].op = "check_out" THEN "checked_in" ELSE "confirmed"
  BY <1>1 DEF Passes, HasStatus
<1> HIDE DEF read
<1>7. /\ session'[r] = read /\ job' = job
      /\ phase'[r] \in {"search", "room", "flush"}
      /\ phase'[r] = "flush" => job[r].op \notin {"check_in", "check_out"}
  <2>1. Enters(r, "stay") \in {"search", "room", "flush"}
        /\ (Enters(r, "stay") = "flush" => job[r].op \notin {"check_in", "check_out"})
    BY <1>3 DEF Enters, MovesGuest
  <2> QED
    BY <1>1, <2>1 DEF Read, DeskInv, BookingTypeOK
<1>8. HasRead(r)'
  <2>1. StayRead(r)'
    BY <1>4, <1>5, <1>6, <1>7 DEF StayRead
  <2>2. RoomRead(r)'
    BY <1>3, <1>7 DEF RoomRead, WritesRoom, MovesGuest
  <2>3. TypeRead(r)' /\ NightsRead(r)'
    BY <1>3, <1>7 DEF TypeRead, NightsRead
  <2> QED
    BY <2>1, <2>2, <2>3 DEF HasRead
<1> QED
  BY <1>1, <1>5, <1>8, ReadDesk

LEMMA ReadRoomDesk ==
    ASSUME DeskInv, NEW r \in Requests, ReadRoom(r)
    PROVE  DeskInv'
<1> DEFINE read == [session[r] EXCEPT !.room = rooms[RoomOf(r)]]
<1>1. Read(r, "room", read) /\ phase[r] = "room" /\ Passes(r) /\ InProgress(r)
  BY DEF ReadRoom, Read, InProgress
<1>2. /\ DeskTypeOK
      /\ session[r] \in SessionRow /\ Asks(r) /\ HasRead(r)
      /\ job[r].op \in {"create_reservation", "update_room_status", "update_reservation",
                        "cancel_reservation", "mark_no_show", "check_in", "check_out"}
  BY <1>1, RequestAt
<1>3. job[r].op \in {"update_room_status", "check_in", "check_out"}
  BY <1>1, <1>2 DEF Asks, StatementsOf
<1>4. RoomOf(r) \in Rooms
  <2>1. job[r].op # "update_room_status" => session[r].stay.room_id \in Rooms
    BY <1>1, <1>2, <1>3 DEF HasRead, StayRead, ChangesStay, ReservationRow
  <2>2. job[r].op = "update_room_status" => job[r].room \in Rooms
    BY <1>2, BookingAssumption DEF Asks
  <2> QED
    BY <2>1, <2>2 DEF RoomOf
<1>5. rooms[RoomOf(r)] \in RoomRow
  BY <1>2, <1>4 DEF DeskTypeOK
<1>6. /\ read \in SessionRow /\ read.room = rooms[RoomOf(r)] /\ read.stay = session[r].stay
  BY <1>2, <1>5 DEF SessionRow
<1>7. job[r].op = "update_room_status" => job[r].status \in AllowedManually[rooms[RoomOf(r)].status]
  BY <1>1 DEF Passes
<1> HIDE DEF read
<1>8. /\ session'[r] = read /\ job' = job
      /\ phase'[r] = IF job[r].op = "update_room_status" THEN "flush" ELSE "folio"
  <2>1. Enters(r, "room") = IF job[r].op = "update_room_status" THEN "flush" ELSE "folio"
    BY <1>3 DEF Enters, MovesGuest
  <2> QED
    BY <1>1, <2>1 DEF Read, DeskInv, BookingTypeOK
<1>9. HasRead(r)'
  <2>1. StayRead(r)'
    BY <1>1, <1>2, <1>6, <1>8 DEF HasRead, StayRead
  <2>2. RoomRead(r)'
    BY <1>5, <1>6, <1>7, <1>8 DEF RoomRead
  <2>3. TypeRead(r)' /\ NightsRead(r)'
    BY <1>3, <1>8 DEF TypeRead, NightsRead
  <2> QED
    BY <2>1, <2>2, <2>3 DEF HasRead
<1> QED
  BY <1>1, <1>6, <1>9, ReadDesk

LEMMA SearchRoomsDesk ==
    ASSUME DeskInv, NEW r \in Requests, SearchRooms(r)
    PROVE  DeskInv'
<1> DEFINE type == roomTypes[rooms[job[r].room].room_type]
           read == IF job[r].op = "create_reservation"
                   THEN [session[r] EXCEPT !.type = type] ELSE session[r]
<1>1. Read(r, "search", read) /\ phase[r] = "search" /\ Passes(r) /\ InProgress(r)
  BY DEF SearchRooms, Read, InProgress
<1>2. /\ DeskTypeOK
      /\ session[r] \in SessionRow /\ Asks(r) /\ HasRead(r)
      /\ job[r].op \in {"create_reservation", "update_room_status", "update_reservation",
                        "cancel_reservation", "mark_no_show", "check_in", "check_out"}
  BY <1>1, RequestAt
<1>3. job[r].op \in {"create_reservation", "update_reservation"}
  BY <1>1, <1>2 DEF Asks, StatementsOf
<1>4. job[r].op = "create_reservation" => type \in RoomTypeRow /\ job[r].party <= type.max_occupancy
  <2>1. job[r].op = "create_reservation" => job[r].room \in Rooms
    BY <1>2, BookingAssumption DEF Asks
  <2> QED
    BY <1>1, <1>2, <2>1 DEF Passes, DeskTypeOK, RoomRow
<1> HIDE DEF type
<1>5. /\ read \in SessionRow /\ read.stay = session[r].stay
      /\ job[r].op = "create_reservation" => read.type = type
  BY <1>2, <1>4 DEF SessionRow
<1> HIDE DEF read
<1>6. /\ session'[r] = read /\ job' = job
      /\ phase'[r] = IF job[r].op = "create_reservation" THEN "count" ELSE "flush"
  <2>1. Enters(r, "search") = IF job[r].op = "create_reservation" THEN "count" ELSE "flush"
    BY <1>3 DEF Enters, MovesGuest
  <2> QED
    BY <1>1, <2>1 DEF Read, DeskInv, BookingTypeOK
<1>7. HasRead(r)'
  <2>1. StayRead(r)'
    BY <1>1, <1>2, <1>3, <1>5, <1>6 DEF HasRead, StayRead
  <2>2. RoomRead(r)' /\ NightsRead(r)'
    BY <1>3, <1>6 DEF RoomRead, NightsRead, WritesRoom, MovesGuest
  <2>3. TypeRead(r)'
    BY <1>4, <1>5, <1>6 DEF TypeRead
  <2> QED
    BY <2>1, <2>2, <2>3 DEF HasRead
<1> QED
  BY <1>1, <1>5, <1>7, ReadDesk

LEMMA NextNumberType ==
    ASSUME DeskTypeOK
    PROVE  /\ NextNumber = [day |-> today, seq |-> Cardinality(Bookings) + 1]
           /\ NextNumber \in [day : Days, seq : Nat]
           /\ IsFiniteSet(Bookings) /\ Cardinality(Bookings) \in Nat
<1>1. Bookings \in SUBSET Reservations
  BY DEF Bookings
<1>2. IsFiniteSet(Bookings) /\ Cardinality(Bookings) \in Nat
  BY <1>1, FS_Subset, FS_CardinalityType, BookingAssumption
<1>3. NextNumber = [day |-> today, seq |-> Cardinality(Bookings) + 1]
  BY DEF NextNumber, Bookings
<1> QED
  BY <1>2, <1>3 DEF DeskTypeOK

LEMMA CountReservationsDesk ==
    ASSUME DeskInv, NEW r \in Requests, CountReservations(r)
    PROVE  DeskInv'
<1> DEFINE read == [session[r] EXCEPT !.number = NextNumber]
<1>1. Read(r, "count", read) /\ phase[r] = "count" /\ InProgress(r)
  BY DEF CountReservations, Read, InProgress
<1>2. /\ DeskTypeOK
      /\ session[r] \in SessionRow /\ Asks(r) /\ HasRead(r)
      /\ job[r].op \in {"create_reservation", "update_room_status", "update_reservation",
                        "cancel_reservation", "mark_no_show", "check_in", "check_out"}
  BY <1>1, RequestAt
<1>3. job[r].op = "create_reservation"
  BY <1>1, <1>2 DEF Asks, StatementsOf
<1>4. NextNumber \in [day : Days, seq : Nat]
  BY <1>2, NextNumberType
<1>5. read \in SessionRow /\ read.type = session[r].type
  BY <1>2, <1>4 DEF SessionRow
<1> HIDE DEF read
<1>6. session'[r] = read /\ job' = job /\ phase'[r] = "flush"
  <2>1. Enters(r, "count") = "flush"
    BY <1>3 DEF Enters, MovesGuest
  <2> QED
    BY <1>1, <2>1 DEF Read, DeskInv, BookingTypeOK
<1>7. HasRead(r)'
  <2>1. TypeRead(r)'
    BY <1>1, <1>2, <1>3, <1>5, <1>6 DEF HasRead, TypeRead
  <2>2. StayRead(r)' /\ RoomRead(r)' /\ NightsRead(r)'
    BY <1>3, <1>6 DEF StayRead, RoomRead, NightsRead, WritesRoom, MovesGuest, ChangesStay
  <2> QED
    BY <2>1, <2>2 DEF HasRead
<1> QED
  BY <1>1, <1>5, <1>7, ReadDesk

LEMMA ReadFolioDesk ==
    ASSUME DeskInv, NEW r \in Requests, ReadFolio(r)
    PROVE  DeskInv'
<1> DEFINE nights == IF job[r].op = "check_in" THEN 1 ELSE NightsLeft(session[r].stay)
           read == [session[r] EXCEPT !.nights = nights, !.folio = folio[job[r].stay]]
<1>1. Read(r, "folio", read) /\ phase[r] = "folio" /\ InProgress(r)
  BY DEF ReadFolio, Read, InProgress
<1>2. /\ DeskTypeOK /\ BillingTypeOK
      /\ session[r] \in SessionRow /\ Asks(r) /\ HasRead(r)
      /\ job[r].op \in {"create_reservation", "update_room_status", "update_reservation",
                        "cancel_reservation", "mark_no_show", "check_in", "check_out"}
      /\ job[r].op # "update_room_status" => job[r].stay \in Reservations
  BY <1>1, RequestAt
<1>3. job[r].op \in {"check_in", "check_out"}
  BY <1>1, <1>2 DEF Asks, StatementsOf
<1>4. session[r].stay \in ReservationRow
  BY <1>1, <1>2, <1>3 DEF HasRead, StayRead, ChangesStay
<1>5. nights \in Nat /\ folio[job[r].stay] \in FolioRow
  BY <1>2, <1>3, <1>4, HotelAssumption
     DEF NightsLeft, NightCount, ReservationRow, Days, DeskTypeOK, BillingTypeOK, Reservations
<1>6. job[r].op = "check_in" => nights = 1
  OBVIOUS
<1> HIDE DEF nights
<1>7. /\ read \in SessionRow /\ read.stay = session[r].stay /\ read.room = session[r].room
      /\ read.nights = nights
  BY <1>2, <1>5 DEF SessionRow
<1> HIDE DEF read
<1>8. session'[r] = read /\ job' = job /\ phase'[r] = "flush"
  <2>1. Enters(r, "folio") = "flush"
    BY <1>3 DEF Enters, MovesGuest
  <2> QED
    BY <1>1, <2>1 DEF Read, DeskInv, BookingTypeOK
<1>9. HasRead(r)'
  <2>1. StayRead(r)'
    BY <1>1, <1>2, <1>7, <1>8 DEF HasRead, StayRead
  <2>2. RoomRead(r)'
    BY <1>1, <1>2, <1>3, <1>7, <1>8 DEF HasRead, RoomRead, WritesRoom, MovesGuest
  <2>3. TypeRead(r)' /\ NightsRead(r)'
    BY <1>3, <1>6, <1>7, <1>8 DEF TypeRead, NightsRead
  <2> QED
    BY <2>1, <2>2, <2>3 DEF HasRead
<1> QED
  BY <1>1, <1>7, <1>9, ReadDesk

LEMMA TakeLockDesk ==
    ASSUME DeskInv, NEW r \in Requests, TakeLock(r)
    PROVE  DeskInv'
<1>1. PICK row : /\ \A q \in Requests \ {r} : row \notin held[q]
                 /\ held' = [held EXCEPT ![r] = @ \cup {row}]
  BY DEF TakeLock
<1>2. phase[r] = "flush" /\ UNCHANGED hotelVars /\ UNCHANGED <<number, job, phase, session>>
  BY DEF TakeLock
<1>3. /\ held' = [q \in Requests |-> held'[q]]
      /\ held'[r] = held[r] \cup {row}
      /\ \A q \in Requests : q # r => held'[q] = held[q]
  BY <1>1 DEF DeskInv
<1>4. BookingTypeOK'
  <2>1. HotelTypeOK'
    BY <1>2, SameTables DEF DeskInv, BookingTypeOK
  <2>2. \A q \in Requests : held'[q] # {} => phase[q] = "flush"
    BY <1>2, <1>3 DEF DeskInv, BookingTypeOK
  <2>3. \A p, q \in Requests : p # q => held'[p] \cap held'[q] = {}
    BY <1>1, <1>3 DEF DeskInv, BookingTypeOK
  <2> QED
    BY <1>2, <2>1, <2>2, <2>3 DEF DeskInv, BookingTypeOK
<1>5. \A q \in Requests : /\ InProgress(q)' <=> InProgress(q)
                          /\ Makes(q)' <=> Makes(q)
                          /\ HasRead(q)' <=> HasRead(q)
  BY <1>2, OtherRequest
<1>6. JobsKnown' /\ NewStaysApart' /\ Readings'
  BY <1>2, <1>5
     DEF DeskInv, JobsKnown, Asks, Booked, NewStaysApart, Readings, hotelVars
<1>7. EntriesOfRequests'
  BY <1>2, SameFinished DEF DeskInv, Finished, hotelVars, billingVars
<1> QED
  BY <1>2, <1>3, <1>4, <1>6, <1>7 DEF DeskInv

-----------------------------------------------------------------------------
(* The end of a request *)

\* A request that ends gives back what it holds and leaves the others as they
\* are; what it may have written is a reservation nobody else makes.
LEMMA EndsDesk ==
    ASSUME DeskInv, NEW r \in Requests, InProgress(r),
           NEW p \in {"committed", "failed"}, Ends(r, p),
           HotelTypeOK', number' \in [Reservations -> [day : Days, seq : Nat]],
           EntriesOfRequests',
           \A x \in Reservations :
             /\ Booked(x) => Booked(x)'
             /\ Booked(x)' => Booked(x) \/ (job[r].op = "create_reservation" /\ x = job[r].stay)
    PROVE  DeskInv'
<1>1. /\ phase' = [phase EXCEPT ![r] = p]
      /\ session' = [session EXCEPT ![r] = EmptySession]
      /\ held' = [held EXCEPT ![r] = {}]
      /\ job' = job
  BY DEF Ends
<1>2. /\ phase \in [Requests -> Phases] /\ session \in [Requests -> SessionRow]
      /\ job \in [Requests -> BookingJobs \cup {NoJob}]
      /\ held = [q \in Requests |-> held[q]]
      /\ \A q \in Requests : held[q] # {} => phase[q] = "flush"
      /\ \A q, s \in Requests : q # s => held[q] \cap held[s] = {}
  BY DEF DeskInv, BookingTypeOK
<1>3. /\ phase'[r] = p /\ held'[r] = {}
      /\ \A q \in Requests : q # r => /\ phase'[q] = phase[q] /\ session'[q] = session[q]
                                      /\ held'[q] = held[q]
      /\ phase' \in [Requests -> Phases] /\ session' \in [Requests -> SessionRow]
      /\ held' = [q \in Requests |-> held'[q]]
  BY <1>1, <1>2, EmptySessionType DEF Phases
<1>4. BookingTypeOK'
  <2>1. \A q \in Requests : held'[q] # {} => phase'[q] = "flush"
    BY <1>2, <1>3
  <2>2. \A q, s \in Requests : q # s => held'[q] \cap held'[s] = {}
    BY <1>2, <1>3
  <2> QED
    BY <1>1, <1>2, <1>3, <2>1, <2>2 DEF BookingTypeOK
<1>5. ~ InProgress(r)' /\ ~ Makes(r)'
  BY <1>3 DEF InProgress, Makes
<1>6. \A q \in Requests : q # r => /\ InProgress(q)' <=> InProgress(q)
                                   /\ Makes(q)' <=> Makes(q)
                                   /\ HasRead(q)' <=> HasRead(q)
  BY <1>1, <1>3, OtherRequest
<1>7. JobsKnown'
  <2>1. SUFFICES ASSUME NEW q \in Requests, InProgress(q)'
                 PROVE  Asks(q)'
    BY DEF JobsKnown
  <2>2. q # r /\ InProgress(q)
    BY <1>5, <1>6, <2>1
  <2>3. Asks(q)
    BY <2>2 DEF DeskInv, JobsKnown
  <2>4. job[q].op # "update_room_status" => job[q].stay \in Reservations
    BY <2>3, BookingAssumption DEF Asks
  <2>5. ASSUME job[q].op = "create_reservation", Booked(job[q].stay)'
        PROVE  FALSE
    <3>1. Makes(q)
      BY <2>2, <2>5 DEF Makes
    <3>2. job[r].op = "create_reservation" /\ job[q].stay = job[r].stay
      BY <1>1, <2>3, <2>4, <2>5 DEF Asks, Booked
    <3>3. Makes(r)
      BY <3>2 DEF Makes
    <3> QED
      BY <2>2, <3>1, <3>2, <3>3 DEF DeskInv, NewStaysApart
  <2>6. job[q].op \in ChangesStay => Booked(job[q].stay)'
    BY <1>1, <2>3, <2>4 DEF Asks, ChangesStay, Booked
  <2> QED
    BY <1>1, <1>3, <2>2, <2>3, <2>5, <2>6 DEF Asks, Booked
<1>8. NewStaysApart'
  BY <1>1, <1>5, <1>6 DEF DeskInv, NewStaysApart
<1>9. Readings'
  BY <1>5, <1>6 DEF DeskInv, Readings
<1> QED
  BY <1>3, <1>4, <1>7, <1>8, <1>9 DEF DeskInv

LEMMA FailDesk ==
    ASSUME DeskInv, NEW r \in Requests, Fail(r)
    PROVE  DeskInv'
<1>1. InProgress(r) /\ Ends(r, "failed") /\ UNCHANGED hotelVars /\ UNCHANGED number
  BY DEF Fail
<1>2. HotelTypeOK'
  BY <1>1, SameTables DEF DeskInv, BookingTypeOK
<1>3. number' \in [Reservations -> [day : Days, seq : Nat]]
  BY <1>1 DEF DeskInv, BookingTypeOK
<1>4. \A x \in Reservations : Booked(x)' <=> Booked(x)
  BY <1>1 DEF Booked, hotelVars
<1>5. EntriesOfRequests'
  <2>1. Finished' = Finished
    BY <1>1 DEF Finished, Ends, InProgress, DeskInv, BookingTypeOK
  <2> QED
    BY <1>1, <2>1, SameFinished DEF DeskInv, hotelVars, billingVars
<1> QED
  BY <1>1, <1>2, <1>3, <1>4, <1>5, EndsDesk

LEMMA NextDayDesk ==
    ASSUME DeskInv, NextDay, UNCHANGED <<number, progress>>
    PROVE  DeskInv'
<1>1. /\ today < LastDay /\ today' = today + 1
      /\ UNCHANGED <<reservations, rooms, roomTypes, guests, folio, lineItems, payments>>
      /\ UNCHANGED <<number, job, phase, session, held>>
  BY DEF NextDay, progress, billingVars
<1>2. HotelTypeOK'
  BY <1>1, HotelAssumption
     DEF DeskInv, BookingTypeOK, HotelTypeOK, DeskTypeOK, BillingTypeOK, FolioPerReservation,
         Booked, Days
<1>3. BookingTypeOK'
  BY <1>1, <1>2 DEF DeskInv, BookingTypeOK
<1>4. \A q \in Requests : /\ InProgress(q)' <=> InProgress(q)
                          /\ Makes(q)' <=> Makes(q)
                          /\ HasRead(q)' <=> HasRead(q)
  BY <1>1, OtherRequest
<1>5. JobsKnown' /\ NewStaysApart' /\ Readings'
  BY <1>1, <1>4 DEF DeskInv, JobsKnown, Asks, Booked, NewStaysApart, Readings
<1>6. EntriesOfRequests'
  BY <1>1, SameFinished DEF DeskInv, Finished
<1> QED
  BY <1>1, <1>3, <1>5, <1>6 DEF DeskInv

\* What a request knows when it commits: what it has read, and that the checks
\* of the flush are passed.
LEMMA CommitKnows ==
    ASSUME DeskInv, NEW r \in Requests, Commit(r)
    PROVE  /\ phase[r] = "flush" /\ InProgress(r) /\ Asks(r)
           /\ job[r].op \in {"create_reservation", "update_room_status", "update_reservation",
                             "cancel_reservation", "mark_no_show", "check_in", "check_out"}
           /\ job[r].op # "update_room_status" =>
                /\ job[r].stay \in Reservations
                /\ NewStay(r) \in ReservationRow
           /\ job[r].op \in ChangesStay =>
                /\ reservations[job[r].stay] \in ReservationRow
                /\ session[r].stay \in ReservationRow
           /\ session[r] \in SessionRow
           /\ job[r].op = "check_in" => session[r].nights = 1
           /\ job[r].op = "update_room_status" =>
                /\ session[r].room \in RoomRow
                /\ job[r].status \in AllowedManually[session[r].room.status]
           /\ job[r].op = "create_reservation" =>
                /\ session[r].type \in RoomTypeRow
                /\ job[r].party <= session[r].type.max_occupancy
           /\ \/ session[r].stay.status = "confirmed"
              \/ job[r].op \notin ChangesStay \/ job[r].op = "check_out"
           /\ job[r].op = "check_out" => session[r].stay.status = "checked_in"
<1>1. phase[r] = "flush" /\ InProgress(r)
  BY DEF Commit, InProgress
<1>2. /\ session[r] \in SessionRow /\ Asks(r) /\ HasRead(r)
      /\ job[r].op \in {"create_reservation", "update_room_status", "update_reservation",
                        "cancel_reservation", "mark_no_show", "check_in", "check_out"}
      /\ job[r].op # "update_room_status" => job[r].stay \in Reservations
      /\ job[r].op \in ChangesStay => reservations[job[r].stay] \in ReservationRow
  BY <1>1, RequestAt
<1>3. /\ job[r].op \in ChangesStay => session[r].stay \in ReservationRow
      /\ \/ session[r].stay.status = "confirmed"
         \/ job[r].op \notin ChangesStay \/ job[r].op = "check_out"
      /\ job[r].op = "check_out" => session[r].stay.status = "checked_in"
  BY <1>1, <1>2 DEF HasRead, StayRead, ChangesStay
<1>4. job[r].op = "create_reservation" => /\ session[r].type \in RoomTypeRow
                                          /\ job[r].party <= session[r].type.max_occupancy
  BY <1>1, <1>2 DEF HasRead, TypeRead
<1>5. job[r].op = "update_room_status" =>
                /\ session[r].room \in RoomRow
                /\ job[r].status \in AllowedManually[session[r].room.status]
  BY <1>1, <1>2 DEF HasRead, RoomRead, WritesRoom
<1>6. job[r].op = "check_in" => session[r].nights = 1
  BY <1>1, <1>2 DEF HasRead, NightsRead
<1>7. job[r].op # "update_room_status" => NewStay(r) \in ReservationRow
  BY <1>2, <1>3, <1>4, NewStayRow DEF Asks
<1> QED
  BY <1>1, <1>2, <1>3, <1>4, <1>5, <1>6, <1>7

\* The reservations after a commit: one is made, or one has changed, and its
\* status is the one it had unless the request is about its status.
LEMMA CommitStay ==
    ASSUME DeskInv, NEW r \in Requests, Commit(r)
    PROVE  /\ reservations' \in [Reservations -> ReservationRow \cup {NoReservation}]
           /\ \A y \in Reservations :
                y # job[r].stay \/ job[r].op = "update_room_status" =>
                    reservations'[y] = reservations[y]
           /\ job[r].op # "update_room_status" =>
                /\ reservations'[job[r].stay] \in ReservationRow
                /\ reservations'[job[r].stay].status \in
                     CASE job[r].op = "create_reservation" -> {"confirmed"}
                       [] job[r].op = "update_reservation" -> {reservations[job[r].stay].status}
                       [] job[r].op = "check_in"           -> {"checked_in"}
                       [] job[r].op = "check_out"          -> {"checked_out"}
                       [] OTHER                            -> {"cancelled", "no_show"}
<1> DEFINE x == job[r].stay
           new == NewStay(r)
           loaded == session[r].stay
<1>1. /\ Asks(r)
      /\ job[r].op \in {"create_reservation", "update_room_status", "update_reservation",
                        "cancel_reservation", "mark_no_show", "check_in", "check_out"}
      /\ job[r].op # "update_room_status" => x \in Reservations /\ new \in ReservationRow
      /\ job[r].op \in ChangesStay =>
           reservations[x] \in ReservationRow /\ loaded \in ReservationRow
      /\ loaded.status = "confirmed" \/ job[r].op \notin ChangesStay \/ job[r].op = "check_out"
      /\ job[r].op = "check_out" => loaded.status = "checked_in"
      /\ job[r].op = "create_reservation" => session[r].type \in RoomTypeRow
  BY CommitKnows
<1>2. reservations \in [Reservations -> ReservationRow \cup {NoReservation}]
  BY DEF DeskInv, BookingTypeOK, HotelTypeOK, DeskTypeOK
<1>3. job[r].op # "update_room_status" =>
           /\ job[r].op = "create_reservation" => new.status = "confirmed"
           /\ job[r].op = "update_reservation" => new.status = loaded.status
           /\ job[r].op = "check_in" => new.status = "checked_in"
           /\ job[r].op = "check_out" => new.status = "checked_out"
           /\ job[r].op \in {"cancel_reservation", "mark_no_show"} =>
                new.status \in {"cancelled", "no_show"}
  BY <1>1, NewStayRow DEF Asks
<1>4. WriteStay(r)
  BY DEF Commit
<1>5. CASE job[r].op = "update_room_status"
  <2>1. reservations' = reservations
    BY <1>4, <1>5 DEF WriteStay, ChangesStay
  <2> QED
    BY <1>2, <1>5, <2>1
<1>6. CASE job[r].op = "create_reservation"
  <2>1. reservations' = [reservations EXCEPT ![x] = new]
    BY <1>4, <1>6 DEF WriteStay, ChangesStay
  <2> HIDE DEF new
  <2>2. /\ reservations'[x] = new /\ new \in ReservationRow /\ new.status = "confirmed"
        /\ \A y \in Reservations : y # x => reservations'[y] = reservations[y]
        /\ reservations' \in [Reservations -> ReservationRow \cup {NoReservation}]
    BY <1>1, <1>2, <1>3, <1>6, <2>1
  <2> QED
    BY <1>6, <2>2
<1>7. CASE job[r].op \in {"update_reservation", "cancel_reservation", "mark_no_show",
                          "check_in", "check_out"}
  <2> DEFINE merged == Merge(reservations[x], new, loaded)
  <2>1. reservations' = [reservations EXCEPT ![x] = merged]
    BY <1>4, <1>7 DEF WriteStay, ChangesStay
  <2>2. /\ new \in ReservationRow /\ loaded \in ReservationRow
        /\ reservations[x] \in ReservationRow /\ x \in Reservations
    BY <1>1, <1>7 DEF ChangesStay
  <2> HIDE DEF new, loaded
  <2>3. /\ merged \in ReservationRow
        /\ merged.status =
             IF new.status # loaded.status THEN new.status ELSE reservations[x].status
    BY <2>2, MergedStay
  <2> HIDE DEF merged
  <2>4. /\ reservations'[x] = merged
        /\ \A y \in Reservations : y # x => reservations'[y] = reservations[y]
        /\ reservations' \in [Reservations -> ReservationRow \cup {NoReservation}]
    BY <1>2, <2>1, <2>2, <2>3
  <2>5. merged.status \in
             CASE job[r].op = "update_reservation" -> {reservations[x].status}
               [] job[r].op = "check_in"           -> {"checked_in"}
               [] job[r].op = "check_out"          -> {"checked_out"}
               [] OTHER                            -> {"cancelled", "no_show"}
    <3>1. CASE job[r].op = "update_reservation"
      BY <1>3, <2>3, <3>1
    <3>2. CASE job[r].op = "check_in"
      BY <1>1, <1>3, <2>3, <3>2 DEF ChangesStay
    <3>3. CASE job[r].op = "check_out"
      BY <1>1, <1>3, <2>3, <3>3
    <3>4. CASE job[r].op \in {"cancel_reservation", "mark_no_show"}
      BY <1>1, <1>3, <2>3, <3>4 DEF ChangesStay
    <3> QED
      BY <1>7, <3>1, <3>2, <3>3, <3>4
  <2> QED
    BY <1>7, <2>3, <2>4, <2>5
<1> QED
  BY <1>1, <1>5, <1>6, <1>7

LEMMA CommitRoom ==
    ASSUME DeskInv, NEW r \in Requests, Commit(r)
    PROVE  rooms' \in [Rooms -> RoomRow]
<1>1. rooms \in [Rooms -> RoomRow]
  BY DEF DeskInv, BookingTypeOK, HotelTypeOK, DeskTypeOK
<1>2. WriteRoom(r)
  BY DEF Commit
<1>3. CASE UNCHANGED rooms
  BY <1>1, <1>3
<1>4. CASE WritesRoom(r) /\ rooms' = [rooms EXCEPT ![RoomOf(r)].status = NewRoomStatus(r)]
  <2>1. NewRoomStatus(r) \in RoomStatus
    <3>1. job[r].op \in {"check_in", "check_out", "update_room_status"}
      BY <1>4 DEF WritesRoom, MovesGuest
    <3>2. job[r].op = "update_room_status" => job[r].status \in RoomStatus
      BY CommitKnows, BookingAssumption DEF Asks
    <3> QED
      BY <3>1, <3>2 DEF NewRoomStatus, RoomStatus
  <2> QED
    BY <1>1, <1>4, <2>1 DEF RoomRow
<1> QED
  BY <1>2, <1>3, <1>4 DEF WriteRoom

LEMMA OneMoreLine ==
    ASSUME NEW lines \in Seq(LineRow), NEW line \in LineRow
    PROVE  /\ Append(lines, line) \in Seq(LineRow)
           /\ Len(Append(lines, line)) = Len(lines) + 1
           /\ \A i \in DOMAIN lines : /\ i \in DOMAIN Append(lines, line)
                                      /\ Append(lines, line)[i] = lines[i]
           /\ Len(lines) + 1 \in DOMAIN Append(lines, line)
           /\ Append(lines, line)[Len(lines) + 1] = line
  OBVIOUS

\* The folios after a commit: one is opened, or one has one more room charge.
LEMMA CommitFolio ==
    ASSUME DeskInv, NEW r \in Requests, Commit(r)
    PROVE  /\ folio' \in [Folios -> FolioRow]
           /\ lineItems' \in [Folios -> Seq(LineRow)]
           /\ \A y \in Reservations :
                folio'[y].status = IF job[r].op = "create_reservation" /\ y = job[r].stay
                                   THEN "open" ELSE folio[y].status
           /\ \A y \in Reservations :
                lineItems'[y] = IF PostsCharge(r) /\ y = job[r].stay
                                THEN Append(lineItems[y], Night(Charge(r))) ELSE lineItems[y]
           /\ PostsCharge(r) =>
                Night(Charge(r)) \in LineRow /\ Night(Charge(r)).item_type = "room_charge"
<1> DEFINE x == job[r].stay
<1>1. /\ job[r].op \in {"create_reservation", "update_room_status", "update_reservation",
                        "cancel_reservation", "mark_no_show", "check_in", "check_out"}
      /\ job[r].op # "update_room_status" => x \in Reservations
      /\ job[r].op \in ChangesStay => session[r].stay \in ReservationRow
      /\ session[r] \in SessionRow
  BY CommitKnows
<1>2. folio \in [Reservations -> FolioRow] /\ lineItems \in [Reservations -> Seq(LineRow)]
  BY DEF DeskInv, BookingTypeOK, HotelTypeOK, BillingTypeOK, Reservations
<1>3. WriteFolio(r) /\ Passes(r) /\ phase[r] = "flush"
  BY DEF Commit
<1>4. CASE job[r].op = "create_reservation"
  <2>1. ~ PostsCharge(r)
    BY <1>4 DEF PostsCharge, MovesGuest
  <2>2. folio' = [folio EXCEPT ![x].status = "open"] /\ lineItems' = lineItems
    BY <1>3, <1>4, <2>1 DEF WriteFolio
  <2>3. x \in Reservations /\ [folio[x] EXCEPT !.status = "open"] \in FolioRow
    BY <1>1, <1>2, <1>4 DEF FolioRow, FolioStatus
  <2>4. /\ folio' \in [Reservations -> FolioRow]
        /\ folio'[x].status = "open"
        /\ \A y \in Reservations : y # x => folio'[y] = folio[y]
    BY <1>2, <2>2, <2>3 DEF FolioRow
  <2> QED
    BY <1>2, <1>4, <2>1, <2>2, <2>3, <2>4 DEF Reservations
<1>5. CASE PostsCharge(r)
  <2> DEFINE loaded == session[r].folio
             new == NewFolio(r)
             merged == Merge(folio[x], new, loaded)
             night == Night(Charge(r))
  <2>1. job[r].op \in {"check_in", "check_out"}
    BY <1>5 DEF PostsCharge, MovesGuest
  <2>2. /\ x \in Reservations /\ folio[x] \in FolioRow /\ lineItems[x] \in Seq(LineRow)
        /\ loaded \in FolioRow
        /\ session[r].stay \in ReservationRow /\ session[r].nights \in Nat
    BY <1>1, <1>2, <2>1 DEF SessionRow, ChangesStay
  <2>3. /\ folio' = [folio EXCEPT ![x] = merged]
        /\ lineItems' = [lineItems EXCEPT ![x] = Append(lineItems[x], night)]
    BY <1>3, <1>5, <2>1, <2>2 DEF WriteFolio
  <2>4. Charge(r) \in Int
    <3>1. session[r].stay.rate_per_night \in Int
      BY <2>2, MoneyAssumption DEF ReservationRow
    <3> QED
      BY <2>2, <3>1 DEF Charge
  <2>5. Fits(new) /\ Charge(r) \in Cents
    BY <1>3, <1>5, <2>1 DEF Passes
  <2>6. new \in FolioRow /\ new.status = loaded.status
    <3>1. new = Charged(loaded, Ticks(Charge(r))) /\ Ticks(Charge(r)) \in Int
      BY <2>4 DEF NewFolio, Ticks, TicksPerCent
    <3>2. Charged(loaded, Ticks(Charge(r))).status = loaded.status
      BY <2>2 DEF Charged, FolioRow
    <3> HIDE DEF new, loaded
    <3> QED
      BY <2>2, <2>5, <3>1, <3>2, ChargedRow
  <2>7. night \in LineRow /\ night.item_type = "room_charge"
    BY <2>5 DEF Night, LineRow, LineItemType
  <2> HIDE DEF new, loaded, night
  <2>8. merged \in FolioRow /\ merged.status = folio[x].status
    BY <2>2, <2>6, MergedFolio
  <2> HIDE DEF merged
  <2>9. Append(lineItems[x], night) \in Seq(LineRow)
    BY <2>2, <2>7, OneMoreLine
  <2>10. /\ folio' \in [Reservations -> FolioRow]
         /\ folio'[x].status = folio[x].status
         /\ \A y \in Reservations : y # x => folio'[y] = folio[y]
    BY <1>2, <2>2, <2>3, <2>8
  <2>11. /\ lineItems' \in [Reservations -> Seq(LineRow)]
         /\ lineItems'[x] = Append(lineItems[x], night)
         /\ \A y \in Reservations : y # x => lineItems'[y] = lineItems[y]
    BY <1>2, <2>2, <2>3, <2>9
  <2> QED
    BY <1>5, <2>1, <2>7, <2>10, <2>11 DEF Reservations, night
<1>6. CASE job[r].op # "create_reservation" /\ ~ PostsCharge(r)
  <2>1. folio' = folio /\ lineItems' = lineItems
    BY <1>3, <1>6 DEF WriteFolio
  <2> QED
    BY <1>2, <1>6, <2>1 DEF Reservations
<1> QED
  BY <1>4, <1>5, <1>6

\* A commit makes the reservation asked for and no other.
LEMMA CommitBooks ==
    ASSUME DeskInv, NEW r \in Requests, Commit(r), NEW y \in Reservations
    PROVE  Booked(y)' <=> \/ Booked(y)
                          \/ job[r].op = "create_reservation" /\ y = job[r].stay
<1> DEFINE x == job[r].stay
           made == job[r].op = "create_reservation"
<1>1. CASE y = x /\ job[r].op # "update_room_status"
  <2>1. reservations'[x] \in ReservationRow
    BY <1>1, CommitStay
  <2>2. Booked(y)'
    BY <1>1, <2>1, HotelAssumption DEF Booked
  <2>3. ~ made => Booked(y)
    BY <1>1, CommitKnows DEF Asks, ChangesStay
  <2> QED
    BY <1>1, <2>2, <2>3
<1>2. CASE y # x \/ job[r].op = "update_room_status"
  <2>1. reservations'[y] = reservations[y]
    BY <1>2, CommitStay
  <2> QED
    BY <1>2, <2>1 DEF Booked
<1> QED
  BY <1>1, <1>2

\* A commit keeps the invariant.
LEMMA CommitDesk ==
    ASSUME DeskInv, NEW r \in Requests, Commit(r)
    PROVE  DeskInv'
<1> DEFINE x == job[r].stay
           made == job[r].op = "create_reservation"
<1>1. /\ phase[r] = "flush" /\ InProgress(r) /\ Asks(r)
      /\ job[r].op # "update_room_status" => x \in Reservations
      /\ session[r] \in SessionRow
      /\ job[r].op \in ChangesStay => reservations[x] \in ReservationRow
      /\ job[r].op \in {"create_reservation", "update_room_status", "update_reservation",
                        "cancel_reservation", "mark_no_show", "check_in", "check_out"}
  BY CommitKnows
<1>2. /\ HotelTypeOK /\ EntriesOfRequests
      /\ number \in [Reservations -> [day : Days, seq : Nat]]
      /\ phase \in [Requests -> Phases]
  BY DEF DeskInv, BookingTypeOK
<1>3. /\ Ends(r, "committed")
      /\ UNCHANGED <<payments, roomTypes, guests, today>>
      /\ number' = IF made THEN [number EXCEPT ![x] = session[r].number] ELSE number
  BY DEF Commit
<1>4. \A y \in Reservations : Booked(y)' <=> Booked(y) \/ (made /\ y = x)
  BY CommitBooks
<1>5. HotelTypeOK'
  <2>1. DeskTypeOK'
    BY <1>2, <1>3, CommitStay, CommitRoom DEF HotelTypeOK, DeskTypeOK
  <2>2. BillingTypeOK'
    BY <1>2, <1>3, CommitFolio DEF HotelTypeOK, BillingTypeOK
  <2>3. FolioPerReservation'
    <3>1. ASSUME NEW y \in Reservations
          PROVE  Booked(y)' <=> folio'[y].status # "none"
      <4>1. folio'[y].status = IF made /\ y = x THEN "open" ELSE folio[y].status
        BY CommitFolio
      <4>2. Booked(y) <=> folio[y].status # "none"
        BY <1>2 DEF HotelTypeOK, FolioPerReservation
      <4> QED
        BY <1>4, <4>1, <4>2
    <3> QED
      BY <3>1 DEF FolioPerReservation
  <2> QED
    BY <2>1, <2>2, <2>3 DEF HotelTypeOK
<1>6. number' \in [Reservations -> [day : Days, seq : Nat]]
  BY <1>1, <1>2, <1>3 DEF SessionRow
<1>7. EntriesOfRequests'
  <2>1. Finished' = Finished \cup {r} /\ r \notin Finished
    BY <1>1, <1>2, <1>3 DEF Finished, Ends
  <2>2. IsFiniteSet(Finished) /\ Cardinality(Finished) \in Nat
    <3>1. IsFiniteSet(Requests) /\ Finished \in SUBSET Requests
      BY BookingAssumption, FS_Interval DEF Requests, Finished
    <3> QED
      BY <3>1, FS_Subset, FS_CardinalityType
  <2>3. Cardinality(Finished') = Cardinality(Finished) + 1
    BY <2>1, <2>2, FS_AddElement
  <2>4. ASSUME NEW y \in Reservations
        PROVE  Len(lineItems'[y]) <= Len(lineItems[y]) + 1 /\ Len(lineItems[y]) \in Nat
    <3>1. lineItems[y] \in Seq(LineRow)
      BY <1>2 DEF HotelTypeOK, BillingTypeOK, Reservations
    <3>2. Len(lineItems[y]) \in Nat
      BY <3>1
    <3>3. CASE lineItems'[y] = lineItems[y]
      BY <3>2, <3>3
    <3>4. CASE PostsCharge(r) /\ lineItems'[y] = Append(lineItems[y], Night(Charge(r)))
      <4>1. Night(Charge(r)) \in LineRow
        BY <3>4, CommitFolio
      <4> QED
        BY <3>1, <3>2, <3>4, <4>1, OneMoreLine
    <3> QED
      BY <3>3, <3>4, CommitFolio
  <2>5. ASSUME NEW y \in Reservations
        PROVE  Len(lineItems'[y]) <= 2 + Cardinality(Finished')
    <3>1. Len(lineItems[y]) <= 2 + Cardinality(Finished)
      BY <1>2 DEF EntriesOfRequests
    <3>2. Len(lineItems'[y]) \in Nat
      BY <1>5 DEF HotelTypeOK, BillingTypeOK, Reservations
    <3> QED
      BY <2>2, <2>3, <2>4, <3>1, <3>2
  <2> QED
    BY <1>2, <1>3, <2>5 DEF EntriesOfRequests
<1> QED
  BY <1>1, <1>3, <1>4, <1>5, <1>6, <1>7, EndsDesk

LEMMA NextDesk == DeskInv /\ [BookingNext]_bookingVars => DeskInv'
<1> SUFFICES ASSUME DeskInv, [BookingNext]_bookingVars
             PROVE  DeskInv'
  OBVIOUS
<1>1. ASSUME NEW r \in Requests, Begin(r)
      PROVE  DeskInv'
  BY <1>1, BeginDesk
<1>2. ASSUME NEW r \in Requests, Statement(r)
      PROVE  DeskInv'
  BY <1>2, ReadStayDesk, ReadRoomDesk, SearchRoomsDesk, CountReservationsDesk, ReadFolioDesk,
     TakeLockDesk DEF Statement
<1>3. ASSUME NEW r \in Requests, Commit(r)
      PROVE  DeskInv'
  BY <1>3, CommitDesk
<1>4. ASSUME NEW r \in Requests, Fail(r)
      PROVE  DeskInv'
  BY <1>4, FailDesk
<1>5. ASSUME NextDay, UNCHANGED <<number, progress>>
      PROVE  DeskInv'
  BY <1>5, NextDayDesk
<1>6. ASSUME UNCHANGED bookingVars
      PROVE  DeskInv'
  <2>1. /\ UNCHANGED hotelVars /\ UNCHANGED <<number, job, phase, session, held>>
    BY <1>6 DEF bookingVars, progress
  <2>2. HotelTypeOK'
    BY <2>1, SameTables DEF DeskInv, BookingTypeOK
  <2>3. \A q \in Requests : /\ InProgress(q)' <=> InProgress(q)
                            /\ Makes(q)' <=> Makes(q)
                            /\ HasRead(q)' <=> HasRead(q)
    BY <2>1, OtherRequest
  <2>4. JobsKnown' /\ NewStaysApart' /\ Readings'
    BY <2>1, <2>3 DEF DeskInv, JobsKnown, Asks, Booked, NewStaysApart, Readings, hotelVars
  <2>5. EntriesOfRequests'
    BY <2>1, SameFinished DEF DeskInv, Finished, hotelVars, billingVars
  <2> QED
    BY <2>1, <2>2, <2>4, <2>5 DEF DeskInv, BookingTypeOK
<1> QED
  BY <1>1, <1>2, <1>3, <1>4, <1>5, <1>6 DEF BookingNext

\* What the requests at the desk read, lock and write is well-formed under any
\* interleaving: whatever the statements of reservation_controller.py merge into
\* a row that has changed under them is a row, every reservation has its folio,
\* and no row is locked by two requests.
THEOREM BookingTypes == BookingSpec => []BookingTypeOK
<1>1. DeskInv => BookingTypeOK
  BY DEF DeskInv
<1> QED
  BY <1>1, InitDesk, NextDesk, PTL DEF BookingSpec

-----------------------------------------------------------------------------
(* Confirmation numbers *)

\* What a statement of a request leads to, as far as its number goes.
LEMMA StatementNumbers ==
    ASSUME DeskInv, NEW r \in Requests, Statement(r)
    PROVE  /\ UNCHANGED <<reservations, number, job>>
           /\ \A q \in Requests : q # r => session'[q] = session[q] /\ phase'[q] = phase[q]
           /\ Makes(r) /\ phase'[r] = "flush" =>
                \/ phase[r] = "flush" /\ session'[r] = session[r]
                \/ session'[r].number = NextNumber
           /\ InProgress(r)
<1>1. phase \in [Requests -> Phases] /\ session \in [Requests -> SessionRow]
  BY DEF DeskInv, BookingTypeOK
<1>2. CASE TakeLock(r)
  BY <1>2 DEF TakeLock, hotelVars, InProgress
<1>3. ASSUME NEW statement \in {"search", "count", "stay", "room", "folio"},
             NEW read, Read(r, statement, read),
             statement = "count" => read.number = NextNumber
      PROVE  /\ UNCHANGED <<reservations, number, job>>
             /\ \A q \in Requests : q # r => session'[q] = session[q] /\ phase'[q] = phase[q]
             /\ Makes(r) /\ phase'[r] = "flush" => session'[r].number = NextNumber
             /\ InProgress(r)
  <2>1. /\ phase[r] = statement
        /\ session' = [session EXCEPT ![r] = read]
        /\ phase' = [phase EXCEPT ![r] = Enters(r, statement)]
        /\ UNCHANGED hotelVars /\ UNCHANGED <<number, job>>
    BY <1>3 DEF Read
  <2>2. InProgress(r)
    BY <2>1 DEF InProgress
  <2>3. phase'[r] = Enters(r, statement) /\ session'[r] = read
    BY <1>1, <2>1
  <2>4. Makes(r) /\ phase'[r] = "flush" => statement = "count"
    <3>1. Makes(r) => statement \in {"search", "count"}
      BY <2>1, <2>2, RequestAt DEF Makes, Asks, StatementsOf
    <3>2. Makes(r) /\ statement = "search" => Enters(r, statement) = "count"
      BY DEF Makes, Enters, MovesGuest
    <3> QED
      BY <2>3, <3>1, <3>2
  <2> QED
    BY <1>1, <1>3, <2>1, <2>2, <2>3, <2>4 DEF hotelVars
<1>4. CASE ReadStay(r)
  BY <1>3, <1>4 DEF ReadStay
<1>5. CASE ReadRoom(r)
  BY <1>3, <1>5 DEF ReadRoom
<1>6. CASE SearchRooms(r)
  BY <1>3, <1>6 DEF SearchRooms
<1>7. CASE CountReservations(r)
  <2>1. [session[r] EXCEPT !.number = NextNumber].number = NextNumber
    BY <1>1 DEF SessionRow
  <2> QED
    BY <1>3, <1>7, <2>1 DEF CountReservations
<1>8. CASE ReadFolio(r)
  BY <1>3, <1>8 DEF ReadFolio
<1> QED
  BY <1>2, <1>4, <1>5, <1>6, <1>7, <1>8 DEF Statement

\* The numbers while no reservation is made.
LEMMA NumbersKept ==
    ASSUME DeskInv, NumbersInv, UNCHANGED <<reservations, number>>,
           \A r \in Requests : Makes(r)' /\ phase'[r] = "flush" =>
             \/ Makes(r) /\ phase[r] = "flush" /\ session'[r] = session[r]
             \/ session'[r].number = NextNumber
    PROVE  NumbersInv'
<1>1. Bookings' = Bookings /\ \A x \in Reservations : Booked(x)' <=> Booked(x)
  BY DEF Bookings, Booked
<1>2. NextNumber.seq = Cardinality(Bookings) + 1 /\ Cardinality(Bookings) \in Nat
  BY NextNumberType DEF DeskInv, BookingTypeOK, HotelTypeOK
<1>3. \A r \in Requests : Makes(r)' /\ phase'[r] = "flush" =>
         session'[r].number.seq <= Cardinality(Bookings) + 1
  BY <1>2 DEF NumbersInv
<1> QED
  BY <1>1, <1>3 DEF NumbersInv

LEMMA CommitNumbers ==
    ASSUME DeskInv, NumbersInv, NEW r \in Requests, Commit(r)
    PROVE  NumbersInv'
<1> DEFINE x == job[r].stay
           next == session[r].number
<1>1. /\ InProgress(r) /\ Asks(r) /\ phase[r] = "flush" /\ session[r] \in SessionRow
      /\ job[r].op = "create_reservation" => x \in Reservations
  BY CommitKnows
<1>2. /\ number \in [Reservations -> [day : Days, seq : Nat]]
      /\ phase \in [Requests -> Phases] /\ session \in [Requests -> SessionRow]
  BY DEF DeskInv, BookingTypeOK
<1>3. /\ Ends(r, "committed") /\ Passes(r)
      /\ number' = IF job[r].op = "create_reservation"
                   THEN [number EXCEPT ![x] = next] ELSE number
  BY DEF Commit
<1>4. /\ job' = job /\ phase'[r] = "committed"
      /\ \A q \in Requests : q # r => phase'[q] = phase[q] /\ session'[q] = session[q]
  BY <1>2, <1>3 DEF Ends
<1>5. \A q \in Requests : Makes(q)' /\ phase'[q] = "flush" =>
         q # r /\ Makes(q) /\ phase[q] = "flush" /\ session'[q] = session[q]
  BY <1>4 DEF Makes, InProgress
<1>6. IsFiniteSet(Bookings) /\ Cardinality(Bookings) \in Nat
  BY NextNumberType DEF DeskInv, BookingTypeOK, HotelTypeOK
<1>7. \A y \in Reservations : number[y].seq \in Nat
  BY <1>2
<1>8. CASE job[r].op = "create_reservation"
  <2>1. ~ Booked(x) /\ x \in Reservations
    BY <1>1, <1>8 DEF Asks
  <2>2. \A y \in Reservations : Booked(y)' <=> Booked(y) \/ y = x
    BY <1>8, CommitBooks
  <2>3. Bookings' = Bookings \cup {x} /\ x \notin Bookings
    BY <2>1, <2>2 DEF Bookings
  <2>4. Cardinality(Bookings') = Cardinality(Bookings) + 1
    BY <1>6, <2>3, FS_AddElement
  <2>5. /\ number'[x] = next
        /\ \A y \in Reservations : y # x => number'[y] = number[y]
    BY <1>2, <1>3, <1>8, <2>1
  <2>6. next.seq <= Cardinality(Bookings) + 1 /\ next.seq \in Nat
    BY <1>1, <1>8 DEF NumbersInv, Makes, SessionRow
  <2>7. \A y \in Reservations : number[y] # next
    BY <1>1, <1>3, <1>8 DEF Passes
  <2>8. \A y \in Reservations : number'[y].seq <= Cardinality(Bookings')
    <3>1. \A y \in Reservations : number[y].seq <= Cardinality(Bookings)
      BY DEF NumbersInv
    <3> QED
      BY <1>6, <1>7, <2>4, <2>5, <2>6, <3>1
  <2>9. \A q \in Requests : Makes(q)' /\ phase'[q] = "flush" =>
           session'[q].number.seq <= Cardinality(Bookings') + 1
    <3>1. SUFFICES ASSUME NEW q \in Requests, Makes(q)', phase'[q] = "flush"
                   PROVE  session'[q].number.seq <= Cardinality(Bookings') + 1
      OBVIOUS
    <3>2. Makes(q) /\ phase[q] = "flush" /\ session'[q] = session[q]
      BY <1>5, <3>1
    <3>3. session[q].number.seq <= Cardinality(Bookings) + 1 /\ session[q].number.seq \in Nat
      BY <1>2, <3>2 DEF NumbersInv, SessionRow
    <3> QED
      BY <1>6, <2>4, <3>2, <3>3
  <2>10. ASSUME NEW y \in Reservations, NEW z \in Reservations, Booked(y)', Booked(z)', y # z
         PROVE  number'[y] # number'[z]
    <3>1. CASE y # x /\ z # x
      BY <2>2, <2>5, <2>10, <3>1 DEF NumbersInv
    <3>2. CASE y = x \/ z = x
      BY <2>5, <2>7, <2>10, <3>2
    <3> QED
      BY <3>1, <3>2
  <2> QED
    BY <2>8, <2>9, <2>10 DEF NumbersInv
<1>9. CASE job[r].op # "create_reservation"
  <2>1. number' = number
    BY <1>3, <1>9
  <2>2. \A y \in Reservations : Booked(y)' <=> Booked(y)
    BY <1>9, CommitBooks
  <2>3. Bookings' = Bookings
    BY <2>2 DEF Bookings
  <2>4. \A q \in Requests : Makes(q)' /\ phase'[q] = "flush" =>
           session'[q].number.seq <= Cardinality(Bookings) + 1
    BY <1>5 DEF NumbersInv
  <2> QED
    BY <2>1, <2>2, <2>3, <2>4 DEF NumbersInv
<1> QED
  BY <1>8, <1>9

LEMMA NextNumbers == DeskInv /\ NumbersInv /\ [BookingNext]_bookingVars => NumbersInv'
<1> SUFFICES ASSUME DeskInv, NumbersInv, [BookingNext]_bookingVars
             PROVE  NumbersInv'
  OBVIOUS
<1>1. phase \in [Requests -> Phases]
  BY DEF DeskInv, BookingTypeOK
<1>2. ASSUME NEW r \in Requests, Begin(r)
      PROVE  NumbersInv'
  <2>1. /\ UNCHANGED hotelVars /\ UNCHANGED <<number, session>>
        /\ phase'[r] # "flush"
        /\ \A q \in Requests : q # r => phase'[q] = phase[q] /\ job'[q] = job[q]
    BY <1>1, <1>2 DEF Begin, DeskInv, BookingTypeOK
  <2>2. \A q \in Requests : Makes(q)' /\ phase'[q] = "flush" =>
           Makes(q) /\ phase[q] = "flush" /\ session'[q] = session[q]
    BY <2>1 DEF Makes, InProgress
  <2> QED
    BY <2>1, <2>2, NumbersKept DEF hotelVars
<1>3. ASSUME NEW r \in Requests, Statement(r)
      PROVE  NumbersInv'
  <2>1. /\ UNCHANGED <<reservations, number, job>>
        /\ \A q \in Requests : q # r => session'[q] = session[q] /\ phase'[q] = phase[q]
        /\ Makes(r) /\ phase'[r] = "flush" =>
             \/ phase[r] = "flush" /\ session'[r] = session[r]
             \/ session'[r].number = NextNumber
        /\ InProgress(r)
    BY <1>3, StatementNumbers
  <2>2. \A q \in Requests : Makes(q)' => Makes(q)
    BY <2>1 DEF Makes, InProgress
  <2>3. \A q \in Requests : Makes(q)' /\ phase'[q] = "flush" =>
           \/ Makes(q) /\ phase[q] = "flush" /\ session'[q] = session[q]
           \/ session'[q].number = NextNumber
    BY <2>1, <2>2
  <2> QED
    BY <2>1, <2>3, NumbersKept
<1>4. ASSUME NEW r \in Requests, Commit(r)
      PROVE  NumbersInv'
  BY <1>4, CommitNumbers
<1>5. ASSUME NEW r \in Requests, Fail(r)
      PROVE  NumbersInv'
  <2>1. /\ UNCHANGED hotelVars /\ UNCHANGED <<number, job>> /\ phase'[r] = "failed"
        /\ \A q \in Requests : q # r => phase'[q] = phase[q] /\ session'[q] = session[q]
    BY <1>1, <1>5 DEF Fail, Ends, DeskInv
  <2>2. \A q \in Requests : Makes(q)' /\ phase'[q] = "flush" =>
           Makes(q) /\ phase[q] = "flush" /\ session'[q] = session[q]
    BY <2>1 DEF Makes, InProgress
  <2> QED
    BY <2>1, <2>2, NumbersKept DEF hotelVars
<1>6. ASSUME UNCHANGED <<reservations, number, progress>>
      PROVE  NumbersInv'
  <2>1. \A q \in Requests : Makes(q)' /\ phase'[q] = "flush" =>
           Makes(q) /\ phase[q] = "flush" /\ session'[q] = session[q]
    BY <1>6 DEF Makes, InProgress, progress
  <2> QED
    BY <1>6, <2>1, NumbersKept DEF progress
<1> QED
  BY <1>2, <1>3, <1>4, <1>5, <1>6 DEF BookingNext, bookingVars, hotelVars, NextDay

\* Two reservations never have the same confirmation number, for any number of
\* requests that count the reservations at the same time
\* (reservation_controller.py:26): the loser of a race fails on the unique index.
\* A number is never beyond the count it was made from, and the count never
\* falls, so that the next number is always free.
THEOREM NumbersUnique == BookingSpec => []ConfirmationNumbers
<1>1. BookingInit => DeskInv /\ NumbersInv
  <2>1. BookingInit => NumbersInv
    BY SeededTables DEF BookingInit, NumbersInv, Makes, InProgress
  <2> QED
    BY <2>1, InitDesk
<1>2. (DeskInv /\ NumbersInv) /\ [BookingNext]_bookingVars => (DeskInv /\ NumbersInv)'
  BY NextDesk, NextNumbers
<1>3. DeskInv /\ NumbersInv => ConfirmationNumbers
  <2> SUFFICES ASSUME DeskInv, NumbersInv PROVE ConfirmationNumbers
    OBVIOUS
  <2>1. NextNumber.seq = Cardinality(Bookings) + 1 /\ Cardinality(Bookings) \in Nat
    BY NextNumberType DEF DeskInv, BookingTypeOK, HotelTypeOK
  <2>2. \A x \in Reservations : number[x].seq <= Cardinality(Bookings) /\ number[x].seq \in Nat
    BY DEF NumbersInv, DeskInv, BookingTypeOK
  <2> QED
    BY <2>1, <2>2 DEF NumbersInv, ConfirmationNumbers
<1> QED
  BY <1>1, <1>2, <1>3, PTL DEF BookingSpec

-----------------------------------------------------------------------------
(* Room charges *)

\* While no line is written and no status changes.
LEMMA ChargesKept ==
    ASSUME ChargesInv, UNCHANGED <<reservations, lineItems>>,
           \A r \in Requests : Departs(r)' =>
             /\ job'[r] = job[r]
             /\ Departs(r) \/ (job[r].stay \in Reservations /\ HasStatus(job[r].stay, "checked_in"))
    PROVE  ChargesInv'
<1>1. \A x \in Reservations : /\ HasRoomCharge(x)' <=> HasRoomCharge(x)
                              /\ HasStatus(x, "checked_in")' <=> HasStatus(x, "checked_in")
                              /\ HasStatus(x, "checked_out")' <=> HasStatus(x, "checked_out")
  BY DEF HasRoomCharge, HasStatus, Booked
<1>2. ArrivalsAreCharged'
  BY DEF ChargesInv, ArrivalsAreCharged, HasStatus, Booked
<1>3. ASSUME NEW r \in Requests, Departs(r)'
      PROVE  HasRoomCharge(job[r].stay)'
  <2>1. job'[r] = job[r] /\ HasRoomCharge(job[r].stay)
    BY <1>3 DEF ChargesInv, ArrivalsAreCharged, HasRoomCharge
  <2> QED
    BY <2>1 DEF HasRoomCharge
<1> QED
  BY <1>2, <1>3 DEF ChargesInv

\* A commit keeps the room charges there are,
LEMMA ChargesStay ==
    ASSUME DeskInv, NEW r \in Requests, Commit(r), NEW x \in Reservations, HasRoomCharge(x)
    PROVE  \E i \in DOMAIN lineItems'[x] : lineItems'[x][i].item_type = "room_charge"
<1>1. lineItems[x] \in Seq(LineRow)
  BY DEF DeskInv, BookingTypeOK, HotelTypeOK, BillingTypeOK, Reservations
<1>2. CASE lineItems'[x] = lineItems[x]
  BY <1>2 DEF HasRoomCharge
<1>3. CASE PostsCharge(r) /\ lineItems'[x] = Append(lineItems[x], Night(Charge(r)))
  <2>1. Night(Charge(r)) \in LineRow
    BY <1>3, CommitFolio
  <2>2. PICK i \in DOMAIN lineItems[x] : lineItems[x][i].item_type = "room_charge"
    BY DEF HasRoomCharge
  <2>3. /\ i \in DOMAIN Append(lineItems[x], Night(Charge(r)))
        /\ Append(lineItems[x], Night(Charge(r)))[i] = lineItems[x][i]
    BY <1>1, <2>1, <2>2, OneMoreLine
  <2> QED
    BY <1>3, <2>2, <2>3
<1> QED
  BY <1>2, <1>3, CommitFolio

\* and that of an arrival makes one.
LEMMA ArrivalCharges ==
    ASSUME DeskInv, NEW r \in Requests, Commit(r), job[r].op = "check_in", NEW x, x = job[r].stay
    PROVE  \E i \in DOMAIN lineItems'[x] : lineItems'[x][i].item_type = "room_charge"
<1> DEFINE night == Night(Charge(r))
<1>1. x \in Reservations /\ PostsCharge(r)
  BY CommitKnows DEF PostsCharge, MovesGuest
<1>2. lineItems[x] \in Seq(LineRow)
  BY <1>1 DEF DeskInv, BookingTypeOK, HotelTypeOK, BillingTypeOK, Reservations
<1>3. /\ night \in LineRow /\ night.item_type = "room_charge"
      /\ lineItems'[x] = Append(lineItems[x], night)
  BY <1>1, CommitFolio
<1> HIDE DEF night
<1>4. /\ Len(lineItems[x]) + 1 \in DOMAIN Append(lineItems[x], night)
      /\ Append(lineItems[x], night)[Len(lineItems[x]) + 1] = night
  BY <1>2, <1>3, OneMoreLine
<1> QED
  BY <1>3, <1>4

LEMMA CommitCharges ==
    ASSUME DeskInv, ChargesInv, NEW r \in Requests, Commit(r)
    PROVE  ChargesInv'
<1> DEFINE x == job[r].stay
           ChargedNow(y) ==
             \E i \in DOMAIN lineItems'[y] : lineItems'[y][i].item_type = "room_charge"
<1>1. /\ InProgress(r) /\ Asks(r) /\ phase[r] = "flush"
      /\ job[r].op # "update_room_status" => x \in Reservations
      /\ job[r].op \in {"create_reservation", "update_room_status", "update_reservation",
                        "cancel_reservation", "mark_no_show", "check_in", "check_out"}
  BY CommitKnows
<1>2. \A y \in Reservations : HasRoomCharge(y) => ChargedNow(y)
  BY ChargesStay
<1>3. job' = job /\ phase'[r] = "committed" /\ \A q \in Requests : q # r => phase'[q] = phase[q]
  BY DEF Commit, Ends, DeskInv, BookingTypeOK
<1>4. ASSUME NEW y \in Reservations,
             HasStatus(y, "checked_in")' \/ HasStatus(y, "checked_out")'
      PROVE  ChargedNow(y)
  <2>1. reservations'[y].status \in {"checked_in", "checked_out"} /\ Booked(y)'
    BY <1>4 DEF HasStatus
  <2>2. CASE y # x \/ job[r].op = "update_room_status"
    <3>1. reservations'[y] = reservations[y]
      BY <2>2, CommitStay
    <3>2. HasRoomCharge(y)
      BY <2>1, <3>1 DEF ChargesInv, ArrivalsAreCharged, HasStatus, Booked, HasRoomCharge
    <3> QED
      BY <1>2, <3>2
  <2>3. CASE y = x /\ job[r].op # "update_room_status"
    <3>1. reservations'[x].status \in
             CASE job[r].op = "create_reservation" -> {"confirmed"}
               [] job[r].op = "update_reservation" -> {reservations[x].status}
               [] job[r].op = "check_in"           -> {"checked_in"}
               [] job[r].op = "check_out"          -> {"checked_out"}
               [] OTHER                            -> {"cancelled", "no_show"}
      BY <2>3, CommitStay
    <3>2. job[r].op \in {"update_reservation", "check_in", "check_out"}
      BY <1>1, <2>1, <2>3, <3>1
    <3>3. CASE job[r].op = "update_reservation"
      <4>1. Booked(x) /\ reservations[x].status \in {"checked_in", "checked_out"}
        BY <1>1, <2>1, <2>3, <3>1, <3>3 DEF Asks, ChangesStay
      <4>2. HasRoomCharge(y)
        BY <2>3, <4>1 DEF ChargesInv, ArrivalsAreCharged, HasStatus, HasRoomCharge
      <4> QED
        BY <1>2, <4>2
    <3>4. CASE job[r].op = "check_in"
      BY <2>3, <3>4, ArrivalCharges
    <3>5. CASE job[r].op = "check_out"
      <4>1. HasRoomCharge(x)
        BY <1>1, <3>5 DEF ChargesInv, Departs
      <4> QED
        BY <1>2, <2>3, <4>1
    <3> QED
      BY <3>2, <3>3, <3>4, <3>5
  <2> QED
    BY <2>2, <2>3
<1>5. ASSUME NEW q \in Requests, Departs(q)'
      PROVE  HasRoomCharge(job[q].stay)'
  <2>1. q # r /\ Departs(q)
    BY <1>3, <1>5 DEF Departs, InProgress
  <2>2. HasRoomCharge(job[q].stay) /\ job[q].stay \in Reservations
    BY <2>1, RequestAt DEF ChargesInv, Departs
  <2>3. ChargedNow(job[q].stay)
    BY <1>2, <2>2
  <2> QED
    BY <1>3, <2>3 DEF HasRoomCharge
<1>6. ArrivalsAreCharged'
  BY <1>4 DEF ArrivalsAreCharged
<1> QED
  BY <1>5, <1>6 DEF ChargesInv

LEMMA NextCharges == DeskInv /\ ChargesInv /\ [BookingNext]_bookingVars => ChargesInv'
<1> SUFFICES ASSUME DeskInv, ChargesInv, [BookingNext]_bookingVars
             PROVE  ChargesInv'
  OBVIOUS
<1>1. phase \in [Requests -> Phases]
  BY DEF DeskInv, BookingTypeOK
<1>2. ASSUME NEW r \in Requests, Begin(r)
      PROVE  ChargesInv'
  <2>1. PICK asked \in BookingJobs :
          /\ job' = [job EXCEPT ![r] = asked]
          /\ phase' = [phase EXCEPT ![r] =
               CASE asked.op = "create_reservation" -> "search"
                 [] asked.op = "update_room_status" -> "room"
                 [] OTHER -> "stay"]
    BY <1>2 DEF Begin
  <2>2. job \in [Requests -> BookingJobs \cup {NoJob}]
    BY DEF DeskInv, BookingTypeOK
  <2>3. job'[r] = asked /\ (asked.op = "check_out" => phase'[r] = "stay")
    BY <1>1, <2>1, <2>2
  <2>4. \A q \in Requests : q # r => phase'[q] = phase[q] /\ job'[q] = job[q]
    BY <1>1, <2>1, <2>2
  <2>5. \A q \in Requests : Departs(q)' => job'[q] = job[q] /\ Departs(q)
    BY <2>3, <2>4 DEF Departs, InProgress
  <2> QED
    BY <1>2, <2>5, ChargesKept DEF Begin, hotelVars, billingVars
<1>3. ASSUME NEW r \in Requests, NEW statement \in {"search", "count", "stay", "room", "folio"},
             NEW read, Read(r, statement, read)
      PROVE  ChargesInv'
  <2>1. /\ phase[r] = statement /\ Passes(r) /\ job' = job
        /\ \A q \in Requests : q # r => phase'[q] = phase[q]
        /\ UNCHANGED hotelVars
    BY <1>1, <1>3 DEF Read
  <2>2. InProgress(r)
    BY <2>1 DEF InProgress
  <2>3. Departs(r)' => \/ Departs(r)
                       \/ job[r].stay \in Reservations /\ HasStatus(job[r].stay, "checked_in")
    <3>1. CASE statement = "stay" /\ job[r].op = "check_out"
      <4>1. job[r].stay \in Reservations
        BY <2>2, <3>1, RequestAt
      <4>2. HasStatus(job[r].stay, "checked_in")
        BY <2>1, <3>1 DEF Passes
      <4> QED
        BY <4>1, <4>2
    <3>2. CASE statement # "stay" \/ job[r].op # "check_out"
      BY <2>1, <2>2, <3>2 DEF Departs
    <3> QED
      BY <3>1, <3>2
  <2>4. \A q \in Requests : Departs(q)' =>
          /\ job'[q] = job[q]
          /\ Departs(q) \/ (job[q].stay \in Reservations /\ HasStatus(job[q].stay, "checked_in"))
    BY <2>1, <2>3 DEF Departs, InProgress
  <2> QED
    BY <2>1, <2>4, ChargesKept DEF hotelVars, billingVars
<1>4. ASSUME NEW r \in Requests, Statement(r), ~ TakeLock(r)
      PROVE  ChargesInv'
  BY <1>3, <1>4 DEF Statement, ReadStay, ReadRoom, SearchRooms, CountReservations, ReadFolio
<1>5. ASSUME NEW r \in Requests, Commit(r)
      PROVE  ChargesInv'
  BY <1>5, CommitCharges
<1>6. ASSUME NEW r \in Requests, Fail(r)
      PROVE  ChargesInv'
  <2>1. /\ UNCHANGED hotelVars /\ job' = job /\ phase'[r] = "failed"
        /\ \A q \in Requests : q # r => phase'[q] = phase[q]
    BY <1>1, <1>6 DEF Fail, Ends
  <2>2. \A q \in Requests : Departs(q)' => job'[q] = job[q] /\ Departs(q)
    BY <2>1 DEF Departs, InProgress
  <2> QED
    BY <2>1, <2>2, ChargesKept DEF hotelVars, billingVars
<1>7. ASSUME UNCHANGED <<reservations, lineItems, job, phase>>
      PROVE  ChargesInv'
  <2>1. \A q \in Requests : Departs(q)' => job'[q] = job[q] /\ Departs(q)
    BY <1>7 DEF Departs, InProgress
  <2> QED
    BY <1>7, <2>1, ChargesKept
<1>8. ASSUME NEW r \in Requests, TakeLock(r)
      PROVE  ChargesInv'
  BY <1>7, <1>8 DEF TakeLock, hotelVars, billingVars
<1>9. ASSUME NextDay, UNCHANGED <<number, progress>>
      PROVE  ChargesInv'
  BY <1>7, <1>9 DEF NextDay, progress, billingVars
<1>10. ASSUME UNCHANGED bookingVars
       PROVE  ChargesInv'
  BY <1>7, <1>10 DEF bookingVars, hotelVars, billingVars, progress
<1> QED
  BY <1>2, <1>4, <1>5, <1>6, <1>8, <1>9, <1>10 DEF BookingNext

\* A guest who has arrived has been charged for the night, whatever overlaps
\* and whatever fails: the status and the charge of reservation_controller.py:170
\* appear at one commit, a departure only follows an arrival it has read, and no
\* commit takes a line back.
THEOREM ArrivalsCharged == BookingSpec => []ArrivalsAreCharged
<1>1. BookingInit => DeskInv /\ ChargesInv
  <2>1. BookingInit => ChargesInv
    BY SeededTables DEF BookingInit, ChargesInv, Departs, InProgress
  <2> QED
    BY <2>1, InitDesk
<1>2. (DeskInv /\ ChargesInv) /\ [BookingNext]_bookingVars => (DeskInv /\ ChargesInv)'
  BY NextDesk, NextCharges
<1>3. ChargesInv => ArrivalsAreCharged
  BY DEF ChargesInv
<1> QED
  BY <1>1, <1>2, <1>3, PTL DEF BookingSpec

-----------------------------------------------------------------------------
(* Commits of requests whose readings still hold *)

\* Only its own commit makes a request committed.
LEMMA CommitSteps ==
    ASSUME DeskInv, [BookingNext]_bookingVars, NEW r \in Requests,
           phase[r] = "flush", phase'[r] = "committed"
    PROVE  Commit(r)
<1>1. phase \in [Requests -> Phases]
  BY DEF DeskInv, BookingTypeOK
<1>2. phase' # phase
  OBVIOUS
<1>3. PICK q \in Requests : Begin(q) \/ Statement(q) \/ Commit(q) \/ Fail(q)
  BY <1>2 DEF BookingNext, bookingVars, progress
<1>4. CASE Begin(q)
  <2>1. phase[q] = "idle" /\ \A p \in Requests : p # q => phase'[p] = phase[p]
    BY <1>1, <1>4 DEF Begin
  <2> QED
    BY <1>1, <2>1
<1>5. CASE Statement(q)
  <2>1. \A p \in Requests : p # q => phase'[p] = phase[p]
    BY <1>5, StatementNumbers
  <2>2. CASE TakeLock(q)
    BY <2>2 DEF TakeLock
  <2>3. ASSUME NEW statement \in {"search", "count", "stay", "room", "folio"},
               NEW read, Read(q, statement, read)
        PROVE  phase[q] # "flush"
    BY <2>3 DEF Read
  <2>4. CASE ~ TakeLock(q)
    <3>1. phase[q] # "flush"
      BY <1>5, <2>3, <2>4
         DEF Statement, ReadStay, ReadRoom, SearchRooms, CountReservations, ReadFolio
    <3> QED
      BY <2>1, <3>1
  <2> QED
    BY <2>2, <2>4
<1>6. CASE Commit(q) \/ Fail(q)
  <2>1. \A p \in Requests : p # q => phase'[p] = phase[p]
    BY <1>1, <1>6 DEF Commit, Fail, Ends
  <2>2. Fail(q) => phase'[q] = "failed"
    BY <1>1 DEF Fail, Ends
  <2> QED
    BY <1>6, <2>1, <2>2
<1> QED
  BY <1>3, <1>4, <1>5, <1>6

\* What a fresh commit writes: the columns changed in memory are those of the row.
LEMMA FreshStay ==
    ASSUME DeskInv, NEW r \in Requests, Commit(r), job[r].op \in ChangesStay,
           session[r].stay = reservations[job[r].stay]
    PROVE  reservations' = [reservations EXCEPT ![job[r].stay] = NewStay(r)]
<1> DEFINE x == job[r].stay
           new == NewStay(r)
           loaded == session[r].stay
<1>1. /\ job[r].op # "update_room_status" /\ job[r].op # "create_reservation"
      /\ new \in ReservationRow /\ loaded \in ReservationRow /\ reservations[x] \in ReservationRow
  BY CommitKnows DEF ChangesStay
<1>2. reservations' = [reservations EXCEPT ![x] = Merge(reservations[x], new, loaded)]
  BY <1>1 DEF Commit, WriteStay
<1> HIDE DEF new
<1>3. Merge(reservations[x], new, loaded) = new
  BY <1>1, MergedStay
<1> QED
  BY <1>2, <1>3 DEF new

\* The room whose status is to change has been read and is still the same.
LEMMA FreshRoom ==
    ASSUME DeskInv, NEW r \in Requests, Commit(r), WritesRoom(r),
           session[r].room = rooms[RoomOf(r)]
    PROVE  rooms' = [rooms EXCEPT ![RoomOf(r)].status = NewRoomStatus(r)]
<1> DEFINE room == RoomOf(r)
<1>1. rooms \in [Rooms -> RoomRow]
  BY DEF DeskInv, BookingTypeOK, HotelTypeOK, DeskTypeOK
<1>2. WriteRoom(r) /\ Wanted(r) \subseteq held[r]
  BY DEF Commit
<1>3. CASE <<"rooms", room>> \in held[r]
  BY <1>2, <1>3 DEF WriteRoom
<1>4. CASE <<"rooms", room>> \notin held[r]
  <2>1. rooms' = rooms
    BY <1>2, <1>4 DEF WriteRoom
  <2>2. <<"rooms", room>> \notin Wanted(r)
    BY <1>2, <1>4
  <2>3. session[r].room.status = NewRoomStatus(r)
    BY <2>2, Zenon DEF Wanted
  <2>4. rooms[room].status = NewRoomStatus(r)
    BY <2>3
  <2> HIDE DEF room
  <2>5. rooms = [rooms EXCEPT ![room].status = rooms[room].status]
    BY <1>1 DEF RoomRow
  <2> QED
    BY <2>1, <2>4, <2>5 DEF room
<1> QED
  BY <1>3, <1>4

\* The charge that is posted is the one of Billing.tla.
LEMMA FreshCharge ==
    ASSUME DeskInv, NEW r \in Requests, Commit(r), PostsCharge(r), NEW nights,
           nights = session[r].nights,
           session[r].stay = reservations[job[r].stay], session[r].folio = folio[job[r].stay]
    PROVE  ApplyRoomCharges(job[r].stay, reservations[job[r].stay].rate_per_night, nights)
<1> DEFINE x == job[r].stay
           charge == Charge(r)
           ticks == Ticks(charge)
<1>1. job[r].op \in {"check_in", "check_out"}
  BY DEF PostsCharge, MovesGuest
<1>2. /\ x \in Reservations /\ reservations[x] \in ReservationRow
      /\ session[r] \in SessionRow /\ session[r].stay \in ReservationRow
      /\ Asks(r) /\ phase[r] = "flush"
  BY <1>1, CommitKnows DEF ChangesStay
<1>3. /\ folio \in [Folios -> FolioRow] /\ lineItems \in [Folios -> Seq(LineRow)]
      /\ x \in Folios /\ folio[x] \in FolioRow
  BY <1>2 DEF DeskInv, BookingTypeOK, HotelTypeOK, BillingTypeOK, Reservations
<1>4. charge = reservations[x].rate_per_night * nights /\ charge \in Int
  <2>1. reservations[x].rate_per_night \in Int
    BY <1>2, MoneyAssumption DEF ReservationRow
  <2>2. nights \in Int
    BY <1>2 DEF SessionRow
  <2> QED
    BY <2>1, <2>2 DEF Charge
<1>5. charge \in Cents /\ Fits(NewFolio(r))
  BY <1>1, <1>2 DEF Commit, Passes
<1>6. RoundCents(ticks) = charge /\ ticks \in Int
  BY <1>4, RoundCentsExact DEF Ticks, TicksPerCent
<1>7. NewFolio(r) = Charged(folio[x], ticks)
  BY DEF NewFolio
<1>8. folio' = [folio EXCEPT ![x] = Charged(folio[x], ticks)]
  <2>1. folio' = [folio EXCEPT ![x] = Merge(folio[x], NewFolio(r), folio[x])]
    BY <1>1 DEF Commit, WriteFolio
  <2>2. NewFolio(r) \in FolioRow
    BY <1>3, <1>5, <1>6, <1>7, ChargedRow
  <2>3. Merge(folio[x], NewFolio(r), folio[x]) = NewFolio(r)
    BY <1>3, <2>2, MergedFolio
  <2> QED
    BY <1>7, <2>1, <2>3
<1>9. lineItems' = [lineItems EXCEPT ![x] = Append(lineItems[x],
                      [item_type |-> "room_charge", void |-> FALSE, total |-> RoundCents(ticks)])]
  <2>1. lineItems' = [lineItems EXCEPT ![x] = Append(lineItems[x], Night(charge))]
    BY <1>1 DEF Commit, WriteFolio
  <2> QED
    BY <1>6, <2>1 DEF Night
<1>10. Len(lineItems[x]) < MaxEntries
  <2>1. Finished \in SUBSET (Requests \ {r})
    BY <1>2 DEF Finished
  <2>2. IsFiniteSet(Requests) /\ Cardinality(Requests) = MaxRequests
    BY BookingAssumption, FS_Interval DEF Requests
  <2>3. IsFiniteSet(Requests \ {r}) /\ Cardinality(Requests \ {r}) = MaxRequests - 1
    BY <2>2, FS_RemoveElement
  <2>4. Cardinality(Finished) <= MaxRequests - 1 /\ Cardinality(Finished) \in Nat
    BY <2>1, <2>3, FS_Subset, FS_CardinalityType
  <2>5. Len(lineItems[x]) <= 2 + Cardinality(Finished)
    BY <1>2 DEF DeskInv, EntriesOfRequests
  <2>6. Len(lineItems[x]) \in Nat
    BY <1>3
  <2> QED
    BY <2>4, <2>5, <2>6, SeedAssumption, BookingAssumption, MoneyAssumption
<1>11. folio[x].status # "none"
  BY <1>1, <1>2 DEF Asks, ChangesStay, DeskInv, BookingTypeOK, HotelTypeOK, FolioPerReservation
<1>12. payments' = payments
  BY DEF Commit
<1>13. PostLine(x, "room_charge", FALSE, ticks)
  <2> HIDE DEF x, ticks
  <2> QED
    BY <1>5, <1>6, <1>7, <1>8, <1>9, <1>10, <1>12 DEF PostLine
<1> QED
  BY <1>4, <1>11, <1>13 DEF ApplyRoomCharges

LEMMA FreshCreate ==
    ASSUME DeskInv, NEW r \in Requests, Commit(r), Fresh(r), job[r].op = "create_reservation"
    PROVE  CreateReservation(job[r].stay, job[r].guest, job[r].room, job[r].check_in_date,
                             job[r].check_out_date, job[r].party)
<1> DEFINE asked == job[r]
           x == asked.stay
           type == roomTypes[rooms[asked.room].room_type]
<1>1. /\ asked \in BookingJobs /\ ~ Booked(x) /\ x \in Reservations
      /\ asked.party <= session[r].type.max_occupancy
  BY CommitKnows DEF Asks
<1>2. asked.guest \in Guests /\ asked.check_in_date < asked.check_out_date
  BY <1>1, BookingAssumption
<1>3. guests = Guests
  BY DEF DeskInv, EntriesOfRequests
<1>4. /\ NewStay(r) = [status |-> "confirmed", guest_id |-> asked.guest, room_id |-> asked.room,
              check_in_date |-> asked.check_in_date, check_out_date |-> asked.check_out_date,
              party |-> asked.party, rate_per_night |-> session[r].type.base_rate]
  BY DEF NewStay
<1>5. /\ asked.room \in AvailableRooms(asked.check_in_date, asked.check_out_date)
      /\ session[r].type = type
  BY <1>4 DEF Fresh, MovesGuest
<1>6. reservations' = [reservations EXCEPT ![x] = NewStay(r)]
  BY DEF Commit, WriteStay, ChangesStay
<1>7. ~ WritesRoom(r) /\ ~ PostsCharge(r)
  BY DEF WritesRoom, PostsCharge, MovesGuest
<1>8. CreateFolio(x)
  <2>1. folio[x].status = "none"
    BY <1>1 DEF DeskInv, BookingTypeOK, HotelTypeOK, FolioPerReservation, DeskTypeOK,
                BillingTypeOK, FolioRow, Reservations
  <2>2. /\ folio' = [folio EXCEPT ![x].status = "open"]
        /\ lineItems' = lineItems /\ payments' = payments
    BY <1>7 DEF Commit, WriteFolio
  <2> QED
    BY <2>1, <2>2 DEF CreateFolio
<1>9. UNCHANGED <<rooms, roomTypes, guests, today>>
  BY <1>7 DEF Commit, WriteRoom
<1>10. reservations' = [reservations EXCEPT ![x] =
          [status |-> "confirmed", guest_id |-> asked.guest, room_id |-> asked.room,
           check_in_date |-> asked.check_in_date, check_out_date |-> asked.check_out_date,
           party |-> asked.party, rate_per_night |-> type.base_rate]]
  BY <1>4, <1>5, <1>6
<1> HIDE DEF x, asked
<1>11. asked.party <= type.max_occupancy
  BY <1>1, <1>5
<1>12. CreateReservation(x, asked.guest, asked.room, asked.check_in_date,
                         asked.check_out_date, asked.party)
  BY <1>1, <1>2, <1>3, <1>5, <1>8, <1>9, <1>10, <1>11 DEF CreateReservation
<1> QED
  BY <1>12 DEF x, asked

\* What a fresh change of a reservation leaves alone.
LEMMA FreshOnlyStay ==
    ASSUME NEW r \in Requests, Commit(r),
           job[r].op \in {"update_reservation", "cancel_reservation", "mark_no_show"}
    PROVE  UNCHANGED <<rooms, roomTypes, guests, today, billingVars>>
<1>1. ~ WritesRoom(r) /\ ~ PostsCharge(r)
  BY DEF WritesRoom, PostsCharge, MovesGuest
<1> QED
  BY <1>1 DEF Commit, WriteRoom, WriteFolio, billingVars

LEMMA FreshUpdate ==
    ASSUME DeskInv, NEW r \in Requests, Commit(r), Fresh(r), job[r].op = "update_reservation"
    PROVE  UpdateReservation(job[r].stay, NewStay(r).room_id, NewStay(r).check_in_date,
                             NewStay(r).check_out_date, NewStay(r).party)
<1> DEFINE x == job[r].stay
           new == NewStay(r)
           patch == job[r].patch
<1>1. /\ session[r].stay = reservations[x]
      /\ new.room_id # reservations[x].room_id =>
           new.room_id \in AvailableRooms(new.check_in_date, new.check_out_date)
  BY DEF Fresh, MovesGuest
<1>2. /\ x \in Reservations /\ reservations[x] \in ReservationRow
      /\ reservations[x].status = "confirmed" /\ Booked(x) /\ job[r] \in BookingJobs
  BY <1>1, CommitKnows DEF ChangesStay, Asks
<1>3. reservations' = [reservations EXCEPT ![x] = new]
  BY <1>1, FreshStay DEF ChangesStay
<1>4. new = Patched(reservations[x], patch) /\ PatchAllowed(patch)
  BY <1>1, <1>2, BookingAssumption DEF NewStay, Patched
<1> DEFINE loaded == reservations[x]
<1>5. loaded \in ReservationRow
  BY <1>2
<1> HIDE DEF loaded, patch, new
<1>6. new = Patched(loaded, patch)
  BY <1>4 DEF loaded
<1>7. /\ new = Moved(loaded, new)
      /\ (new.check_in_date # loaded.check_in_date /\ new.check_out_date # loaded.check_out_date)
           => new.check_in_date < new.check_out_date
  BY <1>4, <1>5, <1>6, PatchedStay
<1>8. reservations \in [Reservations -> ReservationRow \cup {NoReservation}]
  BY DEF DeskInv, BookingTypeOK, HotelTypeOK, DeskTypeOK
<1>9. reservations' = [reservations EXCEPT ![x].room_id = new.room_id,
                                           ![x].check_in_date = new.check_in_date,
                                           ![x].check_out_date = new.check_out_date,
                                           ![x].party = new.party]
  <2> DEFINE moved == [reservations EXCEPT ![x].room_id = new.room_id,
                                           ![x].check_in_date = new.check_in_date,
                                           ![x].check_out_date = new.check_out_date,
                                           ![x].party = new.party]
  <2>1. moved = [y \in Reservations |-> moved[y]]
    BY <1>8
  <2>2. \A y \in Reservations : y # x => moved[y] = reservations[y]
    BY <1>8
  <2>3. moved[x] = [reservations[x] EXCEPT !.room_id = new.room_id,
                                           !.check_in_date = new.check_in_date,
                                           !.check_out_date = new.check_out_date,
                                           !.party = new.party]
    BY <1>2, <1>8
  <2>4. moved[x] = new
    BY <1>7, <2>3 DEF loaded, Moved
  <2> HIDE DEF moved
  <2>5. reservations' = [y \in Reservations |-> reservations'[y]]
        /\ reservations'[x] = new
        /\ \A y \in Reservations : y # x => reservations'[y] = reservations[y]
    BY <1>2, <1>3, <1>8
  <2>6. reservations' = moved
    BY <2>1, <2>2, <2>4, <2>5
  <2> QED
    BY <2>6 DEF moved
<1>10. UNCHANGED <<rooms, roomTypes, guests, today, billingVars>>
  BY FreshOnlyStay
<1>11. HasStatus(x, "confirmed")
  BY <1>2 DEF HasStatus
<1>12. (new.check_in_date # reservations[x].check_in_date
        /\ new.check_out_date # reservations[x].check_out_date)
           => new.check_in_date < new.check_out_date
  BY <1>7 DEF loaded
<1> HIDE DEF x
<1>13. UpdateReservation(x, new.room_id, new.check_in_date, new.check_out_date, new.party)
  BY <1>1, <1>9, <1>10, <1>11, <1>12 DEF UpdateReservation
<1> QED
  BY <1>13 DEF x, new

LEMMA FreshCallOff ==
    ASSUME DeskInv, NEW r \in Requests, Commit(r), Fresh(r),
           job[r].op \in {"cancel_reservation", "mark_no_show"}
    PROVE  /\ job[r].op = "cancel_reservation" => CancelReservation(job[r].stay)
           /\ job[r].op = "mark_no_show" => MarkNoShow(job[r].stay)
<1> DEFINE x == job[r].stay
<1>1. session[r].stay = reservations[x]
  BY DEF Fresh, MovesGuest
<1>2. HasStatus(x, "confirmed")
  BY <1>1, CommitKnows DEF ChangesStay, Asks, HasStatus
<1>3. reservations' = [reservations EXCEPT ![x] = NewStay(r)]
  BY <1>1, FreshStay DEF ChangesStay
<1>4. NewStay(r) =
        [reservations[x] EXCEPT
           !.status = IF job[r].op = "cancel_reservation" THEN "cancelled" ELSE "no_show"]
  BY <1>1 DEF NewStay
<1>5. UNCHANGED <<rooms, roomTypes, guests, today, billingVars>>
  BY FreshOnlyStay
<1> HIDE DEF x
<1>6. CASE job[r].op = "cancel_reservation"
  <2>1. reservations' = [reservations EXCEPT ![x].status = "cancelled"]
    BY <1>3, <1>4, <1>6
  <2>2. CancelReservation(x)
    BY <1>2, <1>5, <2>1 DEF CancelReservation, SetReservationStatus
  <2> QED
    BY <1>6, <2>2 DEF x
<1>7. CASE job[r].op = "mark_no_show"
  <2>1. reservations' = [reservations EXCEPT ![x].status = "no_show"]
    BY <1>3, <1>4, <1>7
  <2>2. MarkNoShow(x)
    BY <1>2, <1>5, <2>1 DEF MarkNoShow, SetReservationStatus
  <2> QED
    BY <1>7, <2>2 DEF x
<1> QED
  BY <1>6, <1>7

LEMMA FreshMove ==
    ASSUME DeskInv, NEW r \in Requests, Commit(r), Fresh(r), MovesGuest(r)
    PROVE  /\ job[r].op = "check_in" => CheckIn(job[r].stay)
           /\ job[r].op = "check_out" => CheckOut(job[r].stay)
<1> DEFINE x == job[r].stay
           row == reservations[x]
<1>1. job[r].op \in {"check_in", "check_out"}
  BY DEF MovesGuest
<1>2. /\ session[r].stay = row
      /\ session[r].room = rooms[RoomOf(r)]
      /\ session[r].folio = folio[x]
      /\ job[r].op = "check_out" => session[r].nights = RemainingNights(x)
  BY <1>1 DEF Fresh
<1>3. /\ x \in Reservations /\ Booked(x) /\ row \in ReservationRow
      /\ session[r] \in SessionRow
      /\ job[r].op = "check_in" => session[r].nights = 1
      /\ row.status = IF job[r].op = "check_out" THEN "checked_in" ELSE "confirmed"
  BY <1>1, <1>2, CommitKnows DEF ChangesStay, Asks
<1>4. reservations' = [reservations EXCEPT ![x] = NewStay(r)]
  BY <1>1, <1>2, FreshStay DEF ChangesStay
<1>5. NewStay(r) = [row EXCEPT
                      !.status = IF job[r].op = "check_in" THEN "checked_in" ELSE "checked_out"]
  BY <1>1, <1>2 DEF NewStay
<1>6. RoomOf(r) = row.room_id
  BY <1>1, <1>2 DEF RoomOf
<1>7. rooms' = [rooms EXCEPT ![row.room_id].status =
                  IF job[r].op = "check_in" THEN "occupied" ELSE "housekeeping"]
  <2>1. rooms' = [rooms EXCEPT ![RoomOf(r)].status = NewRoomStatus(r)]
    BY <1>2, FreshRoom DEF WritesRoom
  <2>2. NewRoomStatus(r) = IF job[r].op = "check_in" THEN "occupied" ELSE "housekeeping"
    BY <1>1 DEF NewRoomStatus
  <2> QED
    BY <1>6, <2>1, <2>2
<1>8. UNCHANGED <<roomTypes, guests, today, payments>>
  BY DEF Commit
<1>9. \A nights : nights = session[r].nights /\ nights > 0 =>
         ApplyRoomCharges(x, row.rate_per_night, nights)
  BY <1>2, FreshCharge DEF PostsCharge
<1> HIDE DEF x
<1>10. CASE job[r].op = "check_in"
  <2>1. ApplyRoomCharges(x, row.rate_per_night, 1)
    BY <1>3, <1>9, <1>10
  <2>2. SetReservationStatus(x, "checked_in")
    BY <1>4, <1>5, <1>10 DEF SetReservationStatus
  <2>3. SetRoomStatus(reservations[x].room_id, "occupied")
    BY <1>7, <1>10 DEF SetRoomStatus
  <2>4. HasStatus(x, "confirmed")
    BY <1>3, <1>10 DEF HasStatus
  <2>5. CheckIn(x)
    BY <1>8, <2>1, <2>2, <2>3, <2>4 DEF CheckIn
  <2> QED
    BY <1>10, <2>5 DEF x
<1>11. CASE job[r].op = "check_out"
  <2> DEFINE nights == RemainingNights(x)
  <2>1. nights = session[r].nights /\ nights \in Nat
    BY <1>2, <1>3, <1>11 DEF SessionRow
  <2> HIDE DEF nights
  <2>2. nights > 0 => ApplyRoomCharges(x, row.rate_per_night, nights)
    BY <1>9, <2>1
  <2>3. nights = 0 => UNCHANGED billingVars
    <3>1. nights = 0 => ~ PostsCharge(r)
      BY <2>1 DEF PostsCharge
    <3> QED
      BY <1>8, <1>11, <3>1 DEF Commit, WriteFolio, billingVars
  <2>4. SetReservationStatus(x, "checked_out")
    BY <1>4, <1>5, <1>11 DEF SetReservationStatus
  <2>5. SetRoomStatus(reservations[x].room_id, "housekeeping")
    BY <1>7, <1>11 DEF SetRoomStatus
  <2>6. HasStatus(x, "checked_in")
    BY <1>3, <1>11 DEF HasStatus
  <2>7. \/ nights > 0 /\ ApplyRoomCharges(x, row.rate_per_night, nights)
        \/ nights = 0 /\ UNCHANGED billingVars
    BY <2>1, <2>2, <2>3
  <2>8. CheckOut(x)
    BY <1>8, <2>4, <2>5, <2>6, <2>7 DEF CheckOut, nights
  <2> QED
    BY <1>11, <2>8 DEF x
<1> QED
  BY <1>1, <1>10, <1>11

LEMMA FreshRoomStatus ==
    ASSUME DeskInv, NEW r \in Requests, Commit(r), Fresh(r), job[r].op = "update_room_status"
    PROVE  UpdateRoomStatus(job[r].room, job[r].status)
<1>1. session[r].room = rooms[job[r].room] /\ RoomOf(r) = job[r].room
  BY DEF Fresh, RoomOf
<1>2. job[r].status \in AllowedManually[rooms[job[r].room].status]
  BY <1>1, CommitKnows
<1>3. WritesRoom(r) /\ ~ PostsCharge(r) /\ NewRoomStatus(r) = job[r].status
  BY DEF WritesRoom, PostsCharge, MovesGuest, NewRoomStatus
<1>4. rooms' = [rooms EXCEPT ![job[r].room].status = job[r].status]
  BY <1>1, <1>3, FreshRoom
<1>5. UNCHANGED <<reservations, roomTypes, guests, today, billingVars>>
  BY <1>3 DEF Commit, WriteStay, WriteFolio, ChangesStay, billingVars
<1> QED
  BY <1>2, <1>4, <1>5 DEF UpdateRoomStatus, SetRoomStatus

\* A request whose readings still hold when it commits does exactly what the same
\* request does alone in Hotel.tla: it passes every check of the handler again,
\* the UPDATE of the changed columns comes to the whole row, and a room that is
\* not written because its status was already the new one has it still.  What is
\* proved of the desk in HotelProofs.tla therefore fails under overlap only
\* through a request that is out of date at its commit.
THEOREM FreshCommitsAtomic == BookingSpec => FreshCommitsAreAtomic
<1>1. ASSUME DeskInv, [BookingNext]_bookingVars, NEW r \in Requests,
             phase[r] = "flush", phase'[r] = "committed", Fresh(r)
      PROVE  Counterpart(r)
  <2>1. Commit(r)
    BY <1>1, CommitSteps
  <2>2. job[r].op \in {"create_reservation", "update_room_status", "update_reservation",
                       "cancel_reservation", "mark_no_show", "check_in", "check_out"}
    BY <1>1, <2>1, CommitKnows
  <2>3. CASE job[r].op = "create_reservation"
    BY <1>1, <2>1, <2>3, FreshCreate DEF Counterpart
  <2>4. CASE job[r].op = "update_reservation"
    BY <1>1, <2>1, <2>4, FreshUpdate DEF Counterpart
  <2>5. CASE job[r].op \in {"cancel_reservation", "mark_no_show"}
    BY <1>1, <2>1, <2>5, FreshCallOff DEF Counterpart
  <2>6. CASE job[r].op \in {"check_in", "check_out"}
    BY <1>1, <2>1, <2>6, FreshMove DEF Counterpart, MovesGuest
  <2>7. CASE job[r].op = "update_room_status"
    BY <1>1, <2>1, <2>7, FreshRoomStatus DEF Counterpart
  <2> QED
    BY <2>2, <2>3, <2>4, <2>5, <2>6, <2>7
<1>2. DeskInv /\ [BookingNext]_bookingVars =>
        [\A r \in Requests :
           (phase[r] = "flush" /\ phase'[r] = "committed" /\ Fresh(r)) =>
             Counterpart(r)]_bookingVars
  BY <1>1
<1> QED
  BY <1>2, InitDesk, NextDesk, PTL DEF BookingSpec, FreshCommitsAreAtomic

-----------------------------------------------------------------------------
(* When every commit is fresh *)

\* No request commits over a reading that holds no more.
EveryCommitFresh ==
    [][\A r \in Requests :
         (phase[r] = "flush" /\ phase'[r] = "committed") => Fresh(r)]_bookingVars

\* The operation a request asks for is one of the endpoints of Hotel.tla.
LEMMA CounterpartIsEndpoint ==
    ASSUME DeskInv, NEW r \in Requests, Commit(r), Counterpart(r)
    PROVE  HotelNext
<1> DEFINE asked == job[r]
           new == NewStay(r)
<1>1. /\ asked.op \in {"create_reservation", "update_room_status", "update_reservation",
                       "cancel_reservation", "mark_no_show", "check_in", "check_out"}
      /\ asked \in BookingJobs
      /\ asked.op # "update_room_status" => asked.stay \in Reservations /\ new \in ReservationRow
  BY CommitKnows DEF Asks
<1>2. CASE asked.op = "create_reservation"
  <2>1. CreateReservation(asked.stay, asked.guest, asked.room, asked.check_in_date,
                          asked.check_out_date, asked.party)
    BY <1>2 DEF Counterpart
  <2>2. /\ asked.guest \in Guests /\ asked.room \in Rooms /\ asked.party \in Parties
        /\ asked.check_in_date \in Days /\ asked.check_out_date \in Days
    BY <1>1, <1>2, BookingAssumption
  <2> QED
    BY <1>1, <1>2, <2>1, <2>2 DEF HotelNext, ReservationEndpoint
<1>3. CASE asked.op = "update_reservation"
  <2>1. UpdateReservation(asked.stay, new.room_id, new.check_in_date, new.check_out_date,
                          new.party)
    BY <1>3 DEF Counterpart
  <2>2. /\ new.room_id \in Rooms /\ new.party \in Parties
        /\ new.check_in_date \in Days /\ new.check_out_date \in Days
    BY <1>1, <1>3 DEF ReservationRow
  <2> HIDE DEF new
  <2> QED
    BY <1>1, <1>3, <2>1, <2>2 DEF HotelNext, ReservationEndpoint
<1>4. CASE asked.op \in {"cancel_reservation", "mark_no_show", "check_in", "check_out"}
  <2>1. \/ CancelReservation(asked.stay) \/ MarkNoShow(asked.stay)
        \/ CheckIn(asked.stay) \/ CheckOut(asked.stay)
    BY <1>4 DEF Counterpart
  <2> QED
    BY <1>1, <1>4, <2>1 DEF HotelNext, ReservationEndpoint
<1>5. CASE asked.op = "update_room_status"
  <2>1. UpdateRoomStatus(asked.room, asked.status)
    BY <1>5 DEF Counterpart
  <2>2. asked.room \in Rooms /\ asked.status \in RoomStatus
    BY <1>1, <1>5, BookingAssumption
  <2> QED
    BY <2>1, <2>2 DEF HotelNext, RoomEndpoint
<1> QED
  BY <1>1, <1>2, <1>3, <1>4, <1>5

\* Until it commits a request is seen by nobody.
LEMMA StepsOfTheTables ==
    ASSUME [BookingNext]_bookingVars
    PROVE  UNCHANGED hotelVars \/ NextDay \/ (\E r \in Requests : Commit(r))
<1>1. ASSUME NEW r \in Requests, Begin(r) \/ Statement(r) \/ Fail(r)
      PROVE  UNCHANGED hotelVars
  BY <1>1 DEF Begin, Statement, Fail, TakeLock, Read, ReadStay, ReadRoom, SearchRooms,
              CountReservations, ReadFolio
<1>2. CASE UNCHANGED bookingVars
  BY <1>2 DEF bookingVars
<1> QED
  BY <1>1, <1>2 DEF BookingNext

\* As long as every commit is up to date, overlapping requests come to what they
\* would come to one by one: on the tables, each step is a step of Hotel.tla or
\* none, so that its properties of steps hold of the requests as they overlap.
THEOREM FreshRunsAreSerial == BookingSpec /\ EveryCommitFresh => [][HotelNext]_hotelVars
<1>1. ASSUME DeskInv, [BookingNext]_bookingVars,
             [\A r \in Requests :
                (phase[r] = "flush" /\ phase'[r] = "committed") => Fresh(r)]_bookingVars,
             [\A r \in Requests :
                (phase[r] = "flush" /\ phase'[r] = "committed" /\ Fresh(r)) =>
                  Counterpart(r)]_bookingVars
      PROVE  [HotelNext]_hotelVars
  <2>1. ASSUME NEW r \in Requests, Commit(r)
        PROVE  [HotelNext]_hotelVars
    <3>1. phase[r] = "flush" /\ phase'[r] = "committed"
      BY <1>1, <2>1 DEF Commit, Ends, DeskInv, BookingTypeOK
    <3>2. Counterpart(r)
      BY <1>1, <3>1 DEF bookingVars, progress
    <3> QED
      BY <1>1, <2>1, <3>2, CounterpartIsEndpoint
  <2> QED
    BY <1>1, <2>1, StepsOfTheTables DEF HotelNext
<1> QED
  BY <1>1, InitDesk, NextDesk, FreshCommitsAtomic, PTL
     DEF BookingSpec, EveryCommitFresh, FreshCommitsAreAtomic

-----------------------------------------------------------------------------
(* What overlapping requests may come to *)

NoRace == \A x \in Reservations : ~ Raced(x)

Overtaken(r) ==
    \E q \in Committed(ChangesStay) : {r, q} \in met /\ job[q].stay = job[r].stay

\* Requests in progress together have met, and the reservation a request has
\* read is still the same unless one that it met has changed it.
MeetingInv ==
    /\ \A r, q \in Requests : r # q /\ InProgress(r) /\ InProgress(q) => {r, q} \in met
    /\ \A r \in Requests : InProgress(r) /\ job[r].op \in ChangesStay /\ phase[r] # "stay" =>
         session[r].stay = reservations[job[r].stay] \/ Overtaken(r)

\* While nothing has raced, a departure has the reservation before it, or
\* comes after another.
DeparturesHold ==
    \A r \in Requests : Departs(r) =>
        LET row == reservations[job[r].stay] IN
        /\ row.status # "confirmed"
        /\ row.status = "checked_in" => session[r].stay = row

\* The guest y is in the room, and will release it.
Keeps(y, room) ==
    /\ HasStatus(y, "checked_in") /\ reservations[y].room_id = room
    /\ \A r \in Requests : Departs(r) /\ job[r].stay = y /\ phase[r] \in {"folio", "flush"} =>
         session[r].room.status # "housekeeping"

OccupiedKept ==
    \A room \in Rooms :
        rooms[room].status = "occupied" => \E y \in Reservations : Keeps(y, room)

Left(room) == \E y \in Reservations : HasStatus(y, "checked_out") /\ reservations[y].room_id = room

RoomsKept ==
    \A x \in Reservations : HasStatus(x, "checked_in") =>
        \/ rooms[reservations[x].room_id].status = "occupied"
        \/ Left(reservations[x].room_id)
        \/ StatusSetDuringArrival(x)

\* Staff about to write the status of a room has met the arrival of its guest,
StaffMet(r, x) ==
    \E c \in Committed({"check_in"}) : {c, r} \in met /\ job[c].stay = x

StaffHold ==
    \A r \in Requests :
        InProgress(r) /\ job[r].op = "update_room_status" /\ phase[r] = "flush" =>
            \A x \in Reservations :
                HasStatus(x, "checked_in") /\ reservations[x].room_id = job[r].room =>
                    Left(job[r].room) \/ StatusSetDuringArrival(x) \/ StaffMet(r, x)

\* and an arrival that found its room occupied finds it so, or met who changed it.
ArrivalsHold ==
    \A r \in Requests :
        /\ InProgress(r) /\ job[r].op = "check_in" /\ phase[r] \in {"folio", "flush"}
        /\ session[r].room.status = "occupied"
        => \/ rooms[RoomOf(r)].status = "occupied"
           \/ Left(RoomOf(r))
           \/ \E q \in Committed({"update_room_status"}) :
                {r, q} \in met /\ job[q].room = RoomOf(r)

RacesInv == NoRace => DeparturesHold /\ OccupiedKept /\ RoomsKept /\ StaffHold /\ ArrivalsHold

Books == {"create_reservation", "update_reservation"}

\* A request that has searched for the room it is about to write.
HasSearched(r) ==
    /\ InProgress(r)
    /\ \/ job[r].op = "create_reservation" /\ phase[r] # "search"
       \/ /\ job[r].op = "update_reservation" /\ phase[r] = "flush"
          /\ NewStay(r).room_id # session[r].stay.room_id

Takes(y, r) ==
    /\ y # job[r].stay /\ Active(y)
    /\ reservations[y].room_id = NewStay(r).room_id
    /\ Overlapping(y, NewStay(r).check_in_date, NewStay(r).check_out_date)

Meets(r, y) ==
    \E q \in Committed(Books) : {r, q} \in met /\ job[q].stay = y

\* A room that was free when it was searched for is taken only by a request
\* that the search met, or by one of those that search for nothing.
SearchesInv ==
    \A r \in Requests : HasSearched(r) =>
        \A y \in Reservations : Takes(y, r) => Meets(r, y) \/ Redated(y) \/ Raced(y)

-----------------------------------------------------------------------------
(* QuietOrCommit and their history *)

Same(q) == job'[q] = job[q] /\ phase'[q] = phase[q] /\ session'[q] = session[q]

Starts(q) ==
    /\ phase[q] = "idle"
    /\ phase'[q] = CASE job'[q].op = "create_reservation" -> "search"
                     [] job'[q].op = "update_room_status" -> "room"
                     [] OTHER -> "stay"

Reads(q) ==
    ReadStay(q) \/ ReadRoom(q) \/ SearchRooms(q) \/ CountReservations(q) \/ ReadFolio(q)

Stops(q) == InProgress(q) /\ phase'[q] = "failed" /\ job'[q] = job[q]

\* A step that is no commit changes no reservation and no room.
Quiet ==
    /\ UNCHANGED <<reservations, rooms>>
    /\ \A q \in Requests : Same(q) \/ Starts(q) \/ Reads(q) \/ Stops(q)
    /\ met \subseteq met'
    /\ \A r, q \in Requests : r # q /\ Starts(r) /\ InProgress(q)' => {r, q} \in met'

LEMMA ReadQuiet ==
    ASSUME DeskInv, NEW r \in Requests, NEW read,
           NEW statement \in {"search", "count", "stay", "room", "folio"},
           Read(r, statement, read)
    PROVE  /\ UNCHANGED <<reservations, rooms, met, job>>
           /\ \A q \in Requests : q # r => Same(q)
           /\ phase[r] = statement /\ InProgress(r)
           /\ session'[r] = read /\ phase'[r] = Enters(r, statement)
           /\ phase'[r] \in {"search", "count", "room", "folio", "flush"}
<1>1. phase \in [Requests -> Phases] /\ session \in [Requests -> SessionRow]
  BY DEF DeskInv, BookingTypeOK
<1>2. Enters(r, statement) \in {"search", "count", "room", "folio", "flush"}
  BY DEF Enters
<1> QED
  BY <1>1, <1>2 DEF Read, Same, InProgress, hotelVars

LEMMA BeginQuiet ==
    ASSUME DeskInv, NEW r \in Requests, Begin(r)
    PROVE  Quiet
<1>1. PICK asked \in BookingJobs :
        /\ job' = [job EXCEPT ![r] = asked]
        /\ phase' = [phase EXCEPT ![r] =
             CASE asked.op = "create_reservation" -> "search"
               [] asked.op = "update_room_status" -> "room"
               [] OTHER -> "stay"]
  BY DEF Begin
<1>2. /\ phase[r] = "idle"
      /\ met' = met \cup {{q, r} : q \in {q \in Requests : InProgress(q)}}
      /\ UNCHANGED <<reservations, rooms, session>>
  BY DEF Begin, hotelVars
<1>3. job \in [Requests -> BookingJobs \cup {NoJob}] /\ phase \in [Requests -> Phases]
  BY DEF DeskInv, BookingTypeOK
<1>4. Starts(r)
  BY <1>1, <1>2, <1>3 DEF Starts
<1>5. \A q \in Requests : q # r => Same(q)
  BY <1>1, <1>2, <1>3 DEF Same
<1>6. ASSUME NEW p \in Requests, NEW q \in Requests, p # q, Starts(p), InProgress(q)'
      PROVE  {p, q} \in met'
  <2>1. p = r
    <3>1. phase'[p] # "idle" /\ phase[p] = "idle"
      BY <1>6 DEF Starts
    <3> QED
      BY <1>5, <3>1 DEF Same
  <2>2. InProgress(q)
    BY <1>5, <1>6, <2>1 DEF Same, InProgress
  <2>3. {q, r} \in met'
    BY <1>2, <2>2
  <2> QED
    BY <2>1, <2>3
<1> QED
  BY <1>2, <1>4, <1>5, <1>6 DEF Quiet

LEMMA QuietOrCommit ==
    ASSUME DeskInv, [BookingNext]_bookingVars
    PROVE  Quiet \/ (\E r \in Requests : Commit(r))
<1>1. ASSUME NEW r \in Requests, Reads(r)
      PROVE  Quiet
  <2>1. PICK statement \in {"search", "count", "stay", "room", "folio"} :
          \E read : Read(r, statement, read)
    BY <1>1 DEF Reads, ReadStay, ReadRoom, SearchRooms, CountReservations, ReadFolio
  <2>2. /\ UNCHANGED <<reservations, rooms, met>> /\ InProgress(r)
        /\ \A q \in Requests : q # r => Same(q)
    BY <2>1, ReadQuiet
  <2>3. \A q \in Requests : ~ Starts(q)
    BY <2>2 DEF Same, Starts, InProgress
  <2> QED
    BY <1>1, <2>2, <2>3 DEF Quiet
<1>2. ASSUME UNCHANGED <<reservations, rooms, job, phase, session, met>>
      PROVE  Quiet
  BY <1>2 DEF Quiet, Same, Starts
<1>3. ASSUME NEW r \in Requests, TakeLock(r)
      PROVE  Quiet
  BY <1>2, <1>3 DEF TakeLock, hotelVars
<1>4. ASSUME NEW r \in Requests, Fail(r)
      PROVE  Quiet
  <2>1. phase \in [Requests -> Phases] /\ session \in [Requests -> SessionRow]
    BY DEF DeskInv, BookingTypeOK
  <2>2. /\ InProgress(r) /\ phase'[r] = "failed" /\ UNCHANGED <<reservations, rooms, met, job>>
        /\ \A q \in Requests : q # r => Same(q)
    BY <1>4, <2>1 DEF Fail, Ends, Same, hotelVars
  <2>3. \A q \in Requests : ~ Starts(q)
    BY <2>2 DEF Same, Starts, InProgress
  <2> QED
    BY <2>2, <2>3 DEF Quiet, Stops
<1>5. ASSUME NextDay, UNCHANGED <<number, progress>>
      PROVE  Quiet
  BY <1>2, <1>5 DEF NextDay, progress
<1>6. ASSUME UNCHANGED bookingVars
      PROVE  Quiet
  BY <1>2, <1>6 DEF bookingVars, hotelVars, progress
<1>7. ASSUME NEW r \in Requests, Begin(r)
      PROVE  Quiet
  BY <1>7, BeginQuiet
<1>8. ASSUME NEW r \in Requests, Statement(r)
      PROVE  Quiet
  BY <1>1, <1>3, <1>8 DEF Statement, Reads
<1> QED
  BY <1>4, <1>5, <1>6, <1>7, <1>8 DEF BookingNext

LEMMA Commits ==
    ASSUME DeskInv, NEW r \in Requests, Commit(r)
    PROVE  /\ \A q \in Requests : q # r => Same(q)
           /\ job' = job /\ met' = met
           /\ phase[r] = "flush" /\ phase'[r] = "committed"
           /\ InProgress(r) /\ ~ InProgress(r)'
           /\ r \in Requests
<1>1. phase \in [Requests -> Phases] /\ session \in [Requests -> SessionRow]
  BY DEF DeskInv, BookingTypeOK
<1> QED
  BY <1>1 DEF Commit, Ends, Same, InProgress

\* What has been committed stays so, with what it asked for.
LEMMA HistoryGrows ==
    ASSUME DeskInv, [BookingNext]_bookingVars
    PROVE  /\ \A q \in Requests : phase[q] = "committed" =>
                phase'[q] = "committed" /\ job'[q] = job[q]
           /\ \A q \in Requests : InProgress(q) => job'[q] = job[q]
           /\ met \subseteq met'
<1>1. CASE Quiet
  <2>1. ASSUME NEW q \in Requests, Reads(q)
        PROVE  job'[q] = job[q] /\ phase[q] # "committed"
    BY <2>1, ReadQuiet
       DEF Reads, ReadStay, ReadRoom, SearchRooms, CountReservations, ReadFolio
  <2> QED
    BY <1>1, <2>1 DEF Quiet, Same, Starts, Stops, InProgress
<1>2. ASSUME NEW r \in Requests, Commit(r)
      PROVE  /\ \A q \in Requests : phase[q] = "committed" =>
                  phase'[q] = "committed" /\ job'[q] = job[q]
             /\ \A q \in Requests : InProgress(q) => job'[q] = job[q]
             /\ met \subseteq met'
  BY <1>2, Commits DEF Same
<1>3. Quiet \/ \E r \in Requests : Commit(r)
  BY QuietOrCommit
<1> QED
  BY <1>1, <1>2, <1>3

LEMMA RacesStay ==
    ASSUME DeskInv, [BookingNext]_bookingVars
    PROVE  /\ \A x : Raced(x) => Raced(x)'
           /\ \A x : Redated(x) => Redated(x)'
           /\ \A x, y : SearchedTogether(x, y) => SearchedTogether(x, y)'
           /\ NoRace' => NoRace
           /\ \A r \in Requests : InProgress(r) /\ Overtaken(r) => Overtaken(r)'
           /\ \A r \in Requests : \A y : InProgress(r) /\ Meets(r, y) => Meets(r, y)'
           /\ \A r \in Requests : \A x : StaffMet(r, x) => StaffMet(r, x)'
<1>1. /\ \A q \in Requests : phase[q] = "committed" =>
           phase'[q] = "committed" /\ job'[q] = job[q]
      /\ \A q \in Requests : InProgress(q) => job'[q] = job[q]
      /\ met \subseteq met'
  BY HistoryGrows
<1>2. \A x : Raced(x) => Raced(x)'
  BY <1>1 DEF Raced, Committed
<1>3. ASSUME NEW x, Redated(x)
      PROVE  Redated(x)'
  <2>1. PICK r \in Requests :
          /\ phase[r] = "committed" /\ job[r].op \in {"update_reservation"} /\ job[r].stay = x
          /\ {"check_in_date", "check_out_date"} \cap DOMAIN job[r].patch # {}
    BY <1>3 DEF Redated, Committed
  <2>2. phase'[r] = "committed" /\ job'[r] = job[r]
    BY <1>1, <2>1
  <2> QED
    BY <2>1, <2>2 DEF Redated, Committed
<1>4. ASSUME NEW x, NEW y, SearchedTogether(x, y)
      PROVE  SearchedTogether(x, y)'
  <2>1. PICK r \in Requests, q \in Requests :
          /\ phase[r] = "committed" /\ job[r].op \in Books /\ job[r].stay = x
          /\ phase[q] = "committed" /\ job[q].op \in Books /\ job[q].stay = y
          /\ {r, q} \in met
    BY <1>4 DEF SearchedTogether, Committed, Books
  <2>2. /\ phase'[r] = "committed" /\ job'[r] = job[r]
        /\ phase'[q] = "committed" /\ job'[q] = job[q] /\ {r, q} \in met'
    BY <1>1, <2>1
  <2> QED
    BY <2>1, <2>2 DEF SearchedTogether, Committed, Books
<1>5. \A r \in Requests : InProgress(r) /\ Overtaken(r) => Overtaken(r)'
  BY <1>1 DEF Overtaken, Committed
<1>6. \A r \in Requests : \A y : InProgress(r) /\ Meets(r, y) => Meets(r, y)'
  BY <1>1 DEF Meets, Committed
<1>7. \A r \in Requests : \A x : StaffMet(r, x) => StaffMet(r, x)'
  BY <1>1 DEF StaffMet, Committed
<1> QED
  BY <1>2, <1>3, <1>4, <1>5, <1>6, <1>7 DEF NoRace

\* What a request has read after one of its statements, and what that says of
\* the tables at that moment.
LEMMA ReadsWhat ==
    ASSUME DeskInv, NEW r \in Requests, Reads(r)
    PROVE  /\ job' = job /\ InProgress(r) /\ InProgress(r)' /\ Asks(r)
           /\ \A q \in Requests : q # r => Same(q)
           /\ phase[r] \in {"search", "count", "stay", "room", "folio"}
           /\ phase'[r] = Enters(r, phase[r])
           /\ Passes(r)
           /\ session'[r].stay = IF phase[r] = "stay" THEN reservations[job[r].stay]
                                 ELSE session[r].stay
           /\ session'[r].room = IF phase[r] = "room" THEN rooms[RoomOf(r)]
                                 ELSE session[r].room
<1>1. PICK statement \in {"search", "count", "stay", "room", "folio"} :
        \E read : Read(r, statement, read)
  BY DEF Reads, ReadStay, ReadRoom, SearchRooms, CountReservations, ReadFolio
<1>2. /\ job' = job /\ InProgress(r) /\ InProgress(r)'
      /\ \A q \in Requests : q # r => Same(q)
      /\ phase[r] \in {"search", "count", "stay", "room", "folio"}
      /\ phase'[r] = Enters(r, phase[r])
      /\ Passes(r)
  <2>1. PICK read : Read(r, statement, read)
    BY <1>1
  <2> QED
    BY <2>1, ReadQuiet DEF Read, InProgress
<1>3. Asks(r) /\ session[r] \in SessionRow
  BY <1>2, RequestAt
<1>4. session \in [Requests -> SessionRow]
  BY DEF DeskInv
<1>5. CASE ReadStay(r)
  BY <1>2, <1>3, <1>4, <1>5 DEF ReadStay, Read, SessionRow
<1>6. CASE ReadRoom(r)
  BY <1>2, <1>3, <1>4, <1>6 DEF ReadRoom, Read, SessionRow
<1>7. CASE SearchRooms(r)
  BY <1>2, <1>3, <1>4, <1>7 DEF SearchRooms, Read, SessionRow
<1>8. CASE CountReservations(r)
  BY <1>2, <1>3, <1>4, <1>8 DEF CountReservations, Read, SessionRow
<1>9. CASE ReadFolio(r)
  BY <1>2, <1>3, <1>4, <1>9 DEF ReadFolio, Read, SessionRow
<1> QED
  BY <1>2, <1>3, <1>5, <1>6, <1>7, <1>8, <1>9 DEF Reads

-----------------------------------------------------------------------------
(* Requests that have met *)

LEMMA QuietMeeting ==
    ASSUME DeskInv, MeetingInv, [BookingNext]_bookingVars, Quiet
    PROVE  MeetingInv'
<1>1. ASSUME NEW r \in Requests, NEW q \in Requests, r # q, InProgress(r)', InProgress(q)'
      PROVE  {r, q} \in met'
  <2>1. \A p \in Requests : InProgress(p)' => InProgress(p) \/ Starts(p)
    BY ReadsWhat DEF Quiet, Same, Stops, InProgress
  <2>2. CASE Starts(r) \/ Starts(q)
    <3>1. {r, q} = {q, r}
      OBVIOUS
    <3> QED
      BY <1>1, <2>2, <3>1 DEF Quiet
  <2>3. CASE InProgress(r) /\ InProgress(q)
    BY <1>1, <2>3 DEF Quiet, MeetingInv
  <2> QED
    BY <1>1, <2>1, <2>2, <2>3
<1>2. ASSUME NEW r \in Requests, InProgress(r)', job'[r].op \in ChangesStay, phase'[r] # "stay"
      PROVE  session'[r].stay = reservations'[job'[r].stay] \/ Overtaken(r)'
  <2>1. ~ Starts(r) /\ ~ Stops(r)
    BY <1>2 DEF Starts, Stops, InProgress, ChangesStay
  <2>2. CASE Same(r)
    <3>1. InProgress(r) /\ job[r].op \in ChangesStay /\ phase[r] # "stay"
      BY <1>2, <2>2 DEF Same, InProgress
    <3>2. session[r].stay = reservations[job[r].stay] \/ Overtaken(r)
      BY <3>1 DEF MeetingInv
    <3>3. Overtaken(r) => Overtaken(r)'
      BY <3>1, RacesStay
    <3> QED
      BY <2>2, <3>2, <3>3 DEF Same, Quiet
  <2>3. CASE Reads(r)
    <3>1. /\ job' = job /\ InProgress(r) /\ UNCHANGED reservations
          /\ session'[r].stay = IF phase[r] = "stay" THEN reservations[job[r].stay]
                                ELSE session[r].stay
      BY <2>3, ReadsWhat DEF Quiet
    <3>2. phase[r] # "stay" => session[r].stay = reservations[job[r].stay] \/ Overtaken(r)
      BY <1>2, <3>1 DEF MeetingInv
    <3>3. Overtaken(r) => Overtaken(r)'
      BY <3>1, RacesStay
    <3> QED
      BY <3>1, <3>2, <3>3
  <2> QED
    BY <2>1, <2>2, <2>3 DEF Quiet
<1> QED
  BY <1>1, <1>2 DEF MeetingInv

LEMMA CommitMeeting ==
    ASSUME DeskInv, MeetingInv, [BookingNext]_bookingVars, NEW c \in Requests, Commit(c)
    PROVE  MeetingInv'
<1>1. /\ \A q \in Requests : q # c => Same(q)
      /\ job' = job /\ met' = met /\ phase'[c] = "committed"
      /\ InProgress(c) /\ ~ InProgress(c)'
  BY Commits
<1>2. ASSUME NEW r \in Requests, NEW q \in Requests, r # q, InProgress(r)', InProgress(q)'
      PROVE  {r, q} \in met'
  BY <1>1, <1>2 DEF Same, InProgress, MeetingInv
<1>3. ASSUME NEW r \in Requests, InProgress(r)', job'[r].op \in ChangesStay, phase'[r] # "stay"
      PROVE  session'[r].stay = reservations'[job'[r].stay] \/ Overtaken(r)'
  <2> DEFINE x == job[r].stay
  <2>1. /\ r # c /\ Same(r) /\ InProgress(r)
        /\ job[r].op \in ChangesStay /\ phase[r] # "stay"
    BY <1>1, <1>3 DEF Same, InProgress
  <2>2. session[r].stay = reservations[x] \/ Overtaken(r)
    BY <2>1 DEF MeetingInv
  <2>3. Overtaken(r) => Overtaken(r)'
    BY <2>1, RacesStay
  <2>4. x \in Reservations /\ Booked(x)
    BY <2>1, RequestAt DEF Asks, ChangesStay
  <2>5. CASE job[c].op \in ChangesStay /\ job[c].stay = x
    <3>1. {r, c} \in met
      BY <1>1, <2>1 DEF MeetingInv
    <3>2. c \in Committed(ChangesStay)'
      BY <1>1, <2>5 DEF Committed
    <3> QED
      BY <1>1, <2>5, <3>1, <3>2 DEF Overtaken
  <2>6. CASE job[c].op = "create_reservation" /\ job[c].stay = x
    BY <2>4, <2>6, CommitKnows DEF Asks
  <2>7. CASE job[c].op = "update_room_status" \/ job[c].stay # x
    <3>1. reservations'[x] = reservations[x]
      BY <2>4, <2>7, CommitStay
    <3> QED
      BY <2>1, <2>2, <2>3, <3>1 DEF Same
  <2> QED
    BY <2>5, <2>6, <2>7, CommitKnows DEF ChangesStay
<1> QED
  BY <1>2, <1>3 DEF MeetingInv

LEMMA NextMeeting == DeskInv /\ MeetingInv /\ [BookingNext]_bookingVars => MeetingInv'
<1> SUFFICES ASSUME DeskInv, MeetingInv, [BookingNext]_bookingVars
             PROVE  MeetingInv'
  OBVIOUS
<1>1. Quiet \/ (\E r \in Requests : Commit(r))
  BY QuietOrCommit
<1>2. ASSUME NEW r \in Requests, Commit(r)
      PROVE  MeetingInv'
  BY <1>2, CommitMeeting
<1> QED
  BY <1>1, <1>2, QuietMeeting

LEMMA InitMeeting == BookingInit => MeetingInv
  BY DEF BookingInit, MeetingInv, InProgress

\* A commit has the reservation before it that it read, unless it raced.
LEMMA CommitFresh ==
    ASSUME DeskInv, MeetingInv, [BookingNext]_bookingVars, NEW c \in Requests, Commit(c),
           job[c].op \in ChangesStay, ~ Raced(job[c].stay)'
    PROVE  /\ session[c].stay = reservations[job[c].stay]
           /\ reservations'[job[c].stay] = NewStay(c)
           /\ job[c].stay \in Reservations
           /\ reservations[job[c].stay] \in ReservationRow
           /\ reservations[job[c].stay].status =
                IF job[c].op = "check_out" THEN "checked_in" ELSE "confirmed"
<1> DEFINE x == job[c].stay
<1>1. phase[c] = "flush" /\ phase'[c] = "committed" /\ InProgress(c) /\ job' = job /\ met' = met
  BY Commits
<1>2. ~ Overtaken(c)
  <2> SUFFICES ASSUME Overtaken(c) PROVE FALSE
    OBVIOUS
  <2>1. PICK q \in Requests : /\ phase[q] = "committed" /\ job[q].op \in ChangesStay
                              /\ {c, q} \in met /\ job[q].stay = x
    BY DEF Overtaken, Committed
  <2>2. phase'[q] = "committed"
    BY <2>1, HistoryGrows
  <2>3. Raced(x)'
    BY <1>1, <2>1, <2>2 DEF Raced, Committed
  <2> QED
    BY <1>1, <2>3 DEF Raced
<1>3. session[c].stay = reservations[x]
  BY <1>1, <1>2 DEF MeetingInv
<1>4. reservations' = [reservations EXCEPT ![x] = NewStay(c)]
  BY <1>3, FreshStay
<1>5. x \in Reservations
  BY CommitKnows DEF ChangesStay
<1>6. reservations'[x] = NewStay(c)
  <2>1. reservations \in [Reservations -> ReservationRow \cup {NoReservation}]
    BY DEF DeskInv, BookingTypeOK, HotelTypeOK, DeskTypeOK
  <2> QED
    BY <1>4, <1>5, <2>1
<1>7. /\ reservations[x] \in ReservationRow
      /\ reservations[x].status =
           IF job[c].op = "check_out" THEN "checked_in" ELSE "confirmed"
  BY <1>3, CommitKnows
<1> QED
  BY <1>3, <1>5, <1>6, <1>7

LEMMA CommitChanges ==
    ASSUME DeskInv, MeetingInv, [BookingNext]_bookingVars, NEW c \in Requests, Commit(c),
           NEW x \in Reservations, Booked(x), ~ Raced(x)',
           reservations'[x] # reservations[x]
    PROVE  /\ job[c].op \in ChangesStay /\ job[c].stay = x
           /\ session[c].stay = reservations[x]
           /\ reservations'[x] = NewStay(c)
           /\ reservations[x] \in ReservationRow
           /\ reservations[x].status =
                IF job[c].op = "check_out" THEN "checked_in" ELSE "confirmed"
<1>1. job[c].op # "update_room_status" /\ job[c].stay = x
  BY CommitStay
<1>2. job[c].op \in ChangesStay
  BY <1>1, CommitKnows DEF Asks, ChangesStay
<1>3. ~ Raced(job[c].stay)'
  BY <1>1, Commits DEF Raced
<1> QED
  BY <1>1, <1>2, <1>3, CommitFresh

-----------------------------------------------------------------------------
(* Rooms and their guests *)

\* What a commit makes of the status of a room.
LEMMA CommitStatus ==
    ASSUME DeskInv, NEW c \in Requests, Commit(c), NEW room \in Rooms
    PROVE  /\ \/ rooms'[room].status = rooms[room].status
              \/ /\ WritesRoom(c) /\ room = RoomOf(c)
                 /\ rooms'[room].status = NewRoomStatus(c)
           /\ WritesRoom(c) /\ room = RoomOf(c) /\ rooms'[room].status # NewRoomStatus(c) =>
                session[c].room.status = NewRoomStatus(c)
<1>1. rooms \in [Rooms -> RoomRow]
  BY DEF DeskInv, BookingTypeOK, HotelTypeOK, DeskTypeOK
<1>2. WriteRoom(c) /\ Wanted(c) \subseteq held[c]
  BY DEF Commit
<1>3. CASE WritesRoom(c) /\ <<"rooms", RoomOf(c)>> \in held[c]
  <2>1. rooms' = [rooms EXCEPT ![RoomOf(c)].status = NewRoomStatus(c)]
    BY <1>2, <1>3 DEF WriteRoom
  <2> QED
    BY <1>1, <1>3, <2>1 DEF RoomRow
<1>4. CASE ~ (WritesRoom(c) /\ <<"rooms", RoomOf(c)>> \in held[c])
  <2>1. rooms' = rooms
    BY <1>2, <1>4 DEF WriteRoom
  <2>2. ASSUME WritesRoom(c)
        PROVE  session[c].room.status = NewRoomStatus(c)
    <3>1. <<"rooms", RoomOf(c)>> \notin Wanted(c)
      BY <1>2, <1>4, <2>2
    <3> QED
      BY <2>2, <3>1, Zenon DEF Wanted
  <2> QED
    BY <2>1, <2>2
<1> QED
  BY <1>3, <1>4

\* Only its check-in makes a guest, and changes nothing else of the reservation.
LEMMA CommitArrives ==
    ASSUME DeskInv, MeetingInv, [BookingNext]_bookingVars, NEW c \in Requests, Commit(c),
           NoRace', NEW x \in Reservations, HasStatus(x, "checked_in")',
           reservations'[x] # reservations[x]
    PROVE  /\ job[c].op = "check_in" /\ job[c].stay = x
           /\ session[c].stay = reservations[x]
           /\ HasStatus(x, "confirmed")
           /\ reservations'[x].room_id = reservations[x].room_id
           /\ RoomOf(c) = reservations[x].room_id
<1>1. job[c].op # "update_room_status" /\ job[c].stay = x
  BY CommitStay
<1>2. Booked(x)
  <2>1. job[c].op # "create_reservation"
    BY <1>1, CommitStay DEF HasStatus
  <2> QED
    BY <1>1, <2>1, CommitKnows DEF Asks, ChangesStay
<1>3. /\ job[c].op \in ChangesStay /\ session[c].stay = reservations[x]
      /\ reservations'[x] = NewStay(c) /\ reservations[x] \in ReservationRow
      /\ reservations[x].status = IF job[c].op = "check_out" THEN "checked_in" ELSE "confirmed"
  BY <1>2, CommitChanges DEF NoRace
<1>4. job[c].op = "check_in"
  BY <1>1, <1>3, CommitStay DEF HasStatus, ChangesStay
<1>5. reservations'[x] = [reservations[x] EXCEPT !.status = "checked_in"]
  BY <1>3, <1>4 DEF NewStay
<1> QED
  BY <1>1, <1>2, <1>3, <1>4, <1>5 DEF HasStatus, RoomOf, ReservationRow

\* A departure is for good while nothing has raced.
LEMMA LeftForGood ==
    ASSUME DeskInv, MeetingInv, [BookingNext]_bookingVars, NoRace',
           NEW x \in Reservations, HasStatus(x, "checked_out")
    PROVE  reservations'[x] = reservations[x]
<1>1. ASSUME NEW c \in Requests, Commit(c), reservations'[x] # reservations[x]
      PROVE  FALSE
  <2>1. Booked(x) /\ ~ Raced(x)'
    BY DEF HasStatus, NoRace
  <2>2. reservations[x].status = IF job[c].op = "check_out" THEN "checked_in" ELSE "confirmed"
    BY <1>1, <2>1, CommitChanges
  <2> QED
    BY <2>2 DEF HasStatus
<1>2. Quiet \/ (\E r \in Requests : Commit(r))
  BY QuietOrCommit
<1> QED
  BY <1>1, <1>2 DEF Quiet

LEMMA LeftStays ==
    ASSUME DeskInv, MeetingInv, [BookingNext]_bookingVars, NoRace', NEW room, Left(room)
    PROVE  Left(room)'
<1>1. PICK y \in Reservations : HasStatus(y, "checked_out") /\ reservations[y].room_id = room
  BY DEF Left
<1>2. reservations'[y] = reservations[y]
  BY <1>1, LeftForGood
<1> QED
  BY <1>1, <1>2 DEF Left, HasStatus, Booked

LEMMA StatusSetStays ==
    ASSUME DeskInv, [BookingNext]_bookingVars, NEW x, reservations'[x] = reservations[x],
           StatusSetDuringArrival(x)
    PROVE  StatusSetDuringArrival(x)'
<1>1. PICK r \in Requests, q \in Requests :
        /\ phase[r] = "committed" /\ job[r].op = "check_in" /\ job[r].stay = x
        /\ phase[q] = "committed" /\ job[q].op = "update_room_status"
        /\ job[q].room = reservations[x].room_id /\ {r, q} \in met
  BY DEF StatusSetDuringArrival, Committed
<1>2. /\ phase'[r] = "committed" /\ job'[r] = job[r]
      /\ phase'[q] = "committed" /\ job'[q] = job[q] /\ {r, q} \in met'
  BY <1>1, HistoryGrows
<1>3. r \in Committed({"check_in"})' /\ q \in Committed({"update_room_status"})'
  BY <1>1, <1>2 DEF Committed
<1>4. {r, q} \in met' /\ job'[r].stay = x /\ job'[q].room = reservations'[x].room_id
  BY <1>1, <1>2
<1> QED
  BY <1>3, <1>4 DEF StatusSetDuringArrival

\* What staff has met stays met.
RoomMet(r) ==
    \E q \in Committed({"update_room_status"}) : {r, q} \in met /\ job[q].room = RoomOf(r)

LEMMA QuietRooms ==
    ASSUME DeskInv, MeetingInv, RacesInv, [BookingNext]_bookingVars, Quiet, NoRace'
    PROVE  (DeparturesHold /\ OccupiedKept /\ RoomsKept /\ StaffHold /\ ArrivalsHold)'
<1>1. DeparturesHold /\ OccupiedKept /\ RoomsKept /\ StaffHold /\ ArrivalsHold
  BY RacesStay DEF RacesInv
<1>2. UNCHANGED <<reservations, rooms>>
  BY DEF Quiet
<1>3. \A x : HasStatus(x, "checked_in")' <=> HasStatus(x, "checked_in")
  BY <1>2 DEF HasStatus, Booked
<1>4. \A room : Left(room) => Left(room)'
  BY LeftStays
<1>5. \A x : StatusSetDuringArrival(x) => StatusSetDuringArrival(x)'
  BY <1>2, StatusSetStays
<1>6. \A q \in Requests : Same(q) \/ Starts(q) \/ Reads(q) \/ Stops(q)
  BY DEF Quiet
<1>7. ASSUME NEW r \in Requests, Departs(r)'
      PROVE  /\ job'[r] = job[r]
             /\ LET row == reservations[job[r].stay] IN
                /\ row.status # "confirmed"
                /\ row.status = "checked_in" => session'[r].stay = row
             /\ \/ Same(r) /\ Departs(r)
                \/ Reads(r)
  <2>1. ~ Starts(r) /\ ~ Stops(r)
    BY <1>7 DEF Starts, Stops, Departs, InProgress
  <2>2. CASE Same(r)
    BY <1>1, <1>7, <2>2 DEF Same, Departs, InProgress, DeparturesHold
  <2>3. CASE Reads(r)
    <3>1. /\ job' = job /\ InProgress(r) /\ Passes(r)
          /\ session'[r].stay = IF phase[r] = "stay" THEN reservations[job[r].stay]
                                ELSE session[r].stay
      BY <2>3, ReadsWhat
    <3>2. job[r].op = "check_out"
      BY <1>7, <3>1 DEF Departs
    <3>3. CASE phase[r] = "stay"
      BY <2>3, <3>1, <3>2, <3>3 DEF Passes, HasStatus
    <3>4. CASE phase[r] # "stay"
      BY <1>1, <2>3, <3>1, <3>2, <3>4 DEF Departs, DeparturesHold
    <3> QED
      BY <3>3, <3>4
  <2> QED
    BY <1>6, <2>1, <2>2, <2>3
<1>8. DeparturesHold'
  BY <1>2, <1>7 DEF DeparturesHold
<1>9. OccupiedKept'
  <2> SUFFICES ASSUME NEW room \in Rooms, rooms[room].status = "occupied"
               PROVE  \E y \in Reservations : Keeps(y, room)'
    BY <1>2 DEF OccupiedKept
  <2>1. PICK y \in Reservations : Keeps(y, room)
    BY <1>1 DEF OccupiedKept
  <2>2. ASSUME NEW r \in Requests, Departs(r)', job'[r].stay = y, phase'[r] \in {"folio", "flush"}
        PROVE  session'[r].room.status # "housekeeping"
    <3>1. CASE Same(r) /\ Departs(r)
      BY <2>1, <2>2, <3>1 DEF Same, Keeps
    <3>2. CASE Reads(r)
      <4>1. /\ job' = job /\ InProgress(r) /\ Asks(r)
            /\ phase[r] \in {"search", "count", "stay", "room", "folio"}
            /\ phase'[r] = Enters(r, phase[r])
            /\ session'[r].room = IF phase[r] = "room" THEN rooms[RoomOf(r)]
                                  ELSE session[r].room
            /\ session'[r].stay = IF phase[r] = "stay" THEN reservations[job[r].stay]
                                  ELSE session[r].stay
        BY <3>2, ReadsWhat
      <4>2. job[r].op = "check_out" /\ job[r].stay = y
        BY <2>2, <4>1 DEF Departs
      <4>3. phase[r] \in {"room", "folio"}
        BY <2>2, <4>1, <4>2 DEF Asks, StatementsOf, Enters, MovesGuest
      <4>4. CASE phase[r] = "folio"
        BY <2>1, <4>1, <4>2, <4>4 DEF Keeps, Departs
      <4>5. CASE phase[r] = "room"
        <5>1. session[r].stay = reservations[y]
          BY <1>7, <2>1, <2>2, <4>1, <4>2, <4>5 DEF Keeps, HasStatus
        <5>2. RoomOf(r) = room
          BY <2>1, <4>2, <5>1 DEF Keeps, RoomOf
        <5> QED
          BY <4>1, <4>5, <5>2
      <4> QED
        BY <4>3, <4>4, <4>5
    <3> QED
      BY <1>7, <2>2, <3>1, <3>2
  <2>3. HasStatus(y, "checked_in")' /\ reservations'[y].room_id = room
    BY <1>2, <1>3, <2>1 DEF Keeps
  <2> QED
    BY <2>2, <2>3 DEF Keeps
<1>10. RoomsKept'
  BY <1>1, <1>2, <1>3, <1>4, <1>5 DEF RoomsKept
<1>11. StaffHold'
  <2> SUFFICES ASSUME NEW r \in Requests, NEW x \in Reservations,
                      InProgress(r)', job'[r].op = "update_room_status", phase'[r] = "flush",
                      HasStatus(x, "checked_in"), reservations[x].room_id = job'[r].room
               PROVE  Left(job[r].room)' \/ StatusSetDuringArrival(x)' \/ StaffMet(r, x)'
    BY <1>2, <1>3 DEF StaffHold
  <2>1. ~ Starts(r) /\ ~ Stops(r)
    BY DEF Starts, Stops, InProgress
  <2>2. job'[r] = job[r] /\ Left(job[r].room) => Left(job[r].room)'
    BY <1>4 DEF Left
  <2>3. CASE Same(r)
    <3>1. Left(job[r].room) \/ StatusSetDuringArrival(x) \/ StaffMet(r, x)
      BY <1>1, <2>3 DEF Same, InProgress, StaffHold
    <3> QED
      BY <1>5, <2>3, <2>2, <3>1, RacesStay DEF Same
  <2>4. CASE Reads(r)
    <3>1. job' = job /\ InProgress(r) /\ Asks(r) /\ Passes(r)
          /\ phase[r] \in {"search", "count", "stay", "room", "folio"}
      BY <2>4, ReadsWhat
    <3>2. phase[r] = "room"
      BY <3>1 DEF Asks, StatementsOf
    <3>3. job[r].status \in AllowedManually[rooms[job[r].room].status]
      BY <3>1, <3>2 DEF Passes, RoomOf
    <3>4. rooms[job[r].room].status # "occupied"
      BY <3>3 DEF AllowedManually
    <3>5. Left(job[r].room) \/ StatusSetDuringArrival(x)
      BY <1>1, <3>1, <3>4 DEF RoomsKept
    <3> QED
      BY <1>5, <2>2, <3>1, <3>5
  <2> QED
    BY <1>6, <2>1, <2>3, <2>4
<1>12. ArrivalsHold'
  <2> SUFFICES ASSUME NEW r \in Requests, InProgress(r)', job'[r].op = "check_in",
                      phase'[r] \in {"folio", "flush"}, session'[r].room.status = "occupied"
               PROVE  rooms[RoomOf(r)'].status = "occupied" \/ Left(RoomOf(r))' \/ RoomMet(r)'
    BY <1>2 DEF ArrivalsHold, RoomMet
  <2>1. ~ Starts(r) /\ ~ Stops(r)
    BY DEF Starts, Stops, InProgress
  <2>2. ASSUME InProgress(r), RoomOf(r)' = RoomOf(r), job'[r] = job[r],
               phase[r] \in {"folio", "flush"}, session[r].room.status = "occupied"
        PROVE  rooms[RoomOf(r)'].status = "occupied" \/ Left(RoomOf(r))' \/ RoomMet(r)'
    <3>1. rooms[RoomOf(r)].status = "occupied" \/ Left(RoomOf(r)) \/ RoomMet(r)
      BY <1>1, <2>2 DEF ArrivalsHold, RoomMet
    <3>2. Left(RoomOf(r)) => Left(RoomOf(r))'
      BY <1>4, <2>2 DEF Left
    <3>3. RoomMet(r) => RoomMet(r)'
      BY <2>2, HistoryGrows DEF RoomMet, Committed
    <3> QED
      BY <2>2, <3>1, <3>2, <3>3
  <2>3. CASE Same(r)
    BY <2>2, <2>3 DEF Same, InProgress, RoomOf
  <2>4. CASE Reads(r)
    <3>1. /\ job' = job /\ InProgress(r) /\ Asks(r)
          /\ phase[r] \in {"search", "count", "stay", "room", "folio"}
          /\ phase'[r] = Enters(r, phase[r])
          /\ session'[r].room = IF phase[r] = "room" THEN rooms[RoomOf(r)]
                                ELSE session[r].room
          /\ session'[r].stay = IF phase[r] = "stay" THEN reservations[job[r].stay]
                                ELSE session[r].stay
      BY <2>4, ReadsWhat
    <3>2. phase[r] \in {"room", "folio"}
      BY <3>1 DEF Asks, StatementsOf, Enters, MovesGuest
    <3>3. RoomOf(r)' = RoomOf(r)
      BY <3>1, <3>2 DEF RoomOf
    <3> QED
      BY <2>2, <3>1, <3>2, <3>3
  <2> QED
    BY <1>6, <2>1, <2>3, <2>4
<1> QED
  BY <1>8, <1>9, <1>10, <1>11, <1>12

\* A departure that has not raced leaves the room it releases.
LEMMA CommitLeaves ==
    ASSUME DeskInv, MeetingInv, [BookingNext]_bookingVars, NEW c \in Requests, Commit(c),
           NoRace', job[c].op = "check_out", NEW room, room = RoomOf(c)
    PROVE  Left(room)'
<1> DEFINE x == job[c].stay
<1>1. job[c].op \in ChangesStay /\ ~ Raced(job[c].stay)'
  <2>1. job[c].op \in ChangesStay
    BY DEF ChangesStay
  <2>2. x \in Reservations /\ job' = job
    BY <2>1, CommitKnows, Commits DEF ChangesStay
  <2> QED
    BY <2>1, <2>2 DEF NoRace
<1>2. /\ session[c].stay = reservations[x] /\ reservations'[x] = NewStay(c)
      /\ reservations[x] \in ReservationRow /\ x \in Reservations
  BY <1>1, CommitFresh
<1>3. reservations'[x] = [reservations[x] EXCEPT !.status = "checked_out"]
  BY <1>2 DEF NewStay
<1>4. /\ reservations'[x].status = "checked_out"
      /\ reservations'[x].room_id = reservations[x].room_id
      /\ reservations'[x] # NoReservation
  <2>1. reservations'[x] \in ReservationRow
    BY <1>2, <1>3 DEF ReservationRow, ReservationStatus
  <2> QED
    BY <1>2, <1>3, <2>1, HotelAssumption DEF ReservationRow
<1>5. room = reservations[x].room_id
  BY <1>2 DEF RoomOf
<1> QED
  BY <1>2, <1>4, <1>5 DEF Left, HasStatus, Booked

\* No commit but a check-in makes a room occupied.
LEMMA CommitOccupies ==
    ASSUME DeskInv, NEW c \in Requests, Commit(c), WritesRoom(c)
    PROVE  /\ job[c].op \in {"check_in", "check_out", "update_room_status"}
           /\ job[c].op = "check_in" <=> NewRoomStatus(c) = "occupied"
           /\ job[c].op = "check_out" => NewRoomStatus(c) = "housekeeping"
<1>1. job[c].op \in {"check_in", "check_out", "update_room_status"}
  BY DEF WritesRoom, MovesGuest
<1>2. job[c].op = "update_room_status" => job[c].status # "occupied"
  BY CommitKnows DEF AllowedManually, RoomRow, RoomStatus
<1> QED
  BY <1>1, <1>2 DEF NewRoomStatus

LEMMA CommitDepartures ==
    ASSUME DeskInv, MeetingInv, DeparturesHold, [BookingNext]_bookingVars,
           NEW c \in Requests, Commit(c), NoRace'
    PROVE  DeparturesHold'
<1> SUFFICES ASSUME NEW r \in Requests, Departs(r)'
             PROVE  LET row == reservations'[job'[r].stay] IN
                    /\ row.status # "confirmed"
                    /\ row.status = "checked_in" => session'[r].stay = row
  BY DEF DeparturesHold
<1> DEFINE x == job[r].stay
<1>1. r # c /\ Same(r) /\ Departs(r)
  BY Commits DEF Same, Departs, InProgress
<1>2. x \in Reservations /\ Booked(x)
  BY <1>1, RequestAt DEF Departs, Asks, ChangesStay
<1>3. /\ reservations[x].status # "confirmed"
      /\ reservations[x].status = "checked_in" => session[r].stay = reservations[x]
  BY <1>1 DEF DeparturesHold
<1>4. CASE reservations'[x] = reservations[x]
  BY <1>1, <1>3, <1>4 DEF Same
<1>5. CASE reservations'[x] # reservations[x]
  <2>1. job[c].stay = x /\ job[c].op = "check_out"
    BY <1>2, <1>3, <1>5, CommitChanges DEF NoRace
  <2>2. reservations'[x].status = "checked_out"
    BY <2>1, CommitStay
  <2> QED
    BY <1>1, <2>2 DEF Same
<1> QED
  BY <1>4, <1>5

LEMMA CommitOccupied ==
    ASSUME DeskInv, MeetingInv, DeparturesHold, OccupiedKept, [BookingNext]_bookingVars,
           NEW c \in Requests, Commit(c), NoRace'
    PROVE  OccupiedKept'
<1> SUFFICES ASSUME NEW room \in Rooms, rooms'[room].status = "occupied"
             PROVE  \E y \in Reservations : Keeps(y, room)'
  BY DEF OccupiedKept
<1>1. \A r \in Requests : Departs(r)' => r # c /\ Same(r) /\ Departs(r)
  BY Commits DEF Same, Departs, InProgress
<1>2. CASE WritesRoom(c) /\ room = RoomOf(c) /\ NewRoomStatus(c) = "occupied"
  <2> DEFINE y == job[c].stay
  <2>1. job[c].op = "check_in" /\ job[c].op \in ChangesStay
    BY <1>2, CommitOccupies DEF ChangesStay
  <2>2. y \in Reservations /\ job' = job
    BY <2>1, CommitKnows, Commits DEF ChangesStay
  <2>3. ~ Raced(job[c].stay)'
    BY <2>2 DEF NoRace
  <2>4. /\ session[c].stay = reservations[y] /\ reservations'[y] = NewStay(c)
        /\ reservations[y] \in ReservationRow /\ reservations[y].status = "confirmed"
    BY <2>1, <2>3, CommitFresh
  <2>5. reservations'[y] = [reservations[y] EXCEPT !.status = "checked_in"]
    BY <2>1, <2>4 DEF NewStay
  <2>6. /\ reservations'[y].status = "checked_in" /\ reservations'[y].room_id = room
        /\ reservations'[y] # NoReservation
    <3>1. reservations'[y] \in ReservationRow
      BY <2>4, <2>5 DEF ReservationRow, ReservationStatus
    <3>2. room = reservations[y].room_id
      BY <1>2, <2>1, <2>4 DEF RoomOf
    <3> QED
      BY <2>4, <2>5, <3>1, <3>2, HotelAssumption DEF ReservationRow
  <2>7. \A r \in Requests : Departs(r)' => job'[r].stay # y
    BY <1>1, <2>2, <2>4 DEF DeparturesHold
  <2>8. Keeps(y, room)'
    BY <2>2, <2>6, <2>7 DEF Keeps, HasStatus, Booked
  <2> QED
    BY <2>2, <2>8
<1>3. CASE ~ (WritesRoom(c) /\ room = RoomOf(c) /\ NewRoomStatus(c) = "occupied")
  <2>1. rooms[room].status = "occupied"
    BY <1>3, CommitStatus
  <2>2. PICK y \in Reservations : Keeps(y, room)
    BY <2>1 DEF OccupiedKept
  <2>3. reservations'[y] = reservations[y]
    <3> SUFFICES ASSUME reservations'[y] # reservations[y] PROVE FALSE
      OBVIOUS
    <3>1. /\ job[c].op = "check_out" /\ job[c].stay = y
          /\ session[c].stay = reservations[y]
      BY <2>2, CommitChanges DEF Keeps, HasStatus, NoRace
    <3>2. WritesRoom(c) /\ room = RoomOf(c)
      BY <2>2, <3>1 DEF Keeps, WritesRoom, MovesGuest, RoomOf
    <3>3. NewRoomStatus(c) = "housekeeping"
      BY <3>1 DEF NewRoomStatus
    <3>4. session[c].room.status = "housekeeping"
      BY <3>2, <3>3, CommitStatus
    <3>5. Departs(c) /\ phase[c] = "flush"
      BY <3>1, Commits DEF Departs
    <3> QED
      BY <2>2, <3>1, <3>4, <3>5 DEF Keeps
  <2>4. Keeps(y, room)'
    BY <1>1, <2>2, <2>3 DEF Keeps, HasStatus, Booked, Same
  <2> QED
    BY <2>4
<1> QED
  BY <1>2, <1>3

\* The seed script gives each reservation a room of its own, occupied by those
\* it checked in.
LEMMA SeededRooms ==
    ASSUME Seeded
    PROVE  /\ \A room \in Rooms : rooms[room].status = "occupied" =>
                \E y \in Reservations :
                    HasStatus(y, "checked_in") /\ reservations[y].room_id = room
           /\ \A x \in Reservations : HasStatus(x, "checked_in") =>
                rooms[reservations[x].room_id].status = "occupied"
           /\ \A x, y \in Reservations :
                Booked(x) /\ Booked(y) /\ reservations[x].room_id = reservations[y].room_id => x = y
<1>1. PICK made, status, place, guest, extra, type :
        /\ made \in SUBSET Reservations /\ status \in [made -> ReservationStatus]
        /\ place \in [made -> Rooms] /\ \A x, y \in made : place[x] = place[y] => x = y
        /\ guest \in [made -> Guests] /\ type \in [Rooms -> RoomTypes]
        /\ SeededWith(made, status, place, guest, extra, type)
  BY DEF Seeded
<1>2. /\ rooms = [a \in Rooms |->
           [status |-> IF \E x \in made : place[x] = a
                       THEN SeedRoomStatus(status[CHOOSE x \in made : place[x] = a])
                       ELSE "available",
            room_type |-> type[a]]]
      /\ reservations = [x \in Reservations |->
           IF x \in made THEN SeedStay(status[x], guest[x], place[x]) ELSE NoReservation]
      /\ today = SeedDay /\ roomTypes \in [RoomTypes -> RoomTypeRow]
  BY <1>1 DEF SeededWith
<1>3. \A x \in made : (CHOOSE y \in made : place[y] = place[x]) = x
  BY <1>1
<1>4. ASSUME NEW x \in made
      PROVE  /\ Booked(x) /\ x \in Reservations
             /\ reservations[x].status = status[x] /\ reservations[x].room_id = place[x]
             /\ rooms[place[x]].status = SeedRoomStatus(status[x])
  <2>1. reservations[x] = SeedStay(status[x], guest[x], place[x]) /\ x \in Reservations
    BY <1>1, <1>2
  <2>2. rooms[place[x]].room_type \in RoomTypes
    BY <1>1, <1>2
  <2>3. SeedStay(status[x], guest[x], place[x]) \in ReservationRow
    BY <1>1, <1>2, <2>2, SeededStay
  <2>4. rooms[place[x]].status = SeedRoomStatus(status[CHOOSE y \in made : place[y] = place[x]])
    BY <1>1, <1>2
  <2>5. Booked(x)
    BY <2>1, <2>3, HotelAssumption DEF Booked
  <2>6. reservations[x].status = status[x] /\ reservations[x].room_id = place[x]
    BY <2>1 DEF SeedStay
  <2>7. rooms[place[x]].status = SeedRoomStatus(status[x])
    BY <1>3, <1>4, <2>4
  <2> QED
    BY <2>1, <2>5, <2>6, <2>7
<1>5. \A x \in Reservations : Booked(x) => x \in made
  BY <1>2 DEF Booked
<1>6. ASSUME NEW room \in Rooms, rooms[room].status = "occupied"
      PROVE  \E y \in Reservations : HasStatus(y, "checked_in") /\ reservations[y].room_id = room
  <2>1. PICK x \in made : place[x] = room
    BY <1>2, <1>6
  <2>2. status[x] = "checked_in"
    BY <1>4, <1>6, <2>1 DEF SeedRoomStatus
  <2> QED
    BY <1>4, <2>1, <2>2 DEF HasStatus
<1>7. \A x \in Reservations : HasStatus(x, "checked_in") =>
        rooms[reservations[x].room_id].status = "occupied"
  BY <1>4, <1>5 DEF HasStatus, SeedRoomStatus
<1>8. \A x, y \in Reservations :
        Booked(x) /\ Booked(y) /\ reservations[x].room_id = reservations[y].room_id => x = y
  BY <1>1, <1>4, <1>5
<1> QED
  BY <1>6, <1>7, <1>8

\* A guest keeps an occupied room through any commit, but for the excuses.
LEMMA CommitRoomsKept ==
    ASSUME DeskInv, MeetingInv, RoomsKept, StaffHold, ArrivalsHold, [BookingNext]_bookingVars,
           NEW c \in Requests, Commit(c), NoRace'
    PROVE  RoomsKept'
<1> SUFFICES ASSUME NEW x \in Reservations, HasStatus(x, "checked_in")',
                    NEW room, room = reservations'[x].room_id
             PROVE  rooms'[room].status = "occupied" \/ Left(room)' \/ StatusSetDuringArrival(x)'
  BY DEF RoomsKept, Left
<1>1. /\ InProgress(c) /\ phase[c] = "flush" /\ phase'[c] = "committed"
      /\ job' = job /\ met' = met
  BY Commits
<1>2. room \in Rooms /\ reservations[x].room_id = room
  <2>1. reservations[x].room_id = room
    BY CommitArrives
  <2>2. reservations'[x] \in ReservationRow
    BY CommitStay DEF HasStatus, Booked
  <2> QED
    BY <2>1, <2>2 DEF ReservationRow
<1>3. Left(room) => Left(room)'
  BY LeftStays
<1>4. CASE reservations'[x] = reservations[x]
  <2>1. \/ rooms[room].status = "occupied" \/ Left(room) \/ StatusSetDuringArrival(x)
    BY <1>2, <1>4 DEF RoomsKept, HasStatus, Booked
  <2>2. CASE WritesRoom(c) /\ room = RoomOf(c) /\ job[c].op = "check_out"
    BY <2>2, CommitLeaves
  <2>3. CASE WritesRoom(c) /\ room = RoomOf(c) /\ job[c].op = "update_room_status"
    <3>1. job[c].room = room
      BY <2>3 DEF RoomOf
    <3>2. Left(room) \/ StatusSetDuringArrival(x) \/ StaffMet(c, x)
      BY <1>1, <1>2, <1>4, <2>3, <3>1 DEF StaffHold, HasStatus, Booked
    <3>3. ASSUME StaffMet(c, x)
          PROVE  StatusSetDuringArrival(x)'
      <4>1. PICK d \in Requests : /\ phase[d] = "committed" /\ job[d].op = "check_in"
                                  /\ {d, c} \in met /\ job[d].stay = x
        BY <3>3 DEF StaffMet, Committed
      <4>2. phase'[d] = "committed"
        BY <4>1, HistoryGrows
      <4>3. d \in Committed({"check_in"})' /\ c \in Committed({"update_room_status"})'
        BY <1>1, <2>3, <4>1, <4>2 DEF Committed
      <4> QED
        BY <1>1, <1>2, <3>1, <4>1, <4>3 DEF StatusSetDuringArrival
    <3> QED
      BY <1>3, <1>4, <3>2, <3>3, StatusSetStays
  <2>4. CASE ~ WritesRoom(c) \/ room # RoomOf(c) \/ job[c].op = "check_in"
    <3>1. rooms[room].status = "occupied" => rooms'[room].status = "occupied"
      BY <1>2, <2>4, CommitStatus, CommitOccupies
    <3> QED
      BY <1>2, <1>3, <1>4, <2>1, <3>1, StatusSetStays
  <2> QED
    BY <2>2, <2>3, <2>4, CommitOccupies
<1>5. CASE reservations'[x] # reservations[x]
  <2>1. job[c].op = "check_in" /\ job[c].stay = x /\ RoomOf(c) = room
    BY <1>2, <1>5, CommitArrives
  <2>2. WritesRoom(c) /\ NewRoomStatus(c) = "occupied"
    BY <2>1 DEF WritesRoom, MovesGuest, NewRoomStatus
  <2> SUFFICES ASSUME rooms'[room].status # "occupied"
               PROVE  Left(room)' \/ StatusSetDuringArrival(x)'
    BY <1>2
  <2>3. session[c].room.status = "occupied" /\ rooms[room].status # "occupied"
    BY <1>2, <2>1, <2>2, CommitStatus
  <2>4. Left(room) \/ RoomMet(c)
    BY <1>1, <2>1, <2>3 DEF ArrivalsHold, RoomMet
  <2>5. ASSUME RoomMet(c)
        PROVE  StatusSetDuringArrival(x)'
    <3>1. PICK q \in Requests : /\ phase[q] = "committed" /\ job[q].op = "update_room_status"
                                /\ {c, q} \in met /\ job[q].room = room
      BY <2>1, <2>5 DEF RoomMet, Committed
    <3>2. phase'[q] = "committed"
      BY <3>1, HistoryGrows
    <3>3. c \in Committed({"check_in"})' /\ q \in Committed({"update_room_status"})'
      BY <1>1, <2>1, <3>1, <3>2 DEF Committed
    <3> QED
      BY <1>1, <1>2, <2>1, <3>1, <3>3 DEF StatusSetDuringArrival
  <2> QED
    BY <1>3, <2>4, <2>5
<1> QED
  BY <1>4, <1>5

LEMMA CommitStaff ==
    ASSUME DeskInv, MeetingInv, StaffHold, [BookingNext]_bookingVars,
           NEW c \in Requests, Commit(c), NoRace'
    PROVE  StaffHold'
<1> SUFFICES ASSUME NEW r \in Requests, NEW x \in Reservations,
                    InProgress(r)', job'[r].op = "update_room_status", phase'[r] = "flush",
                    HasStatus(x, "checked_in")', reservations'[x].room_id = job'[r].room
             PROVE  Left(job[r].room)' \/ StatusSetDuringArrival(x)' \/ StaffMet(r, x)'
  <2>1. job' = job
    BY Commits
  <2> QED
    BY <2>1 DEF StaffHold, Left
<1>1. /\ r # c /\ Same(r) /\ InProgress(r) /\ InProgress(c) /\ phase'[c] = "committed"
      /\ job' = job /\ met' = met
  BY Commits DEF Same, InProgress
<1>2. Left(job[r].room) => Left(job[r].room)'
  BY <1>1, LeftStays DEF Left
<1>3. CASE reservations'[x] = reservations[x]
  <2>1. Left(job[r].room) \/ StatusSetDuringArrival(x) \/ StaffMet(r, x)
    BY <1>1, <1>3 DEF StaffHold, HasStatus, Booked, Same
  <2> QED
    BY <1>2, <1>3, <2>1, StatusSetStays, RacesStay
<1>4. CASE reservations'[x] # reservations[x]
  <2>1. job[c].op = "check_in" /\ job[c].stay = x
    BY <1>4, CommitArrives
  <2>2. c \in Committed({"check_in"})'
    BY <1>1, <2>1 DEF Committed
  <2>3. {c, r} \in met
    BY <1>1 DEF MeetingInv
  <2> QED
    BY <1>1, <2>1, <2>2, <2>3 DEF StaffMet
<1> QED
  BY <1>3, <1>4

LEMMA CommitArrivals ==
    ASSUME DeskInv, MeetingInv, ArrivalsHold, [BookingNext]_bookingVars,
           NEW c \in Requests, Commit(c), NoRace'
    PROVE  ArrivalsHold'
<1> SUFFICES ASSUME NEW r \in Requests, InProgress(r)', job'[r].op = "check_in",
                    phase'[r] \in {"folio", "flush"}, session'[r].room.status = "occupied",
                    NEW room, room = RoomOf(r)'
             PROVE  rooms'[room].status = "occupied" \/ Left(room)' \/ RoomMet(r)'
  BY DEF ArrivalsHold, RoomMet, Left
<1>1. /\ r # c /\ Same(r) /\ InProgress(r) /\ InProgress(c) /\ phase'[c] = "committed"
      /\ job' = job /\ met' = met
  BY Commits DEF Same, InProgress
<1>2. RoomOf(r) = room
  BY <1>1 DEF RoomOf, Same
<1>3. room \in Rooms
  <2>1. session[r].stay \in ReservationRow
    BY <1>1, RequestAt DEF Same, HasRead, StayRead, ChangesStay
  <2> QED
    BY <1>1, <1>2, <2>1 DEF RoomOf, ReservationRow
<1>4. Left(room) => Left(room)'
  BY LeftStays
<1>5. RoomMet(r) => RoomMet(r)'
  BY <1>1, <1>2, HistoryGrows DEF RoomMet, Committed
<1>6. rooms[room].status = "occupied" \/ Left(room) \/ RoomMet(r)
  BY <1>1, <1>2 DEF ArrivalsHold, RoomMet, Same
<1>7. CASE WritesRoom(c) /\ room = RoomOf(c) /\ job[c].op = "check_out"
  BY <1>7, CommitLeaves
<1>8. CASE WritesRoom(c) /\ room = RoomOf(c) /\ job[c].op = "update_room_status"
  <2>1. c \in Committed({"update_room_status"})' /\ job[c].room = room
    BY <1>1, <1>8 DEF Committed, RoomOf
  <2>2. {r, c} \in met
    BY <1>1 DEF MeetingInv
  <2>3. RoomMet(r)'
    BY <1>1, <1>2, <2>1, <2>2 DEF RoomMet
  <2> QED
    BY <2>3
<1>9. CASE ~ WritesRoom(c) \/ room # RoomOf(c) \/ job[c].op = "check_in"
  <2>1. rooms[room].status = "occupied" => rooms'[room].status = "occupied"
    BY <1>3, <1>9, CommitStatus, CommitOccupies
  <2> QED
    BY <1>4, <1>5, <1>6, <2>1
<1> QED
  BY <1>7, <1>8, <1>9, CommitOccupies

LEMMA NextRaces ==
    DeskInv /\ MeetingInv /\ RacesInv /\ [BookingNext]_bookingVars => RacesInv'
<1> SUFFICES ASSUME DeskInv, MeetingInv, RacesInv, [BookingNext]_bookingVars, NoRace'
             PROVE  (DeparturesHold /\ OccupiedKept /\ RoomsKept /\ StaffHold /\ ArrivalsHold)'
  BY DEF RacesInv
<1>1. DeparturesHold /\ OccupiedKept /\ RoomsKept /\ StaffHold /\ ArrivalsHold
  BY RacesStay DEF RacesInv
<1>2. ASSUME NEW c \in Requests, Commit(c)
      PROVE  (DeparturesHold /\ OccupiedKept /\ RoomsKept /\ StaffHold /\ ArrivalsHold)'
  BY <1>1, <1>2, CommitDepartures, CommitOccupied, CommitRoomsKept, CommitStaff, CommitArrivals
<1>3. Quiet \/ (\E r \in Requests : Commit(r))
  BY QuietOrCommit
<1> QED
  BY <1>2, <1>3, QuietRooms

LEMMA InitRaces == BookingInit => RacesInv
<1> SUFFICES ASSUME BookingInit
             PROVE  DeparturesHold /\ OccupiedKept /\ RoomsKept /\ StaffHold /\ ArrivalsHold
  BY DEF RacesInv
<1>1. \A r \in Requests : ~ InProgress(r)
  BY DEF BookingInit, InProgress
<1>2. /\ \A room \in Rooms : rooms[room].status = "occupied" =>
           \E y \in Reservations : HasStatus(y, "checked_in") /\ reservations[y].room_id = room
      /\ RoomsKept
  <2>1. \A room \in Rooms : rooms[room].status = "occupied" =>
           \E y \in Reservations : HasStatus(y, "checked_in") /\ reservations[y].room_id = room
    BY SeededRooms DEF BookingInit
  <2>2. RoomsKept
    BY SeededRooms DEF BookingInit, RoomsKept
  <2> QED
    BY <2>1, <2>2
<1>3. OccupiedKept
  BY <1>1, <1>2 DEF OccupiedKept, Keeps, Departs
<1> QED
  BY <1>1, <1>2, <1>3 DEF DeparturesHold, Departs, StaffHold, ArrivalsHold

\* A room stays occupied without a guest only after two requests on one
\* reservation have raced (reservation_controller.py:150, :170): otherwise the
\* check-in that occupied it has left a guest whose check-out reads the room as
\* occupied and so releases it, whatever else overlaps.
THEOREM OnlyRacesStrand == BookingSpec => []StuckOnlyByRace
<1>1. BookingInit => DeskInv /\ MeetingInv /\ RacesInv
  BY InitDesk, InitMeeting, InitRaces
<1>2. (DeskInv /\ MeetingInv /\ RacesInv) /\ [BookingNext]_bookingVars
        => (DeskInv /\ MeetingInv /\ RacesInv)'
  BY NextDesk, NextMeeting, NextRaces
<1>3. RacesInv => StuckOnlyByRace
  BY DEF RacesInv, NoRace, OccupiedKept, Keeps, StuckOnlyByRace
<1> QED
  BY <1>1, <1>2, <1>3, PTL DEF BookingSpec

\* A guest who has arrived has an occupied room, unless another guest has left
\* it, staff set its status while the guest was arriving (room_controller.py:140),
\* or two requests on a reservation raced.  Staff who read the room after the
\* arrival are refused by _ALLOWED_MANUAL_TRANSITIONS, for any number of requests.
THEOREM OnlyOverlapsTakeRooms == BookingSpec => []RoomLostOnlyByOverlap
<1>1. BookingInit => DeskInv /\ MeetingInv /\ RacesInv
  BY InitDesk, InitMeeting, InitRaces
<1>2. (DeskInv /\ MeetingInv /\ RacesInv) /\ [BookingNext]_bookingVars
        => (DeskInv /\ MeetingInv /\ RacesInv)'
  BY NextDesk, NextMeeting, NextRaces
<1>3. RacesInv => RoomLostOnlyByOverlap
  <2> SUFFICES ASSUME RacesInv, NoRace, NEW x \in Reservations, HasStatus(x, "checked_in"),
                      Left(reservations[x].room_id)
               PROVE  \E y \in Reservations \ {x} :
                        HasStatus(y, "checked_out")
                        /\ reservations[y].room_id = reservations[x].room_id
    BY DEF RacesInv, NoRace, RoomsKept, RoomLostOnlyByOverlap
  <2>1. PICK y \in Reservations : HasStatus(y, "checked_out")
                                  /\ reservations[y].room_id = reservations[x].room_id
    BY DEF Left
  <2>2. y # x
    BY <2>1 DEF HasStatus
  <2> QED
    BY <2>1, <2>2
<1> QED
  BY <1>1, <1>2, <1>3, PTL DEF BookingSpec

-----------------------------------------------------------------------------
(* Searches *)

LEMMA CreateSeeks ==
    ASSUME NEW r, job[r].op = "create_reservation"
    PROVE  /\ NewStay(r).room_id = job[r].room
           /\ NewStay(r).check_in_date = job[r].check_in_date
           /\ NewStay(r).check_out_date = job[r].check_out_date
  BY DEF NewStay

\* What has been sought stays what is written.
LEMMA SeeksSame ==
    ASSUME NEW r, job'[r] = job[r], job[r].op \in Books,
           job[r].op = "update_reservation" => session'[r].stay = session[r].stay
    PROVE  /\ NewStay(r)'.room_id = NewStay(r).room_id
           /\ NewStay(r)'.check_in_date = NewStay(r).check_in_date
           /\ NewStay(r)'.check_out_date = NewStay(r).check_out_date
<1>1. CASE job[r].op = "create_reservation"
  BY <1>1 DEF NewStay
<1>2. CASE job[r].op = "update_reservation"
  BY <1>2 DEF NewStay
<1> QED
  BY <1>1, <1>2 DEF Books

LEMMA NothingTaken ==
    ASSUME NEW r, NEW y \in Reservations,
           NewStay(r).room_id
             \in AvailableRooms(NewStay(r).check_in_date, NewStay(r).check_out_date)
    PROVE  ~ Takes(y, r)
  BY DEF Takes, AvailableRooms

Excused(x, y) ==
    SearchedTogether(x, y) \/ Redated(x) \/ Redated(y) \/ Raced(x) \/ Raced(y)

LEMMA ExcusedStays ==
    ASSUME DeskInv, [BookingNext]_bookingVars, NEW x, NEW y, Excused(x, y)
    PROVE  Excused(x, y)'
  BY RacesStay DEF Excused

LEMMA ExcusedEither ==
    ASSUME NEW x, NEW y, Excused(x, y)'
    PROVE  Excused(y, x)'
<1>1. ASSUME SearchedTogether(x, y)'
      PROVE  SearchedTogether(y, x)'
  <2>1. PICK r \in Committed(Books)', q \in Committed(Books)' :
          {r, q} \in met' /\ job'[r].stay = x /\ job'[q].stay = y
    BY <1>1 DEF SearchedTogether, Books
  <2>2. {q, r} = {r, q}
    OBVIOUS
  <2> QED
    BY <2>1, <2>2 DEF SearchedTogether, Books
<1> QED
  BY <1>1 DEF Excused

LEMMA QuietSearches ==
    ASSUME DeskInv, SearchesInv, [BookingNext]_bookingVars, Quiet
    PROVE  SearchesInv'
<1> SUFFICES ASSUME NEW r \in Requests, NEW y \in Reservations, HasSearched(r)', Takes(y, r)'
             PROVE  Meets(r, y)' \/ Redated(y)' \/ Raced(y)'
  BY DEF SearchesInv
<1>1. UNCHANGED reservations /\ (Same(r) \/ Starts(r) \/ Reads(r) \/ Stops(r))
  BY DEF Quiet
<1>2. ~ Starts(r) /\ ~ Stops(r)
  BY DEF HasSearched, Starts, Stops, InProgress
<1>3. ASSUME HasSearched(r), job'[r] = job[r],
             job[r].op = "update_reservation" => session'[r].stay = session[r].stay
      PROVE  Meets(r, y)' \/ Redated(y)' \/ Raced(y)'
  <2>1. InProgress(r) /\ job[r].op \in Books
    BY <1>3 DEF HasSearched, Books
  <2>2. Takes(y, r)
    BY <1>1, <1>3, <2>1, SeeksSame DEF Takes, Overlapping, Active, HasStatus, Booked
  <2>3. Meets(r, y) \/ Redated(y) \/ Raced(y)
    BY <1>3, <2>2 DEF SearchesInv
  <2> QED
    BY <2>1, <2>3, RacesStay
<1>4. CASE Same(r)
  <2>1. HasSearched(r)
    BY <1>4 DEF HasSearched, InProgress, Same, NewStay
  <2> QED
    BY <1>3, <1>4, <2>1 DEF Same
<1>5. CASE Reads(r)
  <2>1. /\ job' = job /\ InProgress(r) /\ Asks(r) /\ Passes(r)
        /\ phase[r] \in {"search", "count", "stay", "room", "folio"}
        /\ phase'[r] = Enters(r, phase[r])
        /\ session'[r].stay = IF phase[r] = "stay" THEN reservations[job[r].stay]
                              ELSE session[r].stay
    BY <1>5, ReadsWhat
  <2>2. CASE job[r].op = "create_reservation" /\ phase[r] = "count"
    <3>1. HasSearched(r)
      BY <2>1, <2>2 DEF HasSearched
    <3> QED
      BY <1>3, <2>1, <2>2, <3>1
  <2>3. CASE job[r].op = "create_reservation" /\ phase[r] = "search"
    <3>1. job[r].room \in AvailableRooms(job[r].check_in_date, job[r].check_out_date)
      BY <2>1, <2>3 DEF Passes
    <3>2. ~ Takes(y, r)
      BY <2>3, <3>1, CreateSeeks, NothingTaken
    <3> QED
      BY <1>1, <2>1, <2>3, <3>2, SeeksSame
         DEF Takes, Overlapping, Active, HasStatus, Booked, Books
  <2>4. CASE job[r].op = "update_reservation"
    <3>1. phase[r] = "search" /\ session'[r].stay = session[r].stay
      BY <2>1, <2>4 DEF HasSearched, Asks, StatementsOf, Enters
    <3>2. NewStay(r)' = NewStay(r)
      BY <2>1, <2>4, <3>1 DEF NewStay
    <3>3. NewStay(r).room_id # session[r].stay.room_id
      BY <2>1, <2>4, <3>1, <3>2 DEF HasSearched
    <3>4. ~ Takes(y, r)
      BY <2>1, <2>4, <3>1, <3>3, NothingTaken DEF Passes
    <3> QED
      BY <1>1, <2>1, <3>2, <3>4 DEF Takes, Overlapping, Active, HasStatus, Booked
  <2>5. job[r].op \in Books
    BY <2>1 DEF HasSearched, Books
  <2>6. job[r].op = "create_reservation" => phase[r] \in {"count", "search"}
    BY <2>1 DEF Asks, StatementsOf
  <2> QED
    BY <2>2, <2>3, <2>4, <2>5, <2>6 DEF Books
<1> QED
  BY <1>1, <1>2, <1>4, <1>5

\* A check-in that has not raced keeps the room and the dates of its reservation.
LEMMA CommitKeepsDates ==
    ASSUME DeskInv, MeetingInv, [BookingNext]_bookingVars, NEW c \in Requests, Commit(c),
           NEW x \in Reservations, Booked(x), ~ Raced(x)', Active(x)',
           reservations'[x] # reservations[x], job[c].op # "update_reservation"
    PROVE  /\ Active(x)
           /\ reservations'[x].room_id = reservations[x].room_id
           /\ reservations'[x].check_in_date = reservations[x].check_in_date
           /\ reservations'[x].check_out_date = reservations[x].check_out_date
<1>1. /\ job[c].op \in ChangesStay /\ job[c].stay = x
      /\ session[c].stay = reservations[x]
      /\ reservations'[x] = NewStay(c)
      /\ reservations[x] \in ReservationRow
      /\ reservations[x].status = IF job[c].op = "check_out" THEN "checked_in" ELSE "confirmed"
  BY CommitChanges
<1>2. job[c].op = "check_in"
  BY <1>1, CommitStay DEF Active, HasStatus, ChangesStay
<1>3. reservations'[x] = [reservations[x] EXCEPT !.status = "checked_in"]
  BY <1>1, <1>2 DEF NewStay
<1> QED
  BY <1>1, <1>2, <1>3 DEF Active, HasStatus, ReservationRow

LEMMA CommitSearches ==
    ASSUME DeskInv, MeetingInv, SearchesInv, [BookingNext]_bookingVars,
           NEW c \in Requests, Commit(c)
    PROVE  SearchesInv'
<1> SUFFICES ASSUME NEW r \in Requests, NEW y \in Reservations, HasSearched(r)', Takes(y, r)'
             PROVE  Meets(r, y)' \/ Redated(y)' \/ Raced(y)'
  BY DEF SearchesInv
<1>1. /\ r # c /\ Same(r) /\ InProgress(c) /\ phase'[c] = "committed"
      /\ job' = job /\ met' = met
  BY Commits DEF Same, HasSearched, InProgress
<1>2. HasSearched(r) /\ InProgress(r) /\ job[r].op \in Books
  BY <1>1 DEF HasSearched, InProgress, Same, NewStay, Books
<1>3. ASSUME Takes(y, r)
      PROVE  Meets(r, y)' \/ Redated(y)' \/ Raced(y)'
  <2>1. Meets(r, y) \/ Redated(y) \/ Raced(y)
    BY <1>2, <1>3 DEF SearchesInv
  <2> QED
    BY <1>2, <2>1, RacesStay
<1>4. /\ NewStay(r)'.room_id = NewStay(r).room_id
      /\ NewStay(r)'.check_in_date = NewStay(r).check_in_date
      /\ NewStay(r)'.check_out_date = NewStay(r).check_out_date
  BY <1>1, <1>2, SeeksSame DEF Same
<1>5. CASE reservations'[y] = reservations[y]
  BY <1>1, <1>3, <1>4, <1>5 DEF Takes, Overlapping, Active, HasStatus, Booked
<1>6. CASE reservations'[y] # reservations[y] /\ job[c].op \in Books
  <2>1. job[c].stay = y
    BY <1>6, CommitStay
  <2>2. c \in Committed(Books)' /\ {r, c} \in met
    BY <1>1, <1>2, <1>6 DEF Committed, MeetingInv
  <2>3. Meets(r, y)'
    BY <1>1, <2>1, <2>2 DEF Meets
  <2> QED
    BY <2>3
<1>7. CASE reservations'[y] # reservations[y] /\ job[c].op \notin Books /\ ~ Raced(y)'
  <2>1. job[c].stay = y /\ job[c].op # "update_room_status"
    BY <1>7, CommitStay
  <2>2. Booked(y)
    BY <1>7, <2>1, CommitKnows DEF Asks, ChangesStay, Books
  <2>3. /\ Active(y) /\ reservations'[y].room_id = reservations[y].room_id
        /\ reservations'[y].check_in_date = reservations[y].check_in_date
        /\ reservations'[y].check_out_date = reservations[y].check_out_date
    BY <1>7, <2>2, CommitKeepsDates DEF Takes, Books
  <2>4. Takes(y, r)
    BY <1>1, <1>4, <2>3 DEF Takes, Overlapping
  <2> QED
    BY <1>3, <2>4
<1> QED
  BY <1>5, <1>6, <1>7

\* A request that comes to share a room has met the other, or is excused.
LEMMA CommitShares ==
    ASSUME DeskInv, MeetingInv, SearchesInv, DoubleBookedOnlyByOverlap,
           [BookingNext]_bookingVars, NEW c \in Requests, Commit(c),
           NEW x \in Reservations, NEW y \in Reservations, DoubleBooked(x, y)',
           reservations'[x] # reservations[x]
    PROVE  Excused(x, y)'
<1>1. job[c].op # "update_room_status" /\ job[c].stay = x
  BY CommitStay
<1>2. /\ x # y /\ Active(x)' /\ Active(y)'
      /\ reservations'[x].room_id = reservations'[y].room_id
      /\ reservations'[y] = reservations[y]
      /\ phase[c] = "flush" /\ phase'[c] = "committed" /\ InProgress(c) /\ job' = job /\ met' = met
  BY <1>1, CommitStay, Commits DEF DoubleBooked
<1>3. Active(y)
  BY <1>2 DEF Active, HasStatus, Booked
<1>4. Overlapping(y, reservations'[x].check_in_date, reservations'[x].check_out_date)
  <2>1. reservations'[x] \in ReservationRow /\ reservations'[y] \in ReservationRow
    BY <1>2, CommitStay DEF Active, HasStatus, Booked
  <2>2. Days \subseteq Int
    BY HotelAssumption DEF Days
  <2>3. PICK d \in Days : /\ reservations'[x].check_in_date <= d
                         /\ d < reservations'[x].check_out_date
                         /\ reservations'[y].check_in_date <= d
                         /\ d < reservations'[y].check_out_date
    BY DEF DoubleBooked, Nights
  <2>4. /\ d \in Int
        /\ reservations'[x].check_in_date \in Int /\ reservations'[x].check_out_date \in Int
        /\ reservations'[y].check_in_date \in Int /\ reservations'[y].check_out_date \in Int
    BY <2>1, <2>2, <2>3 DEF ReservationRow
  <2>5. /\ reservations'[y].check_in_date < reservations'[x].check_out_date
        /\ reservations'[y].check_out_date > reservations'[x].check_in_date
    BY <2>3, <2>4
  <2> QED
    BY <1>2, <2>5 DEF Overlapping
<1>5. ASSUME HasSearched(c), reservations'[x].room_id = NewStay(c).room_id,
             reservations'[x].check_in_date = NewStay(c).check_in_date,
             reservations'[x].check_out_date = NewStay(c).check_out_date
      PROVE  Excused(x, y)'
  <2>1. Takes(y, c)
    BY <1>1, <1>2, <1>3, <1>4, <1>5 DEF Takes
  <2>2. Meets(c, y) \/ Redated(y) \/ Raced(y)
    BY <1>5, <2>1 DEF SearchesInv
  <2>3. ASSUME Meets(c, y)
        PROVE  SearchedTogether(x, y)'
    <3>1. PICK q \in Requests : /\ phase[q] = "committed" /\ job[q].op \in Books
                                /\ {c, q} \in met /\ job[q].stay = y
      BY <2>3 DEF Meets, Committed
    <3>2. phase'[q] = "committed"
      BY <3>1, HistoryGrows
    <3>3. c \in Committed(Books)' /\ q \in Committed(Books)'
      BY <1>2, <1>5, <3>1, <3>2 DEF Committed, HasSearched, Books
    <3> QED
      BY <1>1, <1>2, <3>1, <3>3 DEF SearchedTogether, Books
  <2> QED
    BY <2>2, <2>3, RacesStay DEF Excused
<1>6. ASSUME DoubleBooked(x, y)
      PROVE  Excused(x, y)'
  <2>1. Excused(x, y)
    BY <1>6 DEF DoubleBookedOnlyByOverlap, Excused
  <2> QED
    BY <2>1, ExcusedStays
<1>7. ASSUME Active(x), reservations'[x].room_id = reservations[x].room_id,
             reservations'[x].check_in_date = reservations[x].check_in_date,
             reservations'[x].check_out_date = reservations[x].check_out_date
      PROVE  Excused(x, y)'
  <2>1. Nights(x)' = Nights(x) /\ Nights(y)' = Nights(y)
    BY <1>2, <1>7 DEF Nights
  <2>2. DoubleBooked(x, y)
    BY <1>2, <1>3, <1>7, <2>1 DEF DoubleBooked
  <2> QED
    BY <1>6, <2>2
<1>8. CASE job[c].op = "create_reservation"
  <2>1. HasSearched(c)
    BY <1>2, <1>8 DEF HasSearched
  <2>2. WriteStay(c)
    BY DEF Commit
  <2>3. reservations' = [reservations EXCEPT ![x] = NewStay(c)]
    BY <1>1, <1>8, <2>2 DEF WriteStay, ChangesStay
  <2>4. reservations'[x] = NewStay(c)
    <3>1. reservations \in [Reservations -> ReservationRow \cup {NoReservation}]
      BY DEF DeskInv, BookingTypeOK, HotelTypeOK, DeskTypeOK
    <3> QED
      BY <2>3, <3>1
  <2> QED
    BY <1>5, <2>1, <2>4
<1>9. CASE job[c].op \in ChangesStay /\ ~ Raced(x)'
  <2>1. Booked(x)
    BY <1>1, <1>9, CommitKnows DEF Asks
  <2>2. CASE job[c].op # "update_reservation"
    <3>1. /\ Active(x) /\ reservations'[x].room_id = reservations[x].room_id
          /\ reservations'[x].check_in_date = reservations[x].check_in_date
          /\ reservations'[x].check_out_date = reservations[x].check_out_date
      BY <1>2, <1>9, <2>1, <2>2, CommitKeepsDates
    <3> QED
      BY <1>7, <3>1
  <2>3. CASE job[c].op = "update_reservation"
    <3> DEFINE patch == job[c].patch
    <3>1. /\ session[c].stay = reservations[x] /\ reservations'[x] = NewStay(c)
          /\ reservations[x] \in ReservationRow /\ reservations[x].status = "confirmed"
      BY <1>9, <2>1, <2>3, CommitChanges
    <3>2. CASE {"check_in_date", "check_out_date"} \cap DOMAIN patch # {}
      <4>1. c \in Committed({"update_reservation"})'
        BY <1>2, <2>3 DEF Committed
      <4>2. Redated(x)'
        BY <1>1, <1>2, <3>2, <4>1 DEF Redated
      <4> QED
        BY <4>2 DEF Excused
    <3>3. CASE {"check_in_date", "check_out_date"} \cap DOMAIN patch = {}
      <4>1. NewStay(c) = Patched(reservations[x], patch)
        BY <2>3, <3>1 DEF NewStay, Patched
      <4>2. /\ reservations'[x].check_in_date = reservations[x].check_in_date
            /\ reservations'[x].check_out_date = reservations[x].check_out_date
        BY <3>1, <3>3, <4>1 DEF Patched, ReservationRow
      <4>3. Active(x)
        BY <2>1, <3>1 DEF Active, HasStatus
      <4>4. CASE NewStay(c).room_id # session[c].stay.room_id
        <5>1. HasSearched(c)
          BY <1>2, <2>3, <4>4 DEF HasSearched
        <5> QED
          BY <1>5, <3>1, <5>1
      <4>5. CASE NewStay(c).room_id = session[c].stay.room_id
        BY <1>7, <3>1, <4>2, <4>3, <4>5
      <4> QED
        BY <4>4, <4>5
    <3> QED
      BY <3>2, <3>3
  <2> QED
    BY <2>2, <2>3
<1>10. CASE Raced(x)'
  BY <1>10 DEF Excused
<1> QED
  BY <1>1, <1>8, <1>9, <1>10, CommitKnows DEF ChangesStay

LEMMA NextShares ==
    DeskInv /\ MeetingInv /\ SearchesInv /\ DoubleBookedOnlyByOverlap /\ [BookingNext]_bookingVars
      => DoubleBookedOnlyByOverlap'
<1> SUFFICES ASSUME DeskInv, MeetingInv, SearchesInv, DoubleBookedOnlyByOverlap,
                    [BookingNext]_bookingVars,
                    NEW x \in Reservations, NEW y \in Reservations, DoubleBooked(x, y)'
             PROVE  Excused(x, y)'
  BY DEF DoubleBookedOnlyByOverlap, Excused
<1>1. CASE reservations'[x] = reservations[x] /\ reservations'[y] = reservations[y]
  <2>1. DoubleBooked(x, y)
    BY <1>1 DEF DoubleBooked, Active, HasStatus, Booked, Nights
  <2>2. Excused(x, y)
    BY <2>1 DEF DoubleBookedOnlyByOverlap, Excused
  <2> QED
    BY <2>2, ExcusedStays
<1>2. CASE ~ (reservations'[x] = reservations[x] /\ reservations'[y] = reservations[y])
  <2>1. PICK c \in Requests : Commit(c)
    BY <1>2, QuietOrCommit DEF Quiet
  <2>2. CASE reservations'[x] # reservations[x]
    BY <2>1, <2>2, CommitShares
  <2>3. CASE reservations'[y] # reservations[y]
    <3>1. DoubleBooked(y, x)'
      BY DEF DoubleBooked
    <3>2. Excused(y, x)'
      BY <2>1, <2>3, <3>1, CommitShares
    <3> QED
      BY <3>2, ExcusedEither
  <2> QED
    BY <1>2, <2>2, <2>3
<1> QED
  BY <1>1, <1>2

LEMMA NextSearches ==
    DeskInv /\ MeetingInv /\ SearchesInv /\ [BookingNext]_bookingVars => SearchesInv'
<1> SUFFICES ASSUME DeskInv, MeetingInv, SearchesInv, [BookingNext]_bookingVars
             PROVE  SearchesInv'
  OBVIOUS
<1>1. ASSUME NEW c \in Requests, Commit(c)
      PROVE  SearchesInv'
  BY <1>1, CommitSearches
<1>2. Quiet \/ (\E r \in Requests : Commit(r))
  BY QuietOrCommit
<1> QED
  BY <1>1, <1>2, QuietSearches

LEMMA InitSearches == BookingInit => SearchesInv /\ DoubleBookedOnlyByOverlap
<1>1. BookingInit => SearchesInv
  BY DEF BookingInit, SearchesInv, HasSearched, InProgress
<1>2. BookingInit => DoubleBookedOnlyByOverlap
  BY SeededRooms DEF BookingInit, DoubleBookedOnlyByOverlap, DoubleBooked, Active, HasStatus
<1> QED
  BY <1>1, <1>2

\* A room is booked twice only by two searches that overlapped, by a change of
\* dates, which is not searched for (reservation_controller.py:133), or by
\* requests that raced: whoever commits last has either seen the other booking
\* in its search or was in progress when the other committed.
THEOREM OnlyOverlapsDoubleBook == BookingSpec => []DoubleBookedOnlyByOverlap
<1>1. BookingInit => DeskInv /\ MeetingInv /\ SearchesInv /\ DoubleBookedOnlyByOverlap
  BY InitDesk, InitMeeting, InitSearches
<1>2. (DeskInv /\ MeetingInv /\ SearchesInv /\ DoubleBookedOnlyByOverlap)
        /\ [BookingNext]_bookingVars
        => (DeskInv /\ MeetingInv /\ SearchesInv /\ DoubleBookedOnlyByOverlap)'
  BY NextDesk, NextMeeting, NextSearches, NextShares
<1> QED
  BY <1>1, <1>2, PTL DEF BookingSpec
=============================================================================
