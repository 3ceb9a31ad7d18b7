------------------------------ MODULE BookingTxn ------------------------------
(***************************************************************************)
(* The desk of Hotel.tla cut where requests interleave, as BillingTxn.tla  *)
(* cuts billing: at the database statements of reservation_controller.py   *)
(* and of update_room_status.  What a statement reads it reads from the    *)
(* last commit and keeps in its session; all writes of a request go out in *)
(* one flush, row by row, and appear together at its commit.               *)
(*                                                                         *)
(*   create_reservation     search, count, flush                           *)
(*   update_reservation     stay, search, flush                            *)
(*   cancel, mark_no_show   stay, flush                                    *)
(*   check_in, check_out    stay, room, folio, flush                       *)
(*   update_room_status     room, flush                                    *)
(*                                                                         *)
(* The tables of Hotel.tla are the committed ones.  The desk opens on what *)
(* scripts/seed.py left there.                                             *)
(***************************************************************************)
EXTENDS Hotel

CONSTANTS
    MaxRequests,  \* bound: requests there may ever be
    MaxOpen,      \* bound: requests in progress at a time
    Midnights,    \* bound: days that begin after the script has run
    BookingJobs,  \* what a request may ask for
    NoJob         \* what a request that has not started asks for

Requests == 1..MaxRequests

\* What a patch may name, the status not among it.
PatchColumns == {"room_id", "check_in_date", "check_out_date", "party"}

ChangesStay == {"update_reservation", "cancel_reservation", "mark_no_show",
                "check_in", "check_out"}

\* The schema compares the two dates of a patch that names both.
PatchAllowed(patch) ==
    LET Names(column, values) == column \in DOMAIN patch => patch[column] \in values
    IN  /\ DOMAIN patch \subseteq PatchColumns
        /\ Names("room_id", Rooms) /\ Names("party", Parties)
        /\ Names("check_in_date", Days) /\ Names("check_out_date", Days)
        /\ {"check_in_date", "check_out_date"} \subseteq DOMAIN patch =>
              patch.check_in_date < patch.check_out_date

ASSUME BookingAssumption ==
    /\ MaxRequests \in Nat
    /\ MaxOpen \in Nat
    /\ Midnights \in Nat
    /\ IsFiniteSet(Reservations)
    /\ NoJob \notin BookingJobs
    /\ \A asked \in BookingJobs :
         /\ asked.op \in ChangesStay \cup {"create_reservation", "update_room_status"}
         /\ asked.op = "update_room_status" \/ asked.stay \in Reservations
         /\ asked.op = "create_reservation" =>
              /\ asked.guest \in Guests /\ asked.room \in Rooms /\ asked.party \in Parties
              /\ asked.check_in_date \in Days /\ asked.check_out_date \in Days
              /\ asked.check_in_date < asked.check_out_date
         /\ asked.op = "update_room_status" =>
              asked.room \in Rooms /\ asked.status \in RoomStatus
         /\ asked.op = "update_reservation" => PatchAllowed(asked.patch)

VARIABLES
    number,   \* reservations.confirmation_no: the day and the count it is made of
    job,      \* what a request asks for
    phase,    \* the statement it is at
    session,  \* what it has read
    held,     \* the rows it has locked, and the unique keys it has inserted
    met       \* history: the pairs of requests that were in progress together

progress == <<job, phase, session, held, met>>
bookingVars == <<hotelVars, number, progress>>

Phases == {"idle", "search", "count", "stay", "room", "folio", "flush", "committed", "failed"}

InProgress(r) == phase[r] \notin {"idle", "committed", "failed"}

NoNumber == [day |-> 0, seq |-> 0]

\* stay, room, type and folio are rows; nights are those to charge.
EmptySession ==
    [stay |-> NoReservation, room |-> NoReservation, type |-> NoReservation,
     number |-> NoNumber, folio |-> NoFolio, nights |-> 0]

\* Mutant of NextNumber: reservations that are over are not counted.
NextNumberOfActive ==
    [day |-> today, seq |-> Cardinality({x \in Reservations : Active(x)}) + 1]

\* _next_confirmation_no
NextNumber ==
    [day |-> today, seq |-> Cardinality({x \in Reservations : Booked(x)}) + 1]

-----------------------------------------------------------------------------
(* What scripts/seed.py leaves: stays of each kind, each in a room of its own *)

\* There are two days to look back on.
SeedDay == 2

\* Past, present and future, by the day the script runs.
SeedDates ==
    [checked_out |-> <<today - 2, today - 1>>, no_show |-> <<today - 2, today - 1>>,
     checked_in |-> <<today - 1, today + 1>>,
     confirmed |-> <<today + 1, today + 2>>, cancelled |-> <<today + 1, today + 2>>]

SeedStay(status, guest, room) ==
    [status |-> status, guest_id |-> guest, room_id |-> room,
     check_in_date |-> SeedDates[status][1], check_out_date |-> SeedDates[status][2],
     party |-> 1, rate_per_night |-> roomTypes[rooms[room].room_type].base_rate]

Night(rate) == [item_type |-> "room_charge", void |-> FALSE, total |-> rate]

\* A departed guest was charged the night of arrival, paid it, and the folio was
\* closed; a guest in the house was charged that night and something else.
SeedLines(status, rate, extra) ==
    CASE status = "checked_out" -> <<Night(rate)>>
      [] status = "checked_in"  -> <<Night(rate), [item_type |-> "extra", void |-> FALSE,
                                                  total |-> RoundCents(extra)]>>
      [] OTHER -> <<>>

SeedFolio(status, rate, extra) ==
    LET opened == [NoFolio EXCEPT !.status = "open"] IN
    CASE status = "checked_out" ->
             [Paid(Charged(opened, Ticks(rate)), Ticks(rate)) EXCEPT !.status = "closed"]
      [] status = "checked_in" -> Charged(Charged(opened, Ticks(rate)), extra)
      [] OTHER -> opened

SeedRoomStatus(status) ==
    CASE status = "checked_in" -> "occupied"
      [] status = "checked_out" -> "housekeeping"
      [] OTHER -> "available"

\* The dates and the amounts of the script fit their columns and the bounds.
ASSUME SeedAssumption ==
    /\ SeedDay + 2 <= LastDay
    /\ 1 \in Parties
    /\ MaxRequests + 2 <= MaxEntries
    /\ Rates \subseteq Cents
    /\ \A rate \in Rates, extra \in LineAmounts :
         /\ RoundCents(extra) \in Cents
         /\ \A status \in {"checked_out", "checked_in"} : Fits(SeedFolio(status, rate, extra))

\* The place of x in the sequence of a set it is in.
PlaceIn(set, x) == CHOOSE i \in DOMAIN SetToSeq(set) : SetToSeq(set)[i] = x

\* The tables, given which reservations there are and what each of them is.
SeededWith(made, status, place, guest, extra, type) ==
    LET Rate(x) == reservations[x].rate_per_night IN
    /\ today = SeedDay
    /\ roomTypes \in [RoomTypes -> RoomTypeRow]
    /\ guests = Guests
    /\ rooms = [a \in Rooms |->
         [status |-> IF \E x \in made : place[x] = a
                     THEN SeedRoomStatus(status[CHOOSE x \in made : place[x] = a])
                     ELSE "available",
          room_type |-> type[a]]]
    /\ reservations = [x \in Reservations |->
         IF x \in made THEN SeedStay(status[x], guest[x], place[x]) ELSE NoReservation]
    /\ folio = [x \in Reservations |->
         IF x \in made THEN SeedFolio(status[x], Rate(x), extra) ELSE NoFolio]
    /\ lineItems = [x \in Reservations |->
         IF x \in made THEN SeedLines(status[x], Rate(x), extra) ELSE <<>>]
    /\ payments = [x \in Reservations |->
         IF x \in made /\ status[x] = "checked_out" THEN <<Rate(x)>> ELSE <<>>]
    /\ number = [x \in Reservations |->
         IF x \in made THEN [day |-> today, seq |-> PlaceIn(made, x)] ELSE NoNumber]

Seeded ==
    \E made \in SUBSET Reservations :
      \E status \in [made -> ReservationStatus],
         place \in {p \in [made -> Rooms] : \A x, y \in made : p[x] = p[y] => x = y},
         guest \in [made -> Guests], extra \in LineAmounts,
         type \in [Rooms -> RoomTypes] :
        SeededWith(made, status, place, guest, extra, type)

BookingInit ==
    /\ Seeded
    /\ job = [r \in Requests |-> NoJob]
    /\ phase = [r \in Requests |-> "idle"]
    /\ session = [r \in Requests |-> EmptySession]
    /\ held = [r \in Requests |-> {}]
    /\ met = {}

-----------------------------------------------------------------------------
(* What a request makes of what it has read *)

\* The reservation in memory after the handler; a patch names some columns.
NewStay(r) ==
    LET loaded == session[r].stay
        asked == job[r] IN
    CASE asked.op = "create_reservation" ->
             [status |-> "confirmed", guest_id |-> asked.guest, room_id |-> asked.room,
              check_in_date |-> asked.check_in_date, check_out_date |-> asked.check_out_date,
              party |-> asked.party, rate_per_night |-> session[r].type.base_rate]
      [] asked.op = "update_reservation" ->
             [c \in DOMAIN loaded |->
                IF c \in DOMAIN asked.patch THEN asked.patch[c] ELSE loaded[c]]
      [] asked.op = "cancel_reservation" -> [loaded EXCEPT !.status = "cancelled"]
      [] asked.op = "mark_no_show" -> [loaded EXCEPT !.status = "no_show"]
      [] asked.op = "check_in" -> [loaded EXCEPT !.status = "checked_in"]
      [] asked.op = "check_out" -> [loaded EXCEPT !.status = "checked_out"]

MovesGuest(r) == job[r].op \in {"check_in", "check_out"}

WritesRoom(r) == MovesGuest(r) \/ job[r].op = "update_room_status"

RoomOf(r) == IF job[r].op = "update_room_status" THEN job[r].room ELSE session[r].stay.room_id

\* Mutant of NewRoomStatus: the room goes back on sale at once.
RoomStatusWithoutCleaning(r) ==
    CASE job[r].op = "check_in" -> "occupied"
      [] job[r].op = "check_out" -> "available"
      [] OTHER -> job[r].status

NewRoomStatus(r) ==
    CASE job[r].op = "check_in" -> "occupied"
      [] job[r].op = "check_out" -> "housekeeping"
      [] OTHER -> job[r].status

Charge(r) == session[r].stay.rate_per_night * session[r].nights

PostsCharge(r) == MovesGuest(r) /\ session[r].nights > 0

NewFolio(r) == Charged(session[r].folio, Ticks(Charge(r)))

\* The columns whose value in memory is not the one loaded.
Changed(new, loaded) == {c \in DOMAIN loaded : new[c] # loaded[c]}

\* The row of a table with the changed columns of a session written over it.
Merge(row, new, loaded) ==
    [c \in DOMAIN row |-> IF c \in Changed(new, loaded) THEN new[c] ELSE row[c]]

\* The rows a flush locks; a new reservation enters its key in the unique index.
Wanted(r) ==
    (IF job[r].op = "create_reservation" THEN {<<"confirmation_no", session[r].number>>} ELSE {})
    \cup
    (IF job[r].op \in ChangesStay /\ Changed(NewStay(r), session[r].stay) # {}
     THEN {<<"reservations", job[r].stay>>} ELSE {})
    \cup
    (IF WritesRoom(r) /\ session[r].room.status # NewRoomStatus(r)
     THEN {<<"rooms", RoomOf(r)>>} ELSE {})
    \cup
    (IF PostsCharge(r) /\ Changed(NewFolio(r), session[r].folio) # {}
     THEN {<<"folios", job[r].stay>>} ELSE {})

\* The unit of work writes a table after the tables it refers to.
FlushedBefore(r, one, other) ==
    LET rank == [rooms |-> 1, reservations |-> 2, confirmation_no |-> 2, folios |-> 3]
    IN  rank[one[1]] < rank[other[1]]

-----------------------------------------------------------------------------
(* Statements *)

Enters(r, statement) ==
    CASE statement = "search" /\ job[r].op = "create_reservation" -> "count"
      [] statement = "stay" /\ job[r].op = "update_reservation"   -> "search"
      [] statement = "stay" /\ MovesGuest(r)                      -> "room"
      [] statement = "room" /\ MovesGuest(r)                      -> "folio"
      [] OTHER                                                    -> "flush"

\* The check that follows each statement; a request that fails one is refused.
Passes(r) ==
    CASE phase[r] = "stay" ->
             HasStatus(job[r].stay, IF job[r].op = "check_out" THEN "checked_in" ELSE "confirmed")
      [] phase[r] = "room" /\ job[r].op = "update_room_status" ->
             job[r].status \in AllowedManually[rooms[RoomOf(r)].status]
      [] phase[r] = "search" /\ job[r].op = "create_reservation" ->
             /\ job[r].room \in AvailableRooms(job[r].check_in_date, job[r].check_out_date)
             /\ job[r].party <= roomTypes[rooms[job[r].room].room_type].max_occupancy
      [] phase[r] = "search" /\ job[r].op = "update_reservation" ->
             NewStay(r).room_id # session[r].stay.room_id =>
               NewStay(r).room_id
                 \in AvailableRooms(NewStay(r).check_in_date, NewStay(r).check_out_date)
      [] phase[r] = "flush" ->
             /\ job[r].op = "create_reservation" =>
                  \A x \in Reservations : number[x] # session[r].number
             /\ PostsCharge(r) => Fits(NewFolio(r)) /\ Charge(r) \in Cents
      [] OTHER -> TRUE

Begin(r) ==
    /\ phase[r] = "idle"
    /\ \A q \in 1..(r - 1) : phase[q] # "idle"
    /\ Cardinality({q \in Requests : InProgress(q)}) < MaxOpen
    /\ \E asked \in BookingJobs :
         /\ asked.op = "create_reservation" =>
              /\ ~ Booked(asked.stay)
              /\ \A q \in Requests : InProgress(q) =>
                   ~ (job[q].op = "create_reservation" /\ job[q].stay = asked.stay)
         /\ asked.op \in ChangesStay => Booked(asked.stay)
         /\ job' = [job EXCEPT ![r] = asked]
         /\ phase' = [phase EXCEPT ![r] =
              CASE asked.op = "create_reservation" -> "search"
                [] asked.op = "update_room_status" -> "room"
                [] OTHER -> "stay"]
    /\ met' = met \cup {{q, r} : q \in {q \in Requests : InProgress(q)}}
    /\ UNCHANGED <<hotelVars, number, session, held>>

\* The request r reads `read` into its session and goes on.
Read(r, statement, read) ==
    /\ phase[r] = statement
    /\ Passes(r)
    /\ session' = [session EXCEPT ![r] = read]
    /\ phase' = [phase EXCEPT ![r] = Enters(r, statement)]
    /\ UNCHANGED <<hotelVars, number, job, held, met>>

\* get_reservation; its rooms and types follow in statements of their own.
ReadStay(r) ==
    Read(r, "stay", [session[r] EXCEPT !.stay = reservations[job[r].stay]])

ReadRoom(r) == Read(r, "room", [session[r] EXCEPT !.room = rooms[RoomOf(r)]])

\* get_available_rooms; a booking keeps the type of its room.
SearchRooms(r) ==
    Read(r, "search", IF job[r].op = "create_reservation"
                      THEN [session[r] EXCEPT !.type = roomTypes[rooms[job[r].room].room_type]]
                      ELSE session[r])

CountReservations(r) == Read(r, "count", [session[r] EXCEPT !.number = NextNumber])

\* One night at arrival; at departure the nights left, and no folio if none is.
ReadFolio(r) ==
    LET nights == IF job[r].op = "check_in" THEN 1 ELSE NightsLeft(session[r].stay)
    IN  Read(r, "folio", [session[r] EXCEPT !.nights = nights, !.folio = folio[job[r].stay]])

-----------------------------------------------------------------------------
(* The flush, the commit, and failure *)

\* A statement waits for the row, or for whoever has entered the same key.
TakeLock(r) ==
    /\ phase[r] = "flush"
    /\ Passes(r)
    /\ \E row \in Wanted(r) \ held[r] :
         /\ \A before \in Wanted(r) : FlushedBefore(r, before, row) => before \in held[r]
         /\ \A q \in Requests \ {r} : row \notin held[q]
         /\ held' = [held EXCEPT ![r] = @ \cup {row}]
    /\ UNCHANGED <<hotelVars, number, job, phase, session, met>>

Ends(r, p) ==
    /\ phase' = [phase EXCEPT ![r] = p]
    /\ session' = [session EXCEPT ![r] = EmptySession]
    /\ held' = [held EXCEPT ![r] = {}]
    /\ UNCHANGED <<job, met>>

\* The reservation inserted, or the columns the handler changed in it.
WriteStay(r) ==
    LET x == job[r].stay IN
    CASE job[r].op = "create_reservation" ->
             reservations' = [reservations EXCEPT ![x] = NewStay(r)]
      [] job[r].op \in ChangesStay ->
             reservations' = [reservations EXCEPT ![x] = Merge(@, NewStay(r), session[r].stay)]
      [] OTHER -> UNCHANGED reservations

WriteRoom(r) ==
    IF WritesRoom(r) /\ <<"rooms", RoomOf(r)>> \in held[r]
    THEN rooms' = [rooms EXCEPT ![RoomOf(r)].status = NewRoomStatus(r)]
    ELSE UNCHANGED rooms

WriteFolio(r) ==
    LET x == job[r].stay IN
    CASE job[r].op = "create_reservation" ->
             folio' = [folio EXCEPT ![x].status = "open"] /\ UNCHANGED lineItems
      [] PostsCharge(r) ->
             /\ folio' = [folio EXCEPT ![x] = Merge(@, NewFolio(r), session[r].folio)]
             /\ lineItems' = [lineItems EXCEPT ![x] = Append(@, Night(Charge(r)))]
      [] OTHER -> UNCHANGED <<folio, lineItems>>

Commit(r) ==
    /\ phase[r] = "flush"
    /\ Passes(r)
    /\ Wanted(r) \subseteq held[r]
    /\ WriteStay(r)
    /\ WriteRoom(r)
    /\ WriteFolio(r)
    /\ number' = IF job[r].op = "create_reservation"
                 THEN [number EXCEPT ![job[r].stay] = session[r].number]
                 ELSE number
    /\ Ends(r, "committed")
    /\ UNCHANGED <<payments, roomTypes, guests, today>>

\* Mutants of Fail: the locks stay; what the request wrote to the reservation
\* stays; what it wrote to the room stays.
FailWithoutRollback(r) ==
    /\ InProgress(r)
    /\ phase' = [phase EXCEPT ![r] = "failed"]
    /\ UNCHANGED <<hotelVars, number, job, session, held, met>>

FailKeepingStay(r) ==
    /\ InProgress(r)
    /\ IF \E x \in Reservations : <<"reservations", x>> \in held[r]
       THEN WriteStay(r)
       ELSE UNCHANGED reservations
    /\ Ends(r, "failed")
    /\ UNCHANGED <<rooms, roomTypes, guests, today, billingVars, number>>

FailKeepingRoom(r) ==
    /\ InProgress(r)
    /\ IF held[r] # {} THEN WriteRoom(r) ELSE UNCHANGED rooms
    /\ Ends(r, "failed")
    /\ UNCHANGED <<reservations, roomTypes, guests, today, billingVars, number>>

\* Refused by a check or by the unique index, cut off by an error, or lost in a
\* crash: database/session.py rolls the transaction back.
Fail(r) ==
    /\ InProgress(r)
    /\ Ends(r, "failed")
    /\ UNCHANGED <<hotelVars, number>>

-----------------------------------------------------------------------------
Statement(r) ==
    \/ ReadStay(r) \/ ReadRoom(r) \/ SearchRooms(r) \/ CountReservations(r) \/ ReadFolio(r)
    \/ TakeLock(r)

BookingNext ==
    \/ \E r \in Requests : Begin(r) \/ Statement(r) \/ Commit(r) \/ Fail(r)
    \/ today < SeedDay + Midnights /\ NextDay /\ UNCHANGED <<number, progress>>

\* The event loop and the database drive a request that has begun to its end.
Drive(r) == Statement(r) \/ Commit(r) \/ (~ Passes(r) /\ Fail(r))

BookingSpec ==
    /\ BookingInit
    /\ [][BookingNext]_bookingVars
    /\ \A r \in Requests : WF_bookingVars(Drive(r))

-----------------------------------------------------------------------------
(* Properties *)

\* Type invariant; a row is locked by one request at a time, a key entered by
\* one, and only by requests in progress.
BookingTypeOK ==
    /\ HotelTypeOK
    /\ number \in [Reservations -> [day : Days, seq : Nat]]
    /\ job \in [Requests -> BookingJobs \cup {NoJob}]
    /\ phase \in [Requests -> Phases]
    /\ \A r \in Requests : held[r] # {} => phase[r] = "flush"
    /\ \A r, q \in Requests : r # q => held[r] \cap held[q] = {}

\* What the session of r has read is still what the tables say.
Fresh(r) ==
    LET asked == job[r]
        read == session[r]
        sought == NewStay(r)
        Free(room) == room \in AvailableRooms(sought.check_in_date, sought.check_out_date)
    IN  CASE asked.op = "create_reservation" ->
                 Free(asked.room) /\ read.type = roomTypes[rooms[asked.room].room_type]
          [] asked.op = "update_room_status" -> read.room = rooms[asked.room]
          [] MovesGuest(r) ->
                 /\ read.stay = reservations[asked.stay]
                 /\ read.room = rooms[RoomOf(r)]
                 /\ read.folio = folio[asked.stay]
                 /\ asked.op = "check_out" => read.nights = RemainingNights(asked.stay)
          [] OTHER ->
                 /\ read.stay = reservations[asked.stay]
                 /\ asked.op = "update_reservation" /\ sought.room_id # read.stay.room_id
                      => Free(sought.room_id)

\* The operation of Hotel.tla that r asks for.
Counterpart(r) ==
    LET asked == job[r]
        new == NewStay(r)
    IN  CASE asked.op = "create_reservation" ->
                 CreateReservation(asked.stay, asked.guest, asked.room, asked.check_in_date,
                                   asked.check_out_date, asked.party)
          [] asked.op = "update_reservation" ->
                 UpdateReservation(asked.stay, new.room_id, new.check_in_date,
                                   new.check_out_date, new.party)
          [] asked.op = "cancel_reservation" -> CancelReservation(asked.stay)
          [] asked.op = "mark_no_show"       -> MarkNoShow(asked.stay)
          [] asked.op = "check_in"           -> CheckIn(asked.stay)
          [] asked.op = "check_out"          -> CheckOut(asked.stay)
          [] asked.op = "update_room_status" -> UpdateRoomStatus(asked.room, asked.status)

\* A request whose readings still hold when it commits does exactly what the
\* same request does alone, however its statements were interleaved: the desk
\* of Hotel.tla is what overlapping requests come to unless one is out of date.
FreshCommitsAreAtomic ==
    [][\A r \in Requests :
         (phase[r] = "flush" /\ phase'[r] = "committed" /\ Fresh(r)) => Counterpart(r)]_bookingVars

\* Confirmation numbers (reservation_controller.py:26) stay unique whatever
\* overlaps, and when nobody is booking the next one is free: a request that
\* lost the race for a number succeeds when it is sent again.
ConfirmationNumbers ==
    /\ \A x, y \in Reservations :
         Booked(x) /\ Booked(y) /\ x # y => number[x] # number[y]
    /\ \A x \in Reservations : number[x] # NextNumber

\* A guest who has arrived has been charged for it: a stay that is or was
\* checked in has a room charge on its folio, under any overlap and any failure.
ArrivalsAreCharged ==
    \A x \in Reservations :
        HasStatus(x, "checked_in") \/ HasStatus(x, "checked_out") =>
            \E i \in DOMAIN lineItems[x] : lineItems[x][i].item_type = "room_charge"

Committed(op) == {r \in Requests : phase[r] = "committed" /\ job[r].op \in op}

\* Two requests on the reservation x were in progress together and committed.
Raced(x) ==
    \E r, q \in Committed(ChangesStay) :
        {r, q} \in met /\ job[r].stay = x /\ job[q].stay = x

\* A room without a guest is stuck as occupied (room_controller.py:19) only
\* when two requests on the same reservation raced, as a check-in and a
\* cancellation (reservation_controller.py:150, :170) may: no overlap of
\* requests on different reservations, or with staff setting a room's status,
\* comes to that.
StuckOnlyByRace ==
    \A room \in Rooms :
        rooms[room].status = "occupied" =>
            \/ \E x \in Reservations :
                 HasStatus(x, "checked_in") /\ reservations[x].room_id = room
            \/ \E x \in Reservations : Raced(x)

\* Staff set the status of the room of x while x was being checked in.
StatusSetDuringArrival(x) ==
    \E r \in Committed({"check_in"}), q \in Committed({"update_room_status"}) :
        {r, q} \in met /\ job[r].stay = x /\ job[q].room = reservations[x].room_id

\* A guest's room is not marked occupied only if another guest has checked out
\* of it, if two requests on one reservation raced, or if staff set the room's
\* status while the guest was arriving (room_controller.py:140 reads the status
\* before the arrival commits and writes over it after).  Any reservation may
\* be the one that raced: a guest who has checked out is written back as
\* checked in, or cancelled, by a request that read the reservation before.
\* Once the arrival has committed no request that begins later takes the room
\* from its guest.
RoomLostOnlyByOverlap ==
    \A x \in Reservations : HasStatus(x, "checked_in") =>
        \/ rooms[reservations[x].room_id].status = "occupied"
        \/ \E y \in Reservations \ {x} :
             HasStatus(y, "checked_out") /\ reservations[y].room_id = reservations[x].room_id
        \/ \E y \in Reservations : Raced(y)
        \/ StatusSetDuringArrival(x)

\* Two requests that overlapped wrote x and y: neither search had to see the other.
SearchedTogether(x, y) ==
    \E r, q \in Committed({"create_reservation", "update_reservation"}) :
        {r, q} \in met /\ job[r].stay = x /\ job[q].stay = y

Redated(x) ==
    \E r \in Committed({"update_reservation"}) :
        job[r].stay = x /\ {"check_in_date", "check_out_date"} \cap DOMAIN job[r].patch # {}

\* A room is booked twice for a night only if the two searches overlapped, if
\* one reservation was redated in place (DoubleBookedByRedating), or if two
\* requests on one of them raced; a search that runs after the other booking's
\* commit always sees it (room_controller.py:146).
DoubleBookedOnlyByOverlap ==
    \A x, y \in Reservations : DoubleBooked(x, y) =>
        \/ SearchedTogether(x, y)
        \/ Redated(x) \/ Redated(y)
        \/ Raced(x) \/ Raced(y)

\* A request that has begun ends: rows are locked in one order of the tables,
\* rooms, reservations, folios, and what a request holds it gives back.
BookingRequestsEnd == \A r \in Requests : InProgress(r) ~> ~ InProgress(r)
=============================================================================
