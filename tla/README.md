# Verification of the hotel PMS

TLA+ models of the property management system in `src/`: a FastAPI application over
PostgreSQL that books rooms, checks guests in and out, keeps their folios and issues the
tokens its users log in with. The models are translated from the code, model-checked with
TLC on small instances, and their safety properties are proved with TLAPS for every instance
(section 5).

## 1. The system

Every request runs the same way. A router (`app/routers/*.py`) declares the role it needs,
`get_db` (`app/database/session.py`) opens a session and with it a transaction, one
controller function reads rows, checks them, changes the objects in memory and flushes;
`get_db` commits when the handler has returned and rolls back on any exception. Nothing is
kept in the process between requests: all state is in the database, and requests interact
only through its rows. The sessions run at PostgreSQL's default READ COMMITTED, with
`autoflush=False`, no `SELECT ... FOR UPDATE`, no version columns and no exclusion
constraints.

| Component | State | Operations that write | Meets | Hard behaviour | What makes it correct |
|---|---|---|---|---|---|
| Billing (`billing_controller.py`) | `folios` with three totals, `line_items`, `payments` | create a folio, add and void a line, post a payment, close, charge nights | called by Reservations for folios and room charges | totals are read, changed in memory and written back; three columns rounded apart; a void is one more line; voids of voids; amounts that do not fit | totals follow the entries, the balance follows the totals, entries are only appended, a closed folio stays closed |
| Reservations (`reservation_controller.py`) | `reservations` | create, update, cancel, check in, check out, no-show | reads rooms, types and guests; writes rooms and folios | five statuses; dates and rooms that change; what is charged when; several tables in one request | a stay's life goes one way, rooms are occupied by arrivals and released by departures alone, charges are those of the stay |
| Rooms (`room_controller.py`) | `rooms`, `room_types` | create and change rooms and types, set a room's status | read by Reservations, written by check-in and check-out | staff and reservations write the same status | an occupied room is out of the staff's reach; rates are fixed at booking |
| Guests (`guest_controller.py`) | `guests` | create, change, delete | referenced by reservations | deletion under a stay history, or while the guest books; an update that loaded the deleted | a reservation keeps its guest; e-mails are unique; a deleted guest stays deleted |
| Sessions (`auth_controller.py`, `auth/`) | `refresh_tokens` | login, refresh (rotation), logout, revoke all | reads and is called by Users | tokens spent, revoked and issued by overlapping requests; expiry | a spent token stays spent, a revocation is complete, a deactivated account stays out |
| Users (`user_controller.py`) | `users` | create, change, role, deactivate, change of password | revokes through Sessions | e-mails looked up before they are inserted; changes that overlap a deactivation | e-mails are unique; deactivated is for good |
| OAuth clients (`oauth_controller.py`) | `oauth_clients` | create, delete, rotate the secret | its access tokens pass `require_role` | a secret shown once; a rotation against a deletion | a deleted client stays deleted |
| Access control (`dependencies.py`) | none | none | every router; reads users and clients | tokens outlive the rights they were issued for | rights end with the row, and are not regained |
| Database session (`session.py`) | the transaction | commit, rollback | every request | failures between two statements, lock waits, deadlocks | all or nothing; every request ends |
| Migrations (`alembic/versions/`) | the schema | - | every table | - | unique columns, foreign keys, sizes |
| Seed (`scripts/seed.py`) | - | fills an empty database | calls the controllers | - | where `BookingTxn` and `Access` begin |
| Application, configuration, schemas, pagination, tests | none that changes | - | - | - | - |

`PROJECT.json` lists the same components with their files and how much of each is
modelled, and under `hazards` each place of the code where something may go wrong that a
test would hardly reach, with the properties that watch it.

## 2. The modules

| Module | What it is |
|---|---|
| `Billing` | folios, one action per operation, each a whole request |
| `BillingTxn` | the same operations cut at their statements, with locks, failures and overlap; implements `Billing` while no commit is out of date |
| `Hotel` | reservations, rooms, types, guests and the day, each request whole, on top of `Billing` (EXTENDS): the composition of the desk with billing |
| `Stays` | the abstract promise of the desk: what a stay and an occupied room are; `Hotel` implements it |
| `BookingTxn` | the desk of `Hotel` (EXTENDS) cut at its statements, with confirmation numbers, locks, failures and overlap, from what the seed script leaves |
| `Registry` | unique names, and guests that reservations refer to: look-up, row lock, unique index and commit of users, guests, room types and rooms |
| `Sessions` | refresh tokens and accounts, cut at their statements |
| `Access` | access tokens, roles, accounts and OAuth clients, cut at their statements |
| `BillingProofs`, `BillingTxnProofs`, `StaysProofs`, `HotelProofs`, `BookingTxnProofs`, `RegistryProofs`, `SessionsProofs`, `AccessProofs` | the theorems about the module each is named after |
| `MCBilling`, `MCBillingTxn`, `MCHotel`, `MCBookingTxn`, `MCRegistry`, `MCSessions`, `MCAccess` | constants of the instances TLC checks, with one `.cfg` a run |

### Billing

`folio[f]` is a row of `folios`, `lineItems[f]` and `payments[f]` the rows that point to
it in the order they were written. A folio is named by its reservation, to which it belongs one to one.
Each action is one controller function with the checks at its head as guards; a failed
check, which changes nothing, is no step.

Money is where the code needs care. `quantity * unit_price` is computed exactly and
each of `total_charges`, `total_payments` and `balance` is rounded to two decimals by its
column, `balance` from the *unrounded* total still in memory. The model counts a request's
amounts in ticks, a hundred to the cent, the columns in cents, and `RoundCents` rounds half
away from zero as PostgreSQL's `numeric` does. A value beyond `NUMERIC(12,2)` fails the
flush: `Fits` guards the writing actions.

The mutant operators (`PaidKeepingBalance`, `VoidByDeleting`, ...) that stand before a
definition are bugs it might have had. They are used by no definition of the model; a
property is only worth its run if it notices one of them.

### BillingTxn

A request is *idle*, then *loaded* (its SELECT has put the folio row into its session, and
its checks passed on that row), *flushed* (it holds the row lock and has sent its UPDATE and
INSERT) and *committed*; or *refused* by its checks, or *aborted* by an error or a crash
anywhere in between. Commit writes only the columns whose value changed in
memory (`Dirty`), which is what SQLAlchemy's unit of work sends, with the values computed
from the row that was loaded, however old. An UPDATE that finds its row locked waits and
then writes its absolute values over the newer row: READ COMMITTED sees no conflict.

`stale` remembers that some request has committed over a row newer than the one it had
loaded. `FreshCommitsImplementBilling` says that nothing else breaks atomicity: as long as
the rows loaded are still there, each commit is one operation of `Billing` and each other
step is invisible to it, however the statements interleave. `ClosesOnceSettled` is
what follows for closing, and `TotalsAreSomeEntries` says what the totals still are when commits
are out of date.

### Hotel

The tables of the desk, and `today`, which moves on at midnight between any two requests.
`CreateReservation` is the whole of `create_reservation`: availability, capacity, the rate
copied from the room type, the reservation and its folio. `UpdateReservation`'s arguments
are the row after the patch; availability is asked for only if the room changes, and the dates
are compared only if the patch names both, as the schema does. `CheckIn` sets both statuses
and charges one night whatever the day, the room's status and the folio's; `CheckOut` charges
`RemainingNights`, counted from yesterday. `DeleteGuest` includes the database's part:
the ORM clears `reservations.guest_id` of past reservations, which the column's NOT NULL
refuses. `HotelNext` is any of these, any change of a room or a type, and any billing
endpoint, which leaves the desk's tables alone.

### Stays

Three variables and five actions: a stay is booked for a place, moved or called off until
arrival, arrives, leaves; the set of occupied places changes only at an arrival and at a
departure. `Hotel` maps `reservations` to `Stage` and `Place` and `rooms` to `Occupied`.
Everything about money, dates, capacity and manual statuses is invisible to it. It is a
specification and stands for no lines of its own: `KeepsPromise` and the proofs tie it to the code
through `Hotel`.

### BookingTxn

The desk at the grain of `BillingTxn`. A request reads its reservation, its room and its folio,
or searches rooms and counts reservations, in the order of the code, each statement from the
last commit, and keeps what it read in `session[r]`. `Passes` is the check that follows a statement.
The one flush takes its locks one by one (`Wanted`: rows whose columns changed, and for a new
reservation the key of its confirmation number), tables in the order of the foreign keys, and the
commit writes the changed columns (`Merge`). `Fail` rolls back at any statement.

The desk opens on `Seeded`: any part of what `scripts/seed.py` makes, by the day it runs,
with stays of each of the five kinds, their folios, charges and payments and the statuses of
their rooms. Midnight may pass between any two statements, which matters to confirmation
numbers and to the nights left at departure.

`Counterpart(r)` is the operation of `Hotel` that `r` asks for and `Fresh(r)` says that what it
read still holds. `FreshCommitsAreAtomic` joins the two modules: a fresh commit *is* that
operation, so that everything checked and proved of `Hotel` is lost only by commits out of
date. The other properties say what those can come to: `met` remembers which requests were in
progress together, and each property names the overlaps that excuse its exceptions, and by
that says no other overlap does.

### Registry

One table, any of the four that have a unique name, for they share nothing. A request loads its row,
looks its name up, locks the row, enters its name in the unique index and commits, in the
order and under the conditions of its controller: `create_room_type` looks first,
`update_room_type` does not look at all, a guest may have no e-mail, an unchanged patch writes
nothing. The unique index makes a request wait for whoever has entered the same name or is
taking it off a row (`InTheWay`) and then accepts or refuses it. Waiting in a circle is
possible, by two renames that swap names, and PostgreSQL's detector fails one of them.

`delete_guest` loads the guest, looks for active reservations (`LookForStays`: one is a 422, two
make `scalar_one_or_none` raise) and deletes (`DeleteRow`). The ORM writes NULL into the `guest_id`
of every reservation it finds then, past ones too, which the column forbids; one that is booked after
meets the foreign key. `stays[i]` says what reservations a guest has: none, only past ones, one that is
active or more. The desk's own requests, of which `BookingTxn` has the rest, appear by what they commit:
`Reserve`, whose foreign key waits for whoever has the guest's row locked, and `EndStay`; both
overlap with every request in progress, so that none of these has then been `alone`. A request with a
value that does not fit some other column (a NULL `first_name` or room type name, a name too long)
fails however alone it is: that is one of the causes of `Fail`.

### Access

`Entitled` is `get_current_principal` with `require_role`, by the rows: a client may do
whatever does not take a user, a user what the role is for, and one's own account is
one's own. `Authorise` evaluates it once, at the request's first statement; changes of accounts and
clients then load (unless the session already has the row), lock and commit. `tokens` are access tokens
about, each with the role it was issued for, until they expire. A client's secret is named by the
request that drew it. `entitled[r]` remembers that the principal of `r` has had the right to it
at some moment since `r` began.

### Sessions

A token is named by the request that issued it; token 0 was there before. A login loads its
user and inserts a token. A refresh loads its token, marks it revoked and flushes (taking the
row's lock), loads the account, inserts the new token; one transaction. A logout
marks one token. A deactivation and a change of password load the account, then select its
unrevoked tokens (*listing*), then lock and update the account and each token in key order
(*locking*). What commits after the SELECT of another request is not seen by it. `Expire`
may happen at any time. `before[r]` is a history variable: the requests that had committed
when `r` started, which is what "later" means in the properties.

## 3. What is checked

| Run | Instance | Result |
|---|---|---|
| `billing_fractions` | two folios; lines of 0.50, 1.49 and -0.50 cents, payments of 2 and -0.50; columns of 4 cents; two lines and two payments each | types and sizes; the balance within a cent of charges less payments; totals within a cent an entry of the entries, exact while no entry is negative; the audit trail |
| `desk` | two reservations, two rooms, one guest, three days | types and folios; occupied rooms have their guests; only a re-dating double-books; reservations keep their guest, also one with two of them; `Hotel` implements `Stays`: only a check-out releases a room |
| `stay` | one reservation, one room, two guests, four days, two rates, two party sizes | a stay's charges at every point of its life; the end of a stay is final |
| `txn_overlap` | three requests on one folio, any of six jobs each, all overlapping; a column of 12 cents | totals made of whole entries, exact for a sole writer; commits that are not out of date implement `Billing`, so that a failure leaves nothing; a folio closes once, settled unless a commit was out of date; every request ends |
| `booking_overlap` | two reservations, two rooms, one guest, 71 seeded desks, two overlapping requests of fourteen kinds, one midnight (232,144 states) | fresh commits are the operations of `Hotel`; confirmation numbers are unique and the next one is free; arrivals are charged; which overlaps double-book, strand a room as occupied, or take it from its guest, and that no other does; every request ends |
| `registry` | any of four tables, three rows, two names, two overlapping requests, a guest who books and leaves at any moment (757,629 states) | names are unique; reservations keep their guest; a request alone, whose values fit, never fails in the database but for renames of room types and for guests with reservations; deleted guests stay deleted; every request ends, swaps of names included |
| `access` | two accounts of any role and one client, each there or not; a token; two overlapping requests of ten kinds | rights end with the row; deactivated and deleted is for good; lost power is not regained |
| `sessions` | one account, two passwords, one old token, three requests, two at a time | spent tokens stay spent; revocations are complete; deactivated accounts stay out; every request ends |
| `lost_update` | two charges overlapping | violates `ExactBooks` |
| `charge_after_close` | one stay, two days | violates `ClosedFolioTakesNoCharges` |
| `double_booking` | two stays in one room, three days | violates `NoDoubleBooking` |
| `night_charged_twice` | one stay of one night | violates `NoNightChargedTwice` |

**Bounds.** `MaxEntries`, `MaxCents`, `MaxNights`, `LastDay`, `MaxOpen`, `MaxRequests`,
`Midnights`, `MaxTokens` and `Lodgers` bound TLC's search and are named in the guards they appear in.
`MaxCents` is also a limit of the program (a column does have a size), chosen so small that amounts
really overflow it in `billing_fractions` and `txn_overlap`. Two entries a folio suffice for a void of
a void and for rounding errors of opposite signs to meet; a third would add a sum of the same kind.
Two reservations and two rooms are what sharing, moving and double booking need; three days
give stays of no, one and two nights that abut, overlap or contain each other. In `txn_overlap` two
requests show every race of a pair; the third shows that what remains true is not
an accident of pairs. In `booking_overlap` requests that ran before are in the seeded desk, which holds
stays of every status, so that two requests are enough for every race of a pair from every
situation; the exceptions its properties excuse have each been seen to happen. In
`registry` the third row is the one to come while two swap their names, and rows, names and
requests that follow each other are in the initial states, which are all tables with unique names. One
guest with reservations (`Lodgers`) is enough, since a deletion is about one guest and bookings of another
only overlap with it.
In `access` the initial states are all ways to staff the hotel; one token at a time is enough
because tokens expire and are issued at any moment, while the requests that carried them go on. In `sessions` two
requests overlap and a third follows or precedes them, which is what "starts later" is about; the
account's first token is issued before, so that a revocation has two tokens to list. `MCHotel` uses
symmetry on reservations, rooms and guests and `MCAccess` on accounts: no definition picks one of
them, and those runs check no liveness.

**Deadlock** is not checked: a hotel may be quiet. That nobody waits for ever is
`RequestsEnd`, `BookingRequestsEnd`, `RegistryRequestsEnd` and `SessionRequestsEnd`, which say more.

**Fairness** is weak and given only to the steps of a request that has started (`Progress`,
`Drive`, `Ending`): the event loop resumes a coroutine whose statement has been answered, the database
answers a statement whose lock is free and fails one of those that wait in a circle, and `get_db`
ends every transaction one way or the other. In `Registry` the detector's step is part of `Drive`;
`BookingTxn` has none and needs none, since a flush takes its locks in one order of the tables.
No fairness makes a request start or fail, a token expire or a day end.

## 4. Where the code and its words disagree

Four runs find states the repository's own words exclude (`findings` of `PROJECT.json`):

* **Lost update** (`billing_controller.py:78`). Two charges that load the same folio row
  commit two lines and a total that holds one. `models/billing.py:48` calls the totals "kept in
  sync by billing_controller". What does hold is checked in `txn_overlap`.
* **Charges on a closed folio** (`:199`). The empty folio of a confirmed reservation can be
  closed; check-in charges it, though "Cannot add charges to a closed folio" (`:64`), and payments are
  then refused.
* **Double booking** (`reservation_controller.py:133`). An update that keeps its room is not
  held to the availability of its new dates. `DoubleBookedByRedating` shows that serially
  this is the only way.
* **A night charged twice** (`:208`). Check-out counts from yesterday at the latest, so that a
  one-night stay pays two nights: "(if not already posted)" (`:206`) is not what is done.

Seen while modelling, and part of the models, but without a run of their own:

* With fractions of a cent the stored balance is not exactly charges less payments (a payment
  of 2.00, then a line of 0.495, give 0.50, 2.00 and -1.51). `BalanceWithinACent` is the true bound.
* A charge loaded before a close and committed after it leaves a closed folio that owes money
  (`billing_controller.py:152` asks for a zero balance); `ClosesOnceSettled` shows this is the only way.
* An update of one date may put the departure on or before the arrival (`schemas/reservation.py:56`
  compares the two only when both are given); no update looks at `max_occupancy`
  (`reservation_controller.py:47` does at creation).
* Two refreshes that overlap both spend one token (`routers/auth.py` calls it a rotation).
* No request ever sets a room to `out_of_order`.
* Two overlapping creates for one room mostly collide on the confirmation number, so that the second
  fails with a 500 and is refused when sent again; when the two count on different sides of midnight, or
  another create commits between the counts, both succeed and the room is booked twice.
* A cancellation or a no-show that overlaps a check-in can leave the room occupied for a stay that is
  over; only a later check-in and check-out frees it, for staff may not (`room_controller.py:20`). A status staff
  set while a guest is arriving can put the guest's room back on sale.
* `update_room_type` does not look for the name it writes, and takes a NULL (`schemas/room.py:34`):
  both are a 500. So are a NULL `first_name` of a guest (`schemas/guest.py:43`), and an update of a guest, or
  a rotation of a client's secret, whose row is deleted in between.
* A guest whose stays are all over cannot be deleted: the look of `delete_guest` passes and the DELETE is a 500
  (`guest_controller.py:94`), as is the look itself for a guest with two active reservations (`:89`).
* Of two overlapping rotations of a client's secret both callers are shown one and the later commit decides
  which works (`oauth_controller.py:77`); answers are not modelled.
* `PATCH /users/{id}`, `change-password` and `/me` refuse OAuth clients (`get_current_user`), which
  "are granted full access" (`dependencies.py:56`).
* The last administrator may be deactivated, also by themselves; from then on nobody can create or promote
  an account. A client's access tokens survive the rotation of its secret until they expire.

## 5. What is proved

TLAPS checks these for all values of the constants. The assumptions are those of the modules:
`MoneyAssumption` (amounts and rates are integers, bounds are naturals), `HotelAssumption` (days
are numbers, the missing row is no row), `RequestAssumption` (a request's amount is one that
`Billing` knows for its operation, and `MaxEntries` leaves every request room for its entry),
`BookingAssumption` (a request of the desk names what its path and schema allow, a patch the
columns of `ReservationUpdate`, and there are finitely many reservations), `SeedAssumption` (the
seed's days, rates and amounts fit their columns, and `MaxEntries` leaves every request room for
its line), `RegistryAssumption` (NULL is no name, those who may have reservations are ids, requests are numbered), `SessionAssumption` and `AccessAssumption` (accounts and
clients have different ids, roles asked for are roles, a missing row or token is no row or
token). TLC evaluates each of them on the runs.

**Sums.** The totals of a folio are sums over its lines, a fold of the community modules.
The first part of `BillingProofs` proves what is needed of it by well-founded induction on the
subsets of a finite set (`SubsetInduction`, from `WFMin` of the library: a smallest
counterexample, so that no theorem with an operator parameter is instantiated). `SumByAny` takes
any element out of a sum, `SumSame` says a sum depends on the values only, `SumAppend` what an
appended amount adds.

**`BillingProofs`**
* `BillingTypes`, `BalanceBound`. `BalanceWithinACent` is inductive together with the types
  (`BillingInv`): an operation writes the balance from the one total it leaves alone, as stored,
  and the other, unrounded, so that the error of the balance is that of a single rounding,
  whatever happened before. `RoundCentsShift` says what that costs: rounding commutes with whole
  cents up to one cent, and not exactly, because the half cent goes the other way when the sign
  changes. This is why the error does not accumulate.
* `TotalsFollow`. The error of a *total* does accumulate, a cent an entry at most; `Follows` is
  the property with the number of entries made explicit, and with the total not negative
  while no entry is, without which the rounding of the next entry could go astray.
* `TrailKept`: each action only appends, and a closed folio takes room charges alone.
* `BooksExact`: with whole cents every rounding is the identity (`WholeRounded`)
  and nothing is left of the errors. This is for requests one at a time; the run `lost_update`
  shows it broken by two that overlap.

**`BillingTxnProofs`**, for any set of requests in any interleaving, with failures anywhere.
* `TxnInv` joins the types and locks to what a request under way relies on: what it flushed
  fits its columns (`FlushedFits`), it was let on by its checks (`Checked`), the line it voids is
  there (`VoidsALine`), there are no more entries than commits (`EntriesOfRequests`), and, *until
  some commit is out of date*, the invariants of `BillingProofs` hold of the tables
  (`SerialBooks`).
* `FreshCommits` is the step simulation. Its heart is `CleanColumns`: a column that is not
  written holds what the handler computed for it anyway, because a change that rounds to nothing
  in memory is no change in the column.
* `SerialUntilStale` is what follows of it for the books, and `ClosesSettled` for closing.
* `TotalsOfSome`, what is left once commits are out of date. `MadeInv` adds, of the rows *in
  memory*, that their totals are sums of some entries of the table (entries are never taken away,
  so an old row's total stays such a sum), and of the tables that each total has the last
  entry in it. A commit then writes its own entry and the sum it had seen.

**`StaysProofs`**: `PromiseOccupied` and `PromiseShared`, of anything that implements `Stays`.
Both halves are inductive with the types (`StayInv`): a departure that empties a room under
a second guest is itself the departed stay that guest's half asks for.

**`HotelProofs`**
* `HotelTypes`, `HotelKeepsPromise`, and through the refinement `OccupiedRoomsHaveGuests` and
  `GuestsHaveRooms`. Each operation has a lemma that it keeps the invariant and maps to a step
  of `Stays` or to none (`Good`). The invariant `HotelInv` is the types, the one-to-one
  correspondence of reservations and folios, and `BillingInv`: the types of the desk need nothing
  of money, but a charge inside a check-in must keep the folio's row well formed.
* `GuestsStay`, `OnlyRedatingDoubleBooks`, `EndedStaysAreFinal`: step properties, from `HotelInv`.
* `StaysAreCharged`. `RoomChargesOfStay` says nothing of the folio of a reservation not made yet,
  on which there must be no line; `ChargedByStay` does, and names the nights charged so far
  (`Due`), to which a departure adds at most the nights booked.

**`BookingTxnProofs`**, for any number of requests of the desk in any interleaving, with failures
anywhere, from any desk the seed leaves.
* `BookingTypes`. A commit merges columns computed from old rows into new ones; that the result is
  a row at all needs to know what was read and which checks it passed. `DeskInv` adds that to the
  types: a request asks for something its statements belong to (`Asks`), no two make one
  reservation (`NewStaysApart`), each reading is a row that passed the check behind it
  (`Readings`), and there are no more entries than requests (`EntriesOfRequests`).
* `NumbersUnique`. The count behind a number may be old and the day may have changed since; what
  saves it is the unique index, which refuses a number that is taken. `NumbersInv` adds that no
  number, written or about to be, runs ahead of the bookings there are: the next one is free.
* `ArrivalsCharged`. The charge is a new line, which no stale row overwrites; `ChargesInv` adds
  the guests about to leave.
* `FreshCommitsAtomic`, one lemma an operation: the UPDATE of the changed columns comes to the
  whole row, and a room that is not written because its status was the new one already has it still.
  `FreshRunsAreSerial` draws the conclusion: while every commit is fresh the tables go through a run
  of `Hotel`'s steps, so that a step of overlapping requests does nothing a step of `Hotel` may
  not. (The invariant `HotelInv`, on which some properties of `HotelProofs` rest, is not proved of
  the seeded desk but for its types; see section 7.)
* `OnlyRacesStrand`, `OnlyOverlapsTakeRooms`. Both rest on `MeetingInv`: requests in progress
  together have met, and the reservation a request has read is still the same unless one that it met
  has changed it. A commit on a reservation that has not raced therefore writes over what it read. `RacesInv`
  says of a desk without races that an occupied room has a guest *who will release it*: his departure
  knows the room as occupied (`Keeps`; a departure that had read the room as already in housekeeping would
  leave its status alone), and what staff and arrivals under way may still do to
  a room with a guest in it (`StaffHold`, `ArrivalsHold`). `RoomLostOnlyByOverlap` excuses a
  race on *any* reservation: with three requests the one that raced may be the departed guest's,
  who is written back as cancelled by a request that had read him before he came.
* `OnlyOverlapsDoubleBook`. Of two bookings for a room, whoever commits last has searched for it; `SearchesInv`
  says that a booking which takes the room since is by a request that the search met, or by one
  that changed only its dates.

**`RegistryProofs`**: `NamesStayUnique`, `DeletedForGood`, `StaysKept` and `RequestsLeaveNothing`, for any
number of requests at a time. None is inductive: a commit writes a name that was checked when it was
entered in the index, and relies on nobody having written it since. `RegistryInv` adds that what
is entered is entered once and held by no other committed row (`EntriesHold`), that nothing is
committed that was not entered (`CommitsEntered`), that a row is locked once (`LocksApart`), that
an update at the index has its row (`RenamesLocked`), that locked rows are there
(`LockedRowsThere`), that new rows are nobody else's (`NewRowsApart`), that a deletion without
a lock found nothing (`DeletesHold`), and that one with a lock is of a guest without reservations, who gets
none before it ends (`StaysHold`). `EndKeeps` and `GoesKeeps` cover every step that ends a
request or moves it on without a lock, `LocksKeep` those that lock a row; `EnterNameKeeps` and `CommitKeeps` are the heart.
`LookUpsSuffice` is `AloneOnlyKnownErrors`, by an invariant of its own (`AloneInv`): who has met no
other finds the rows it looked at as they were, and waits for nobody. Its exceptions are the errors a request
meets all by itself (`Known`): they are named in the property, and there are no others.

**`SessionsProofs`**: `SessionTypes`, `SpentForGood`, `RevocationsAreComplete` and
`DeactivatedAccountsStayOut`. The three promises speak of requests that have committed; `SessionInv`
says what is known of one under way. A refresh carries no token that a request before it has marked
(`SpentHeld`), because it loads its token in its first statement; once a revocation has done its
SELECT, every token of the account issued before it is revoked or on its list (`ListedAll`),
because a token exists only from its commit on (`TokensByCommit`); a login or refresh past its
look at the account was let in after every earlier deactivation (`IssuesToActive`), because an
account once inactive stays so (`InactiveForGood`).

**`AccessProofs`**: `AccessTypes`, `RightsEnd`, `TakenAway` and `PowerStaysGone`. A
request writes what it loaded some statements ago, and `AccessInv` says what it may still count on
at its commit: the account it loaded is still there (`RowsSeen`), the client it writes is locked by it
(`ClientsHeld`), a new id is nobody else's (`NewIdsApart`). `TakenAway` needs in addition that only
changed columns are written (`WriteIsAnAccount`): an update loaded before a deactivation leaves
`is_active` out.

**Model-checked only.** Liveness (`RequestsEnd`, `BookingRequestsEnd`, `RegistryRequestsEnd`,
`SessionRequestsEnd`): fairness and ENABLED are out of the prover's reach. The four properties of
section 4 are false, as their runs show.

## 6. What is not modelled

Reads; wording and formats; passwords and signatures beyond "is the right one"; personal data other
than unique names; the running of migrations and of the seed script (its result is modelled; two
copies that run at once meet in the unique e-mails, which fail one of them whole); configuration; errors of the network
other than as failures; answers, which may be lost, and whether one is sent before or after `get_db` commits (the
version of FastAPI decides). That an update may leave more guests in a reservation than the room
takes is part of `Hotel` and has no property: there is no promise to check against but creation's own guard.

Overlap across modules is left out where nothing is shared: a folio's endpoints overlap each other
in `BillingTxn` and the desk's requests each other in `BookingTxn`, where a check-in or check-out
locks and writes the folio; a folio endpoint against a check-in is the pair `add_line_item` and
`apply_room_charges` of `BillingTxn`. Unique names are independent of rights and of tokens.

## 7. Plan

Every safety and step property that a passing run checks is stated by a theorem. What may follow:
* the invariants of `HotelProofs`, `GuestHasRoomUnlessShared` among them, of the seeded desk, so that
  with `FreshRunsAreSerial` they too hold of overlapping requests whose commits are fresh;
* that what is fresh need not be asked of requests which met nobody: a request alone commits a
  fresh reading, midnight excepted.
