------------------------------- MODULE Registry -------------------------------
(***************************************************************************)
(* Names that must be unique: e-mails of users and of guests, names of room *)
(* types, numbers of rooms.  The controllers look a name up before they    *)
(* write it, in another statement, and the database keeps a unique index.  *)
(*                                                                         *)
(*   create_user, create_guest,                                            *)
(*   create_room_type, create_room     look, insert                        *)
(*   update_user, update_guest         load, look when changed, update     *)
(*   update_room_type                  load, update                        *)
(*   delete_guest                      load, look for stays, delete        *)
(*                                                                         *)
(* A guest's row is also what reservations refer to: the desk books, and   *)
(* ends stays, while those requests run.                                   *)
(* Requests on different tables share nothing: a behaviour is about one.   *)
(* The row lock and the unique index are PostgreSQL's, as the models and   *)
(* the first migration declare them; it breaks a deadlock by failing one   *)
(* of the requests in it.                                                  *)
(***************************************************************************)
EXTENDS Naturals, FiniteSets

CONSTANTS
    Requests,  \* the requests there may ever be, numbered as they begin
    Ids,       \* ids of rows
    Lodgers,   \* bound: the guests who may have reservations
    Names,     \* values of the unique column
    NoName,    \* NULL
    Absent,    \* there is no row of that id
    NoRow,     \* a request has locked none
    NoJob,     \* a request that has not begun
    MaxOpen    \* bound: requests in progress at a time

Tables == {"users", "guests", "room_types", "rooms"}

\* The column may be NULL; rows may be deleted; a row may be given a new name;
\* the name is looked up first.
Nullable == {"guests"}
Deletable == {"guests"}
Renamable == {"users", "guests", "room_types"}
LooksUpRename == {"users", "guests"}

Values == Names \cup {NoName}

\* A guest's reservations: none; none that is active; one that is; more.
Stays == {"none", "past", "one", "several"}

Job == [op : {"create", "rename", "delete"}, id : Ids, name : Values]

Waiting == {"load", "look", "lock", "index", "commit"}

\* 404, 409, 422; then what no handler turns into a reply of its own.
Ended == {"committed", "not_found", "conflict", "refused", "integrity_error", "stale_data",
          "several_results", "deadlock", "failed"}

ASSUME RegistryAssumption ==
    /\ NoName \notin Names
    /\ Absent \notin Values
    /\ NoRow \notin Ids
    /\ NoJob \notin Job
    /\ Lodgers \subseteq Ids
    /\ Requests \subseteq Nat
    /\ MaxOpen \in Nat

VARIABLES
    table,  \* the table all this is about
    row,    \* its committed rows: the unique column by id
    stays,  \* the committed reservations that refer to a row
    job,    \* what a request asks for
    phase,  \* the statement it is at, or how it ended
    lock,   \* the row it has locked or inserted
    entry,  \* the name it has entered in the unique index
    alone   \* history: no other request was in progress while it was

registryVars == <<table, row, stays, job, phase, lock, entry, alone>>

InProgress(r) == phase[r] \in Waiting

Others(r) == Requests \ {r}

SetPhase(r, p) == phase' = [phase EXCEPT ![r] = p]

RegistryInit ==
    /\ table \in Tables
    /\ row \in [Ids -> Names \cup {Absent} \cup (IF table \in Nullable THEN {NoName} ELSE {})]
    /\ \A i, j \in Ids : i # j /\ row[i] \in Names => row[i] # row[j]
    /\ stays \in [Ids -> Stays]
    /\ \A i \in Ids : stays[i] # "none" => table = "guests" /\ i \in Lodgers /\ row[i] # Absent
    /\ job = [r \in Requests |-> NoJob]
    /\ phase = [r \in Requests |-> "idle"]
    /\ lock = [r \in Requests |-> NoRow]
    /\ entry = [r \in Requests |-> NoName]
    /\ alone = [r \in Requests |-> TRUE]

\* What the schemas and the routes let a request ask for.
Allowed(asked) ==
    CASE asked.op = "create" ->
             /\ asked.name = NoName => table \in Nullable
             /\ row[asked.id] = Absent
             /\ \A q \in Requests : job[q] # NoJob => job[q].id # asked.id
      [] asked.op = "rename" ->
             /\ table \in Renamable
             /\ asked.name = NoName => table \in Nullable
             /\ row[asked.id] # Absent
      [] asked.op = "delete" ->
             /\ table \in Deletable
             /\ asked.name = NoName
             /\ row[asked.id] # Absent

\* Mutant of FirstPhase: a new name is not looked up.
FirstPhaseUnchecked(asked) == IF asked.op = "create" THEN "index" ELSE "load"

\* A guest without an e-mail is not looked up.
FirstPhase(asked) ==
    IF asked.op # "create" THEN "load" ELSE IF asked.name \in Names THEN "look" ELSE "index"

Begin(r, asked) ==
    /\ phase[r] = "idle"
    /\ \A q \in Requests : q < r => phase[q] # "idle"
    /\ Cardinality({q \in Requests : InProgress(q)}) < MaxOpen
    /\ Allowed(asked)
    /\ job' = [job EXCEPT ![r] = asked]
    /\ SetPhase(r, FirstPhase(asked))
    /\ alone' = [q \in Requests |->
         IF q = r THEN \A p \in Others(r) : ~ InProgress(p) ELSE alone[q] /\ ~ InProgress(q)]
    /\ UNCHANGED <<table, row, stays, lock, entry>>

\* The request ends, and with it its transaction.
EndsAs(r, p) ==
    /\ SetPhase(r, p)
    /\ lock' = [lock EXCEPT ![r] = NoRow]
    /\ entry' = [entry EXCEPT ![r] = NoName]
    /\ UNCHANGED <<table, stays, job, alone>>

GoesTo(r, p) ==
    /\ SetPhase(r, p)
    /\ UNCHANGED <<table, row, stays, job, lock, entry, alone>>

\* A patch that names the value the row has writes nothing.
Load(r) ==
    LET asked == job[r] IN
    /\ phase[r] = "load"
    /\ \/ row[asked.id] = Absent /\ EndsAs(r, "not_found") /\ UNCHANGED row
       \/ /\ row[asked.id] # Absent
          /\ GoesTo(r,
               IF asked.op = "rename" /\ asked.name = row[asked.id] THEN "commit"
               ELSE IF asked.op = "delete" \/ (asked.name \in Names /\ table \in LooksUpRename)
               THEN "look" ELSE "lock")

LookUp(r) ==
    LET asked == job[r] IN
    /\ phase[r] = "look" /\ asked.op # "delete"
    /\ \/ /\ \E i \in Ids : row[i] = asked.name
          /\ EndsAs(r, "conflict")
          /\ UNCHANGED row
       \/ /\ \A i \in Ids : row[i] # asked.name
          /\ GoesTo(r, IF asked.op = "create" THEN "index" ELSE "lock")

\* Only active reservations are looked for; two of them make scalar_one_or_none raise.
LookForStays(r) ==
    LET found == stays[job[r].id] IN
    /\ phase[r] = "look" /\ job[r].op = "delete"
    /\ \/ found = "one" /\ EndsAs(r, "refused") /\ UNCHANGED row
       \/ found = "several" /\ EndsAs(r, "several_results") /\ UNCHANGED row
       \/ found \in {"none", "past"} /\ GoesTo(r, "lock")

Locks(r) == lock' = [lock EXCEPT ![r] = job[r].id]

\* Mutant of LockRow: a row that is gone is written again.
LockRowOrInsert(r) ==
    LET asked == job[r] IN
    /\ phase[r] = "lock" /\ asked.op = "rename"
    /\ \A q \in Others(r) : lock[q] # asked.id
    /\ Locks(r)
    /\ SetPhase(r, IF asked.name \in Names THEN "index" ELSE "commit")
    /\ UNCHANGED <<table, row, stays, job, entry, alone>>

\* The UPDATE has waited for the row, and is an error if that is gone.
LockRow(r) ==
    LET asked == job[r] IN
    /\ phase[r] = "lock" /\ asked.op = "rename"
    /\ \A q \in Others(r) : lock[q] # asked.id
    /\ \/ row[asked.id] = Absent /\ EndsAs(r, "stale_data") /\ UNCHANGED row
       \/ /\ row[asked.id] # Absent
          /\ Locks(r)
          /\ SetPhase(r, IF asked.name \in Names THEN "index" ELSE "commit")
          /\ UNCHANGED <<table, row, stays, job, entry, alone>>

\* Mutant of DeleteRow: nothing in the database ties reservations to their
\* guest, and the look is trusted.
DeleteRowOnceLooked(r) ==
    LET id == job[r].id IN
    /\ phase[r] = "lock" /\ job[r].op = "delete"
    /\ \A q \in Others(r) : lock[q] # id
    /\ \/ row[id] = Absent /\ GoesTo(r, "commit")
       \/ /\ row[id] # Absent
          /\ Locks(r)
          /\ SetPhase(r, "commit")
          /\ UNCHANGED <<table, row, stays, job, entry, alone>>

\* The DELETE: whatever reservation refers to the guest fails it, those that
\* are loaded now by the NULL that is written into their guest_id, one booked
\* since by the foreign key; else it waits for the row, and warns if that is gone.
DeleteRow(r) ==
    LET id == job[r].id IN
    /\ phase[r] = "lock" /\ job[r].op = "delete"
    /\ \/ stays[id] # "none" /\ EndsAs(r, "integrity_error") /\ UNCHANGED row
       \/ /\ stays[id] = "none"
          /\ \A q \in Others(r) : lock[q] # id
          /\ row[id] = Absent
          /\ GoesTo(r, "commit")
       \/ /\ stays[id] = "none"
          /\ \A q \in Others(r) : lock[q] # id
          /\ row[id] # Absent
          /\ Locks(r)
          /\ SetPhase(r, "commit")
          /\ UNCHANGED <<table, row, stays, job, entry, alone>>

\* Rows other than its own that have the name r writes, to the last commit.
Namesakes(r) == {i \in Ids \ {job[r].id} : job[r].name \in Names /\ row[i] = job[r].name}

\* Who has entered that name, or is taking it away from a row.
InTheWay(r) ==
    {q \in Others(r) :
        \/ job[r].name \in Names /\ entry[q] = job[r].name
        \/ lock[q] \in Namesakes(r)}

\* Mutant of EnterName: the index is not a unique one.
EnterAnyName(r) ==
    /\ phase[r] = "index"
    /\ Locks(r)
    /\ entry' = [entry EXCEPT ![r] = job[r].name]
    /\ SetPhase(r, "commit")
    /\ UNCHANGED <<table, row, stays, job, alone>>

\* The unique index waits for whoever is in the way, then accepts or fails.
EnterName(r) ==
    /\ phase[r] = "index"
    /\ InTheWay(r) = {}
    /\ \/ Namesakes(r) # {} /\ EndsAs(r, "integrity_error") /\ UNCHANGED row
       \/ /\ Namesakes(r) = {}
          /\ Locks(r)
          /\ entry' = [entry EXCEPT ![r] = job[r].name]
          /\ SetPhase(r, "commit")
          /\ UNCHANGED <<table, row, stays, job, alone>>

\* What it has written, if anything, is there for all to see.
Commit(r) ==
    /\ phase[r] = "commit"
    /\ row' = IF lock[r] = NoRow THEN row
              ELSE [row EXCEPT ![lock[r]] =
                      IF job[r].op = "delete" THEN Absent ELSE job[r].name]
    /\ EndsAs(r, "committed")

\* Mutant of Fail: the transaction stays open.
FailWithoutRollback(r) ==
    /\ InProgress(r)
    /\ SetPhase(r, "failed")
    /\ UNCHANGED <<table, row, stays, job, lock, entry, alone>>

\* The process or the connection goes, or the database refuses the value of
\* another column: a NULL where there must be none, too long a string.
Fail(r) ==
    /\ InProgress(r)
    /\ EndsAs(r, "failed")
    /\ UNCHANGED row

WaitsFor(r) ==
    CASE phase[r] = "lock"  -> {q \in Others(r) : lock[q] = job[r].id}
      [] phase[r] = "index" -> InTheWay(r)
      [] OTHER              -> {}

Deadlocked(r) ==
    \E circle \in SUBSET Requests :
        r \in circle /\ \A q \in circle : WaitsFor(q) \cap circle # {}

\* The deadlock detector makes one of those who wait on each other fail.
BreakDeadlock(r) ==
    /\ Deadlocked(r)
    /\ EndsAs(r, "deadlock")
    /\ UNCHANGED row

\* What the event loop and the database do for a request that has begun.
Drive(r) ==
    \/ Load(r) \/ LookUp(r) \/ LookForStays(r)
    \/ LockRow(r) \/ DeleteRow(r)
    \/ EnterName(r) \/ Commit(r) \/ BreakDeadlock(r)

\* What the desk commits while they run overlaps with all in progress.
Overlaps == alone' = [q \in Requests |-> alone[q] /\ ~ InProgress(q)]

\* The foreign key of a new reservation needs the guest there, and waits for
\* whoever has that row locked.
Reserve(i) ==
    /\ table = "guests" /\ row[i] # Absent
    /\ \A r \in Requests : lock[r] # i
    /\ stays' = [stays EXCEPT ![i] = IF @ \in {"none", "past"} THEN "one" ELSE "several"]
    /\ Overlaps
    /\ UNCHANGED <<table, row, job, phase, lock, entry>>

\* A cancellation, a departure or a guest who does not come; the reservation stays.
EndStay(i) ==
    /\ stays[i] \in {"one", "several"}
    /\ \E left \in IF stays[i] = "one" THEN {"past"} ELSE {"one", "several"} :
           stays' = [stays EXCEPT ![i] = left]
    /\ Overlaps
    /\ UNCHANGED <<table, row, job, phase, lock, entry>>

RegistryNext ==
    \/ \E r \in Requests :
          \/ \E asked \in Job : Begin(r, asked)
          \/ Drive(r)
          \/ Fail(r)
    \/ \E i \in Lodgers : Reserve(i) \/ EndStay(i)

RegistrySpec ==
    /\ RegistryInit
    /\ [][RegistryNext]_registryVars
    /\ \A r \in Requests : WF_registryVars(Drive(r))

-----------------------------------------------------------------------------
(* Properties *)

\* Type invariant; locks and index entries belong to requests in progress.
RegistryTypeOK ==
    /\ table \in Tables
    /\ row \in [Ids -> Values \cup {Absent}]
    /\ stays \in [Ids -> Stays]
    /\ job \in [Requests -> Job \cup {NoJob}]
    /\ phase \in [Requests -> Waiting \cup Ended \cup {"idle"}]
    /\ lock \in [Requests -> Ids \cup {NoRow}]
    /\ entry \in [Requests -> Values]
    /\ alone \in [Requests -> BOOLEAN]
    /\ \A r \in Requests : lock[r] # NoRow => phase[r] \in {"index", "commit"}
    /\ \A r \in Requests : entry[r] # NoName => phase[r] = "commit"

\* No two rows have the same name, however requests overlap; NULLs do not count.
UniqueNames ==
    \A i, j \in Ids : i # j /\ row[i] \in Names => row[i] # row[j]

\* A reservation's guest is there: not when a booking commits between what
\* delete_guest looked for (guest_controller.py:81) and its DELETE, and not
\* when all the stays it did not look for are over, does the guest go.
StaysKeepTheirGuest == \A i \in Ids : stays[i] # "none" => row[i] # Absent

\* Ends that no look-up foresees: all are a 500.
Unforeseen == {"integrity_error", "stale_data", "several_results", "deadlock"}

\* A request whose values fit their columns, and which meets no other and not
\* the desk, is answered 404, 409 or 422 where it cannot be done, and never
\* fails in the database.  Except in update_room_type (room_controller.py:55), which
\* writes a taken name without a look, and in delete_guest of a guest with
\* reservations: past ones fail the DELETE (guest_controller.py:94) and two
\* active ones the look (:89).
AloneOnlyKnownErrors ==
    \A r \in Requests :
        phase[r] \in Unforeseen /\ alone[r] =>
            \/ table = "room_types" /\ job[r].op = "rename" /\ phase[r] = "integrity_error"
            \/ /\ job[r].op = "delete" /\ phase[r] \in {"integrity_error", "several_results"}
               /\ stays[job[r].id] # "none"

\* A guest deleted stays deleted: no update that loaded the guest before
\* writes the row again after (guest_controller.py:70).
DeletedStaysDeleted ==
    \A r \in Requests :
        phase[r] = "committed" /\ job[r].op = "delete" => row[job[r].id] = Absent

\* Requests that swap the names of two rows wait on each other for ever unless
\* one is failed; with the database's detector every request ends.
RegistryRequestsEnd == \A r \in Requests : InProgress(r) ~> ~ InProgress(r)
=============================================================================
