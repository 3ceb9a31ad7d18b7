---------------------------- MODULE RegistryProofs ----------------------------
(***************************************************************************)
(* Proofs about Registry.tla: names stay unique, the deleted stay deleted, *)
(* reservations keep their guest, and a request alone needs no index to be *)
(* refused, for any tables, rows, names and number of requests at once.    *)
(***************************************************************************)
EXTENDS Registry, TLAPS

\* A request that has begun asks for something; a row it has locked or
\* inserted is the one it is about.
JobsKnown ==
    \A r \in Requests :
        /\ phase[r] # "idle" => job[r] \in Job
        /\ lock[r] # NoRow => lock[r] = job[r].id

LocksApart ==
    \A r, q \in Requests : r # q /\ lock[r] # NoRow => lock[r] # lock[q]

\* What is entered in the index is entered once, and no committed row has it
\* but the one that is being given it.
EntriesHold ==
    /\ \A r, q \in Requests : r # q /\ entry[r] # NoName => entry[r] # entry[q]
    /\ \A r \in Requests : entry[r] # NoName =>
         /\ entry[r] = job[r].name
         /\ lock[r] # NoRow
         /\ \A i \in Ids : i # lock[r] => row[i] # entry[r]

\* A name is entered before it is committed.
CommitsEntered ==
    \A r \in Requests :
        phase[r] = "commit" /\ lock[r] # NoRow /\ job[r].op # "delete" /\ job[r].name # NoName
            => entry[r] = job[r].name

\* An update that has reached the index has locked its row.
RenamesLocked ==
    \A r \in Requests : phase[r] = "index" /\ job[r].op # "create" => lock[r] # NoRow

\* A new row is not there yet and nobody else is about it; any other row that is
\* locked is there.
NewRowsApart ==
    \A r \in Requests : InProgress(r) /\ job[r].op = "create" =>
        /\ row[job[r].id] = Absent
        /\ \A q \in Requests \ {r} : job[q] # NoJob => job[q].id # job[r].id

LockedRowsThere ==
    \A r \in Requests : lock[r] # NoRow /\ job[r].op # "create" => row[lock[r]] # Absent

\* A deletion that has locked no row found it gone.
DeletesHold ==
    \A r \in Requests :
        phase[r] = "commit" /\ job[r].op = "delete" /\ lock[r] = NoRow => row[job[r].id] = Absent

\* Reservations refer to rows that are there, and a deletion that has locked
\* its row keeps new ones away until it ends.
StaysHold ==
    /\ StaysKeepTheirGuest
    /\ \A r \in Requests : lock[r] # NoRow /\ job[r].op = "delete" => stays[lock[r]] = "none"

\* The inductive invariant: UniqueNames alone is not one, for a commit relies
\* on what was checked when the name was entered, and DeletedStaysDeleted not
\* either, for a commit relies on the row it locked being there still, with no
\* reservation that refers to it.
RegistryInv ==
    /\ RegistryTypeOK
    /\ UniqueNames
    /\ DeletedStaysDeleted
    /\ JobsKnown
    /\ LocksApart
    /\ EntriesHold
    /\ CommitsEntered
    /\ RenamesLocked
    /\ NewRowsApart
    /\ LockedRowsThere
    /\ DeletesHold
    /\ StaysHold

-----------------------------------------------------------------------------
(* The steps *)

LEMMA RegistryInitInv == RegistryInit => RegistryInv
<1> SUFFICES ASSUME RegistryInit PROVE RegistryInv
  OBVIOUS
<1> USE DEF RegistryInit, Tables, Nullable, Values
<1>1. RegistryTypeOK
  BY DEF RegistryTypeOK
<1>2. UniqueNames /\ DeletedStaysDeleted
  BY DEF UniqueNames, DeletedStaysDeleted
<1>3. JobsKnown /\ LocksApart /\ EntriesHold /\ CommitsEntered /\ RenamesLocked /\ LockedRowsThere
  BY DEF JobsKnown, LocksApart, EntriesHold, CommitsEntered, RenamesLocked,
         LockedRowsThere
<1>4. NewRowsApart /\ DeletesHold /\ StaysHold
  BY DEF NewRowsApart, DeletesHold, StaysHold, StaysKeepTheirGuest, InProgress, Waiting
<1> QED
  BY <1>1, <1>2, <1>3, <1>4 DEF RegistryInv

\* A request that ends without a commit gives its lock and its entry back and
\* changes nothing else.
LEMMA EndKeeps ==
    ASSUME RegistryInv, NEW r \in Requests, InProgress(r),
           NEW p \in Ended \ {"committed"}, EndsAs(r, p), UNCHANGED row
    PROVE  RegistryInv'
<1> USE DEF RegistryInv, EndsAs, SetPhase
<1>1. RegistryTypeOK'
  BY DEF RegistryTypeOK, Ended, Waiting, Values
<1>2. UniqueNames' /\ DeletedStaysDeleted'
  BY DEF UniqueNames, DeletedStaysDeleted, RegistryTypeOK, Ended
<1>3. JobsKnown' /\ LocksApart' /\ LockedRowsThere'
  BY DEF JobsKnown, LocksApart, LockedRowsThere, RegistryTypeOK, InProgress, Waiting
<1>4. EntriesHold' /\ CommitsEntered' /\ RenamesLocked'
  BY DEF EntriesHold, CommitsEntered, RenamesLocked, RegistryTypeOK, Ended
<1>5. NewRowsApart' /\ DeletesHold' /\ StaysHold'
  BY DEF NewRowsApart, DeletesHold, StaysHold, StaysKeepTheirGuest, InProgress,
         RegistryTypeOK, Ended, Waiting
<1> QED
  BY <1>1, <1>2, <1>3, <1>4, <1>5

\* A request that goes on without a lock changes nothing but its phase.
LEMMA GoesKeeps ==
    ASSUME RegistryInv, NEW r \in Requests, InProgress(r), lock[r] = NoRow,
           NEW p \in Waiting, p = "index" => job[r].op = "create",
           p = "commit" /\ job[r].op = "delete" => row[job[r].id] = Absent, GoesTo(r, p)
    PROVE  RegistryInv'
<1> USE DEF RegistryInv, GoesTo, SetPhase
<1>1. entry[r] = NoName
  BY DEF EntriesHold, RegistryTypeOK
<1>2. RegistryTypeOK'
  BY <1>1 DEF RegistryTypeOK, Ended, Waiting, Values
<1>3. UniqueNames' /\ DeletedStaysDeleted'
  BY DEF UniqueNames, DeletedStaysDeleted, RegistryTypeOK, Waiting
<1>4. JobsKnown' /\ LocksApart' /\ LockedRowsThere'
  BY DEF JobsKnown, LocksApart, LockedRowsThere, RegistryTypeOK, InProgress, Waiting
<1>5. EntriesHold' /\ CommitsEntered' /\ RenamesLocked'
  BY DEF EntriesHold, CommitsEntered, RenamesLocked, RegistryTypeOK
<1>6. NewRowsApart' /\ DeletesHold' /\ StaysHold'
  BY DEF NewRowsApart, DeletesHold, StaysHold, StaysKeepTheirGuest, InProgress,
         RegistryTypeOK, Waiting
<1> QED
  BY <1>2, <1>3, <1>4, <1>5, <1>6

LEMMA BeginKeeps ==
    ASSUME RegistryInv, NEW r \in Requests, NEW asked \in Job, Begin(r, asked)
    PROVE  RegistryInv'
<1> USE DEF RegistryInv, Begin, SetPhase
<1>1. /\ FirstPhase(asked) \in Waiting \ {"commit"}
      /\ FirstPhase(asked) = "index" => asked.op = "create"
  BY DEF FirstPhase, Waiting, Job
<1>2. lock[r] = NoRow /\ entry[r] = NoName
  BY DEF RegistryTypeOK
<1>3. alone' \in [Requests -> BOOLEAN]
  BY Zenon DEF RegistryTypeOK
<1>4. RegistryTypeOK'
  BY <1>1, <1>2, <1>3 DEF RegistryTypeOK, Waiting
<1>5. UniqueNames' /\ DeletedStaysDeleted'
  BY <1>1 DEF UniqueNames, DeletedStaysDeleted, RegistryTypeOK, Waiting
<1>6. JobsKnown' /\ LocksApart' /\ LockedRowsThere'
  BY <1>1, <1>2 DEF JobsKnown, LocksApart, LockedRowsThere, RegistryTypeOK
<1>7. EntriesHold' /\ CommitsEntered' /\ RenamesLocked'
  BY <1>1, <1>2 DEF EntriesHold, CommitsEntered, RenamesLocked, RegistryTypeOK
<1>8. NewRowsApart'
  <2>1. /\ asked.op = "create" =>
             /\ row[asked.id] = Absent
             /\ \A q \in Requests : job[q] # NoJob => job[q].id # asked.id
        /\ asked.op # "create" => row[asked.id] # Absent
    BY DEF Allowed, Job
  <2>2. \A q \in Requests : InProgress(q)' <=> q = r \/ InProgress(q)
    BY <1>1 DEF InProgress, RegistryTypeOK, Waiting
  <2>3. job'[r] = asked /\ row' = row /\ \A q \in Requests \ {r} : job'[q] = job[q]
    BY DEF RegistryTypeOK
  <2>4. \A q \in Requests \ {r} : InProgress(q) => job[q] # NoJob
    BY RegistryAssumption DEF JobsKnown, InProgress, Waiting
  <2> HIDE DEF Begin
  <2> QED
    BY <2>1, <2>2, <2>3, <2>4 DEF NewRowsApart
<1>9. DeletesHold' /\ StaysHold'
  BY <1>1, <1>2 DEF DeletesHold, StaysHold, StaysKeepTheirGuest, RegistryTypeOK
<1> QED
  BY <1>4, <1>5, <1>6, <1>7, <1>8, <1>9

LEMMA LoadKeeps ==
    ASSUME RegistryInv, NEW r \in Requests, Load(r)
    PROVE  RegistryInv'
<1>1. InProgress(r) /\ lock[r] = NoRow
  BY DEF Load, InProgress, Waiting, RegistryInv, RegistryTypeOK
<1>2. CASE EndsAs(r, "not_found") /\ UNCHANGED row
  BY <1>1, <1>2, EndKeeps DEF Ended
<1>3. CASE \E p \in Waiting \ {"index"} :
             (p = "commit" => job[r].op = "rename") /\ GoesTo(r, p)
  BY <1>1, <1>3, GoesKeeps
<1> QED
  BY <1>2, <1>3 DEF Load, Waiting

LEMMA LookUpKeeps ==
    ASSUME RegistryInv, NEW r \in Requests, LookUp(r)
    PROVE  RegistryInv'
<1>1. InProgress(r) /\ lock[r] = NoRow
  BY DEF LookUp, InProgress, Waiting, RegistryInv, RegistryTypeOK
<1>2. CASE EndsAs(r, "conflict") /\ UNCHANGED row
  BY <1>1, <1>2, EndKeeps DEF Ended
<1>3. CASE \E p \in Waiting \ {"commit"} :
             (p = "index" => job[r].op = "create") /\ GoesTo(r, p)
  BY <1>1, <1>3, GoesKeeps
<1> QED
  BY <1>2, <1>3 DEF LookUp, Waiting

LEMMA LookForStaysKeeps ==
    ASSUME RegistryInv, NEW r \in Requests, LookForStays(r)
    PROVE  RegistryInv'
<1>1. InProgress(r) /\ lock[r] = NoRow
  BY DEF LookForStays, InProgress, Waiting, RegistryInv, RegistryTypeOK
<1>2. CASE \E p \in {"refused", "several_results"} : EndsAs(r, p) /\ UNCHANGED row
  BY <1>1, <1>2, EndKeeps DEF Ended
<1>3. CASE GoesTo(r, "lock")
  BY <1>1, <1>3, GoesKeeps DEF Waiting
<1> QED
  BY <1>2, <1>3 DEF LookForStays

\* Locking a row that is there and that nobody else has locked: a rename goes
\* on to the index or, without a name, to the commit; a deletion to the commit.
LEMMA LocksKeep ==
    ASSUME RegistryInv, NEW r \in Requests, phase[r] = "lock", job[r] \in Job,
           job[r].op # "create", row[job[r].id] # Absent,
           \A q \in Others(r) : lock[q] # job[r].id,
           NEW p \in {"index", "commit"}, Locks(r), SetPhase(r, p),
           UNCHANGED <<table, row, stays, job, entry, alone>>,
           p = "commit" => job[r].op = "delete" \/ job[r].name = NoName,
           job[r].op = "delete" => stays[job[r].id] = "none"
    PROVE  RegistryInv'
<1> USE DEF RegistryInv, SetPhase, Locks
<1>1. lock[r] = NoRow /\ entry[r] = NoName
  BY DEF RegistryTypeOK
<1>2. \A q \in Requests \ {r} : lock[q] # job[r].id
  BY DEF Others
<1>3. RegistryTypeOK'
  BY <1>1 DEF RegistryTypeOK, Waiting, Job
<1>4. UniqueNames' /\ DeletedStaysDeleted'
  BY DEF UniqueNames, DeletedStaysDeleted, RegistryTypeOK
<1>5. JobsKnown' /\ LocksApart' /\ LockedRowsThere'
  BY <1>2, RegistryAssumption
     DEF JobsKnown, LocksApart, LockedRowsThere, RegistryTypeOK, Job
<1>6. EntriesHold' /\ CommitsEntered' /\ RenamesLocked'
  BY <1>1, RegistryAssumption
     DEF EntriesHold, CommitsEntered, RenamesLocked, RegistryTypeOK, Job, Values
<1>7. NewRowsApart' /\ DeletesHold'
  BY <1>1, RegistryAssumption
     DEF NewRowsApart, DeletesHold, InProgress, RegistryTypeOK, Waiting, Job
<1>8. StaysHold'
  BY DEF StaysHold, StaysKeepTheirGuest, RegistryTypeOK
<1> QED
  BY <1>3, <1>4, <1>5, <1>6, <1>7, <1>8

LEMMA LockRowKeeps ==
    ASSUME RegistryInv, NEW r \in Requests, LockRow(r)
    PROVE  RegistryInv'
<1>1. InProgress(r) /\ lock[r] = NoRow /\ phase[r] = "lock"
  BY DEF LockRow, InProgress, Waiting, RegistryInv, RegistryTypeOK
<1>2. CASE EndsAs(r, "stale_data") /\ UNCHANGED row
  BY <1>1, <1>2, EndKeeps DEF Ended
<1>3. CASE /\ row[job[r].id] # Absent
           /\ Locks(r)
           /\ SetPhase(r, IF job[r].name \in Names THEN "index" ELSE "commit")
           /\ UNCHANGED <<table, row, stays, job, entry, alone>>
  <2>1. job[r] \in Job /\ job[r].op = "rename" /\ \A q \in Others(r) : lock[q] # job[r].id
    BY <1>1 DEF LockRow, RegistryInv, JobsKnown
  <2>2. job[r].name \in Names \/ job[r].name = NoName
    BY <2>1 DEF Job, Values
  <2> QED
    BY <1>1, <1>3, <2>1, <2>2, LocksKeep, RegistryAssumption
<1> QED
  BY <1>2, <1>3 DEF LockRow

LEMMA DeleteRowKeeps ==
    ASSUME RegistryInv, NEW r \in Requests, DeleteRow(r)
    PROVE  RegistryInv'
<1>1. InProgress(r) /\ lock[r] = NoRow /\ phase[r] = "lock"
  BY DEF DeleteRow, InProgress, Waiting, RegistryInv, RegistryTypeOK
<1>2. CASE EndsAs(r, "integrity_error") /\ UNCHANGED row
  BY <1>1, <1>2, EndKeeps DEF Ended
<1>3. CASE row[job[r].id] = Absent /\ GoesTo(r, "commit")
  BY <1>1, <1>3, GoesKeeps DEF Waiting
<1>4. CASE /\ row[job[r].id] # Absent
           /\ stays[job[r].id] = "none"
           /\ \A q \in Others(r) : lock[q] # job[r].id
           /\ Locks(r)
           /\ SetPhase(r, "commit")
           /\ UNCHANGED <<table, row, stays, job, entry, alone>>
  <2>1. job[r] \in Job /\ job[r].op = "delete"
    BY <1>1 DEF DeleteRow, RegistryInv, JobsKnown
  <2> QED
    BY <1>1, <1>4, <2>1, LocksKeep
<1> QED
  BY <1>2, <1>3, <1>4 DEF DeleteRow

LEMMA EnterNameKeeps ==
    ASSUME RegistryInv, NEW r \in Requests, EnterName(r)
    PROVE  RegistryInv'
<1>1. InProgress(r) /\ phase[r] = "index"
  BY DEF EnterName, InProgress, Waiting
<1>2. CASE EndsAs(r, "integrity_error") /\ UNCHANGED row
  BY <1>1, <1>2, EndKeeps DEF Ended
<1>3. CASE /\ Namesakes(r) = {}
           /\ Locks(r)
           /\ entry' = [entry EXCEPT ![r] = job[r].name]
           /\ SetPhase(r, "commit")
           /\ UNCHANGED <<table, row, stays, job, alone>>
  <2> USE <1>1, <1>3 DEF RegistryInv, SetPhase, Locks
  <2>1. job[r] \in Job /\ entry[r] = NoName
    BY DEF JobsKnown, RegistryTypeOK
  <2>2. job[r].name # NoName =>
          /\ \A q \in Requests \ {r} : entry[q] # job[r].name
          /\ \A i \in Ids : i # job[r].id => row[i] # job[r].name
    BY <2>1 DEF EnterName, InTheWay, Namesakes, Others, Job, Values
  <2>3. \A q \in Requests \ {r} : lock[q] # NoRow => lock[q] # job[r].id
    <3>1. CASE job[r].op = "create"
      BY <3>1, RegistryAssumption
         DEF NewRowsApart, JobsKnown, RegistryTypeOK
    <3>2. CASE job[r].op # "create"
      BY <3>2 DEF LocksApart, JobsKnown, RenamesLocked
    <3> QED
      BY <3>1, <3>2
  <2>4. RegistryTypeOK'
    BY <2>1 DEF RegistryTypeOK, Waiting, Job
  <2>5. UniqueNames' /\ DeletedStaysDeleted'
    BY DEF UniqueNames, DeletedStaysDeleted, RegistryTypeOK
  <2>6. JobsKnown' /\ LocksApart' /\ LockedRowsThere'
    BY <2>1, <2>3, RegistryAssumption
       DEF JobsKnown, LocksApart, LockedRowsThere, RenamesLocked, RegistryTypeOK, Job
  <2>7. EntriesHold' /\ CommitsEntered' /\ RenamesLocked'
    BY <2>1, <2>2, RegistryAssumption
       DEF EntriesHold, CommitsEntered, RenamesLocked, RegistryTypeOK, Job, Values
  <2>8. NewRowsApart' /\ DeletesHold'
    BY <2>1, RegistryAssumption
       DEF NewRowsApart, DeletesHold, InProgress, RegistryTypeOK, Waiting, Job
  <2>9. StaysHold'
    BY RegistryAssumption
       DEF StaysHold, StaysKeepTheirGuest, JobsKnown, RenamesLocked, RegistryTypeOK, Job
  <2> QED
    BY <2>4, <2>5, <2>6, <2>7, <2>8, <2>9
<1> QED
  BY <1>2, <1>3 DEF EnterName

\* The name a commit writes was entered before, so that no other row has it; the
\* row it deletes is locked, so that nobody writes it again.
LEMMA CommitKeeps ==
    ASSUME RegistryInv, NEW r \in Requests, Commit(r)
    PROVE  RegistryInv'
<1> DEFINE new == IF job[r].op = "delete" THEN Absent ELSE job[r].name
<1>1. phase[r] = "commit" /\ job[r] \in Job
  BY DEF Commit, RegistryInv, JobsKnown
<1>2. /\ phase' = [phase EXCEPT ![r] = "committed"]
      /\ lock' = [lock EXCEPT ![r] = NoRow]
      /\ entry' = [entry EXCEPT ![r] = NoName]
      /\ UNCHANGED <<table, stays, job, alone>>
      /\ row' = IF lock[r] = NoRow THEN row ELSE [row EXCEPT ![lock[r]] = new]
  BY DEF Commit, EndsAs, SetPhase
<1>3. new \in Values \cup {Absent} /\ (lock[r] # NoRow => lock[r] = job[r].id)
  BY <1>1 DEF Job, RegistryInv, JobsKnown
<1>4. lock[r] # NoRow /\ new \in Names =>
        \A i \in Ids \ {lock[r]} : row[i] # new
  BY <1>1, RegistryAssumption
     DEF RegistryInv, CommitsEntered, EntriesHold, RegistryTypeOK, Values
<1> HIDE DEF new
<1> USE <1>1, <1>2, <1>3 DEF RegistryInv
<1>5. RegistryTypeOK'
  BY DEF RegistryTypeOK, Ended, Values
<1>6. UniqueNames'
  BY <1>4 DEF UniqueNames, RegistryTypeOK
<1>7. \A q \in Requests : row[job[q].id] = Absent /\ q # r /\ job[q] \in Job =>
        row'[job[q].id] = Absent
  <2>1. CASE job[r].op = "create"
    BY <2>1, RegistryAssumption DEF NewRowsApart, InProgress, Waiting, RegistryTypeOK, Job
  <2>2. CASE job[r].op # "create"
    BY <2>2 DEF LockedRowsThere, RegistryTypeOK, Job
  <2> QED
    BY <2>1, <2>2
<1>8. DeletedStaysDeleted' /\ DeletesHold'
  <2>1. job[r].op = "delete" => row'[job[r].id] = Absent
    BY DEF DeletesHold, RegistryTypeOK, Job, new
  <2> QED
    BY <1>7, <2>1 DEF DeletedStaysDeleted, DeletesHold, JobsKnown, RegistryTypeOK
<1>9. JobsKnown' /\ LocksApart'
  BY DEF JobsKnown, LocksApart, RegistryTypeOK
<1>10. EntriesHold'
  <2>1. \A q \in Requests \ {r} : entry[q] # NoName /\ lock[r] # NoRow => entry[q] # new
    BY RegistryAssumption
       DEF EntriesHold, CommitsEntered, RegistryTypeOK, Values, new
  <2> QED
    BY <2>1 DEF EntriesHold, RegistryTypeOK
<1>11. CommitsEntered' /\ RenamesLocked'
  BY DEF CommitsEntered, RenamesLocked, RegistryTypeOK
<1>12. NewRowsApart'
  <2>1. \A q \in Requests \ {r} : InProgress(q) => job[q] \in Job
    BY DEF JobsKnown, InProgress, Waiting
  <2>2. \A q \in Requests \ {r} : InProgress(q)' <=> InProgress(q)
    BY DEF InProgress, RegistryTypeOK
  <2> QED
    BY <1>7, <2>1, <2>2 DEF NewRowsApart, InProgress, RegistryTypeOK, Waiting
<1>13. LockedRowsThere'
  BY RegistryAssumption DEF LockedRowsThere, LocksApart, RegistryTypeOK
<1>14. StaysHold'
  <2>1. lock[r] # NoRow /\ stays[lock[r]] # "none" => new # Absent
    BY RegistryAssumption DEF StaysHold, Job, new
  <2> QED
    BY <2>1 DEF StaysHold, StaysKeepTheirGuest, RegistryTypeOK
<1> QED
  BY <1>5, <1>6, <1>8, <1>9, <1>10, <1>11, <1>12, <1>13, <1>14

\* The foreign key finds the guest, and waits for whoever is deleting it.
LEMMA DeskKeeps ==
    ASSUME RegistryInv, NEW i \in Lodgers, Reserve(i) \/ EndStay(i)
    PROVE  RegistryInv'
<1> USE DEF RegistryInv
<1>1. UNCHANGED <<table, row, job, phase, lock, entry>> /\ i \in Ids
  BY RegistryAssumption DEF Reserve, EndStay
<1>2. \E s \in Stays : stays' = [stays EXCEPT ![i] = s]
  <2>1. CASE Reserve(i)
    BY <2>1 DEF Reserve, Stays
  <2>2. CASE EndStay(i)
    BY <2>2 DEF EndStay, Stays
  <2> QED
    BY <2>1, <2>2
<1>3. row[i] # Absent /\ \A r \in Requests : lock[r] # i \/ stays[i] # "none"
  <2>1. CASE Reserve(i)
    BY <2>1 DEF Reserve
  <2>2. CASE EndStay(i)
    BY <1>1, <2>2 DEF EndStay, StaysHold, StaysKeepTheirGuest
  <2> QED
    BY <2>1, <2>2
<1>4. alone' \in [Requests -> BOOLEAN]
  <2>1. Overlaps
    BY DEF Reserve, EndStay
  <2> QED
    BY <2>1, Zenon DEF Overlaps, RegistryTypeOK
<1>5. RegistryTypeOK'
  BY <1>1, <1>2, <1>4 DEF RegistryTypeOK
<1>6. StaysHold'
  BY <1>1, <1>2, <1>3 DEF StaysHold, StaysKeepTheirGuest, RegistryTypeOK
<1>7. /\ UniqueNames' /\ DeletedStaysDeleted' /\ JobsKnown' /\ LocksApart' /\ EntriesHold'
      /\ CommitsEntered' /\ RenamesLocked' /\ NewRowsApart' /\ LockedRowsThere'
      /\ DeletesHold'
  BY <1>1 DEF UniqueNames, DeletedStaysDeleted, JobsKnown, LocksApart, EntriesHold,
              CommitsEntered, RenamesLocked, NewRowsApart, LockedRowsThere, DeletesHold,
              InProgress
<1> QED
  BY <1>5, <1>6, <1>7

LEMMA RegistryStep ==
    RegistryInv /\ [RegistryNext]_registryVars => RegistryInv'
<1> SUFFICES ASSUME RegistryInv, [RegistryNext]_registryVars PROVE RegistryInv'
  OBVIOUS
<1>1. ASSUME NEW r \in Requests, Fail(r) PROVE RegistryInv'
  BY <1>1, EndKeeps DEF Fail, Ended
<1>2. ASSUME NEW r \in Requests, BreakDeadlock(r) PROVE RegistryInv'
  <2>1. WaitsFor(r) # {}
    BY <1>2 DEF BreakDeadlock, Deadlocked
  <2>2. InProgress(r)
    BY <2>1 DEF WaitsFor, InProgress, Waiting
  <2> QED
    BY <1>2, <2>2, EndKeeps DEF BreakDeadlock, Ended
<1>3. ASSUME NEW r \in Requests, Drive(r) PROVE RegistryInv'
  BY <1>2, <1>3, LoadKeeps, LookUpKeeps, LookForStaysKeeps, LockRowKeeps, DeleteRowKeeps,
     EnterNameKeeps, CommitKeeps DEF Drive
<1>4. CASE UNCHANGED registryVars
  BY <1>4 DEF registryVars, RegistryInv, RegistryTypeOK, UniqueNames, DeletedStaysDeleted,
              JobsKnown, LocksApart, EntriesHold, CommitsEntered, RenamesLocked,
              NewRowsApart, LockedRowsThere, DeletesHold, StaysHold, StaysKeepTheirGuest,
              InProgress
<1> QED
  BY <1>1, <1>3, <1>4, BeginKeeps, DeskKeeps DEF RegistryNext

LEMMA RegistryInvariant == RegistrySpec => []RegistryInv
  BY RegistryInitInv, RegistryStep, PTL DEF RegistrySpec

-----------------------------------------------------------------------------
(* Requests that meet no other *)

\* What the schemas and the routes let a request ask for, of a table that does
\* not change.
JobsAllowed ==
    \A r \in Requests : InProgress(r) =>
        /\ job[r].op = "rename" =>
             table \in Renamable /\ (job[r].name = NoName => table \in Nullable)
        /\ job[r].op = "delete" => job[r].name = NoName

\* The index is not looked at before it is met: update_room_type.
Unchecked(r) == table = "room_types" /\ job[r].op = "rename"

\* The errors that a request alone may end in.
Known(r, p) ==
    \/ Unchecked(r) /\ p = "integrity_error"
    \/ /\ job[r].op = "delete" /\ p \in {"integrity_error", "several_results"}
       /\ stays[job[r].id] # "none"

\* A request that has met no other finds the table as it was when it looked.
AloneHolds ==
    \A r \in Requests : InProgress(r) /\ alone[r] =>
        /\ \A q \in Others(r) : ~ InProgress(q)
        /\ phase[r] \in {"look", "lock"} /\ job[r].op # "create" => row[job[r].id] # Absent
        /\ phase[r] \in {"lock", "index"} => Namesakes(r) = {} \/ Unchecked(r)

\* The inductive invariant for AloneOnlyKnownErrors.
AloneInv == JobsAllowed /\ AloneHolds /\ AloneOnlyKnownErrors

LEMMA AloneInit == RegistryInit => AloneInv
  BY DEF RegistryInit, AloneInv, JobsAllowed, AloneHolds, AloneOnlyKnownErrors, Unforeseen,
         InProgress, Waiting

\* A request that goes on to another statement, or ends as the code foresees,
\* with no row written.
LEMMA GoesAlone ==
    ASSUME RegistryTypeOK, AloneInv, NEW r \in Requests, InProgress(r),
           NEW p \in Waiting \cup Ended, SetPhase(r, p),
           UNCHANGED <<table, row, stays, job, alone>>,
           p \in {"look", "lock"} /\ job[r].op # "create" /\ alone[r] =>
             row[job[r].id] # Absent,
           p \in {"lock", "index"} /\ alone[r] => Namesakes(r) = {} \/ Unchecked(r),
           p \in Unforeseen /\ alone[r] => Known(r, p)
    PROVE  AloneInv'
<1>1. phase'[r] = p /\ \A q \in Requests \ {r} : phase'[q] = phase[q]
  BY DEF SetPhase, RegistryTypeOK
<1>2. \A q \in Requests : /\ Namesakes(q)' = Namesakes(q)
                          /\ Unchecked(q)' <=> Unchecked(q)
                          /\ InProgress(q)' => InProgress(q)
  BY <1>1 DEF Namesakes, Unchecked, InProgress
<1>3. JobsAllowed'
  BY <1>2 DEF AloneInv, JobsAllowed
<1>4. AloneHolds'
  BY <1>1, <1>2 DEF AloneInv, AloneHolds, Others
<1>5. AloneOnlyKnownErrors'
  BY <1>1 DEF AloneInv, AloneOnlyKnownErrors, Known, Unchecked
<1> QED
  BY <1>3, <1>4, <1>5 DEF AloneInv

LEMMA BeginAlone ==
    ASSUME RegistryTypeOK, AloneInv, NEW r \in Requests, NEW asked \in Job, Begin(r, asked)
    PROVE  AloneInv'
<1>1. /\ phase[r] = "idle" /\ phase'[r] = FirstPhase(asked) /\ job'[r] = asked
      /\ \A q \in Others(r) : phase'[q] = phase[q] /\ job'[q] = job[q]
      /\ UNCHANGED <<table, row, stays>> /\ Allowed(asked)
      /\ alone'[r] = \A q \in Others(r) : ~ InProgress(q)
      /\ \A q \in Others(r) : alone'[q] = (alone[q] /\ ~ InProgress(q))
  BY DEF Begin, SetPhase, RegistryTypeOK, Others
<1>2. FirstPhase(asked) \in {"load", "look", "index"} /\ ~ InProgress(r)
  BY <1>1 DEF FirstPhase, InProgress, Waiting
<1>3. FirstPhase(asked) # "load" => asked.op = "create"
  BY DEF FirstPhase
<1>4. FirstPhase(asked) = "index" => asked.name \notin Names
  BY DEF FirstPhase
<1>5. \A q \in Others(r) : InProgress(q)' <=> InProgress(q)
  BY <1>1 DEF InProgress
<1>6. JobsAllowed'
  <2>1. /\ asked.op = "rename" =>
             table \in Renamable /\ (asked.name = NoName => table \in Nullable)
        /\ asked.op = "delete" => asked.name = NoName
    BY <1>1 DEF Allowed
  <2> QED
    BY <1>1, <1>5, <2>1 DEF AloneInv, JobsAllowed, Others
<1>7. AloneHolds'
  <2> SUFFICES ASSUME NEW q \in Requests, InProgress(q)', alone'[q]
               PROVE  /\ \A p \in Others(q) : ~ InProgress(p)'
                      /\ phase'[q] \in {"look", "lock"} /\ job'[q].op # "create" =>
                           row'[job'[q].id] # Absent
                      /\ phase'[q] \in {"lock", "index"} => Namesakes(q)' = {} \/ Unchecked(q)'
    BY DEF AloneHolds
  <2>1. q = r
    BY <1>1, <1>5 DEF Others
  <2>2. phase'[q] = "index" => Namesakes(q)' = {}
    BY <1>1, <1>4, <2>1 DEF Namesakes
  <2> QED
    BY <1>1, <1>2, <1>3, <1>5, <2>1, <2>2 DEF Others
<1>8. AloneOnlyKnownErrors'
  <2>1. \A q \in Requests : phase'[q] \in Unforeseen =>
          /\ q \in Others(r) /\ job'[q] = job[q] /\ phase'[q] = phase[q] /\ ~ InProgress(q)
          /\ alone'[q] = alone[q]
    BY <1>1, <1>2 DEF Others, InProgress, Waiting, Unforeseen, RegistryTypeOK
  <2> QED
    BY <1>1, <2>1 DEF AloneInv, AloneOnlyKnownErrors
<1> QED
  BY <1>6, <1>7, <1>8 DEF AloneInv

\* A row is written only by a request that the others overlap.
LEMMA CommitAlone ==
    ASSUME RegistryTypeOK, AloneInv, NEW r \in Requests, Commit(r)
    PROVE  AloneInv'
<1>1. /\ phase[r] = "commit" /\ phase'[r] = "committed" /\ UNCHANGED <<table, stays, job, alone>>
      /\ \A q \in Others(r) : phase'[q] = phase[q]
  BY DEF Commit, EndsAs, SetPhase, RegistryTypeOK, Others
<1>2. \A q \in Requests : InProgress(q)' => q \in Others(r) /\ InProgress(q)
  BY <1>1 DEF InProgress, Waiting, Others
<1>3. InProgress(r)
  BY <1>1 DEF InProgress, Waiting
<1>4. \A q \in Requests : InProgress(q)' => ~ alone'[q]
  BY <1>1, <1>2, <1>3 DEF AloneInv, AloneHolds, Others
<1>5. JobsAllowed'
  BY <1>1, <1>2 DEF AloneInv, JobsAllowed
<1>6. AloneHolds'
  BY <1>4 DEF AloneHolds
<1>7. AloneOnlyKnownErrors'
  BY <1>1 DEF AloneInv, AloneOnlyKnownErrors, Unforeseen, Others
<1> QED
  BY <1>5, <1>6, <1>7 DEF AloneInv

LEMMA StatementAlone ==
    ASSUME RegistryInv, AloneInv, NEW r \in Requests,
           Load(r) \/ LookUp(r) \/ LookForStays(r) \/ LockRow(r) \/ DeleteRow(r) \/ EnterName(r)
    PROVE  AloneInv'
<1>1. RegistryTypeOK
  BY DEF RegistryInv
<1>2. InProgress(r)
  BY DEF Load, LookUp, LookForStays, LockRow, DeleteRow, EnterName, InProgress, Waiting
<1>3. job[r] \in Job
  BY <1>2 DEF RegistryInv, JobsKnown, InProgress, Waiting
<1>4. /\ job[r].op = "rename" =>
           table \in Renamable /\ (job[r].name = NoName => table \in Nullable)
      /\ job[r].op = "delete" => job[r].name = NoName
      /\ job[r].op \in {"create", "rename", "delete"} /\ job[r].name \in Names \cup {NoName}
  BY <1>2, <1>3 DEF AloneInv, JobsAllowed, Job, Values
<1>5. job[r].name \notin Names => Namesakes(r) = {}
  BY DEF Namesakes
<1>6. CASE Load(r)
  <2>1. CASE row[job[r].id] = Absent
    BY <1>1, <1>2, <1>6, <2>1, GoesAlone DEF Load, EndsAs, GoesTo, Ended, Unforeseen
  <2>2. CASE row[job[r].id] # Absent
    <3> DEFINE p == IF job[r].op = "rename" /\ job[r].name = row[job[r].id] THEN "commit"
                    ELSE IF \/ job[r].op = "delete"
                            \/ job[r].name \in Names /\ table \in LooksUpRename
                    THEN "look" ELSE "lock"
    <3>1. SetPhase(r, p) /\ UNCHANGED <<table, row, stays, job, alone>>
      BY <1>6, <2>2 DEF Load, GoesTo
    <3>2. phase[r] = "load" /\ job[r].op # "create"
      BY <1>6, <2>2 DEF Load, RegistryInv, NewRowsApart, InProgress, Waiting
    <3>3. p \in {"lock", "index"} => Namesakes(r) = {} \/ Unchecked(r)
      BY <1>4, <1>5, <3>2, RegistryAssumption DEF Renamable, LooksUpRename, Unchecked
    <3>4. p \in Waiting \cup Ended /\ p \notin Unforeseen
      BY DEF Waiting, Unforeseen
    <3> HIDE DEF p
    <3> QED
      BY <1>1, <1>2, <2>2, <3>1, <3>3, <3>4, GoesAlone
  <2> QED
    BY <2>1, <2>2
<1>7. CASE LookUp(r)
  <2>1. CASE LookUp(r) /\ EndsAs(r, "conflict") /\ UNCHANGED row
    BY <1>1, <1>2, <2>1, GoesAlone DEF EndsAs, Ended, Unforeseen
  <2>2. CASE \A i \in Ids : row[i] # job[r].name
    <3> DEFINE p == IF job[r].op = "create" THEN "index" ELSE "lock"
    <3>1. CASE GoesTo(r, p)
      <4>1. SetPhase(r, p) /\ UNCHANGED <<table, row, stays, job, alone>> /\ phase[r] = "look"
        BY <1>7, <3>1 DEF LookUp, GoesTo
      <4>2. Namesakes(r) = {}
        BY <2>2 DEF Namesakes
      <4>3. p \in Waiting \cup Ended /\ p \notin Unforeseen
        BY DEF Waiting, Unforeseen
      <4>4. p \in {"look", "lock"} /\ job[r].op # "create" /\ alone[r] => row[job[r].id] # Absent
        BY <1>2, <4>1 DEF AloneInv, AloneHolds
      <4> HIDE DEF p
      <4> QED
        BY <1>1, <1>2, <4>1, <4>2, <4>3, <4>4, GoesAlone
    <3> QED
      BY <1>7, <2>1, <2>2, <3>1 DEF LookUp
  <2> QED
    BY <1>7, <2>1, <2>2 DEF LookUp
<1>8. CASE LookForStays(r)
  <2>1. phase[r] = "look" /\ job[r].op = "delete" /\ Namesakes(r) = {}
    BY <1>4, <1>5, <1>8, RegistryAssumption DEF LookForStays
  <2>2. alone[r] => row[job[r].id] # Absent
    BY <1>2, <2>1 DEF AloneInv, AloneHolds
  <2>3. \E p \in {"refused", "several_results", "lock"} :
          /\ SetPhase(r, p) /\ UNCHANGED <<table, row, stays, job, alone>>
          /\ p = "several_results" => Known(r, p)
    BY <1>8, <2>1 DEF LookForStays, EndsAs, GoesTo, Known
  <2> QED
    BY <1>1, <1>2, <2>1, <2>2, <2>3, GoesAlone DEF Waiting, Ended, Unforeseen
<1>9. CASE LockRow(r)
  <2>1. phase[r] = "lock" /\ (alone[r] => Namesakes(r) = {} \/ Unchecked(r))
    BY <1>2, <1>9 DEF LockRow, AloneInv, AloneHolds
  <2>2. alone[r] => row[job[r].id] # Absent
    BY <1>2, <1>9, <2>1 DEF LockRow, AloneInv, AloneHolds
  <2>3. \E p \in {"stale_data", "index", "commit"} :
          /\ SetPhase(r, p) /\ UNCHANGED <<table, row, stays, job, alone>>
          /\ p = "stale_data" => ~ alone[r]
    BY <1>9, <2>2 DEF LockRow, EndsAs
  <2> QED
    BY <1>1, <1>2, <2>1, <2>3, GoesAlone DEF Waiting, Ended, Unforeseen
<1>10. CASE DeleteRow(r)
  <2>1. \E p \in {"integrity_error", "commit"} :
          /\ SetPhase(r, p) /\ UNCHANGED <<table, row, stays, job, alone>>
          /\ p = "integrity_error" => Known(r, p)
    BY <1>10 DEF DeleteRow, EndsAs, GoesTo, Known
  <2> QED
    BY <1>1, <1>2, <2>1, GoesAlone DEF Waiting, Ended, Unforeseen
<1>11. CASE EnterName(r)
  <2>1. phase[r] = "index" /\ (alone[r] => Namesakes(r) = {} \/ Unchecked(r))
    BY <1>2, <1>11 DEF EnterName, AloneInv, AloneHolds
  <2>2. \E p \in {"integrity_error", "commit"} :
          /\ SetPhase(r, p) /\ UNCHANGED <<table, row, stays, job, alone>>
          /\ p = "integrity_error" /\ alone[r] => Known(r, p)
    BY <1>11, <2>1 DEF EnterName, EndsAs, Known
  <2> QED
    BY <1>1, <1>2, <2>2, GoesAlone DEF Waiting, Ended, Unforeseen
<1> QED
  BY <1>6, <1>7, <1>8, <1>9, <1>10, <1>11

\* What the desk commits meets all who are in progress; a row that has a
\* reservation keeps one.
LEMMA DeskAlone ==
    ASSUME RegistryInv, AloneInv, NEW i \in Lodgers, Reserve(i) \/ EndStay(i)
    PROVE  AloneInv'
<1>1. /\ UNCHANGED <<table, row, job, phase, lock, entry>>
      /\ \A q \in Requests : alone'[q] = (alone[q] /\ ~ InProgress(q))
  BY DEF Reserve, EndStay, Overlaps
<1>2. \A j \in Ids : stays[j] # "none" => stays'[j] # "none"
  <2>1. i \in Ids
    BY RegistryAssumption
  <2>2. CASE Reserve(i)
    BY <2>1, <2>2 DEF Reserve, RegistryInv, RegistryTypeOK
  <2>3. CASE EndStay(i)
    BY <2>1, <2>3 DEF EndStay, RegistryInv, RegistryTypeOK
  <2> QED
    BY <2>2, <2>3
<1>3. JobsAllowed' /\ AloneHolds'
  BY <1>1 DEF AloneInv, JobsAllowed, AloneHolds, InProgress
<1>4. AloneOnlyKnownErrors'
  <2> SUFFICES ASSUME NEW q \in Requests, phase[q] \in Unforeseen, alone[q]
               PROVE  Known(q, phase[q])'
    BY <1>1 DEF AloneOnlyKnownErrors, Known, Unchecked
  <2>1. Known(q, phase[q])
    BY DEF AloneInv, AloneOnlyKnownErrors, Known, Unchecked
  <2>2. stays[job[q].id] # "none" => stays'[job[q].id] # "none"
    BY <1>2 DEF RegistryInv, JobsKnown, Unforeseen, Job
  <2> QED
    BY <1>1, <2>1, <2>2 DEF Known, Unchecked
<1> QED
  BY <1>3, <1>4 DEF AloneInv

\* A request that waits on another has met it.
LEMMA DeadlockAlone ==
    ASSUME RegistryInv, AloneInv, NEW r \in Requests, BreakDeadlock(r)
    PROVE  AloneInv'
<1>1. PICK q \in WaitsFor(r) : TRUE
  BY DEF BreakDeadlock, Deadlocked
<1>2. InProgress(r) /\ q \in Others(r) /\ (lock[q] # NoRow \/ entry[q] # NoName)
  <2>1. CASE phase[r] = "lock"
    <3>1. q \in Others(r) /\ lock[q] = job[r].id /\ job[r] \in Job
      BY <1>1, <2>1 DEF WaitsFor, RegistryInv, JobsKnown
    <3> QED
      BY <2>1, <3>1, RegistryAssumption DEF Job, InProgress, Waiting
  <2>2. CASE phase[r] = "index"
    <3>1. q \in InTheWay(r)
      BY <1>1, <2>2 DEF WaitsFor
    <3> QED
      BY <2>2, <3>1, RegistryAssumption DEF InTheWay, Namesakes, InProgress, Waiting
  <2> QED
    BY <1>1, <2>1, <2>2 DEF WaitsFor
<1>3. InProgress(q)
  BY <1>2 DEF RegistryInv, RegistryTypeOK, Others, InProgress, Waiting
<1>4. ~ alone[r]
  BY <1>2, <1>3 DEF AloneInv, AloneHolds
<1>5. SetPhase(r, "deadlock") /\ UNCHANGED <<table, row, stays, job, alone>> /\ RegistryTypeOK
  BY DEF BreakDeadlock, EndsAs, RegistryInv
<1> QED
  BY <1>2, <1>4, <1>5, GoesAlone DEF Ended, Unforeseen

LEMMA AloneStep ==
    RegistryInv /\ AloneInv /\ [RegistryNext]_registryVars => AloneInv'
<1> SUFFICES ASSUME RegistryInv, AloneInv, [RegistryNext]_registryVars PROVE AloneInv'
  OBVIOUS
<1>1. RegistryTypeOK
  BY DEF RegistryInv
<1>2. ASSUME NEW r \in Requests, Fail(r) PROVE AloneInv'
  BY <1>1, <1>2, GoesAlone DEF Fail, EndsAs, Ended, Unforeseen
<1>3. ASSUME NEW r \in Requests, Drive(r) PROVE AloneInv'
  BY <1>1, <1>3, StatementAlone, CommitAlone, DeadlockAlone DEF Drive
<1>4. CASE UNCHANGED registryVars
  BY <1>4 DEF registryVars, AloneInv, JobsAllowed, AloneHolds, AloneOnlyKnownErrors, InProgress,
              Namesakes, Unchecked
<1> QED
  BY <1>1, <1>2, <1>3, <1>4, BeginAlone, DeskAlone DEF RegistryNext

-----------------------------------------------------------------------------
(* The theorems *)

\* Types are kept, and a request that has ended holds no row lock and no entry
\* in the index: a reply, an error or a lost connection always ends the
\* transaction of get_session.
THEOREM RequestsLeaveNothing == RegistrySpec => []RegistryTypeOK
<1>1. RegistryInv => RegistryTypeOK
  BY DEF RegistryInv
<1> QED
  BY <1>1, RegistryInvariant, PTL

\* The e-mails of users and guests, the names of room types and the numbers of
\* rooms are unique, whatever the controllers looked up and however many
\* requests overlap.
THEOREM NamesStayUnique == RegistrySpec => []UniqueNames
<1>1. RegistryInv => UniqueNames
  BY DEF RegistryInv
<1> QED
  BY <1>1, RegistryInvariant, PTL

\* A guest that delete_guest has deleted is never written again by an
\* update_guest that loaded it before.
THEOREM DeletedForGood == RegistrySpec => []DeletedStaysDeleted
<1>1. RegistryInv => DeletedStaysDeleted
  BY DEF RegistryInv
<1> QED
  BY <1>1, RegistryInvariant, PTL

\* A reservation never loses its guest: whatever the desk books or ends while
\* delete_guest is between its look for active reservations, its DELETE and its
\* commit, the foreign key and the row lock decide.
THEOREM StaysKept == RegistrySpec => []StaysKeepTheirGuest
<1>1. RegistryInv => StaysKeepTheirGuest
  BY DEF RegistryInv, StaysHold
<1> QED
  BY <1>1, RegistryInvariant, PTL

\* Where the controllers look first, a look that nothing overlaps is enough: a
\* request that meets neither another nor the desk, and whose values fit their
\* columns, never fails in the database, of any table with any rows.  The
\* exceptions are all: a taken name in update_room_type (room_controller.py:55),
\* and a guest with past reservations, or two active ones, in delete_guest
\* (guest_controller.py:94, :89).
THEOREM LookUpsSuffice == RegistrySpec => []AloneOnlyKnownErrors
<1>1. AloneInv => AloneOnlyKnownErrors
  BY DEF AloneInv
<1> QED
  BY <1>1, RegistryInvariant, AloneInit, AloneStep, PTL DEF RegistrySpec
=============================================================================
