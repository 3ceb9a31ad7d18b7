--------------------------- MODULE BillingTxnProofs ---------------------------
(***************************************************************************)
(* Proofs about BillingTxn.tla, for any requests in any interleaving: its  *)
(* types and its locks, that a commit over the row its session loaded is   *)
(* an operation of Billing.tla, that all the promises of Billing.tla hold  *)
(* until a request commits over a newer row, that a folio closes once, and *)
(* settled until then, and what is left of the totals after it.            *)
(***************************************************************************)
EXTENDS BillingTxn, BillingProofs, SequenceTheorems

-----------------------------------------------------------------------------
(* Rows and columns *)

Columns == {"status", "total_charges", "total_payments", "balance"}

LEMMA RowColumns == ASSUME NEW row \in FolioRow PROVE DOMAIN row = Columns
  BY DEF FolioRow, Columns

\* What an UPDATE of the columns D makes of a row.
Updated(row, new, D) == [c \in DOMAIN row |-> IF c \in D THEN new[c] ELSE row[c]]

LEMMA UpdatedColumns ==
    ASSUME NEW row \in FolioRow, NEW new \in FolioRow, NEW D
    PROVE  Updated(row, new, D) =
             [status |-> IF "status" \in D THEN new.status ELSE row.status,
              total_charges |->
                IF "total_charges" \in D THEN new.total_charges ELSE row.total_charges,
              total_payments |->
                IF "total_payments" \in D THEN new.total_payments ELSE row.total_payments,
              balance |-> IF "balance" \in D THEN new.balance ELSE row.balance]
  BY RowColumns DEF Updated, Columns

LEMMA UpdatedRow ==
    ASSUME NEW row \in FolioRow, NEW new \in FolioRow, NEW D
    PROVE  Updated(row, new, D) \in FolioRow
<1> DEFINE s == Updated(row, new, D)
<1>1. s = [status |-> IF "status" \in D THEN new.status ELSE row.status,
           total_charges |->
             IF "total_charges" \in D THEN new.total_charges ELSE row.total_charges,
           total_payments |->
             IF "total_payments" \in D THEN new.total_payments ELSE row.total_payments,
           balance |-> IF "balance" \in D THEN new.balance ELSE row.balance]
  BY UpdatedColumns
<1> HIDE DEF s
<1>2. s \in FolioRow
  BY <1>1 DEF FolioRow
<1> QED
  BY <1>2 DEF s

\* An UPDATE that leaves out only columns that are the same.
LEMMA UpdatedWhole ==
    ASSUME NEW row \in FolioRow, NEW new \in FolioRow, NEW D,
           "status" \in D \/ new.status = row.status,
           "total_charges" \in D \/ new.total_charges = row.total_charges,
           "total_payments" \in D \/ new.total_payments = row.total_payments,
           "balance" \in D \/ new.balance = row.balance
    PROVE  Updated(row, new, D) = new
<1>1. new = [status |-> new.status, total_charges |-> new.total_charges,
             total_payments |-> new.total_payments, balance |-> new.balance]
  BY DEF FolioRow
<1>2. Updated(row, new, D) = [status |-> new.status, total_charges |-> new.total_charges,
                              total_payments |-> new.total_payments, balance |-> new.balance]
  BY UpdatedColumns
<1> QED
  BY <1>1, <1>2

-----------------------------------------------------------------------------
(* What a request computes *)

\* The three kinds of job.
LEMMA JobKinds ==
    ASSUME TxnTypeOK, NEW r \in Requests
    PROVE  /\ job[r] \in Jobs /\ job[r].folio \in Folios /\ job[r].ticks \in Int
           /\ PostsLine(r) => ~ PostsPayment(r) /\ job[r].op # "close_folio"
           /\ PostsPayment(r) => ~ PostsLine(r) /\ job[r].op # "close_folio"
           /\ PostsLine(r) \/ PostsPayment(r) \/ job[r].op = "close_folio"
<1>1. job[r] \in Jobs
  BY DEF TxnTypeOK
<1> QED
  BY <1>1, RequestAssumption DEF PostsLine, PostsPayment

LEMMA ChargeType ==
    ASSUME TxnTypeOK, NEW r \in Requests
    PROVE  ChargeTicks(r) \in Int
<1>1. job[r].ticks \in Int /\ item[r] \in LineRow
  BY JobKinds DEF TxnTypeOK
<1>2. item[r].total \in Int
  BY <1>1 DEF LineRow, Cents
<1>3. -Ticks(item[r].total) \in Int
  BY <1>2 DEF Ticks, TicksPerCent
<1> QED
  BY <1>1, <1>3 DEF ChargeTicks

\* The row in memory, by the kind of job.
LEMMA RowInMemory ==
    ASSUME TxnTypeOK, NEW r \in Requests
    PROVE  /\ PostsLine(r) => NewRow(r) = Charged(seen[r], ChargeTicks(r))
           /\ PostsPayment(r) => NewRow(r) = Paid(seen[r], job[r].ticks)
           /\ job[r].op = "close_folio" => NewRow(r) = [seen[r] EXCEPT !.status = "closed"]
  BY JobKinds DEF NewRow

LEMMA NewRowType ==
    ASSUME TxnTypeOK, NEW r \in Requests, Writable(r)
    PROVE  NewRow(r) \in FolioRow
<1>1. seen[r] \in FolioRow /\ ChargeTicks(r) \in Int /\ job[r].ticks \in Int
  BY JobKinds, ChargeType DEF TxnTypeOK
<1>2. CASE PostsLine(r)
  BY <1>1, <1>2, RowInMemory, ChargedRow DEF Writable
<1>3. CASE PostsPayment(r)
  BY <1>1, <1>3, RowInMemory, PaidRow DEF Writable
<1>4. CASE job[r].op = "close_folio"
  BY <1>1, <1>4, RowInMemory DEF FolioRow, FolioStatus
<1> QED
  BY <1>2, <1>3, <1>4, JobKinds

LEMMA NewLineType ==
    ASSUME TxnTypeOK, NEW r \in Requests, Writable(r), PostsLine(r)
    PROVE  NewLine(r) \in LineRow
<1>1. NewLine(r).total \in Cents
  BY DEF Writable
<1>2. item[r].item_type \in LineItemType
  BY DEF TxnTypeOK, LineRow
<1> DEFINE type == CASE job[r].op = "void_line_item" -> item[r].item_type
                     [] job[r].op = "add_line_item" -> "extra"
                     [] OTHER -> "room_charge"
           void == job[r].op = "void_line_item"
<1>3. type \in LineItemType /\ void \in BOOLEAN
  BY <1>2 DEF LineItemType
<1>4. NewLine(r) = [item_type |-> type, void |-> void, total |-> RoundCents(ChargeTicks(r))]
  BY Zenon DEF NewLine
<1> HIDE DEF type, void
<1> QED
  BY <1>1, <1>3, <1>4 DEF LineRow

\* A column that is not dirty is the one loaded: nothing was added to it, or
\* the sums come out the same.
LEMMA CleanColumns ==
    ASSUME TxnTypeOK, NEW r \in Requests
    PROVE  /\ "status" \in Dirty(r) \/ NewRow(r).status = seen[r].status
           /\ "total_charges" \in Dirty(r) \/ NewRow(r).total_charges = seen[r].total_charges
           /\ "total_payments" \in Dirty(r) \/ NewRow(r).total_payments = seen[r].total_payments
           /\ "balance" \in Dirty(r) \/ NewRow(r).balance = seen[r].balance
<1> DEFINE row == seen[r]
           c == row.total_charges
           p == row.total_payments
           b == row.balance
<1>1. row \in FolioRow /\ ChargeTicks(r) \in Int /\ job[r].ticks \in Int
  BY JobKinds, ChargeType DEF TxnTypeOK
<1>2. c \in Int /\ p \in Int /\ b \in Int
  BY <1>1 DEF FolioRow, Cents
<1>3. /\ "status" \in Dirty(r) <=> job[r].op = "close_folio"
      /\ "total_charges" \in Dirty(r) <=> PostsLine(r) /\ ChargeTicks(r) # 0
      /\ "total_payments" \in Dirty(r) <=> PostsPayment(r) /\ job[r].ticks # 0
      /\ "balance" \in Dirty(r) <=> NewBalance(r) # Ticks(b)
  BY DEF Dirty
<1>4. RoundCents(Ticks(c)) = c /\ RoundCents(Ticks(p)) = p /\ RoundCents(Ticks(b)) = b
  BY <1>2, RoundCentsExact
<1>5. CASE PostsLine(r)
  <2> DEFINE t == ChargeTicks(r)
  <2>1. NewRow(r) = [row EXCEPT !.total_charges = RoundCents(Ticks(c) + t),
                                !.balance = RoundCents((Ticks(c) + t) - Ticks(p))]
    BY <1>5, RowInMemory DEF Charged
  <2>2. /\ NewRow(r).status = row.status
        /\ NewRow(r).total_charges = RoundCents(Ticks(c) + t)
        /\ NewRow(r).total_payments = p
        /\ NewRow(r).balance = RoundCents((Ticks(c) + t) - Ticks(p))
    BY <1>1, <2>1 DEF FolioRow
  <2>3. NewBalance(r) = Ticks(c - p) + t
    BY <1>5, JobKinds DEF NewBalance
  <2>4. t \in Int
    BY <1>1
  <2> HIDE DEF c, p, b, t
  <2>5. (Ticks(c) + t) - Ticks(p) = Ticks(c - p) + t /\ (t = 0 => Ticks(c) + t = Ticks(c))
    BY <1>2, <2>4 DEF Ticks, TicksPerCent
  <2> QED
    BY <1>3, <1>4, <1>5, <2>2, <2>3, <2>5 DEF c, p, b, t
<1>6. CASE PostsPayment(r)
  <2> DEFINE t == job[r].ticks
  <2>1. NewRow(r) = [row EXCEPT !.total_payments = RoundCents(Ticks(p) + t),
                                !.balance = RoundCents(Ticks(c) - (Ticks(p) + t))]
    BY <1>6, RowInMemory DEF Paid
  <2>2. /\ NewRow(r).status = row.status
        /\ NewRow(r).total_payments = RoundCents(Ticks(p) + t)
        /\ NewRow(r).total_charges = c
        /\ NewRow(r).balance = RoundCents(Ticks(c) - (Ticks(p) + t))
    BY <1>1, <2>1 DEF FolioRow
  <2>3. NewBalance(r) = Ticks(c - p) - t
    BY <1>6, JobKinds DEF NewBalance
  <2>4. t \in Int
    BY <1>1
  <2> HIDE DEF c, p, b, t
  <2>5. Ticks(c) - (Ticks(p) + t) = Ticks(c - p) - t /\ (t = 0 => Ticks(p) + t = Ticks(p))
    BY <1>2, <2>4 DEF Ticks, TicksPerCent
  <2> QED
    BY <1>3, <1>4, <1>6, <2>2, <2>3, <2>5 DEF c, p, b, t
<1>7. CASE job[r].op = "close_folio"
  <2>1. NewRow(r) = [row EXCEPT !.status = "closed"]
    BY <1>7, RowInMemory
  <2>2. /\ NewRow(r).total_payments = p /\ NewRow(r).total_charges = c
        /\ NewRow(r).balance = b
    BY <1>1, <2>1 DEF FolioRow
  <2> QED
    BY <1>3, <1>7, <2>2
<1> QED
  BY <1>5, <1>6, <1>7, JobKinds

-----------------------------------------------------------------------------
(* The invariant *)

\* What is flushed fits its columns.
FlushedFits == \A r \in Requests : phase[r] = "flushed" => Writable(r)

\* A handler goes on only from a row that it checked.
Checked == \A r \in Requests : InProgress(r) => Permitted(r, seen[r])

\* A void stands for a line that is there: lines are only appended.
VoidsALine ==
    \A r \in Requests : (InProgress(r) /\ job[r].op = "void_line_item") =>
        \E i \in DOMAIN lineItems[job[r].folio] : lineItems[job[r].folio][i] = item[r]

\* An entry for each request that committed, at most.
Ended == {r \in Requests : phase[r] = "committed"}

EntriesOfRequests ==
    \A f \in Folios : /\ Len(lineItems[f]) <= Cardinality(Ended)
                      /\ Len(payments[f]) <= Cardinality(Ended)

\* Until a request commits over a newer row the tables are those of Billing.tla.
SerialBooks == ~ stale => BillingInv /\ TotalsInv /\ ExactInv

TxnInv ==
    /\ TxnTypeOK
    /\ FlushedFits
    /\ Checked
    /\ VoidsALine
    /\ EntriesOfRequests
    /\ SerialBooks

LEMMA TxnInitInvariant == TxnInit => TxnInv
<1> SUFFICES ASSUME TxnInit PROVE TxnInv
  OBVIOUS
<1>1. BillingInv /\ TotalsInv /\ ExactInv
  BY InitInvariant, InitTotals, InitExact DEF TxnInit
<1>2. NoItem \in LineRow /\ NoFolio \in FolioRow
  BY MoneyAssumption DEF NoItem, LineRow, LineItemType, Cents, NoFolio, FolioRow
<1>3. TxnTypeOK
  BY <1>1, <1>2, RequestAssumption DEF TxnInit, TxnTypeOK, BillingInv, Phases
<1>4. FlushedFits /\ Checked /\ VoidsALine
  BY DEF TxnInit, FlushedFits, Checked, VoidsALine, InProgress
<1>5. Ended = {} /\ \A f \in Folios : Len(lineItems[f]) = 0 /\ Len(payments[f]) = 0
  BY DEF TxnInit, BillingInit, Ended
<1>6. EntriesOfRequests
  BY <1>5, FS_EmptySet DEF EntriesOfRequests
<1> QED
  BY <1>1, <1>3, <1>4, <1>6 DEF TxnInv, SerialBooks

\* There is room for an entry of a request that has not committed.
LEMMA RoomForEntry ==
    ASSUME TxnInv, NEW r \in Requests, phase[r] # "committed", NEW f \in Folios
    PROVE  Len(lineItems[f]) < MaxEntries /\ Len(payments[f]) < MaxEntries
<1>1. lineItems[f] \in Seq(LineRow) /\ payments[f] \in Seq(Cents)
  BY DEF TxnInv, TxnTypeOK, BillingTypeOK
<1>2. /\ IsFiniteSet(Requests \ {r})
      /\ Cardinality(Requests \ {r}) = Cardinality(Requests) - 1
  BY FS_RemoveElement, RequestAssumption
<1>3. Ended \in SUBSET (Requests \ {r})
  BY DEF Ended
<1>4. Cardinality(Ended) <= Cardinality(Requests \ {r})
  BY <1>2, <1>3, FS_Subset
<1>5. Cardinality(Requests) \in Nat /\ Cardinality(Ended) \in Nat
  BY <1>2, <1>3, FS_Subset, FS_CardinalityType, RequestAssumption
<1>6. Len(lineItems[f]) <= Cardinality(Ended) /\ Len(payments[f]) <= Cardinality(Ended)
  BY DEF TxnInv, EntriesOfRequests
<1> QED
  BY <1>1, <1>2, <1>4, <1>5, <1>6, MoneyAssumption, RequestAssumption

-----------------------------------------------------------------------------
(* A commit over the row that its session loaded *)

\* The UPDATE leaves the whole row as it is in memory.
LEMMA FreshRow ==
    ASSUME TxnInv, NEW r \in Requests, Commit(r), seen[r] = folio[job[r].folio]
    PROVE  folio' = [folio EXCEPT ![job[r].folio] = NewRow(r)]
<1> DEFINE f == job[r].folio
<1>1. TxnTypeOK /\ Writable(r)
  BY DEF TxnInv, FlushedFits, Commit
<1>2. f \in Folios /\ folio[f] \in FolioRow /\ NewRow(r) \in FolioRow
  BY <1>1, JobKinds, NewRowType DEF TxnTypeOK, BillingTypeOK
<1>3. Updated(folio[f], NewRow(r), Dirty(r)) = NewRow(r)
  <2> DEFINE row == folio[f]
             new == NewRow(r)
             D == Dirty(r)
  <2>1. /\ "status" \in D \/ new.status = row.status
        /\ "total_charges" \in D \/ new.total_charges = row.total_charges
        /\ "total_payments" \in D \/ new.total_payments = row.total_payments
        /\ "balance" \in D \/ new.balance = row.balance
    BY <1>1, CleanColumns
  <2>2. row \in FolioRow /\ new \in FolioRow
    BY <1>2
  <2> HIDE DEF row, new, D
  <2>3. Updated(row, new, D) = new
    BY <2>1, <2>2, UpdatedWhole
  <2> QED
    BY <2>3 DEF row, new, D
<1>4. folio' = [folio EXCEPT ![f] = Updated(folio[f], NewRow(r), Dirty(r))]
  BY DEF Commit, Updated
<1> QED
  BY <1>3, <1>4

\* It is an operation of Billing.tla.
LEMMA FreshCommit ==
    ASSUME TxnInv, NEW r \in Requests, Commit(r), seen[r] = folio[job[r].folio]
    PROVE  BillingNext
<1> DEFINE f == job[r].folio
           op == job[r].op
           ticks == job[r].ticks
<1>1. TxnTypeOK /\ Writable(r) /\ Permitted(r, folio[f]) /\ phase[r] = "flushed"
  BY DEF TxnInv, FlushedFits, Checked, Commit, InProgress
<1>2. f \in Folios /\ ticks \in Int /\ job[r] \in Jobs
  BY <1>1, JobKinds
<1>3. Len(lineItems[f]) < MaxEntries /\ Len(payments[f]) < MaxEntries
  BY <1>1, <1>2, RoomForEntry
<1>4. folio' = [folio EXCEPT ![f] = NewRow(r)] /\ Fits(NewRow(r))
  BY <1>1, FreshRow DEF Writable
<1>5. /\ PostsLine(r) => /\ lineItems' = [lineItems EXCEPT ![f] = Append(lineItems[f], NewLine(r))]
                         /\ RoundCents(ChargeTicks(r)) \in Cents
      /\ ~ PostsLine(r) => UNCHANGED lineItems
      /\ PostsPayment(r) =>
           /\ payments' = [payments EXCEPT ![f] = Append(payments[f], RoundCents(ticks))]
           /\ RoundCents(ticks) \in Cents
      /\ ~ PostsPayment(r) => UNCHANGED payments
  BY <1>1 DEF Commit, Writable, NewLine
<1>6. ASSUME PostsLine(r)
      PROVE  /\ NewRow(r) = Charged(folio[f], ChargeTicks(r))
             /\ UNCHANGED payments
  BY <1>1, <1>5, <1>6, RowInMemory, JobKinds
<1>7. CASE op = "add_line_item"
  <2>1. PostsLine(r) /\ ChargeTicks(r) = ticks /\ ticks \in LineAmounts
    BY <1>2, <1>7, RequestAssumption DEF PostsLine, ChargeTicks
  <2>2. NewLine(r) = [item_type |-> "extra", void |-> FALSE, total |-> RoundCents(ticks)]
    BY <1>7, <2>1 DEF NewLine
  <2>3. PostLine(f, "extra", FALSE, ticks)
    BY <1>3, <1>4, <1>5, <1>6, <2>1, <2>2 DEF PostLine
  <2>4. AddLineItem(f, "extra", ticks)
    BY <1>1, <1>7, <2>3 DEF AddLineItem, Permitted
  <2> QED
    BY <1>2, <2>1, <2>4 DEF BillingNext, BillingEndpoint, LineItemType
<1>8. CASE op = "void_line_item"
  <2>1. PICK i \in DOMAIN lineItems[f] : lineItems[f][i] = item[r]
    BY <1>1, <1>8 DEF TxnInv, VoidsALine, InProgress
  <2>2. i \in 1..MaxEntries
    <3>1. lineItems[f] \in Seq(LineRow)
      BY <1>1, <1>2 DEF TxnTypeOK, BillingTypeOK
    <3> QED
      BY <1>3, <3>1, MoneyAssumption
  <2> DEFINE t == -Ticks(item[r].total)
  <2>3. PostsLine(r) /\ ChargeTicks(r) = t
    BY <1>8 DEF PostsLine, ChargeTicks
  <2>4. NewLine(r) = [item_type |-> item[r].item_type, void |-> TRUE, total |-> RoundCents(t)]
    BY <1>8, <2>3 DEF NewLine
  <2> HIDE DEF t
  <2>5. PostLine(f, item[r].item_type, TRUE, t)
    BY <1>3, <1>4, <1>5, <1>6, <2>3, <2>4 DEF PostLine
  <2>6. VoidLineItem(f, i)
    BY <1>1, <1>8, <2>1, <2>5 DEF VoidLineItem, Permitted, t
  <2> QED
    BY <1>2, <2>2, <2>6 DEF BillingNext, BillingEndpoint
<1>9. CASE op = "post_payment"
  <2>1. PostsPayment(r) /\ ~ PostsLine(r) /\ ticks \in PaymentAmounts
    BY <1>2, <1>9, RequestAssumption DEF PostsPayment, PostsLine
  <2>2. NewRow(r) = Paid(folio[f], ticks)
    BY <1>1, <2>1, RowInMemory
  <2>3. PostPayment(f, ticks)
    BY <1>1, <1>3, <1>4, <1>5, <1>9, <2>1, <2>2 DEF PostPayment, Permitted
  <2> QED
    BY <1>2, <2>1, <2>3 DEF BillingNext, BillingEndpoint
<1>10. CASE op = "close_folio"
  <2>1. ~ PostsLine(r) /\ ~ PostsPayment(r)
    BY <1>10 DEF PostsLine, PostsPayment
  <2>2. NewRow(r) = [folio[f] EXCEPT !.status = "closed"]
    BY <1>1, <1>10, RowInMemory
  <2>3. CloseFolio(f)
    BY <1>1, <1>4, <1>5, <1>10, <2>1, <2>2 DEF CloseFolio, Permitted
  <2> QED
    BY <1>2, <2>3 DEF BillingNext, BillingEndpoint
<1>11. CASE op = "apply_room_charges"
  <2>1. PICK rate \in Rates, nights \in 1..MaxNights : ticks = Ticks(rate * nights)
    BY <1>2, <1>11, RequestAssumption
  <2>2. PostsLine(r) /\ ChargeTicks(r) = ticks
    BY <1>11 DEF PostsLine, ChargeTicks
  <2>3. NewLine(r) = [item_type |-> "room_charge", void |-> FALSE, total |-> RoundCents(ticks)]
    BY <1>11, <2>2 DEF NewLine
  <2>4. PostLine(f, "room_charge", FALSE, ticks)
    BY <1>3, <1>4, <1>5, <1>6, <2>2, <2>3 DEF PostLine
  <2>5. ApplyRoomCharges(f, rate, nights)
    BY <1>1, <1>11, <2>1, <2>4 DEF ApplyRoomCharges, Permitted
  <2> QED
    BY <1>2, <2>5 DEF BillingNext, BookingCall
<1> QED
  BY <1>2, <1>7, <1>8, <1>9, <1>10, <1>11, RequestAssumption

\* A step does nothing to the tables of Billing.tla, or creates a folio, or is
\* a commit.
LEMMA FreshStep ==
    ASSUME TxnInv, [TxnNext]_allVars,
           \A r \in Requests : phase[r] = "flushed" /\ phase'[r] = "committed"
                                 => seen[r] = folio[job[r].folio]
    PROVE  [BillingNext]_billingVars
<1>1. ASSUME NEW r \in Requests, Commit(r)
      PROVE  BillingNext
  <2>1. phase[r] = "flushed" /\ phase'[r] = "committed"
    BY <1>1 DEF Commit, SetPhase, TxnInv, TxnTypeOK
  <2> QED
    BY <1>1, <2>1, FreshCommit
<1>2. ASSUME NEW r \in Requests, Load(r) \/ Refuse(r) \/ Flush(r) \/ Abort(r)
      PROVE  UNCHANGED billingVars
  BY <1>2 DEF Load, Refuse, Flush, Abort
<1>3. ASSUME NEW f \in Folios, OpenFolio(f)
      PROVE  BillingNext
  BY <1>3 DEF OpenFolio, BillingNext, BookingCall
<1> QED
  BY <1>1, <1>2, <1>3 DEF TxnNext, Step, allVars

-----------------------------------------------------------------------------
(* Every step keeps the invariant *)

\* What a request's fields are when the steps of another leave them alone.
LEMMA SameRequest ==
    ASSUME NEW r \in Requests, job'[r] = job[r], seen'[r] = seen[r], item'[r] = item[r]
    PROVE  /\ NewRow(r)' = NewRow(r) /\ NewLine(r)' = NewLine(r)
           /\ Writable(r)' <=> Writable(r)
           /\ \A row : Permitted(r, row)' <=> Permitted(r, row)
<1>1. PostsLine(r)' = PostsLine(r) /\ PostsPayment(r)' = PostsPayment(r)
  BY DEF PostsLine, PostsPayment
<1>2. ChargeTicks(r)' = ChargeTicks(r)
  BY DEF ChargeTicks
<1>3. NewRow(r)' = NewRow(r) /\ NewLine(r)' = NewLine(r)
  BY <1>1, <1>2 DEF NewRow, NewLine
<1>4. Writable(r)' <=> Writable(r)
  BY <1>1, <1>3 DEF Writable
<1>5. \A row : Permitted(r, row)' <=> Permitted(r, row)
  BY DEF Permitted
<1> QED
  BY <1>3, <1>4, <1>5

\* A folio is created: nobody has loaded it and it has no entries.
LEMMA OpenFolioKeeps ==
    ASSUME TxnInv, NEW f \in Folios, OpenFolio(f)
    PROVE  TxnInv'
<1>1. /\ CreateFolio(f) /\ UNCHANGED <<job, phase, seen, item, lock, stale>>
      /\ UNCHANGED <<lineItems, payments>> /\ folio' = [folio EXCEPT ![f].status = "open"]
  BY DEF OpenFolio, txnVars, CreateFolio
<1>2. TxnTypeOK'
  <2>1. folio[f] \in FolioRow /\ BillingTypeOK
    BY DEF TxnInv, TxnTypeOK, BillingTypeOK
  <2>2. [folio[f] EXCEPT !.status = "open"] \in FolioRow
    BY <2>1 DEF FolioRow, FolioStatus
  <2>3. BillingTypeOK'
    BY <1>1, <2>1, <2>2 DEF BillingTypeOK
  <2> QED
    BY <1>1, <2>3 DEF TxnInv, TxnTypeOK
<1>3. FlushedFits' /\ Checked'
  BY <1>1, SameRequest DEF TxnInv, FlushedFits, Checked, InProgress
<1>4. VoidsALine' /\ EntriesOfRequests'
  BY <1>1 DEF TxnInv, VoidsALine, InProgress, EntriesOfRequests, Ended
<1>5. SerialBooks'
  <2>1. BillingNext
    BY <1>1 DEF BillingNext, BookingCall
  <2> QED
    BY <1>1, <2>1, NextInvariant, NextTotals, NextExact DEF TxnInv, SerialBooks
<1> QED
  BY <1>2, <1>3, <1>4, <1>5 DEF TxnInv

\* What Load, Refuse, Flush and Abort leave alone.
LEMMA QuietStep ==
    ASSUME TxnInv, NEW r \in Requests, Load(r) \/ Refuse(r) \/ Flush(r) \/ Abort(r)
    PROVE  /\ UNCHANGED <<job, stale>> /\ UNCHANGED <<folio, lineItems, payments>>
           /\ phase[r] # "committed"
           /\ \E p \in Phases \ {"committed"} : phase' = [phase EXCEPT ![r] = p]
           /\ \A q \in Requests \ {r} : /\ phase'[q] = phase[q]
                                        /\ seen'[q] = seen[q]
                                        /\ item'[q] = item[q]
<1>1. UNCHANGED <<job, stale>> /\ UNCHANGED <<folio, lineItems, payments>>
  BY DEF Load, Refuse, Flush, Abort, billingVars
<1>2. phase[r] # "committed" /\ \E p \in Phases \ {"committed"} : phase' = [phase EXCEPT ![r] = p]
  BY DEF Load, Refuse, Flush, Abort, SetPhase, Phases, CanStart, InProgress
<1>3. /\ phase \in [Requests -> Phases] /\ seen \in [Requests -> FolioRow]
      /\ item \in [Requests -> LineRow]
  BY DEF TxnInv, TxnTypeOK
<1>4. \A q \in Requests \ {r} : phase'[q] = phase[q] /\ seen'[q] = seen[q] /\ item'[q] = item[q]
  BY <1>2, <1>3 DEF Load, Refuse, Flush, Abort
<1> QED
  BY <1>1, <1>2, <1>4

LEMMA QuietTypes ==
    ASSUME TxnInv, NEW r \in Requests, Load(r) \/ Refuse(r) \/ Flush(r) \/ Abort(r)
    PROVE  TxnTypeOK'
<1> DEFINE f == job[r].folio
<1>1. /\ TxnTypeOK /\ BillingTypeOK /\ f \in Folios
      /\ lock \in [Folios -> Requests \cup {NoRequest}]
      /\ NoRequest \notin Requests
  BY JobKinds, RequestAssumption DEF TxnInv, TxnTypeOK
<1>2. /\ UNCHANGED <<job, stale>> /\ UNCHANGED <<folio, lineItems, payments>>
      /\ phase' \in [Requests -> Phases]
      /\ \A q \in Requests \ {r} : phase'[q] = phase[q]
  BY <1>1, QuietStep DEF TxnTypeOK
<1>3. seen' \in [Requests -> FolioRow]
  BY <1>1 DEF Load, Refuse, Flush, Abort, TxnTypeOK, BillingTypeOK
<1>4. item' \in [Requests -> LineRow]
  <2>1. \A i \in DOMAIN lineItems[f] : lineItems[f][i] \in LineRow
    BY <1>1 DEF BillingTypeOK
  <2> QED
    BY <1>1, <2>1 DEF Load, Refuse, Flush, Abort, TxnTypeOK
<1>5. /\ lock' \in [Folios -> Requests \cup {NoRequest}]
      /\ \A g \in Folios : lock'[g] # NoRequest =>
           phase'[lock'[g]] = "flushed" /\ job'[lock'[g]].folio = g
  <2>0. \A g \in Folios : lock[g] # NoRequest =>
           lock[g] \in Requests /\ phase[lock[g]] = "flushed" /\ job[lock[g]].folio = g
    BY <1>1 DEF TxnTypeOK
  <2>1. CASE Load(r) \/ Refuse(r)
    <3>1. UNCHANGED lock /\ phase[r] = "idle"
      BY <2>1 DEF Load, Refuse, CanStart
    <3> QED
      BY <1>1, <1>2, <2>0, <3>1
  <2>2. CASE Flush(r)
    <3>1. /\ phase[r] = "loaded" /\ phase'[r] = "flushed"
          /\ UNCHANGED lock \/ lock' = [lock EXCEPT ![f] = r]
      BY <1>1, <2>2 DEF Flush, SetPhase, TxnTypeOK
    <3> QED
      BY <1>1, <1>2, <2>0, <3>1
  <2>3. CASE Abort(r)
    <3>1. lock' = [g \in Folios |-> IF lock[g] = r THEN NoRequest ELSE lock[g]]
      BY <2>3 DEF Abort, Unlock
    <3> QED
      BY <1>1, <1>2, <2>0, <3>1
  <2> QED
    BY <2>1, <2>2, <2>3
<1> QED
  BY <1>1, <1>2, <1>3, <1>4, <1>5 DEF TxnTypeOK, BillingTypeOK

LEMMA QuietKeeps ==
    ASSUME TxnInv, NEW r \in Requests, Load(r) \/ Refuse(r) \/ Flush(r) \/ Abort(r)
    PROVE  TxnInv'
<1> DEFINE f == job[r].folio
<1>1. TxnTypeOK /\ f \in Folios
  BY JobKinds DEF TxnInv
<1>2. /\ UNCHANGED <<job, stale>> /\ UNCHANGED <<folio, lineItems, payments>>
      /\ \A q \in Requests \ {r} : phase'[q] = phase[q] /\ seen'[q] = seen[q] /\ item'[q] = item[q]
  BY QuietStep
<1>3. \A q \in Requests \ {r} : job'[q] = job[q]
  BY <1>2
<1>4. FlushedFits'
  <2>1. phase'[r] = "flushed" => Writable(r)'
    <3>1. CASE Flush(r)
      <4>1. Writable(r) /\ UNCHANGED <<job, seen, item>>
        BY <3>1 DEF Flush
      <4> QED
        BY <4>1, SameRequest
    <3>2. CASE ~ Flush(r)
      BY <1>1, <3>2 DEF Load, Refuse, Abort, SetPhase, TxnTypeOK
    <3> QED
      BY <3>1, <3>2
  <2> QED
    BY <1>2, <1>3, <2>1, SameRequest DEF TxnInv, FlushedFits
<1>5. Checked'
  <2>1. InProgress(r)' => Permitted(r, seen[r])'
    <3>1. CASE Load(r)
      <4>1. Permitted(r, folio[f]) /\ seen'[r] = folio[f] /\ job' = job
        BY <1>1, <3>1 DEF Load, TxnTypeOK
      <4> QED
        BY <4>1 DEF Permitted
    <3>2. CASE Flush(r)
      <4>1. InProgress(r) /\ UNCHANGED <<job, seen, item>>
        BY <3>2 DEF Flush, InProgress
      <4> QED
        BY <4>1 DEF TxnInv, Checked, Permitted
    <3>3. CASE Refuse(r) \/ Abort(r)
      BY <1>1, <3>3 DEF Refuse, Abort, SetPhase, TxnTypeOK, InProgress
    <3> QED
      BY <3>1, <3>2, <3>3
  <2>2. ASSUME NEW q \in Requests \ {r}, InProgress(q)'
        PROVE  Permitted(q, seen[q])'
    <3>1. InProgress(q) /\ Permitted(q, seen[q]) /\ job' = job /\ seen'[q] = seen[q]
      BY <1>2, <2>2 DEF InProgress, TxnInv, Checked
    <3> QED
      BY <3>1 DEF Permitted
  <2> QED
    BY <2>1, <2>2 DEF Checked
<1>6. VoidsALine'
  <2>1. ASSUME InProgress(r)', job[r].op = "void_line_item"
        PROVE  \E i \in DOMAIN lineItems[f] : lineItems[f][i] = item'[r]
    <3>1. CASE Load(r)
      <4>1. PICK i \in DOMAIN lineItems[f] : item' = [item EXCEPT ![r] = lineItems[f][i]]
        BY <2>1, <3>1 DEF Load
      <4>2. item'[r] = lineItems[f][i]
        BY <1>1, <4>1 DEF TxnTypeOK
      <4> QED
        BY <4>2
    <3>2. CASE Flush(r)
      BY <2>1, <3>2 DEF Flush, InProgress, TxnInv, VoidsALine
    <3>3. CASE Refuse(r) \/ Abort(r)
      BY <1>1, <2>1, <3>3 DEF Refuse, Abort, SetPhase, TxnTypeOK, InProgress
    <3> QED
      BY <3>1, <3>2, <3>3
  <2>2. ASSUME NEW q \in Requests \ {r}, InProgress(q)', job[q].op = "void_line_item"
        PROVE  \E i \in DOMAIN lineItems[job[q].folio] : lineItems[job[q].folio][i] = item'[q]
    BY <1>2, <2>2 DEF InProgress, TxnInv, VoidsALine
  <2> QED
    BY <1>2, <2>1, <2>2 DEF VoidsALine
<1>7. EntriesOfRequests'
  <2>1. Ended' = Ended
    <3>1. phase[r] # "committed" /\ phase'[r] # "committed"
      BY <1>1, QuietStep DEF TxnTypeOK
    <3> QED
      BY <1>2, <3>1 DEF Ended
  <2> QED
    BY <1>2, <2>1 DEF TxnInv, EntriesOfRequests
<1>8. SerialBooks'
  <2>1. UNCHANGED billingVars
    BY <1>2 DEF billingVars
  <2> QED
    BY <1>2, <2>1, NextInvariant, NextTotals, NextExact DEF TxnInv, SerialBooks
<1> QED
  BY <1>4, <1>5, <1>6, <1>7, <1>8, QuietTypes DEF TxnInv

\* A table of sequences with an entry more in one of them, or none.
LEMMA TableAppended ==
    ASSUME NEW S, NEW table \in [Folios -> Seq(S)], NEW f \in Folios, NEW next,
           \/ next = table
           \/ \E e \in S : next = [table EXCEPT ![f] = Append(table[f], e)]
    PROVE  /\ next \in [Folios -> Seq(S)]
           /\ \A g \in Folios : next[g] = table[g]
                   \/ \E e \in S : next[g] = Append(table[g], e)
<1>1. CASE next = table
  BY <1>1
<1>2. CASE \E e \in S : next = [table EXCEPT ![f] = Append(table[f], e)]
  <2>1. PICK e \in S : next = [table EXCEPT ![f] = Append(table[f], e)]
    BY <1>2
  <2>2. table[f] \in Seq(S) /\ Append(table[f], e) \in Seq(S)
    OBVIOUS
  <2>3. \A g \in Folios : next[g] = IF g = f THEN Append(table[f], e) ELSE table[g]
    BY <2>1
  <2>4. next \in [Folios -> Seq(S)]
    BY <2>1, <2>2
  <2> QED
    BY <2>3, <2>4
<1> QED
  BY <1>1, <1>2

\* What a commit writes, over whatever row is there.
LEMMA CommitWrites ==
    ASSUME TxnInv, NEW r \in Requests, Commit(r)
    PROVE  /\ folio' \in [Folios -> FolioRow]
           /\ lineItems' \in [Folios -> Seq(LineRow)]
           /\ payments' \in [Folios -> Seq(Cents)]
           /\ \A f \in Folios :
                /\ lineItems'[f] = lineItems[f]
                   \/ \E e \in LineRow : lineItems'[f] = Append(lineItems[f], e)
                /\ payments'[f] = payments[f]
                   \/ \E e \in Cents : payments'[f] = Append(payments[f], e)
<1> DEFINE f == job[r].folio
<1>1. /\ TxnTypeOK /\ Writable(r) /\ f \in Folios
      /\ folio \in [Folios -> FolioRow] /\ lineItems \in [Folios -> Seq(LineRow)]
      /\ payments \in [Folios -> Seq(Cents)]
  BY JobKinds DEF TxnInv, FlushedFits, Commit, TxnTypeOK, BillingTypeOK
<1>2. folio' \in [Folios -> FolioRow]
  <2>1. NewRow(r) \in FolioRow /\ folio[f] \in FolioRow
    BY <1>1, NewRowType
  <2>2. Updated(folio[f], NewRow(r), Dirty(r)) \in FolioRow
    BY <2>1, UpdatedRow
  <2>3. folio' = [folio EXCEPT ![f] = Updated(folio[f], NewRow(r), Dirty(r))]
    BY DEF Commit, Updated
  <2> QED
    BY <1>1, <2>2, <2>3
<1>3. \/ UNCHANGED lineItems
      \/ \E e \in LineRow : lineItems' = [lineItems EXCEPT ![f] = Append(lineItems[f], e)]
  BY <1>1, NewLineType DEF Commit
<1>4. \/ UNCHANGED payments
      \/ \E e \in Cents : payments' = [payments EXCEPT ![f] = Append(payments[f], e)]
  BY <1>1 DEF Commit, Writable
<1>5. /\ lineItems' \in [Folios -> Seq(LineRow)]
      /\ \A g \in Folios : lineItems'[g] = lineItems[g]
                   \/ \E e \in LineRow : lineItems'[g] = Append(lineItems[g], e)
  BY <1>1, <1>3, TableAppended
<1>6. /\ payments' \in [Folios -> Seq(Cents)]
      /\ \A g \in Folios : payments'[g] = payments[g]
                   \/ \E e \in Cents : payments'[g] = Append(payments[g], e)
  BY <1>1, <1>4, TableAppended
<1> QED
  BY <1>2, <1>5, <1>6

LEMMA CommitKeeps ==
    ASSUME TxnInv, NEW r \in Requests, Commit(r)
    PROVE  TxnInv'
<1> DEFINE f == job[r].folio
<1>1. /\ TxnTypeOK /\ f \in Folios /\ NoRequest \notin Requests
      /\ UNCHANGED <<job, seen, item>>
      /\ phase[r] = "flushed" /\ phase' = [phase EXCEPT ![r] = "committed"]
      /\ lock' = [g \in Folios |-> IF lock[g] = r THEN NoRequest ELSE lock[g]]
      /\ stale' = (stale \/ seen[r] # folio[f])
  BY JobKinds, RequestAssumption DEF TxnInv, Commit, SetPhase, Unlock
<1>2. phase'[r] = "committed" /\ \A q \in Requests \ {r} : phase'[q] = phase[q]
  BY <1>1 DEF TxnTypeOK
<1>3. TxnTypeOK'
  <2>1. BillingTypeOK'
    BY CommitWrites DEF BillingTypeOK
  <2>2. phase' \in [Requests -> Phases] /\ stale' \in BOOLEAN
    BY <1>1 DEF TxnTypeOK, Phases
  <2>3. \A g \in Folios : lock[g] # NoRequest =>
           lock[g] \in Requests /\ phase[lock[g]] = "flushed" /\ job[lock[g]].folio = g
    BY <1>1 DEF TxnTypeOK
  <2>4. /\ lock' \in [Folios -> Requests \cup {NoRequest}]
        /\ \A g \in Folios : lock'[g] # NoRequest =>
             phase'[lock'[g]] = "flushed" /\ job'[lock'[g]].folio = g
    BY <1>1, <1>2, <2>3 DEF TxnTypeOK
  <2> QED
    BY <1>1, <2>1, <2>2, <2>4 DEF TxnTypeOK
<1>4. FlushedFits' /\ Checked'
  <2>1. ASSUME NEW q \in Requests
        PROVE  /\ phase'[q] = "flushed" => Writable(q)'
               /\ InProgress(q)' => Permitted(q, seen[q])'
    <3>1. CASE q = r
      BY <1>2, <3>1 DEF InProgress
    <3>2. CASE q # r
      <4>1. /\ phase'[q] = phase[q]
            /\ phase[q] = "flushed" => Writable(q)
            /\ InProgress(q) => Permitted(q, seen[q])
        BY <1>2, <3>2 DEF TxnInv, FlushedFits, Checked
      <4>2. Writable(q)' <=> Writable(q)
        BY <1>1, SameRequest
      <4>3. Permitted(q, seen[q])' <=> Permitted(q, seen[q])
        BY <1>1 DEF Permitted
      <4> QED
        BY <4>1, <4>2, <4>3 DEF InProgress
    <3> QED
      BY <3>1, <3>2
  <2> QED
    BY <2>1 DEF FlushedFits, Checked
<1>5. VoidsALine'
  <2> SUFFICES ASSUME NEW q \in Requests, InProgress(q)', job[q].op = "void_line_item"
               PROVE  \E i \in DOMAIN lineItems'[job[q].folio] :
                         lineItems'[job[q].folio][i] = item[q]
    BY <1>1 DEF VoidsALine
  <2> DEFINE g == job[q].folio
  <2>1. InProgress(q)
    BY <1>2 DEF InProgress
  <2>2. PICK i \in DOMAIN lineItems[g] : lineItems[g][i] = item[q]
    BY <2>1 DEF TxnInv, VoidsALine
  <2>3. g \in Folios /\ lineItems[g] \in Seq(LineRow)
    BY <1>1, JobKinds DEF TxnTypeOK, BillingTypeOK
  <2> HIDE DEF g
  <2>4. i \in DOMAIN lineItems'[g] /\ lineItems'[g][i] = lineItems[g][i]
    <3>1. CASE lineItems'[g] = lineItems[g]
      BY <2>2, <3>1
    <3>2. CASE \E e \in LineRow : lineItems'[g] = Append(lineItems[g], e)
      <4>1. PICK e \in LineRow : lineItems'[g] = Append(lineItems[g], e)
        BY <3>2
      <4> QED
        BY <2>2, <2>3, <4>1
    <3> QED
      BY <2>3, <3>1, <3>2, CommitWrites
  <2> QED
    BY <2>2, <2>4 DEF g
<1>6. EntriesOfRequests'
  <2>1. Ended' = Ended \cup {r} /\ r \notin Ended
    BY <1>1, <1>2 DEF Ended
  <2>2. IsFiniteSet(Ended)
    BY FS_Subset, RequestAssumption DEF Ended
  <2>3. Cardinality(Ended') = Cardinality(Ended) + 1 /\ Cardinality(Ended) \in Nat
    BY <2>1, <2>2, FS_AddElement, FS_CardinalityType
  <2>4. ASSUME NEW g \in Folios
        PROVE  Len(lineItems'[g]) <= Cardinality(Ended') /\ Len(payments'[g]) <= Cardinality(Ended')
    <3>1. lineItems[g] \in Seq(LineRow) /\ payments[g] \in Seq(Cents)
      BY <1>1 DEF TxnTypeOK, BillingTypeOK
    <3>2. /\ Len(lineItems'[g]) \in {Len(lineItems[g]), Len(lineItems[g]) + 1}
          /\ Len(payments'[g]) \in {Len(payments[g]), Len(payments[g]) + 1}
          /\ Len(lineItems[g]) \in Nat /\ Len(payments[g]) \in Nat
      BY <3>1, CommitWrites
    <3>3. Len(lineItems[g]) <= Cardinality(Ended) /\ Len(payments[g]) <= Cardinality(Ended)
      BY DEF TxnInv, EntriesOfRequests
    <3> QED
      BY <2>3, <3>2, <3>3
  <2> QED
    BY <2>4 DEF EntriesOfRequests
<1>7. SerialBooks'
  <2>1. ASSUME ~ stale'
        PROVE  BillingInv' /\ TotalsInv' /\ ExactInv'
    <3>1. ~ stale /\ seen[r] = folio[f]
      BY <1>1, <2>1
    <3>2. BillingNext
      BY <3>1, FreshCommit
    <3> QED
      BY <3>1, <3>2, NextInvariant, NextTotals, NextExact DEF TxnInv, SerialBooks
  <2> QED
    BY <2>1 DEF SerialBooks
<1> QED
  BY <1>3, <1>4, <1>5, <1>6, <1>7 DEF TxnInv

LEMMA TxnNextInvariant == TxnInv /\ [TxnNext]_allVars => TxnInv'
<1> SUFFICES ASSUME TxnInv, [TxnNext]_allVars
             PROVE  TxnInv'
  OBVIOUS
<1>1. CASE UNCHANGED allVars
  <2>1. UNCHANGED <<job, phase, seen, item, lock, stale>> /\ UNCHANGED billingVars
        /\ UNCHANGED <<folio, lineItems, payments>>
    BY <1>1 DEF allVars, txnVars, billingVars
  <2>2. TxnTypeOK' /\ VoidsALine' /\ EntriesOfRequests'
    BY <2>1 DEF TxnInv, TxnTypeOK, BillingTypeOK, VoidsALine, InProgress, EntriesOfRequests, Ended
  <2>3. FlushedFits' /\ Checked'
    BY <2>1, SameRequest DEF TxnInv, FlushedFits, Checked, InProgress
  <2>4. SerialBooks'
    BY <2>1, NextInvariant, NextTotals, NextExact DEF TxnInv, SerialBooks
  <2> QED
    BY <2>2, <2>3, <2>4 DEF TxnInv
<1> QED
  BY <1>1, OpenFolioKeeps, QuietKeeps, CommitKeeps DEF TxnNext, Step

LEMMA TxnInvariant == TxnSpec => []TxnInv
  BY TxnInitInvariant, TxnNextInvariant, PTL DEF TxnSpec

\* A step that changes the status of a folio there is.
LEMMA StepCloses ==
    ASSUME TxnInv, TxnInv', [TxnNext]_allVars, WholeCents, NEW f \in Folios,
           folio[f].status # "none", folio'[f].status # folio[f].status
    PROVE  /\ folio'[f].status = "closed"
           /\ stale' \/ Abs(LineTotal(f) - PaymentTotal(f)) <= BalanceTolerance
<1>1. TxnTypeOK /\ folio \in [Folios -> FolioRow] /\ folio[f] \in FolioRow
  BY DEF TxnInv, TxnTypeOK, BillingTypeOK
<1>2. ~ \E g \in Folios : OpenFolio(g)
  BY <1>1 DEF OpenFolio, CreateFolio
<1>3. PICK r \in Requests : Commit(r)
  BY <1>2 DEF TxnNext, Step, Load, Refuse, Flush, Abort, allVars, billingVars
<1>4. /\ Writable(r) /\ Permitted(r, seen[r]) /\ job[r].folio \in Folios
      /\ seen[r] \in FolioRow /\ stale' = (stale \/ seen[r] # folio[job[r].folio])
  BY <1>1, <1>3, JobKinds
     DEF TxnInv, TxnTypeOK, FlushedFits, Checked, InProgress, Commit
<1>5. NewRow(r) \in FolioRow
  BY <1>1, <1>4, NewRowType
<1>6. folio' = [folio EXCEPT ![job[r].folio] =
                  Updated(folio[job[r].folio], NewRow(r), Dirty(r))]
  BY <1>3 DEF Commit, Updated
<1>7. /\ f = job[r].folio
      /\ folio'[f].status = IF "status" \in Dirty(r) THEN NewRow(r).status ELSE folio[f].status
  <2>1. f = job[r].folio
    BY <1>1, <1>6
  <2>2. folio'[f] = Updated(folio[f], NewRow(r), Dirty(r))
    BY <1>1, <1>6, <2>1
  <2> QED
    BY <1>1, <1>5, <2>1, <2>2, UpdatedColumns
<1>8. job[r].op = "close_folio"
  BY <1>7 DEF Dirty
<1>9. NewRow(r).status = "closed"
  BY <1>1, <1>4, <1>8, RowInMemory DEF FolioRow
<1>10. ASSUME ~ stale'
       PROVE  Abs(LineTotal(f) - PaymentTotal(f)) <= BalanceTolerance
  <2>1. Abs(folio[f].balance) <= BalanceTolerance /\ ~ stale
    BY <1>4, <1>7, <1>8, <1>10 DEF Permitted
  <2>2. Exact(f)
    BY <2>1 DEF TxnInv, SerialBooks, ExactInv
  <2>3. folio[f].balance = LineTotal(f) - PaymentTotal(f)
    BY <2>2 DEF Exact, LineTotal, PaymentTotal, LineAmountsOf
  <2> QED
    BY <2>1, <2>3
<1> QED
  BY <1>7, <1>9, <1>10

-----------------------------------------------------------------------------
(* Sums of some of the entries *)

\* t is the sum of some of the first n amounts of s; and of the last of them
\* and some of those before it, or of nothing when there are none.
SomeOf(s, n, t) == \E S \in SUBSET (1..n) : t = SumFunctionOnSet(s, S)

LastAndSome(s, n, t) ==
    \/ n = 0 /\ t = 0
    \/ n > 0 /\ \E u : SomeOf(s, n - 1, u) /\ t = s[n] + u

Amounts(s, n) == \A i \in 1..n : s[i] \in Int

LEMMA FinitePart ==
    ASSUME NEW n \in Nat, NEW S \in SUBSET (1..n)
    PROVE  IsFiniteSet(S)
<1>1. IsFiniteSet(1..n)
  BY FS_Interval
<1> QED
  BY <1>1, FS_Subset

LEMMA SomeType ==
    ASSUME NEW s, NEW n \in Nat, Amounts(s, n), NEW t, SomeOf(s, n, t)
    PROVE  t \in Int
<1>1. PICK S \in SUBSET (1..n) : t = SumFunctionOnSet(s, S)
  BY DEF SomeOf
<1>2. IsFiniteSet(S) /\ \A i \in S : s[i] \in Int
  BY FinitePart DEF Amounts
<1> QED
  BY <1>1, <1>2, SumType

\* An amount more, taken or not.
LEMMA SomeMore ==
    ASSUME NEW s, NEW s1, NEW n \in Nat, Amounts(s1, n + 1), \A i \in 1..n : s1[i] = s[i],
           NEW t, SomeOf(s, n, t)
    PROVE  /\ SomeOf(s1, n, t)
           /\ SomeOf(s1, n + 1, t)
           /\ SomeOf(s1, n + 1, s1[n + 1] + t)
           /\ LastAndSome(s1, n + 1, s1[n + 1] + t)
<1>1. PICK S \in SUBSET (1..n) : t = SumFunctionOnSet(s, S)
  BY DEF SomeOf
<1>2. IsFiniteSet(S) /\ \A i \in S : s1[i] = s[i]
  BY FinitePart
<1>3. t = SumFunctionOnSet(s1, S)
  BY <1>1, <1>2, SumSame
<1> DEFINE T == S \cup {n + 1}
<1>4. /\ IsFiniteSet(T) /\ T \ {n + 1} = S /\ n + 1 \in T
      /\ \A i \in T : s1[i] \in Int
      /\ T \in SUBSET (1..(n + 1)) /\ S \in SUBSET (1..(n + 1))
  <2>1. T \in SUBSET (1..(n + 1)) /\ S \in SUBSET (1..(n + 1)) /\ n + 1 \in Nat
    OBVIOUS
  <2>2. T \ {n + 1} = S /\ n + 1 \in T
    OBVIOUS
  <2> HIDE DEF T
  <2>3. IsFiniteSet(T)
    BY <2>1, FinitePart
  <2> QED
    BY <2>1, <2>2, <2>3 DEF Amounts
<1> HIDE DEF T
<1>5. SumFunctionOnSet(s1, T) = s1[n + 1] + SumFunctionOnSet(s1, T \ {n + 1})
  BY <1>4, SumByAny
<1>6. SumFunctionOnSet(s1, T) = s1[n + 1] + t
  BY <1>3, <1>4, <1>5
<1>7. SomeOf(s1, n, t) /\ SomeOf(s1, n + 1, t)
  BY <1>3, <1>4 DEF SomeOf
<1>8. SomeOf(s1, n + 1, s1[n + 1] + t)
  BY <1>4, <1>6 DEF SomeOf
<1>9. LastAndSome(s1, n + 1, s1[n + 1] + t)
  BY <1>7 DEF LastAndSome
<1> QED
  BY <1>7, <1>8, <1>9

LEMMA SomeOfNone ==
    ASSUME NEW s
    PROVE  /\ SomeOf(s, 0, 0)
           /\ \A t : SomeOf(s, 0, t) => t = 0
<1>1. SUBSET (1..0) = {{}} /\ SumFunctionOnSet(s, {}) = 0
  BY FS_EmptySet, SumByFirst
<1> QED
  BY <1>1 DEF SomeOf

LEMMA LastIsSome ==
    ASSUME NEW s, NEW n \in Nat, Amounts(s, n), NEW t, LastAndSome(s, n, t)
    PROVE  SomeOf(s, n, t)
<1>1. CASE n = 0
  BY <1>1, SomeOfNone DEF LastAndSome
<1>2. CASE n > 0
  <2> DEFINE m == n - 1
  <2>1. m \in Nat /\ m + 1 = n
    BY <1>2
  <2>2. PICK u : SomeOf(s, m, u) /\ t = s[n] + u
    BY <1>2 DEF LastAndSome
  <2> HIDE DEF m
  <2>3. SomeOf(s, m + 1, s[m + 1] + u)
    BY <2>1, <2>2, SomeMore
  <2> QED
    BY <2>1, <2>2, <2>3
<1> QED
  BY <1>1, <1>2

-----------------------------------------------------------------------------
(* What is left of the totals when requests overlap *)

\* The total of one column, and the entries of one kind, on one folio: s is
\* their amounts, n how many there are, and poster the requests that have
\* committed one.
MadeOf(total, s, n, poster) ==
    /\ LastAndSome(s, n, total)
    /\ poster = {} => n = 0
    /\ Cardinality(poster) <= 1 => total = SumFunctionOnSet(s, 1..n)

Balanced(balance, s, n, s1, n1) ==
    \E c, p : SomeOf(s, n, c) /\ SomeOf(s1, n1, p) /\ balance = c - p

Lines(f) == Len(lineItems[f])

Paids(f) == Len(payments[f])

LinePosters(f) == Committed(f, PostsLine)

Payers(f) == Committed(f, PostsPayment)

\* The tables, and the rows in memory, are made of whole entries.
FolioMade(f) ==
    /\ MadeOf(folio[f].total_charges, LineAmountsOf(f), Lines(f), LinePosters(f))
    /\ MadeOf(folio[f].total_payments, payments[f], Paids(f), Payers(f))
    /\ Balanced(folio[f].balance, LineAmountsOf(f), Lines(f), payments[f], Paids(f))

SeenMade(r) ==
    LET f == job[r].folio
    IN  /\ SomeOf(LineAmountsOf(f), Lines(f), seen[r].total_charges)
        /\ SomeOf(payments[f], Paids(f), seen[r].total_payments)

MadeInv ==
    WholeCents => /\ \A f \in Folios : FolioMade(f)
                  /\ \A r \in Requests : InProgress(r) => SeenMade(r)

\* The amounts of the tables are numbers.
LEMMA AmountsOfTables ==
    ASSUME TxnTypeOK, NEW f \in Folios
    PROVE  /\ Lines(f) \in Nat /\ Paids(f) \in Nat
           /\ DOMAIN lineItems[f] = 1..Lines(f) /\ DOMAIN payments[f] = 1..Paids(f)
           /\ DOMAIN LineAmountsOf(f) = 1..Lines(f)
           /\ \A i \in 1..Lines(f) : LineAmountsOf(f)[i] = lineItems[f][i].total
           /\ Amounts(LineAmountsOf(f), Lines(f)) /\ Amounts(payments[f], Paids(f))
<1>1. lineItems[f] \in Seq(LineRow) /\ payments[f] \in Seq(Cents)
  BY DEF TxnTypeOK, BillingTypeOK
<1>2. /\ Lines(f) \in Nat /\ Paids(f) \in Nat
      /\ DOMAIN lineItems[f] = 1..Lines(f) /\ DOMAIN payments[f] = 1..Paids(f)
      /\ \A i \in 1..Lines(f) : lineItems[f][i] \in LineRow
      /\ \A i \in 1..Paids(f) : payments[f][i] \in Cents
  BY <1>1 DEF Lines, Paids
<1>3. /\ DOMAIN LineAmountsOf(f) = 1..Lines(f)
      /\ \A i \in 1..Lines(f) : LineAmountsOf(f)[i] = lineItems[f][i].total
  BY <1>2 DEF LineAmountsOf
<1>4. (\A row \in LineRow : row.total \in Int) /\ Cents \subseteq Int
  BY DEF LineRow, Cents
<1> QED
  BY <1>2, <1>3, <1>4 DEF Amounts

\* An entry more, and the total that some entries and it come to.
LEMMA MadeOneMore ==
    ASSUME NEW s, NEW s1, NEW n \in Nat, Amounts(s1, n + 1), \A i \in 1..n : s1[i] = s[i],
           NEW t, SomeOf(s, n, t), NEW total, NEW poster, IsFiniteSet(poster),
           MadeOf(total, s, n, poster), NEW r, r \notin poster
    PROVE  MadeOf(s1[n + 1] + t, s1, n + 1, poster \cup {r})
<1>1. LastAndSome(s1, n + 1, s1[n + 1] + t)
  BY SomeMore
<1>2. /\ Cardinality(poster \cup {r}) = Cardinality(poster) + 1
      /\ Cardinality(poster) \in Nat /\ (Cardinality(poster) = 0 => poster = {})
  BY FS_AddElement, FS_CardinalityType, FS_EmptySet
<1>3. ASSUME Cardinality(poster \cup {r}) <= 1
      PROVE  s1[n + 1] + t = SumFunctionOnSet(s1, 1..(n + 1))
  <2>1. n = 0
    BY <1>2, <1>3 DEF MadeOf
  <2>2. t = 0
    BY <2>1, SomeOfNone
  <2>3. IsFiniteSet({1}) /\ {1} \ {1} = {} /\ 1 \in {1}
    BY FS_Singleton
  <2>4. \A x \in {1} : s1[x] \in Int
    BY <2>1 DEF Amounts
  <2>5. SumFunctionOnSet(s1, {1}) = s1[1] + SumFunctionOnSet(s1, {1} \ {1})
    BY <2>3, <2>4, SumByAny
  <2>6. SumFunctionOnSet(s1, {}) = 0
    BY FS_EmptySet, SumByFirst
  <2>7. 1..(n + 1) = {1} /\ n + 1 = 1
    BY <2>1
  <2> QED
    BY <2>2, <2>3, <2>5, <2>6, <2>7
<1> QED
  BY <1>1, <1>3 DEF MadeOf

LEMMA BalancedMore ==
    ASSUME NEW s, NEW s1, NEW n \in Nat, Amounts(s1, n + 1), \A i \in 1..n : s1[i] = s[i],
           NEW p, NEW m, NEW balance
    PROVE  /\ Balanced(balance, s, n, p, m) => Balanced(balance, s1, n + 1, p, m)
           /\ Balanced(balance, p, m, s, n) => Balanced(balance, p, m, s1, n + 1)
  BY SomeMore DEF Balanced

LEMMA InitMade == TxnInit => MadeInv
<1> SUFFICES ASSUME TxnInit, NEW f \in Folios
             PROVE  FolioMade(f)
  BY DEF MadeInv, TxnInit, InProgress
<1>1. Lines(f) = 0 /\ Paids(f) = 0 /\ folio[f] = NoFolio
  BY DEF TxnInit, BillingInit, Lines, Paids
<1>2. \A s : SumFunctionOnSet(s, 1..0) = 0 /\ SomeOf(s, 0, 0)
  BY FS_EmptySet, SumByFirst, SomeOfNone
<1>3. \A s, poster : MadeOf(0, s, 0, poster)
  BY <1>2 DEF MadeOf, LastAndSome
<1>4. \A s, s1 : Balanced(0, s, 0, s1, 0)
  <2>1. 0 = 0 - 0
    OBVIOUS
  <2> QED
    BY <1>2, <2>1 DEF Balanced
<1> QED
  BY <1>1, <1>3, <1>4 DEF FolioMade, NoFolio

\* The requests that have committed are the same when none commits.
LEMMA SamePosters ==
    ASSUME UNCHANGED job, NEW f,
           \A q \in Requests : phase'[q] = "committed" <=> phase[q] = "committed"
    PROVE  LinePosters(f)' = LinePosters(f) /\ Payers(f)' = Payers(f)
  BY DEF LinePosters, Payers, Committed, PostsLine, PostsPayment

\* A folio that no request has committed to in a step keeps what it is made of.
LEMMA SameFolioMade ==
    ASSUME NEW f \in Folios, FolioMade(f),
           folio'[f].total_charges = folio[f].total_charges,
           folio'[f].total_payments = folio[f].total_payments,
           folio'[f].balance = folio[f].balance,
           lineItems'[f] = lineItems[f], payments'[f] = payments[f],
           LinePosters(f)' = LinePosters(f), Payers(f)' = Payers(f)
    PROVE  FolioMade(f)'
<1>1. LineAmountsOf(f)' = LineAmountsOf(f) /\ Lines(f)' = Lines(f) /\ Paids(f)' = Paids(f)
  BY DEF LineAmountsOf, Lines, Paids
<1> QED
  BY <1>1 DEF FolioMade

LEMMA SameSeenMade ==
    ASSUME NEW r \in Requests, SeenMade(r), UNCHANGED job, seen'[r] = seen[r],
           lineItems'[job[r].folio] = lineItems[job[r].folio],
           payments'[job[r].folio] = payments[job[r].folio]
    PROVE  SeenMade(r)'
<1> DEFINE f == job[r].folio
<1>1. LineAmountsOf(f)' = LineAmountsOf(f) /\ Lines(f)' = Lines(f) /\ Paids(f)' = Paids(f)
  BY DEF LineAmountsOf, Lines, Paids
<1> QED
  BY <1>1 DEF SeenMade

LEMMA QuietMade ==
    ASSUME TxnInv, MadeInv, NEW r \in Requests, Load(r) \/ Refuse(r) \/ Flush(r) \/ Abort(r)
    PROVE  MadeInv'
<1> SUFFICES ASSUME WholeCents
             PROVE  /\ \A f \in Folios : FolioMade(f)'
                    /\ \A q \in Requests : InProgress(q)' => SeenMade(q)'
  BY DEF MadeInv, WholeCents
<1>1. TxnTypeOK /\ job[r].folio \in Folios
  BY JobKinds DEF TxnInv
<1>2. /\ UNCHANGED <<job, stale>> /\ UNCHANGED <<folio, lineItems, payments>>
      /\ \A q \in Requests : phase'[q] = "committed" <=> phase[q] = "committed"
      /\ \A q \in Requests \ {r} : phase'[q] = phase[q] /\ seen'[q] = seen[q]
  BY <1>1, QuietStep DEF TxnTypeOK
<1>3. \A f \in Folios : LinePosters(f)' = LinePosters(f) /\ Payers(f)' = Payers(f)
  BY <1>2, SamePosters
<1>4. \A f \in Folios : FolioMade(f)'
  BY <1>2, <1>3, SameFolioMade DEF MadeInv
<1>5. InProgress(r)' => SeenMade(r)'
  <2>1. CASE Load(r)
    <3> DEFINE f == job[r].folio
    <3>1. seen'[r] = folio[f]
      BY <1>1, <2>1 DEF Load, TxnTypeOK
    <3>2. /\ SomeOf(LineAmountsOf(f), Lines(f), folio[f].total_charges)
          /\ SomeOf(payments[f], Paids(f), folio[f].total_payments)
      BY <1>1, AmountsOfTables, LastIsSome DEF MadeInv, FolioMade, MadeOf
    <3>3. LineAmountsOf(f)' = LineAmountsOf(f) /\ Lines(f)' = Lines(f) /\ Paids(f)' = Paids(f)
      BY <1>2 DEF LineAmountsOf, Lines, Paids
    <3> QED
      BY <1>2, <3>1, <3>2, <3>3 DEF SeenMade
  <2>2. CASE Flush(r)
    <3>1. InProgress(r) /\ seen'[r] = seen[r]
      BY <2>2 DEF Flush, InProgress
    <3> QED
      BY <1>2, <3>1, SameSeenMade DEF MadeInv
  <2>3. CASE Refuse(r) \/ Abort(r)
    BY <1>1, <2>3 DEF Refuse, Abort, SetPhase, TxnTypeOK, InProgress
  <2> QED
    BY <2>1, <2>2, <2>3
<1>6. ASSUME NEW q \in Requests \ {r}, InProgress(q)'
      PROVE  SeenMade(q)'
  <2>1. InProgress(q)
    BY <1>2, <1>6 DEF InProgress
  <2> QED
    BY <1>2, <2>1, SameSeenMade DEF MadeInv
<1> QED
  BY <1>4, <1>5, <1>6

\* What a commit makes of the columns of its folio.
LEMMA CommitColumns ==
    ASSUME TxnInv, NEW r \in Requests, Commit(r), NEW f \in Folios, f = job[r].folio
    PROVE  /\ folio'[f].total_charges =
                IF "total_charges" \in Dirty(r) THEN NewRow(r).total_charges
                                                ELSE folio[f].total_charges
           /\ folio'[f].total_payments =
                IF "total_payments" \in Dirty(r) THEN NewRow(r).total_payments
                                                 ELSE folio[f].total_payments
           /\ folio'[f].balance =
                IF "balance" \in Dirty(r) THEN NewRow(r).balance ELSE folio[f].balance
           /\ \A g \in Folios \ {f} : folio'[g] = folio[g]
<1>1. /\ TxnTypeOK /\ Writable(r) /\ folio \in [Folios -> FolioRow] /\ folio[f] \in FolioRow
  BY DEF TxnInv, FlushedFits, Commit, TxnTypeOK, BillingTypeOK
<1>2. NewRow(r) \in FolioRow
  BY <1>1, NewRowType
<1>3. folio' = [folio EXCEPT ![f] = Updated(folio[f], NewRow(r), Dirty(r))]
  BY DEF Commit, Updated
<1>4. /\ folio'[f] = Updated(folio[f], NewRow(r), Dirty(r))
      /\ \A g \in Folios \ {f} : folio'[g] = folio[g]
  BY <1>1, <1>3
<1> QED
  BY <1>1, <1>2, <1>4, UpdatedColumns

\* The amounts of jobs are whole cents when those of the requests are.
LEMMA WholeJob ==
    ASSUME TxnTypeOK, NEW r \in Requests, WholeCents
    PROVE  /\ PostsLine(r) => ChargeTicks(r) % TicksPerCent = 0
           /\ PostsPayment(r) => job[r].ticks % TicksPerCent = 0
<1>1. job[r] \in Jobs /\ item[r] \in LineRow
  BY JobKinds DEF TxnTypeOK
<1>2. item[r].total \in Int
  BY <1>1 DEF LineRow, Cents
<1>3. (-Ticks(item[r].total)) % TicksPerCent = 0
  BY <1>2, WholeTicks DEF Whole
<1>4. job[r].op = "add_line_item" => job[r].ticks % TicksPerCent = 0
  BY <1>1, RequestAssumption DEF WholeCents
<1>5. job[r].op = "post_payment" => job[r].ticks % TicksPerCent = 0
  BY <1>1, RequestAssumption DEF WholeCents
<1>6. job[r].op = "apply_room_charges" => job[r].ticks % TicksPerCent = 0
  <2> SUFFICES ASSUME job[r].op = "apply_room_charges"
               PROVE  job[r].ticks % TicksPerCent = 0
    OBVIOUS
  <2>1. PICK rate \in Rates, nights \in 1..MaxNights : job[r].ticks = Ticks(rate * nights)
    BY <1>1, RequestAssumption
  <2>2. rate * nights \in Int
    BY MoneyAssumption
  <2> QED
    BY <2>1, <2>2, WholeTicks DEF Whole
<1> QED
  BY <1>3, <1>4, <1>5, <1>6 DEF PostsLine, PostsPayment, ChargeTicks

\* A commit of whole cents c + e over c, of any column.
LEMMA WholeSums ==
    ASSUME NEW c \in Int, NEW p \in Int, NEW t \in Int, t % TicksPerCent = 0
    PROVE  /\ RoundCents(Ticks(c) + t) = RoundCents(t) + c
           /\ RoundCents((Ticks(c) + t) - Ticks(p)) = (RoundCents(t) + c) - p
           /\ RoundCents(Ticks(p) - (Ticks(c) + t)) = p - (RoundCents(t) + c)
           /\ t = 0 => RoundCents(t) = 0
<1> DEFINE k == t \div 100
<1>1. k \in Int /\ t = 100 * k
  BY DEF TicksPerCent
<1> HIDE DEF k
<1>2. /\ t = Ticks(k) /\ Ticks(c) + t = Ticks(c + k)
      /\ (Ticks(c) + t) - Ticks(p) = Ticks(c + k - p)
      /\ Ticks(p) - (Ticks(c) + t) = Ticks(p - (c + k))
  BY <1>1 DEF Ticks, TicksPerCent
<1>3. /\ RoundCents(Ticks(k)) = k /\ RoundCents(Ticks(c + k)) = c + k
      /\ RoundCents(Ticks(c + k - p)) = c + k - p
      /\ RoundCents(Ticks(p - (c + k))) = p - (c + k)
  BY <1>1, RoundCentsExact
<1>4. t = 0 => k = 0
  BY <1>1
<1> QED
  BY <1>1, <1>2, <1>3, <1>4

\* What a commit makes of the money of its folio, in whole cents: a total is
\* that of some entries and the new one.
LEMMA LineCommitted ==
    ASSUME TxnInv, MadeInv, WholeCents, NEW r \in Requests, Commit(r), PostsLine(r),
           NEW f \in Folios, f = job[r].folio
    PROVE  FolioMade(f)'
<1> DEFINE s == LineAmountsOf(f)
           s1 == LineAmountsOf(f)'
           n == Lines(f)
           e == RoundCents(ChargeTicks(r))
           c == seen[r].total_charges
           p == seen[r].total_payments
<1>1. /\ TxnTypeOK /\ Writable(r) /\ ~ PostsPayment(r) /\ ChargeTicks(r) \in Int
      /\ phase[r] = "flushed" /\ SeenMade(r) /\ FolioMade(f)
  BY JobKinds, ChargeType DEF TxnInv, FlushedFits, Commit, MadeInv, InProgress
<1>2. lineItems' = [lineItems EXCEPT ![f] = Append(lineItems[f], NewLine(r))] /\ UNCHANGED payments
  BY <1>1 DEF Commit
<1>3. /\ n \in Nat /\ DOMAIN lineItems[f] = 1..n
      /\ \A i \in 1..n : s[i] = lineItems[f][i].total
      /\ \A i \in 1..n : s[i] \in Int
  BY <1>1, AmountsOfTables DEF Amounts
<1>4. /\ lineItems[f] \in Seq(LineRow) /\ lineItems \in [Folios -> Seq(LineRow)]
      /\ NewLine(r).total = e /\ e \in Int /\ n = Len(lineItems[f])
  BY <1>1, RoundCentsNearest DEF NewLine, TxnTypeOK, BillingTypeOK, Lines
<1>5. /\ Lines(f)' = n + 1 /\ DOMAIN lineItems'[f] = 1..(n + 1)
      /\ \A i \in 1..n : lineItems'[f][i] = lineItems[f][i]
      /\ lineItems'[f][n + 1] = NewLine(r)
  <2> DEFINE new == NewLine(r)
  <2> HIDE DEF new
  <2>1. lineItems' = [lineItems EXCEPT ![f] = Append(lineItems[f], new)]
    BY <1>2 DEF new
  <2>2. /\ Len(lineItems'[f]) = n + 1 /\ DOMAIN lineItems'[f] = 1..(n + 1)
        /\ \A i \in 1..n : lineItems'[f][i] = lineItems[f][i]
        /\ lineItems'[f][n + 1] = new
    BY <1>4, <2>1
  <2> QED
    BY <2>2 DEF new, Lines
<1>6. \A i \in 1..(n + 1) : s1[i] = lineItems'[f][i].total
  BY <1>5 DEF LineAmountsOf
<1>7. /\ \A i \in 1..n : s1[i] = s[i]
      /\ s1[n + 1] = e
  <2> HIDE DEF s, s1, n, e
  <2>1. n + 1 \in 1..(n + 1) /\ \A i \in 1..n : i \in 1..(n + 1)
    BY <1>3
  <2>2. \A i \in 1..n : s1[i] = s[i]
    BY <1>3, <1>5, <1>6, <2>1
  <2>3. s1[n + 1] = e
    BY <1>4, <1>5, <1>6, <2>1
  <2> QED
    BY <2>2, <2>3
<1>8. Amounts(s1, n + 1)
  <2> HIDE DEF s, s1, n, e
  <2> QED
    BY <1>3, <1>4, <1>7 DEF Amounts
<1>9. /\ SomeOf(s, n, c) /\ SomeOf(payments[f], Paids(f), p)
      /\ c \in Int /\ p \in Int /\ seen[r] \in FolioRow
  BY <1>1 DEF SeenMade, TxnTypeOK, FolioRow, Cents
<1>10. /\ NewRow(r).total_charges = e + c /\ NewRow(r).balance = (e + c) - p
       /\ ChargeTicks(r) = 0 => e = 0
  <2>1. NewRow(r) = Charged(seen[r], ChargeTicks(r))
    BY <1>1, RowInMemory
  <2>2. /\ NewRow(r).total_charges = RoundCents(Ticks(c) + ChargeTicks(r))
        /\ NewRow(r).balance = RoundCents((Ticks(c) + ChargeTicks(r)) - Ticks(p))
    BY <1>9, <2>1 DEF Charged, FolioRow
  <2> QED
    BY <1>1, <1>9, <2>2, WholeJob, WholeSums
<1>11. \E t : SomeOf(s, n, t) /\ folio'[f].total_charges = e + t
  <2>1. CASE "total_charges" \in Dirty(r)
    BY <1>9, <1>10, <2>1, CommitColumns
  <2>2. CASE "total_charges" \notin Dirty(r)
    <3>1. e = 0
      BY <1>1, <1>10, <2>2 DEF Dirty
    <3>2. SomeOf(s, n, folio[f].total_charges) /\ folio[f].total_charges \in Int
      <4>1. LastAndSome(s, n, folio[f].total_charges)
        BY <1>1 DEF FolioMade, MadeOf
      <4>2. folio[f].total_charges \in Int
        BY <1>1 DEF TxnTypeOK, BillingTypeOK, FolioRow, Cents
      <4> QED
        BY <1>1, <4>1, <4>2, AmountsOfTables, LastIsSome
    <3>3. folio'[f].total_charges = folio[f].total_charges
      BY <2>2, CommitColumns
    <3> QED
      BY <3>1, <3>2, <3>3
  <2> QED
    BY <2>1, <2>2
<1>12. Balanced(folio'[f].balance, s1, n + 1, payments[f], Paids(f))
  <2>1. CASE "balance" \in Dirty(r)
    <3>1. SomeOf(s1, n + 1, e + c)
      <4> HIDE DEF s, s1, n, e, c
      <4> QED
        BY <1>3, <1>7, <1>8, <1>9, SomeMore
    <3> QED
      BY <1>9, <1>10, <2>1, <3>1, CommitColumns DEF Balanced
  <2>2. CASE "balance" \notin Dirty(r)
    <3>1. Balanced(folio[f].balance, s, n, payments[f], Paids(f))
      BY <1>1 DEF FolioMade
    <3>2. folio'[f].balance = folio[f].balance
      BY <2>2, CommitColumns
    <3> HIDE DEF s, s1, n
    <3> QED
      BY <1>3, <1>7, <1>8, <3>1, <3>2, BalancedMore
  <2> QED
    BY <2>1, <2>2
<1>13. /\ LinePosters(f)' = LinePosters(f) \cup {r} /\ r \notin LinePosters(f)
       /\ Payers(f)' = Payers(f) /\ IsFiniteSet(LinePosters(f))
  <2>1. /\ UNCHANGED job /\ phase'[r] = "committed" /\ phase[r] # "committed"
        /\ \A q \in Requests \ {r} : phase'[q] = phase[q]
    BY <1>1 DEF Commit, SetPhase, TxnTypeOK
  <2>2. LinePosters(f) \in SUBSET Requests
    BY DEF LinePosters, Committed
  <2>3. IsFiniteSet(LinePosters(f))
    BY <2>2, FS_Subset, RequestAssumption
  <2> QED
    BY <1>1, <2>1, <2>3 DEF LinePosters, Payers, Committed, PostsLine, PostsPayment
<1>14. MadeOf(folio'[f].total_charges, s1, n + 1, LinePosters(f)')
  <2>1. PICK t : SomeOf(s, n, t) /\ folio'[f].total_charges = e + t
    BY <1>11
  <2>2. MadeOf(folio[f].total_charges, s, n, LinePosters(f))
    BY <1>1 DEF FolioMade
  <2> DEFINE total == folio[f].total_charges
             poster == LinePosters(f)
  <2> HIDE DEF s, s1, n, e, total, poster
  <2>3. MadeOf(s1[n + 1] + t, s1, n + 1, poster \cup {r})
    BY <1>3, <1>7, <1>8, <1>13, <2>1, <2>2, MadeOneMore DEF total, poster
  <2> QED
    BY <1>7, <1>13, <2>1, <2>3 DEF poster
<1>15. MadeOf(folio'[f].total_payments, payments[f], Paids(f), Payers(f)')
  <2>1. folio'[f].total_payments = folio[f].total_payments
    BY <1>1, CommitColumns DEF Dirty
  <2> QED
    BY <1>1, <1>13, <2>1 DEF FolioMade
<1>16. Paids(f)' = Paids(f) /\ payments'[f] = payments[f] /\ Lines(f)' = n + 1
  BY <1>2, <1>5 DEF Paids
<1> QED
  BY <1>12, <1>14, <1>15, <1>16 DEF FolioMade

LEMMA PaymentCommitted ==
    ASSUME TxnInv, MadeInv, WholeCents, NEW r \in Requests, Commit(r), PostsPayment(r),
           NEW f \in Folios, f = job[r].folio
    PROVE  FolioMade(f)'
<1> DEFINE s == payments[f]
           s1 == payments'[f]
           n == Paids(f)
           e == RoundCents(job[r].ticks)
           c == seen[r].total_charges
           p == seen[r].total_payments
<1>1. /\ TxnTypeOK /\ Writable(r) /\ ~ PostsLine(r) /\ job[r].ticks \in Int
      /\ phase[r] = "flushed" /\ SeenMade(r) /\ FolioMade(f)
  BY JobKinds DEF TxnInv, FlushedFits, Commit, MadeInv, InProgress
<1>2. payments' = [payments EXCEPT ![f] = Append(payments[f], e)] /\ UNCHANGED lineItems
  BY <1>1 DEF Commit
<1>3. n \in Nat /\ DOMAIN payments[f] = 1..n /\ \A i \in 1..n : s[i] \in Int
  BY <1>1, AmountsOfTables DEF Amounts
<1>4. /\ payments[f] \in Seq(Cents) /\ payments \in [Folios -> Seq(Cents)]
      /\ e \in Int /\ n = Len(payments[f])
  BY <1>1, RoundCentsNearest DEF TxnTypeOK, BillingTypeOK, Paids
<1>5. /\ Paids(f)' = n + 1
      /\ \A i \in 1..n : s1[i] = s[i]
      /\ s1[n + 1] = e
  <2> HIDE DEF e
  <2>1. /\ Len(payments'[f]) = n + 1
        /\ \A i \in 1..n : payments'[f][i] = payments[f][i]
        /\ payments'[f][n + 1] = e
    BY <1>2, <1>4
  <2> QED
    BY <2>1 DEF Paids
<1>6. Amounts(s1, n + 1)
  <2> HIDE DEF s, s1, n, e
  <2>1. \A i \in 1..n : s1[i] \in Int
    BY <1>3, <1>5
  <2>2. \A i \in 1..(n + 1) : i \in 1..n \/ i = n + 1
    BY <1>3
  <2> QED
    BY <1>4, <1>5, <2>1, <2>2 DEF Amounts
<1>7. /\ SomeOf(s, n, p) /\ SomeOf(LineAmountsOf(f), Lines(f), c)
      /\ c \in Int /\ p \in Int /\ seen[r] \in FolioRow
  BY <1>1 DEF SeenMade, TxnTypeOK, FolioRow, Cents
<1>8. /\ NewRow(r).total_payments = e + p /\ NewRow(r).balance = c - (e + p)
      /\ job[r].ticks = 0 => e = 0
  <2>1. NewRow(r) = Paid(seen[r], job[r].ticks)
    BY <1>1, RowInMemory
  <2>2. /\ NewRow(r).total_payments = RoundCents(Ticks(p) + job[r].ticks)
        /\ NewRow(r).balance = RoundCents(Ticks(c) - (Ticks(p) + job[r].ticks))
    BY <1>7, <2>1 DEF Paid, FolioRow
  <2> QED
    BY <1>1, <1>7, <2>2, WholeJob, WholeSums
<1>9. \E t : SomeOf(s, n, t) /\ folio'[f].total_payments = e + t
  <2>1. CASE "total_payments" \in Dirty(r)
    BY <1>7, <1>8, <2>1, CommitColumns
  <2>2. CASE "total_payments" \notin Dirty(r)
    <3>1. e = 0
      BY <1>1, <1>8, <2>2 DEF Dirty
    <3>2. SomeOf(s, n, folio[f].total_payments) /\ folio[f].total_payments \in Int
      <4>1. LastAndSome(s, n, folio[f].total_payments)
        BY <1>1 DEF FolioMade, MadeOf
      <4>2. folio[f].total_payments \in Int
        BY <1>1 DEF TxnTypeOK, BillingTypeOK, FolioRow, Cents
      <4> QED
        BY <1>1, <4>1, <4>2, AmountsOfTables, LastIsSome
    <3>3. folio'[f].total_payments = folio[f].total_payments
      BY <2>2, CommitColumns
    <3> QED
      BY <3>1, <3>2, <3>3
  <2> QED
    BY <2>1, <2>2
<1>10. Balanced(folio'[f].balance, LineAmountsOf(f), Lines(f), s1, n + 1)
  <2>1. CASE "balance" \in Dirty(r)
    <3>1. SomeOf(s1, n + 1, e + p)
      <4> HIDE DEF s, s1, n, e, p
      <4> QED
        BY <1>3, <1>5, <1>6, <1>7, SomeMore
    <3> QED
      BY <1>7, <1>8, <2>1, <3>1, CommitColumns DEF Balanced
  <2>2. CASE "balance" \notin Dirty(r)
    <3>1. Balanced(folio[f].balance, LineAmountsOf(f), Lines(f), s, n)
      BY <1>1 DEF FolioMade
    <3>2. folio'[f].balance = folio[f].balance
      BY <2>2, CommitColumns
    <3> HIDE DEF s, s1, n
    <3> QED
      BY <1>3, <1>5, <1>6, <3>1, <3>2, BalancedMore
  <2> QED
    BY <2>1, <2>2
<1>11. /\ Payers(f)' = Payers(f) \cup {r} /\ r \notin Payers(f)
       /\ LinePosters(f)' = LinePosters(f) /\ IsFiniteSet(Payers(f))
  <2>1. /\ UNCHANGED job /\ phase'[r] = "committed" /\ phase[r] # "committed"
        /\ \A q \in Requests \ {r} : phase'[q] = phase[q]
    BY <1>1 DEF Commit, SetPhase, TxnTypeOK
  <2>2. Payers(f) \in SUBSET Requests
    BY DEF Payers, Committed
  <2>3. IsFiniteSet(Payers(f))
    BY <2>2, FS_Subset, RequestAssumption
  <2> QED
    BY <1>1, <2>1, <2>3 DEF LinePosters, Payers, Committed, PostsLine, PostsPayment
<1>12. MadeOf(folio'[f].total_payments, s1, n + 1, Payers(f)')
  <2>1. PICK t : SomeOf(s, n, t) /\ folio'[f].total_payments = e + t
    BY <1>9
  <2>2. MadeOf(folio[f].total_payments, s, n, Payers(f))
    BY <1>1 DEF FolioMade
  <2> DEFINE total == folio[f].total_payments
             poster == Payers(f)
  <2> HIDE DEF s, s1, n, e, total, poster
  <2>3. MadeOf(s1[n + 1] + t, s1, n + 1, poster \cup {r})
    BY <1>3, <1>5, <1>6, <1>11, <2>1, <2>2, MadeOneMore DEF total, poster
  <2> QED
    BY <1>5, <1>11, <2>1, <2>3 DEF poster
<1>13. MadeOf(folio'[f].total_charges, LineAmountsOf(f), Lines(f), LinePosters(f)')
  <2>1. folio'[f].total_charges = folio[f].total_charges
    BY <1>1, CommitColumns DEF Dirty
  <2> QED
    BY <1>1, <1>11, <2>1 DEF FolioMade
<1>14. LineAmountsOf(f)' = LineAmountsOf(f) /\ Lines(f)' = Lines(f) /\ Paids(f)' = n + 1
  BY <1>2, <1>5 DEF LineAmountsOf, Lines
<1> QED
  BY <1>10, <1>12, <1>13, <1>14 DEF FolioMade

LEMMA CloseCommitted ==
    ASSUME TxnInv, MadeInv, WholeCents, NEW r \in Requests, Commit(r),
           job[r].op = "close_folio", NEW f \in Folios, f = job[r].folio
    PROVE  FolioMade(f)'
<1>1. /\ TxnTypeOK /\ ~ PostsLine(r) /\ ~ PostsPayment(r) /\ FolioMade(f)
  BY JobKinds DEF TxnInv, MadeInv
<1>2. UNCHANGED lineItems /\ UNCHANGED payments
  BY <1>1 DEF Commit
<1>3. /\ "total_charges" \notin Dirty(r) /\ "total_payments" \notin Dirty(r)
      /\ "balance" \notin Dirty(r)
  <2>1. NewBalance(r) = Ticks(seen[r].balance)
    BY <1>1 DEF NewBalance
  <2> QED
    BY <1>1, <2>1 DEF Dirty
<1>4. LinePosters(f)' = LinePosters(f) /\ Payers(f)' = Payers(f)
  <2>1. UNCHANGED job /\ \A q \in Requests \ {r} : phase'[q] = phase[q]
    BY <1>1 DEF Commit, SetPhase, TxnTypeOK
  <2> QED
    BY <1>1, <2>1 DEF LinePosters, Payers, Committed, PostsLine, PostsPayment
<1> QED
  BY <1>1, <1>2, <1>3, <1>4, CommitColumns, SameFolioMade

\* The amounts of the lines after a step that leaves the tables well formed.
LEMMA TypedAmounts ==
    ASSUME TxnTypeOK', NEW f \in Folios
    PROVE  /\ Amounts(LineAmountsOf(f)', Lines(f)')
           /\ \A i \in 1..Lines(f)' : LineAmountsOf(f)'[i] = lineItems'[f][i].total
<1>1. lineItems'[f] \in Seq(LineRow)
  BY DEF TxnTypeOK, BillingTypeOK
<1>2. /\ Lines(f)' \in Nat /\ DOMAIN lineItems'[f] = 1..Lines(f)'
      /\ \A i \in 1..Lines(f)' : lineItems'[f][i] \in LineRow
  BY <1>1 DEF Lines
<1>3. \A i \in 1..Lines(f)' : LineAmountsOf(f)'[i] = lineItems'[f][i].total
  BY <1>2 DEF LineAmountsOf
<1>4. \A row \in LineRow : row.total \in Int
  BY DEF LineRow, Cents
<1> QED
  BY <1>2, <1>3, <1>4 DEF Amounts

\* What was the sum of some of the entries of a folio still is, after a commit.
LEMMA SomeStaysSome ==
    ASSUME TxnInv, NEW r \in Requests, Commit(r), TxnTypeOK', NEW f \in Folios, NEW c, NEW p,
           SomeOf(LineAmountsOf(f), Lines(f), c), SomeOf(payments[f], Paids(f), p)
    PROVE  /\ SomeOf(LineAmountsOf(f)', Lines(f)', c)
           /\ SomeOf(payments'[f], Paids(f)', p)
<1>1. TxnTypeOK /\ lineItems[f] \in Seq(LineRow) /\ payments[f] \in Seq(Cents)
  BY DEF TxnInv, TxnTypeOK, BillingTypeOK
<1> DEFINE s == LineAmountsOf(f)
           s1 == LineAmountsOf(f)'
           n == Lines(f)
           n1 == Lines(f)'
           u == payments[f]
           u1 == payments'[f]
           m == Paids(f)
           m1 == Paids(f)'
<1>2. SomeOf(s1, n1, c)
  <2>1. CASE lineItems'[f] = lineItems[f]
    <3>1. s1 = s /\ n1 = n
      BY <2>1 DEF LineAmountsOf, Lines
    <3> QED
      BY <3>1
  <2>2. CASE \E e \in LineRow : lineItems'[f] = Append(lineItems[f], e)
    <3>1. PICK e \in LineRow : lineItems'[f] = Append(lineItems[f], e)
      BY <2>2
    <3>2. /\ Len(lineItems'[f]) = Len(lineItems[f]) + 1
          /\ \A i \in 1..Len(lineItems[f]) : lineItems'[f][i] = lineItems[f][i]
          /\ Len(lineItems[f]) \in Nat
      BY <1>1, <3>1
    <3>3. n1 = n + 1 /\ n \in Nat /\ \A i \in 1..n : lineItems'[f][i] = lineItems[f][i]
      BY <3>2 DEF Lines
    <3>4. Amounts(s1, n1) /\ \A i \in 1..n1 : s1[i] = lineItems'[f][i].total
      BY TypedAmounts
    <3>5. \A i \in 1..n : s[i] = lineItems[f][i].total
      BY <1>1, AmountsOfTables
    <3>6. SomeOf(s, n, c)
      OBVIOUS
    <3> HIDE DEF s, s1, n, n1
    <3>7. \A i \in 1..n : i \in 1..n1
      BY <3>3
    <3>8. \A i \in 1..n : s1[i] = s[i]
      BY <3>3, <3>4, <3>5, <3>7
    <3> QED
      BY <3>3, <3>4, <3>6, <3>8, SomeMore
  <2> QED
    BY <1>1, <2>1, <2>2, CommitWrites
<1>3. SomeOf(u1, m1, p)
  <2>1. CASE payments'[f] = payments[f]
    <3>1. u1 = u /\ m1 = m
      BY <2>1 DEF Paids
    <3> QED
      BY <3>1
  <2>2. CASE \E e \in Cents : payments'[f] = Append(payments[f], e)
    <3>1. PICK e \in Cents : payments'[f] = Append(payments[f], e)
      BY <2>2
    <3>2. /\ Len(payments'[f]) = Len(payments[f]) + 1
          /\ \A i \in 1..Len(payments[f]) : payments'[f][i] = payments[f][i]
          /\ payments'[f][Len(payments[f]) + 1] = e
          /\ Len(payments[f]) \in Nat
      BY <1>1, <3>1
    <3>3. m1 = m + 1 /\ m \in Nat /\ (\A i \in 1..m : u1[i] = u[i]) /\ u1[m + 1] = e
      BY <3>2 DEF Paids
    <3>4. (\A i \in 1..m : u[i] \in Int) /\ e \in Int
      BY <1>1, AmountsOfTables DEF Amounts, Cents
    <3>5. SomeOf(u, m, p)
      OBVIOUS
    <3> HIDE DEF u, u1, m, m1
    <3>6. \A i \in 1..m1 : i \in 1..m \/ i = m + 1
      BY <3>3
    <3>7. Amounts(u1, m1)
      BY <3>3, <3>4, <3>6 DEF Amounts
    <3> QED
      BY <3>3, <3>5, <3>7, SomeMore
  <2> QED
    BY <1>1, <2>1, <2>2, CommitWrites
<1> QED
  BY <1>2, <1>3

\* The rows that others have in memory stay sums of some entries.
LEMMA SeenStaysMade ==
    ASSUME TxnInv, NEW r \in Requests, Commit(r), TxnTypeOK', NEW q \in Requests, SeenMade(q)
    PROVE  SeenMade(q)'
<1>1. job[q].folio \in Folios /\ TxnTypeOK /\ UNCHANGED job /\ UNCHANGED seen
  BY JobKinds DEF TxnInv, Commit
<1>2. PICK f \in Folios : f = job[q].folio
  BY <1>1
<1>3. /\ SomeOf(LineAmountsOf(f), Lines(f), seen[q].total_charges)
      /\ SomeOf(payments[f], Paids(f), seen[q].total_payments)
  BY <1>2 DEF SeenMade
<1>4. /\ SomeOf(LineAmountsOf(f)', Lines(f)', seen[q].total_charges)
      /\ SomeOf(payments'[f], Paids(f)', seen[q].total_payments)
  BY <1>3, SomeStaysSome
<1>5. f = job'[q].folio /\ seen'[q] = seen[q]
  BY <1>1, <1>2
<1> QED
  BY <1>4, <1>5 DEF SeenMade, LineAmountsOf, Lines, Paids

LEMMA CommitMade ==
    ASSUME TxnInv, TxnInv', MadeInv, NEW r \in Requests, Commit(r)
    PROVE  MadeInv'
<1> SUFFICES ASSUME WholeCents
             PROVE  /\ \A f \in Folios : FolioMade(f)'
                    /\ \A q \in Requests : InProgress(q)' => SeenMade(q)'
  BY DEF MadeInv, WholeCents
<1>1. TxnTypeOK /\ TxnTypeOK' /\ job[r].folio \in Folios
  BY JobKinds DEF TxnInv
<1>2. /\ UNCHANGED job /\ phase'[r] = "committed"
      /\ \A q \in Requests \ {r} : phase'[q] = phase[q]
  BY <1>1 DEF Commit, SetPhase, TxnTypeOK
<1>3. ASSUME NEW f \in Folios, f = job[r].folio
      PROVE  FolioMade(f)'
  <2>1. \/ job[r].op = "close_folio"
        \/ PostsLine(r)
        \/ PostsPayment(r)
    BY <1>1, JobKinds DEF PostsLine, PostsPayment
  <2>2. CASE PostsLine(r)
    BY <1>3, <2>2, LineCommitted
  <2>3. CASE PostsPayment(r)
    BY <1>3, <2>3, PaymentCommitted
  <2>4. CASE job[r].op = "close_folio"
    BY <1>3, <2>4, CloseCommitted
  <2> QED
    BY <2>1, <2>2, <2>3, <2>4
<1>4. ASSUME NEW f \in Folios, f # job[r].folio
      PROVE  FolioMade(f)'
  <2>1. lineItems'[f] = lineItems[f] /\ payments'[f] = payments[f] /\ folio'[f] = folio[f]
    BY <1>1, <1>4 DEF Commit, TxnTypeOK, BillingTypeOK
  <2>2. LinePosters(f)' = LinePosters(f) /\ Payers(f)' = Payers(f)
    BY <1>2, <1>4 DEF LinePosters, Payers, Committed, PostsLine, PostsPayment
  <2> QED
    BY <2>1, <2>2, SameFolioMade DEF MadeInv
<1>5. ASSUME NEW q \in Requests, InProgress(q)'
      PROVE  SeenMade(q)'
  <2>1. InProgress(q)
    BY <1>2, <1>5 DEF InProgress
  <2> QED
    BY <1>1, <2>1, SeenStaysMade DEF MadeInv
<1> QED
  BY <1>3, <1>4, <1>5

LEMMA NextMade == TxnInv /\ TxnInv' /\ MadeInv /\ [TxnNext]_allVars => MadeInv'
<1> SUFFICES ASSUME TxnInv, TxnInv', MadeInv, [TxnNext]_allVars
             PROVE  MadeInv'
  OBVIOUS
<1>1. ASSUME UNCHANGED <<job, phase, seen, lineItems, payments>>,
             \A f \in Folios : /\ folio'[f].total_charges = folio[f].total_charges
                               /\ folio'[f].total_payments = folio[f].total_payments
                               /\ folio'[f].balance = folio[f].balance
      PROVE  MadeInv'
  <2>1. \A f \in Folios : LinePosters(f)' = LinePosters(f) /\ Payers(f)' = Payers(f)
    BY <1>1, SamePosters
  <2>2. WholeCents => \A f \in Folios : FolioMade(f)'
    BY <1>1, <2>1, SameFolioMade DEF MadeInv
  <2>3. WholeCents => \A q \in Requests : InProgress(q)' => SeenMade(q)'
    BY <1>1, SameSeenMade DEF MadeInv, InProgress
  <2> QED
    BY <2>2, <2>3 DEF MadeInv, WholeCents
<1>2. ASSUME NEW f \in Folios, OpenFolio(f)
      PROVE  MadeInv'
  <2>1. /\ folio \in [Folios -> FolioRow] /\ \A g \in Folios : folio[g] \in FolioRow
        /\ folio' = [folio EXCEPT ![f].status = "open"]
        /\ UNCHANGED <<job, phase, seen, lineItems, payments>>
    BY <1>2 DEF TxnInv, TxnTypeOK, BillingTypeOK, OpenFolio, CreateFolio, txnVars
  <2>2. \A g \in Folios : /\ folio'[g].total_charges = folio[g].total_charges
                          /\ folio'[g].total_payments = folio[g].total_payments
                          /\ folio'[g].balance = folio[g].balance
    BY <2>1 DEF FolioRow
  <2> QED
    BY <1>1, <2>1, <2>2
<1>3. CASE UNCHANGED allVars
  BY <1>1, <1>3 DEF allVars, txnVars, billingVars
<1> QED
  BY <1>2, <1>3, QuietMade, CommitMade DEF TxnNext, Step

-----------------------------------------------------------------------------
(* From whole entries to the property *)

LEMMA SumsOfSequence ==
    ASSUME NEW s \in Seq(Int), NEW t
    PROVE  /\ Amounts(s, Len(s))
           /\ SomeOf(s, Len(s), t) => t \in Sums(s)
           /\ SumFunction(s) = SumFunctionOnSet(s, 1..Len(s))
<1>1. /\ Len(s) \in Nat /\ DOMAIN s = 1..Len(s)
      /\ \A i \in 1..Len(s) : s[i] \in Int
  OBVIOUS
<1>2. ASSUME SomeOf(s, Len(s), t)
      PROVE  t \in Sums(s)
  <2>1. PICK S \in SUBSET (1..Len(s)) : t = SumFunctionOnSet(s, S)
    BY <1>2 DEF SomeOf
  <2> DEFINE part == [i \in S |-> s[i]]
  <2>2. DOMAIN part = S /\ \A i \in S : s[i] = part[i]
    OBVIOUS
  <2>3. IsFiniteSet(S)
    BY <1>1, <2>1, FinitePart
  <2> HIDE DEF part
  <2>4. SumFunctionOnSet(s, S) = SumFunctionOnSet(part, S)
    BY <2>2, <2>3, SumSame
  <2>5. SumOver(s, S) = SumFunctionOnSet(part, S)
    BY <2>2 DEF SumOver, SumFunction, part
  <2> QED
    BY <1>1, <2>1, <2>4, <2>5 DEF Sums
<1>3. SumFunction(s) = SumFunctionOnSet(s, 1..Len(s))
  BY <1>1 DEF SumFunction
<1> QED
  BY <1>1, <1>2, <1>3 DEF Amounts

LEMMA LastOfSequence ==
    ASSUME NEW s \in Seq(Int), NEW t, LastAndSome(s, Len(s), t)
    PROVE  t \in WithLast(s)
<1>1. CASE s = <<>>
  <2>1. Len(s) = 0
    BY <1>1
  <2> QED
    BY <1>1, <2>1 DEF LastAndSome, WithLast
<1>2. CASE s # <<>>
  <2> DEFINE front == Front(s)
             n == Len(s)
  <2>1. /\ front \in Seq(Int) /\ n \in Nat /\ n > 0 /\ Len(front) = n - 1
        /\ \A i \in 1..(n - 1) : front[i] = s[i]
    <3>1. n \in Nat /\ n > 0
      BY <1>2
    <3>2. front = SubSeq(s, 1, n - 1)
      BY DEF Front
    <3>3. 1 \in Int /\ n - 1 \in Int /\ \A i \in 1..(n - 1) : s[i] \in Int
      BY <3>1
    <3>4. /\ SubSeq(s, 1, n - 1) \in Seq(Int)
          /\ Len(SubSeq(s, 1, n - 1)) = IF 1 <= n - 1 THEN (n - 1) - 1 + 1 ELSE 0
          /\ \A i \in 1..((n - 1) - 1 + 1) : SubSeq(s, 1, n - 1)[i] = s[1 + i - 1]
      BY <3>3, SubSeqProperties
    <3> HIDE DEF front, n
    <3> QED
      BY <3>1, <3>2, <3>4
  <2>2. PICK u : SomeOf(s, n - 1, u) /\ t = s[n] + u
    BY <2>1 DEF LastAndSome
  <2>3. PICK S \in SUBSET (1..(n - 1)) : u = SumFunctionOnSet(s, S)
    BY <2>2 DEF SomeOf
  <2>4. IsFiniteSet(S)
    <3>1. n - 1 \in Nat
      BY <2>1
    <3> QED
      BY <2>3, <3>1, FinitePart
  <2> HIDE DEF front, n
  <2>5. \A i \in S : s[i] = front[i]
    BY <2>1, <2>3
  <2>6. u = SumFunctionOnSet(front, S)
    BY <2>3, <2>4, <2>5, SumSame
  <2>7. SomeOf(front, Len(front), u)
    BY <2>1, <2>3, <2>6 DEF SomeOf
  <2>8. u \in Sums(front)
    BY <2>1, <2>7, SumsOfSequence
  <2> QED
    BY <1>2, <2>2, <2>8 DEF WithLast, Last, front, n
<1> QED
  BY <1>1, <1>2

LEMMA MadeIsSome ==
    ASSUME TxnInv, MadeInv, WholeCents
    PROVE  TotalsAreSomeEntries
<1> SUFFICES ASSUME NEW f \in Folios
             PROVE  /\ folio[f].total_charges \in WithLast(LineAmountsOf(f))
                    /\ folio[f].total_payments \in WithLast(payments[f])
                    /\ \E c \in Sums(LineAmountsOf(f)), p \in Sums(payments[f]) :
                         folio[f].balance = c - p
                    /\ Cardinality(Committed(f, PostsLine)) <= 1
                          => folio[f].total_charges = LineTotal(f)
                    /\ Cardinality(Committed(f, PostsPayment)) <= 1
                          => folio[f].total_payments = PaymentTotal(f)
  BY DEF TotalsAreSomeEntries, LineAmountsOf
<1> DEFINE s == LineAmountsOf(f)
           u == payments[f]
<1>1. TxnTypeOK /\ u \in Seq(Int) /\ Paids(f) = Len(u)
  <2>1. TxnTypeOK /\ u \in Seq(Cents)
    BY DEF TxnInv, TxnTypeOK, BillingTypeOK
  <2>2. Paids(f) = Len(u)
    BY DEF Paids
  <2> HIDE DEF u
  <2>3. Len(u) \in Nat /\ u \in [1..Len(u) -> Cents]
    BY <2>1, LenProperties
  <2>4. Cents \subseteq Int
    BY DEF Cents
  <2>5. u \in [1..Len(u) -> Int]
    BY <2>3, <2>4
  <2> QED
    BY <2>1, <2>2, <2>3, <2>5
<1>2. /\ Lines(f) \in Nat /\ DOMAIN s = 1..Lines(f)
      /\ \A i \in 1..Lines(f) : s[i] \in Int
  BY <1>1, AmountsOfTables DEF Amounts
<1>3. s \in Seq(Int) /\ Lines(f) = Len(s)
  <2>1. s = [i \in DOMAIN s |-> s[i]]
    BY DEF LineAmountsOf
  <2> HIDE DEF s
  <2>2. s \in [1..Lines(f) -> Int]
    BY <1>2, <2>1
  <2> QED
    BY <1>2, <2>2
<1>4. FolioMade(f)
  BY DEF MadeInv
<1>5. LineTotal(f) = SumFunction(s) /\ PaymentTotal(f) = SumFunction(u)
  BY DEF LineTotal, PaymentTotal, LineAmountsOf
<1>6. /\ MadeOf(folio[f].total_charges, s, Len(s), Committed(f, PostsLine))
      /\ MadeOf(folio[f].total_payments, u, Len(u), Committed(f, PostsPayment))
      /\ Balanced(folio[f].balance, s, Len(s), u, Len(u))
  BY <1>1, <1>3, <1>4 DEF FolioMade, LinePosters, Payers
<1> HIDE DEF s, u
<1>7. folio[f].total_charges \in WithLast(s) /\ folio[f].total_payments \in WithLast(u)
  BY <1>1, <1>3, <1>6, LastOfSequence DEF MadeOf
<1>8. \E c \in Sums(s), p \in Sums(u) : folio[f].balance = c - p
  BY <1>1, <1>3, <1>6, SumsOfSequence DEF Balanced
<1>9. /\ Cardinality(Committed(f, PostsLine)) <= 1 => folio[f].total_charges = LineTotal(f)
      /\ Cardinality(Committed(f, PostsPayment)) <= 1 => folio[f].total_payments = PaymentTotal(f)
  BY <1>1, <1>3, <1>5, <1>6, SumsOfSequence DEF MadeOf
<1> QED
  BY <1>7, <1>8, <1>9 DEF s, u

-----------------------------------------------------------------------------
(* Theorems *)

\* The tables are well formed whatever overlaps and fails, and the row lock of a
\* folio is held by a request that flushed writes to it and has not ended.
THEOREM TxnTypes == TxnSpec => []TxnTypeOK
<1>1. TxnInv => TxnTypeOK
  BY DEF TxnInv
<1> QED
  BY TxnInvariant, <1>1, PTL

\* A commit over the very row that its session loaded (database/session.py) is
\* the operation of billing_controller that Billing.tla has in one step.
THEOREM FreshCommits == TxnSpec => FreshCommitsImplementBilling
<1>1. TxnInv /\ [TxnNext]_allVars =>
        ((\A r \in Requests :
            phase[r] = "flushed" /\ phase'[r] = "committed" => seen[r] = folio[job[r].folio])
          => [BillingNext]_billingVars)
  BY FreshStep
<1> QED
  BY TxnInvariant, <1>1, PTL DEF TxnSpec, FreshCommitsImplementBilling

\* Until some request has committed over a newer row, everything Billing.tla
\* promises of the stored amounts holds, whatever overlapped, failed or crashed.
THEOREM SerialUntilStale ==
    TxnSpec => [](~ stale => BalanceWithinACent /\ TotalsFollowEntries /\ ExactBooks)
<1>1. TxnInv => (~ stale => BalanceWithinACent /\ TotalsFollowEntries /\ ExactBooks)
  BY TotalsOfInvariant, BooksOfInvariant DEF TxnInv, SerialBooks, BillingInv
<1> QED
  BY TxnInvariant, <1>1, PTL

\* A folio's status changes once, to closed, and then its lines and payments
\* agree to the cent, or some request, the close among them, has committed over
\* a newer row.
THEOREM ClosesSettled == TxnSpec => ClosesOnceSettled
<1>1. TxnInv /\ TxnInv' /\ [TxnNext]_allVars =>
        (WholeCents =>
          \A f \in Folios :
            folio[f].status # "none" /\ folio'[f].status # folio[f].status =>
              /\ folio'[f].status = "closed"
              /\ stale' \/ Abs(LineTotal(f) - PaymentTotal(f)) <= BalanceTolerance)
  BY StepCloses
<1> QED
  BY TxnInvariant, <1>1, PTL DEF TxnSpec, ClosesOnceSettled

\* What requests that overlap leave of the totals (models/billing.py:48): the
\* last entry and some of the others, all of them while one request alone has
\* posted any.
THEOREM TotalsOfSome == TxnSpec => []TotalsAreSomeEntries
<1>1. TxnInv /\ MadeInv => TotalsAreSomeEntries
  <2> SUFFICES ASSUME TxnInv, MadeInv, WholeCents
               PROVE  TotalsAreSomeEntries
    BY DEF TotalsAreSomeEntries
  <2> QED
    BY MadeIsSome DEF TotalsAreSomeEntries
<1> QED
  BY TxnInvariant, InitMade, NextMade, <1>1, PTL DEF TxnSpec
=============================================================================
