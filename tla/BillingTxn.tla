------------------------------ MODULE BillingTxn ------------------------------
(***************************************************************************)
(* The folio operations of Billing.tla cut where requests interleave: at   *)
(* the database statements.  database/session.py gives each request one    *)
(* session and one transaction, at PostgreSQL's READ COMMITTED:            *)
(*                                                                         *)
(*   Load    SELECT of the folio: the last committed row, kept in the      *)
(*           session; the handler then decides and computes in memory.     *)
(*   Flush   UPDATE of the columns whose value changed in memory, with     *)
(*           the values computed there, and INSERT of the entry.  The      *)
(*           UPDATE waits for the lock of the row.                         *)
(*   Commit  the writes become visible, the lock is released.              *)
(*   Abort   an error or a crash anywhere in between rolls all back.       *)
(*                                                                         *)
(* folio, lineItems and payments of Billing.tla are the committed tables.  *)
(* A line item is never updated, so that voiding one may read it together  *)
(* with its folio.  A folio is created before anybody can know its id, so  *)
(* CreateFolio stays one step.                                             *)
(***************************************************************************)
EXTENDS Billing, FiniteSets

CONSTANTS
    Requests,   \* the requests there may ever be
    Jobs,       \* what a request may be: [op, folio, ticks] records
    MaxOpen,    \* bound: requests in progress at a time
    NoRequest   \* nobody holds the lock

\* The amounts are those of the operations in Billing.tla; MaxEntries leaves each
\* request room for an entry.
ASSUME RequestAssumption ==
    /\ MaxOpen \in Nat
    /\ NoRequest \notin Requests
    /\ IsFiniteSet(Requests) /\ Cardinality(Requests) <= MaxEntries
    /\ \A job \in Jobs :
         /\ job.folio \in Folios
         /\ job.ticks \in Int
         /\ \/ job.op = "add_line_item" /\ job.ticks \in LineAmounts
            \/ job.op = "post_payment" /\ job.ticks \in PaymentAmounts
            \/ /\ job.op = "apply_room_charges"
               /\ \E rate \in Rates, nights \in 1..MaxNights : job.ticks = Ticks(rate * nights)
            \/ job.op \in {"void_line_item", "close_folio"}

VARIABLES
    job,     \* the operation a request asks for
    phase,   \* how far its handler is
    seen,    \* the folio row its session loaded
    item,    \* the line a void_line_item loaded
    lock,    \* the request that holds the row lock of a folio
    stale    \* history: some request has committed what it made of an old row

txnVars == <<job, phase, seen, item, lock, stale>>
allVars == <<billingVars, txnVars>>

Phases == {"idle", "loaded", "flushed", "committed", "refused", "aborted"}

InProgress(r) == phase[r] \in {"loaded", "flushed"}

NoItem == [item_type |-> "extra", void |-> FALSE, total |-> 0]

-----------------------------------------------------------------------------
(* What a request computes from the row it loaded *)

PostsLine(r) == job[r].op \in {"add_line_item", "void_line_item", "apply_room_charges"}
PostsPayment(r) == job[r].op = "post_payment"

ChargeTicks(r) ==
    IF job[r].op = "void_line_item" THEN -Ticks(item[r].total) ELSE job[r].ticks

\* The line it inserts.
NewLine(r) ==
    [item_type |-> CASE job[r].op = "void_line_item" -> item[r].item_type
                     [] job[r].op = "add_line_item" -> "extra"
                     [] OTHER -> "room_charge",
     void |-> job[r].op = "void_line_item",
     total |-> RoundCents(ChargeTicks(r))]

\* The folio row as its session has it after the handler.
NewRow(r) ==
    CASE PostsLine(r)    -> Charged(seen[r], ChargeTicks(r))
      [] PostsPayment(r) -> Paid(seen[r], job[r].ticks)
      [] OTHER           -> [seen[r] EXCEPT !.status = "closed"]

\* The balance in memory, before it is rounded to its column.
NewBalance(r) ==
    CASE PostsLine(r)    -> Ticks(seen[r].total_charges - seen[r].total_payments) + ChargeTicks(r)
      [] PostsPayment(r) -> Ticks(seen[r].total_charges - seen[r].total_payments) - job[r].ticks
      [] OTHER           -> Ticks(seen[r].balance)

\* Mutant of Dirty: the whole row is saved.
WholeRow(r) == {"status", "total_charges", "total_payments", "balance"}

\* The columns whose value in memory is not the value loaded.
Dirty(r) ==
    {c \in {"status", "total_charges", "total_payments", "balance"} :
       CASE c = "status"         -> job[r].op = "close_folio"
         [] c = "total_charges"  -> PostsLine(r) /\ ChargeTicks(r) # 0
         [] c = "total_payments" -> PostsPayment(r) /\ job[r].ticks # 0
         [] c = "balance"        -> NewBalance(r) # Ticks(seen[r].balance)}

-----------------------------------------------------------------------------
TxnInit ==
    /\ BillingInit
    /\ job \in [Requests -> Jobs]
    /\ phase = [r \in Requests |-> "idle"]
    /\ seen = [r \in Requests |-> NoFolio]
    /\ item = [r \in Requests |-> NoItem]
    /\ lock = [f \in Folios |-> NoRequest]
    /\ stale = FALSE

\* Mutant of Permitted: the sign of the balance is forgotten.
PermittedWhenNothingIsDue(r, row) ==
    CASE job[r].op = "apply_room_charges" -> row.status # "none"
      [] job[r].op = "close_folio" ->
             row.status = "open" /\ row.balance <= BalanceTolerance
      [] OTHER -> row.status = "open"

\* The checks of the handlers on the row they load.
Permitted(r, row) ==
    CASE job[r].op = "apply_room_charges" -> row.status # "none"
      [] job[r].op = "close_folio" ->
             row.status = "open" /\ Abs(row.balance) <= BalanceTolerance
      [] OTHER -> row.status = "open"

SetPhase(r, p) == phase' = [phase EXCEPT ![r] = p]

CanStart(r) ==
    /\ phase[r] = "idle"
    /\ Cardinality({q \in Requests : InProgress(q)}) < MaxOpen

Load(r) ==
    LET f == job[r].folio IN
    /\ CanStart(r)
    /\ Permitted(r, folio[f])
    /\ seen' = [seen EXCEPT ![r] = folio[f]]
    /\ IF job[r].op = "void_line_item"
       THEN \E i \in DOMAIN lineItems[f] : item' = [item EXCEPT ![r] = lineItems[f][i]]
       ELSE UNCHANGED item
    /\ SetPhase(r, "loaded")
    /\ UNCHANGED <<job, lock, stale, billingVars>>

\* 404 or 422
Refuse(r) ==
    LET f == job[r].folio IN
    /\ CanStart(r)
    /\ \/ ~ Permitted(r, folio[f])
       \/ job[r].op = "void_line_item" /\ lineItems[f] = <<>>
    /\ SetPhase(r, "refused")
    /\ UNCHANGED <<job, seen, item, lock, stale, billingVars>>

\* Values that do not fit their columns make the flush fail (see Abort).
Writable(r) ==
    /\ Fits(NewRow(r))
    /\ PostsLine(r) => NewLine(r).total \in Cents
    /\ PostsPayment(r) => RoundCents(job[r].ticks) \in Cents

Flush(r) ==
    LET f == job[r].folio IN
    /\ phase[r] = "loaded"
    /\ Writable(r)
    /\ IF Dirty(r) = {} THEN UNCHANGED lock
                        ELSE /\ lock[f] = NoRequest
                             /\ lock' = [lock EXCEPT ![f] = r]
    /\ SetPhase(r, "flushed")
    /\ UNCHANGED <<job, seen, item, stale, billingVars>>

Unlock(r) == lock' = [f \in Folios |-> IF lock[f] = r THEN NoRequest ELSE lock[f]]

Commit(r) ==
    LET f == job[r].folio IN
    /\ phase[r] = "flushed"
    /\ folio' = [folio EXCEPT ![f] =
                   [c \in DOMAIN @ |-> IF c \in Dirty(r) THEN NewRow(r)[c] ELSE @[c]]]
    /\ lineItems' = IF PostsLine(r)
                    THEN [lineItems EXCEPT ![f] = Append(@, NewLine(r))]
                    ELSE lineItems
    /\ payments' = IF PostsPayment(r)
                   THEN [payments EXCEPT ![f] = Append(@, RoundCents(job[r].ticks))]
                   ELSE payments
    /\ Unlock(r)
    /\ stale' = (stale \/ seen[r] # folio[f])
    /\ SetPhase(r, "committed")
    /\ UNCHANGED <<job, seen, item>>

\* Mutants of Abort: the connection goes back to the pool without a rollback;
\* the update of the totals stays and the entry is lost.
AbortWithoutRollback(r) ==
    /\ InProgress(r)
    /\ SetPhase(r, "aborted")
    /\ UNCHANGED <<job, seen, item, lock, stale, billingVars>>

AbortKeepingTotals(r) ==
    LET f == job[r].folio IN
    /\ InProgress(r)
    /\ folio' = IF phase[r] = "flushed" THEN [folio EXCEPT ![f] = NewRow(r)] ELSE folio
    /\ Unlock(r)
    /\ SetPhase(r, "aborted")
    /\ UNCHANGED <<job, seen, item, stale, lineItems, payments>>

Abort(r) ==
    /\ InProgress(r)
    /\ Unlock(r)
    /\ SetPhase(r, "aborted")
    /\ UNCHANGED <<job, seen, item, stale, billingVars>>

Step(r) == Load(r) \/ Refuse(r) \/ Flush(r) \/ Commit(r) \/ Abort(r)

OpenFolio(f) == CreateFolio(f) /\ UNCHANGED txnVars

TxnNext ==
    \/ \E r \in Requests : Step(r)
    \/ \E f \in Folios : OpenFolio(f)

\* A request that has started is driven to its end by the event loop and the
\* database: it commits or it fails.  Nothing says that one ever starts.
Progress(r) == Flush(r) \/ Commit(r) \/ (phase[r] = "loaded" /\ ~ Writable(r) /\ Abort(r))

TxnSpec ==
    /\ TxnInit
    /\ [][TxnNext]_allVars
    /\ \A r \in Requests : WF_allVars(Progress(r))

-----------------------------------------------------------------------------
(* Properties *)

\* Type invariant; the lock of a folio is held by a request that has flushed
\* writes to it, and by no request that has ended.
TxnTypeOK ==
    /\ BillingTypeOK
    /\ job \in [Requests -> Jobs]
    /\ phase \in [Requests -> Phases]
    /\ seen \in [Requests -> FolioRow]
    /\ item \in [Requests -> LineRow]
    /\ lock \in [Folios -> Requests \cup {NoRequest}]
    /\ stale \in BOOLEAN
    /\ \A f \in Folios : lock[f] # NoRequest =>
         phase[lock[f]] = "flushed" /\ job[lock[f]].folio = f

Committed(f, Posts(_)) ==
    {r \in Requests : job[r].folio = f /\ phase[r] = "committed" /\ Posts(r)}

SumOver(amounts, S) == SumFunction([i \in S |-> amounts[i]])

\* The sums of some of the amounts of s, and those with the last of them.
Sums(s) == {SumOver(s, S) : S \in SUBSET DOMAIN s}

WithLast(s) == IF s = <<>> THEN {0} ELSE {Last(s) + t : t \in Sums(Front(s))}

\* What requests that interleave and fail leave of the totals.  A stored total
\* is made of whole entries: the charges are those of some of the lines, the
\* last one always among them, the payments likewise, and the balance is a
\* difference of two such sums.  Only columns changed in memory are written, so
\* that a payment never undoes a charge in total_charges, nor a charge a payment
\* in total_payments: as long as one request alone posts lines, total_charges is
\* exact, whatever else overlaps.
TotalsAreSomeEntries ==
    \A f \in Folios :
        LET charges == [i \in DOMAIN lineItems[f] |-> lineItems[f][i].total]
        IN  WholeCents =>
              /\ folio[f].total_charges \in WithLast(charges)
              /\ folio[f].total_payments \in WithLast(payments[f])
              /\ \E c \in Sums(charges), p \in Sums(payments[f]) : folio[f].balance = c - p
              /\ Cardinality(Committed(f, PostsLine)) <= 1
                    => folio[f].total_charges = LineTotal(f)
              /\ Cardinality(Committed(f, PostsPayment)) <= 1
                    => folio[f].total_payments = PaymentTotal(f)

\* A commit whose session loaded the row that is still there is the operation
\* of Billing.tla, whatever overlapped it: with requests one at a time this
\* module implements Billing, and what Billing promises is lost only by a
\* commit over a newer row.
FreshCommitsImplementBilling ==
    [][(\A r \in Requests :
           phase[r] = "flushed" /\ phase'[r] = "committed" => seen[r] = folio[job[r].folio])
         => [BillingNext]_billingVars]_allVars

\* The status of a folio once opened changes once: no stale row ever opens it
\* again, and it closes only when its lines and payments agree to the cent,
\* unless some request committed over a newer row; the close itself may be that
\* one (billing_controller.py:155).
ClosesOnceSettled ==
    [][WholeCents =>
         \A f \in Folios :
            folio[f].status # "none" /\ folio'[f].status # folio[f].status =>
              /\ folio'[f].status = "closed"
              /\ stale' \/ Abs(LineTotal(f) - PaymentTotal(f)) <= BalanceTolerance]_allVars

\* A request that started ends, whatever the others do: the one lock a request
\* takes is always given back.
RequestsEnd == \A r \in Requests : InProgress(r) ~> ~ InProgress(r)

\* models/billing.py:48, "Denormalized totals for fast reads — kept in sync by
\* billing_controller", is ExactBooks of Billing.tla.  It holds of requests one
\* at a time and not of two that load the same folio row: each writes a total
\* that holds its own entry and not the other's.
=============================================================================
