------------------------------- MODULE Billing -------------------------------
(***************************************************************************)
(* The folio operations of app/controllers/billing_controller.py, one      *)
(* action per operation, each taken as a whole request: the serial view of *)
(* billing.  BillingTxn.tla cuts the same operations at their database     *)
(* statements.                                                             *)
(*                                                                         *)
(* Money.  A column is NUMERIC(12,2): an integer number of cents, rounded  *)
(* half away from zero when the row is written and refused (the request    *)
(* rolls back) when it does not fit.  An amount in a request has no such   *)
(* limit: it is an integer number of ticks, 100 ticks to the cent, so that *)
(* a quantity and a unit price of two decimals each have an exact product. *)
(*                                                                         *)
(* A folio is named by the reservation it belongs to: folios.reservation_id*)
(* is unique and reservation_controller creates the one with the other.    *)
(***************************************************************************)
EXTENDS Integers, Sequences, SequencesExt

CONSTANTS
    Folios,          \* the folios there may ever be
    LineAmounts,     \* quantity * unit_price of a posted line, in ticks
    PaymentAmounts,  \* amount of a posted payment, in ticks
    Rates,           \* nightly rates a reservation may carry, in cents
    MaxNights,       \* bound: nights charged by one room charge
    MaxCents,        \* the largest value of a money column, in cents
    MaxEntries       \* bound: lines and, apart, payments of one folio

ASSUME MoneyAssumption ==
    /\ LineAmounts \subseteq Int
    /\ PaymentAmounts \subseteq Int
    /\ Rates \subseteq Int
    /\ MaxNights \in Nat
    /\ MaxCents \in Nat
    /\ MaxEntries \in Nat

VARIABLES
    folio,      \* folios table: folio[f] is the row of folio f
    lineItems,  \* line_items table: the lines of f, in the order written
    payments    \* payments table: the amounts paid on f, in the order written

billingVars == <<folio, lineItems, payments>>

-----------------------------------------------------------------------------
(* Rows and money *)

Abs(n) == IF n < 0 THEN -n ELSE n

TicksPerCent == 100

\* What PostgreSQL stores for an amount of t ticks in a column of scale 2.
RoundCents(t) ==
    IF t >= 0 THEN (t + 50) \div TicksPerCent
              ELSE -((50 - t) \div TicksPerCent)

Ticks(cents) == TicksPerCent * cents

Cents == -MaxCents..MaxCents

FolioStatus == {"open", "closed"}

\* The status "none" is that of a row not inserted yet.
FolioRow == [status : FolioStatus \cup {"none"},
             total_charges : Cents, total_payments : Cents, balance : Cents]

NoFolio == [status |-> "none",
            total_charges |-> 0, total_payments |-> 0, balance |-> 0]

LineItemType == {"room_charge", "extra"}

\* void: the description starts with "VOID: ".
LineRow == [item_type : LineItemType, void : BOOLEAN, total : Cents]

\* The row written after `charges += ticks; balance = charges - payments`:
\* both columns are rounded, each from the unrounded value in memory.
Charged(row, ticks) ==
    [row EXCEPT !.total_charges = RoundCents(Ticks(row.total_charges) + ticks),
                !.balance = RoundCents((Ticks(row.total_charges) + ticks)
                                       - Ticks(row.total_payments))]

\* Mutant of Paid: the payment is recorded, the balance is not refreshed.
PaidKeepingBalance(row, ticks) ==
    [row EXCEPT !.total_payments = RoundCents(Ticks(row.total_payments) + ticks)]

\* The same for `payments += ticks; balance = charges - payments`.
Paid(row, ticks) ==
    [row EXCEPT !.total_payments = RoundCents(Ticks(row.total_payments) + ticks),
                !.balance = RoundCents(Ticks(row.total_charges)
                                       - (Ticks(row.total_payments) + ticks))]

\* Mutant of Fits: only the columns that are added to are sized.
FitsBesidesBalance(row) ==
    /\ row.total_charges \in Cents
    /\ row.total_payments \in Cents

\* A row the database accepts; any other makes the flush fail.
Fits(row) ==
    /\ row.total_charges \in Cents
    /\ row.total_payments \in Cents
    /\ row.balance \in Cents

-----------------------------------------------------------------------------
BillingInit ==
    /\ folio = [f \in Folios |-> NoFolio]
    /\ lineItems = [f \in Folios |-> <<>>]
    /\ payments = [f \in Folios |-> <<>>]

\* Write a line and the folio's new totals, in one flush.
PostLine(f, type, void, ticks) ==
    /\ Len(lineItems[f]) < MaxEntries
    /\ RoundCents(ticks) \in Cents
    /\ Fits(Charged(folio[f], ticks))
    /\ folio' = [folio EXCEPT ![f] = Charged(@, ticks)]
    /\ lineItems' = [lineItems EXCEPT
                       ![f] = Append(@, [item_type |-> type, void |-> void,
                                         total |-> RoundCents(ticks)])]
    /\ UNCHANGED payments

CreateFolio(f) ==
    /\ folio[f].status = "none"
    /\ folio' = [folio EXCEPT ![f].status = "open"]
    /\ UNCHANGED <<lineItems, payments>>

AddLineItem(f, type, ticks) ==
    /\ folio[f].status = "open"
    /\ PostLine(f, type, FALSE, ticks)

\* Mutants of VoidLineItem: the folio is credited and the line is deleted;
\* the void line is written and the folio is not credited.
VoidByDeleting(f, i) ==
    /\ folio[f].status = "open"
    /\ i \in DOMAIN lineItems[f]
    /\ folio' = [folio EXCEPT ![f] = Charged(@, -Ticks(lineItems[f][i].total))]
    /\ Fits(folio'[f])
    /\ lineItems' = [lineItems EXCEPT ![f] = RemoveAt(@, i)]
    /\ UNCHANGED payments

VoidWithoutCredit(f, i) ==
    /\ folio[f].status = "open"
    /\ i \in DOMAIN lineItems[f]
    /\ Len(lineItems[f]) < MaxEntries
    /\ lineItems' = [lineItems EXCEPT
                       ![f] = Append(@, [@[i] EXCEPT !.void = TRUE, !.total = -@])]
    /\ UNCHANGED <<folio, payments>>

\* A line of the opposite total; nothing says that the line was not voided
\* before, nor that it is not itself the void of another.
VoidLineItem(f, i) ==
    /\ folio[f].status = "open"
    /\ i \in DOMAIN lineItems[f]
    /\ LET item == lineItems[f][i]
       IN  PostLine(f, item.item_type, TRUE, -Ticks(item.total))

PostPayment(f, ticks) ==
    /\ folio[f].status = "open"
    /\ Len(payments[f]) < MaxEntries
    /\ RoundCents(ticks) \in Cents
    /\ Fits(Paid(folio[f], ticks))
    /\ folio' = [folio EXCEPT ![f] = Paid(@, ticks)]
    /\ payments' = [payments EXCEPT ![f] = Append(@, RoundCents(ticks))]
    /\ UNCHANGED lineItems

\* _BALANCE_TOLERANCE, in cents
BalanceTolerance == 1

CloseFolio(f) ==
    /\ folio[f].status = "open"
    /\ Abs(folio[f].balance) <= BalanceTolerance
    /\ folio' = [folio EXCEPT ![f].status = "closed"]
    /\ UNCHANGED <<lineItems, payments>>

\* Called by check-in and check-out.  Needs a folio, but not an open one.
ApplyRoomCharges(f, rate, nights) ==
    /\ folio[f].status # "none"
    /\ PostLine(f, "room_charge", FALSE, Ticks(rate * nights))

\* The endpoints of routers/billing.py that write.
BillingEndpoint ==
    \E f \in Folios :
        \/ \E type \in LineItemType, ticks \in LineAmounts : AddLineItem(f, type, ticks)
        \/ \E i \in 1..MaxEntries : VoidLineItem(f, i)
        \/ \E ticks \in PaymentAmounts : PostPayment(f, ticks)
        \/ CloseFolio(f)

\* The operations reservation_controller calls.
BookingCall ==
    \E f \in Folios :
        \/ CreateFolio(f)
        \/ \E rate \in Rates, nights \in 1..MaxNights : ApplyRoomCharges(f, rate, nights)

BillingNext == BillingEndpoint \/ BookingCall

BillingSpec == BillingInit /\ [][BillingNext]_billingVars

-----------------------------------------------------------------------------
(* Properties *)

LineTotal(f) == SumFunction([i \in DOMAIN lineItems[f] |-> lineItems[f][i].total])

PaymentTotal(f) == SumFunction(payments[f])

\* Type invariant: every row is well formed and every stored amount fits its
\* NUMERIC(12,2) column (models/billing.py:49-57, 86, 104).
BillingTypeOK ==
    /\ folio \in [Folios -> FolioRow]
    /\ lineItems \in [Folios -> Seq(LineRow)]
    /\ payments \in [Folios -> Seq(Cents)]

\* The stored balance is never more than one cent away from the stored
\* charges less the stored payments, whatever hundredths of a cent were posted:
\* the three columns are rounded apart, but each write starts again from the
\* other two, so that the error does not add up.
BalanceWithinACent ==
    \A f \in Folios :
        Abs(folio[f].balance
            - (folio[f].total_charges - folio[f].total_payments)) <= 1

\* The totals of a folio follow its lines and payments: they part by at most a
\* cent an entry, and not at all while no entry is negative.
TotalsFollowEntries ==
    \A f \in Folios :
        /\ Abs(folio[f].total_charges - LineTotal(f)) <= Len(lineItems[f])
        /\ Abs(folio[f].total_payments - PaymentTotal(f)) <= Len(payments[f])
        /\ (\A i \in DOMAIN lineItems[f] : lineItems[f][i].total >= 0)
              => folio[f].total_charges = LineTotal(f)
        /\ (\A i \in DOMAIN payments[f] : payments[f][i] >= 0)
              => folio[f].total_payments = PaymentTotal(f)

\* When every amount is a whole number of cents the three denormalized
\* totals are exactly what the lines and the payments add up to.
WholeCents ==
    \A ticks \in LineAmounts \cup PaymentAmounts : ticks % TicksPerCent = 0

ExactBooks ==
    WholeCents =>
      \A f \in Folios :
        /\ folio[f].total_charges = LineTotal(f)
        /\ folio[f].total_payments = PaymentTotal(f)
        /\ folio[f].balance = LineTotal(f) - PaymentTotal(f)

\* The audit trail: lines and payments are only ever appended, a void among
\* them, a closed folio stays closed, and all that is still written on it is
\* room charges.
AuditTrail ==
    [][\A f \in Folios :
        /\ IsPrefix(lineItems[f], lineItems'[f])
        /\ IsPrefix(payments[f], payments'[f])
        /\ folio[f].status = "closed" =>
             /\ folio'[f].status = "closed"
             /\ payments'[f] = payments[f]
             /\ \A i \in DOMAIN lineItems'[f] \ DOMAIN lineItems[f] :
                   lineItems'[f][i].item_type = "room_charge"]_billingVars
=============================================================================
