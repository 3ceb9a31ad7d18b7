---------------------------- MODULE MCBillingTxn ----------------------------
(* Small instances of BillingTxn: one folio, amounts whose sums differ. *)
EXTENDS BillingTxn, TLC

CONSTANTS f1, q1, q2, q3

Amounts == {200, 500}
Deposits == {300}

Job(op, ticks) == [op |-> op, folio |-> f1, ticks |-> ticks]

\* One job of each kind; a line of 2 and another of 5 cents.
AllJobs == {Job("add_line_item", 200), Job("add_line_item", 500), Job("void_line_item", 0),
            Job("post_payment", 300), Job("close_folio", 0), Job("apply_room_charges", 700)}

TwoCharges == {Job("add_line_item", 200)}
=============================================================================
