----------------------------- MODULE MCBookingTxn -----------------------------
(* A small desk under overlapping requests: two reservations, two rooms. *)
EXTENDS BookingTxn, TLC

CONSTANTS x1, x2, a, b, g, double

OneExtra == {100}
NoAmounts == {}

Create(x, room) ==
    [op |-> "create_reservation", stay |-> x, guest |-> g, room |-> room,
     check_in_date |-> 2, check_out_date |-> 4, party |-> 1]

Change(x, patch) == [op |-> "update_reservation", stay |-> x, patch |-> patch]

Ask(op, x) == [op |-> op, stay |-> x]

\* Either reservation may be booked into the other's room or moved there, take
\* its guest in or see it off; one may be called off, the other not turn up; an
\* arrival may be brought forward; staff may close or open the first room.
SomeJobs ==
    {Create(x1, a), Create(x2, a), Create(x2, b),
     Change(x1, [room_id |-> b]), Change(x2, [room_id |-> a]), Change(x2, [check_in_date |-> 2]),
     Ask("cancel_reservation", x1), Ask("mark_no_show", x2)}
    \cup {Ask(op, x) : op \in {"check_in", "check_out"}, x \in {x1, x2}}
    \cup {[op |-> "update_room_status", room |-> a, status |-> status] :
            status \in {"available", "maintenance"}}
=============================================================================
