------------------------------- MODULE MCHotel -------------------------------
(* Small instances of Hotel.  Reservations, rooms and guests are             *)
(* interchangeable: no definition of the model picks one of them.            *)
EXTENDS Hotel, TLC

CONSTANTS r1, r2, a, b, g1, g2, standard

Symmetric == Permutations(Folios) \cup Permutations(Rooms) \cup Permutations(Guests)

\* Nobody posts a line by hand; a payment is one night or none at all.
NoAmounts == {}
OneNight == {100}
=============================================================================
