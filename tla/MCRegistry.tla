------------------------------ MODULE MCRegistry ------------------------------
(* Two names, two rows and a third to come; rows that swap names;
   reservations of one guest. *)
EXTENDS Registry, TLC

CONSTANTS i1, i2, i3, n1, n2
=============================================================================
