------------------------------ MODULE MCSessions ------------------------------
(* A small instance of Sessions: an account, a token and three requests. *)
EXTENDS Sessions

CONSTANTS u1, old, new
=============================================================================
