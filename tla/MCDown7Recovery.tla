-------------------------- MODULE MCDown7Recovery --------------------------
(* Instantiates Down7Recovery for TLC. *)
EXTENDS Down7Recovery

CONSTANTS p1, p2, p3

MCProds == {p1, p2, p3}
=============================================================================
