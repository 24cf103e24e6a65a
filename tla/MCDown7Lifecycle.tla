------------------------- MODULE MCDown7Lifecycle -------------------------
(* Instantiates Down7Lifecycle for TLC. *)
EXTENDS Down7Lifecycle
=============================================================================
