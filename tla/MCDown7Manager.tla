---------------------------- MODULE MCDown7Manager ----------------------------
EXTENDS Down7Manager

CONSTANTS f1, f2, f3

(* Three multicast feeds. *)
MCFeeds == {f1, f2, f3}
=============================================================================
