---------------------------- MODULE MCLdm5Notifyme ----------------------------
EXTENDS Ldm5Notifyme

CONSTANTS f1, f2

(* Two feedtypes; notifyme asks for both, the upstream allows only f1, so  *)
(* the first NOTIFYME is reclassified.                                     *)
MCFeeds == {f1, f2}
MCRequest == {f1, f2}
MCAllowed == {f1}

(* Four products, three of them wanted, one of them not allowed. *)
MCFeed == [p \in 1..4 |-> IF p = 2 THEN f2 ELSE f1]
=============================================================================
