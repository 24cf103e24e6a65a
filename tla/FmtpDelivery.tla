----------------------------- MODULE FmtpDelivery -----------------------------
(***************************************************************************)
(* What the FMTP v3 receiver promises its application, per product index  *)
(* (spec.md sections 3, 4.D and 8): a product is first unknown, becomes   *)
(* live when the receiver learns of it (a BOP, or a DATA/EOP or gap that  *)
(* puts it in the missing-BOP set), and then ends exactly once, either    *)
(* delivered to the application or reported missed, or is cancelled when *)
(* the receiver shuts down.  No product comes back after it has ended,   *)
(* and a live product does not stay live.                                 *)
(***************************************************************************)
CONSTANT Products

VARIABLE status

States == {"none", "live", "delivered", "missed", "cancelled"}

TypeOK == status \in [Products -> States]

Init == status = [i \in Products |-> "none"]

(* The receiver learns of a set of products at once: a BOP opens its own *)
(* product and notes the indices skipped before it.                       *)
Observe(S) ==
  /\ S # {}
  /\ \A i \in S : status[i] = "none"
  /\ status' = [i \in Products |-> IF i \in S THEN "live" ELSE status[i]]

Deliver(i) ==
  /\ status[i] = "live"
  /\ status' = [status EXCEPT ![i] = "delivered"]

Miss(i) ==
  /\ status[i] = "live"
  /\ status' = [status EXCEPT ![i] = "missed"]

(* The receiver shuts down: every live product is cancelled at once.      *)
Cancel ==
  status' = [i \in Products |-> IF status[i] = "live" THEN "cancelled"
                                                     ELSE status[i]]

Next == \/ \E S \in SUBSET Products : Observe(S)
        \/ \E i \in Products : Deliver(i) \/ Miss(i)
        \/ Cancel

(* A live product is eventually delivered or missed. *)
Spec == /\ Init /\ [][Next]_status
        /\ \A i \in Products : WF_status(Deliver(i) \/ Miss(i))

=============================================================================
