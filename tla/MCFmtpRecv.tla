------------------------------ MODULE MCFmtpRecv ------------------------------
(* Three products across the prodindex wraparound (W = 3: 6, 7, 0): two  *)
(* of one segment, so that a whole product can be lost and gap detection  *)
(* requests it, and a last one of two segments, for gaps inside a product. *)
EXTENDS FmtpRecv

MCSizes == <<1, 1, 2>>
=============================================================================
