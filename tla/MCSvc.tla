-------------------------------- MODULE MCSvc --------------------------------
EXTENDS Svc

CONSTANTS d1, d2

(* LDMPROG and another program, LDM versions SIX and SEVEN. *)
MCProgs == {300029, 300030}
MCVers == {6, 7}
MCDisps == {d1, d2}
=============================================================================
