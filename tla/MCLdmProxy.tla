------------------------------ MODULE MCLdmProxy ------------------------------
(* Four products around the packet size of 2: one of DBUFMAX, one packet  *)
(* more, an exact multiple and an empty one; an LDM-6 may announce a      *)
(* max_hereis below or above them.                                        *)
EXTENDS LdmProxy

MCSize == <<2, 3, 4, 0>>

=============================================================================
