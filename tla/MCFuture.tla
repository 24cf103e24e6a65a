------------------------------ MODULE MCFuture ------------------------------
EXTENDS Future, TLC

CONSTANTS c1, c2, c3, v1, v2

(* Three clients: one cancels and frees the future without waiting, one    *)
(* waits for the result, one waits for it and then frees the future.       *)
MCClients == {c1, c2, c3}
MCMode == (c1 :> "free") @@ (c2 :> "get") @@ (c3 :> "getAndFree")

MCValues == {v1, v2}
=============================================================================
