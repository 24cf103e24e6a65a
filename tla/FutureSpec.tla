----------------------------- MODULE FutureSpec -----------------------------
(***************************************************************************)
(* What a future promises (src/misc/Future.c): its job completes once, with *)
(* a result, a failure or a cancellation, and cancellation is only the      *)
(* outcome if cancellation was requested; every thread that asks for the    *)
(* outcome eventually gets that same outcome.                               *)
(***************************************************************************)
CONSTANTS Getters,   \* threads calling future_getResult()
          Values,    \* results of the job's run function
          NoOutcome  \* no outcome yet

(* 0 with a result (one of Values), EPERM (nonzero run status) or         *)
(* ECANCELED.                                                              *)
Outcomes == Values \cup {"EPERM", "ECANCELED"}

VARIABLES outcome,     \* the job's outcome, or NoOutcome
          cancelReq,   \* future_cancel() has been called
          got          \* got[g]: what future_getResult() returned to g

vars == <<outcome, cancelReq, got>>

Init ==
  /\ outcome = NoOutcome
  /\ cancelReq = FALSE
  /\ got = [g \in Getters |-> NoOutcome]

Cancel ==
  /\ cancelReq' = TRUE
  /\ UNCHANGED <<outcome, got>>

Complete(o) ==
  /\ outcome = NoOutcome
  /\ o = "ECANCELED" => cancelReq
  /\ outcome' = o
  /\ UNCHANGED <<cancelReq, got>>

Get(g) ==
  /\ outcome # NoOutcome /\ got[g] = NoOutcome
  /\ got' = [got EXCEPT ![g] = outcome]
  /\ UNCHANGED <<outcome, cancelReq>>

Next ==
  \/ Cancel
  \/ \E o \in Outcomes : Complete(o)
  \/ \E g \in Getters : Get(g)

SafeSpec == Init /\ [][Next]_vars

Spec == SafeSpec /\ WF_vars(\E o \in Outcomes : Complete(o))
                 /\ \A g \in Getters : WF_vars(Get(g))
=============================================================================
