------------------------------- MODULE Future -------------------------------
(***************************************************************************)
(* The future of an asynchronous job (src/misc/Future.c): a mutex, a       *)
(* condition variable, and the job's results.  The job's thread calls      *)
(* future_setResult() once; client threads call future_cancel(),           *)
(* future_getResult(), future_getAndFree() or future_free().               *)
(*                                                                         *)
(* The executor that owns the job (job_cancel(), the run function) is not  *)
(* part of the repository: a cancelled job may still complete normally,   *)
(* and only a cancelled job completes with wasCanceled.                    *)
(***************************************************************************)
EXTENDS Naturals

CONSTANTS Clients,    \* client threads
          Mode,       \* Mode[c]: "get", "getAndFree" or "free"
          Values,     \* results of the run function
          NoOutcome

Runner == "runner"    \* the job's thread
NULL == "NULL"        \* future->result before future_setResult()
None == "none"

VARIABLES owner,       \* holder of future->mutex, or None
          haveResults, runStatus, result, wasCanceled,  \* the fields
          cancelReq,   \* job_cancel() has been called
          rpc,         \* the job's thread: "run" or "done"
          pc,          \* pc[c]: where client c is
          gout,        \* gout[c]: what future_getResult() returned to c
          freed,       \* future_destroy() and free() done
          usedFreed    \* a thread used the future after it was freed

vars == <<owner, haveResults, runStatus, result, wasCanceled, cancelReq, rpc,
          pc, gout, freed, usedFreed>>

Outcomes == Values \cup {"EPERM", "ECANCELED"}

(* future_getResult()'s status and result: ECANCELED, else EPERM for a     *)
(* nonzero run status, else 0 and future->result.                          *)
Outcome == IF wasCanceled THEN "ECANCELED"
           ELSE IF runStatus # 0 THEN "EPERM" ELSE result

Pcs == {"start", "lock", "check", "wait", "relock", "free", "destroy", "end"}

TypeOK ==
  /\ owner \in Clients \cup {Runner, None}
  /\ haveResults \in BOOLEAN /\ runStatus \in {0, 1}
  /\ result \in Values \cup {NULL} /\ wasCanceled \in BOOLEAN
  /\ cancelReq \in BOOLEAN /\ rpc \in {"run", "done"}
  /\ pc \in [Clients -> Pcs]
  /\ gout \in [Clients -> Outcomes \cup {NULL, NoOutcome}]
  /\ freed \in BOOLEAN /\ usedFreed \in BOOLEAN

(* future_new() and future_init(). *)
Init ==
  /\ owner = None
  /\ haveResults = FALSE /\ runStatus = 0 /\ result = NULL
  /\ wasCanceled = FALSE
  /\ cancelReq = FALSE /\ rpc = "run"
  /\ pc = [c \in Clients |-> "start"]
  /\ gout = [c \in Clients |-> NoOutcome]
  /\ freed = FALSE /\ usedFreed = FALSE

(* A thread touching the future: after free() that is a use after free.   *)
Touch == usedFreed' = (usedFreed \/ freed)

-----------------------------------------------------------------------------
(* A future_setResult() that signals instead of broadcasting: one waiting *)
(* client is woken.                                                        *)
SetResultSignal ==
  /\ rpc = "run" /\ owner = None
  /\ \E rs \in {0, 1}, v \in Values, c \in BOOLEAN :
       /\ c => cancelReq
       /\ runStatus' = rs /\ result' = v /\ wasCanceled' = c
  /\ haveResults' = TRUE
  /\ IF \E c \in Clients : pc[c] = "wait"
     THEN \E w \in {c \in Clients : pc[c] = "wait"} :
            pc' = [pc EXCEPT ![w] = "relock"]
     ELSE UNCHANGED pc
  /\ rpc' = "done"
  /\ Touch
  /\ UNCHANGED <<owner, cancelReq, gout, freed>>

(* future_setResult(): under the mutex, store the results, set            *)
(* haveResults and broadcast, which wakes every waiting client.            *)
SetResult ==
  /\ rpc = "run" /\ owner = None
  /\ \E rs \in {0, 1}, v \in Values, c \in BOOLEAN :
       /\ c => cancelReq
       /\ runStatus' = rs /\ result' = v /\ wasCanceled' = c
  /\ haveResults' = TRUE
  /\ pc' = [c \in Clients |-> IF pc[c] = "wait" THEN "relock" ELSE pc[c]]
  /\ rpc' = "done"
  /\ Touch
  /\ UNCHANGED <<owner, cancelReq, gout, freed>>

(* future_cancel(): job_cancel(future->job), read without the mutex. *)
Cancel(c) ==
  /\ pc[c] = "start" /\ ~cancelReq
  /\ cancelReq' = TRUE
  /\ Touch
  /\ UNCHANGED <<owner, haveResults, runStatus, result, wasCanceled, rpc, pc,
                 gout, freed>>

(* A client begins its call: future_getResult() (alone or inside          *)
(* future_getAndFree()) waits for the mutex; future_free() starts.         *)
Begin(c) ==
  /\ pc[c] = "start"
  /\ pc' = [pc EXCEPT ![c] = IF Mode[c] = "free" THEN "free" ELSE "lock"]
  /\ UNCHANGED <<owner, haveResults, runStatus, result, wasCanceled,
                 cancelReq, rpc, gout, freed, usedFreed>>

(* A future_wait() with "if" for "while": after pthread_cond_wait()       *)
(* returns, the results are read without testing haveResults again.        *)
LockNoRecheck(c) ==
  /\ pc[c] \in {"lock", "relock"} /\ owner = None
  /\ IF pc[c] = "relock"
     THEN /\ gout' = [gout EXCEPT ![c] = Outcome]
          /\ pc' = [pc EXCEPT ![c] = IF Mode[c] = "getAndFree"
                                     THEN "free" ELSE "end"]
          /\ UNCHANGED owner
     ELSE owner' = c /\ pc' = [pc EXCEPT ![c] = "check"] /\ UNCHANGED gout
  /\ Touch
  /\ UNCHANGED <<haveResults, runStatus, result, wasCanceled, cancelReq, rpc,
                 freed>>

(* future_lock(), or pthread_cond_wait() reacquiring the mutex. *)
Lock(c) ==
  /\ pc[c] \in {"lock", "relock"} /\ owner = None
  /\ owner' = c
  /\ pc' = [pc EXCEPT ![c] = "check"]
  /\ Touch
  /\ UNCHANGED <<haveResults, runStatus, result, wasCanceled, cancelReq, rpc,
                 gout, freed>>

(* future_wait()'s loop test: without results, pthread_cond_wait()        *)
(* releases the mutex and waits; with them, future_getResult() reads the  *)
(* outcome and unlocks.  future_getAndFree() then calls future_free().     *)
Check(c) ==
  /\ pc[c] = "check"
  /\ owner' = None
  /\ IF haveResults
     THEN /\ gout' = [gout EXCEPT ![c] = Outcome]
          /\ pc' = [pc EXCEPT ![c] = IF Mode[c] = "getAndFree"
                                     THEN "free" ELSE "end"]
     ELSE /\ pc' = [pc EXCEPT ![c] = "wait"]
          /\ UNCHANGED gout
  /\ Touch
  /\ UNCHANGED <<haveResults, runStatus, result, wasCanceled, cancelReq, rpc,
                 freed>>

(* pthread_cond_wait() may return without a broadcast. *)
SpuriousWakeup(c) ==
  /\ pc[c] = "wait"
  /\ pc' = [pc EXCEPT ![c] = "relock"]
  /\ UNCHANGED <<owner, haveResults, runStatus, result, wasCanceled,
                 cancelReq, rpc, gout, freed, usedFreed>>

(* future_free(): under the mutex, EINVAL unless haveResults ("Future's   *)
(* job is being executed"); otherwise, after unlocking, future_destroy()   *)
(* and free().                                                             *)
FreeCheck(c) ==
  /\ pc[c] = "free" /\ owner = None
  /\ pc' = [pc EXCEPT ![c] = IF haveResults THEN "destroy" ELSE "end"]
  /\ Touch
  /\ UNCHANGED <<owner, haveResults, runStatus, result, wasCanceled,
                 cancelReq, rpc, gout, freed>>

Destroy(c) ==
  /\ pc[c] = "destroy"
  /\ freed' = TRUE
  /\ pc' = [pc EXCEPT ![c] = "end"]
  /\ Touch
  /\ UNCHANGED <<owner, haveResults, runStatus, result, wasCanceled,
                 cancelReq, rpc, gout>>

Client(c) ==
  \/ Cancel(c) \/ Begin(c) \/ Lock(c) \/ Check(c) \/ FreeCheck(c)
  \/ Destroy(c)

Next ==
  \/ SetResult
  \/ \E c \in Clients : Client(c) \/ SpuriousWakeup(c)

(* Threads are scheduled; a thread waiting for the mutex, the job's      *)
(* thread included, gets it when it is free infinitely often.  Spurious   *)
(* wakeups need not happen.                                                *)
Fairness ==
  /\ SF_vars(SetResult)
  /\ \A c \in Clients : SF_vars(Client(c))

Spec == Init /\ [][Next]_vars /\ Fairness

-----------------------------------------------------------------------------
(* The refinement mapping: the outcome exists once haveResults is set. *)
Abs == INSTANCE FutureSpec WITH
         Getters <- {c \in Clients : Mode[c] # "free"},
         outcome <- IF haveResults THEN Outcome ELSE NoOutcome,
         got <- [c \in {d \in Clients : Mode[d] # "free"} |-> gout[c]]

(* The mutex and condition variable implement the abstract future: the    *)
(* outcome is set once, is ECANCELED only after future_cancel(), and every *)
(* client's future_getResult() returns that outcome (safety part).         *)
FutureSafe == Abs!SafeSpec

(* ...and every client's future_getResult() eventually returns: no        *)
(* wakeup by future_setResult() is lost (liveness part).                   *)
FutureLive == Abs!Spec

(* future_free() never frees the future while another thread (the job's   *)
(* future_setResult() or a client) will still lock or read it.  It holds   *)
(* for the job's thread, which future_free()'s EINVAL keeps out; a client   *)
(* still waiting in future_getResult() is not protected (see the README).   *)
NoUseAfterFree == ~usedFreed
=============================================================================
