---------------------------- MODULE Ldm5Notifyme ----------------------------
(***************************************************************************)
(* The LDM-5 client as notifyme uses it: main()'s "try forever" loop       *)
(* (src/notifyme/notifyme.c), forn5() and forn_signon()                     *)
(* (src/protocol2/ldm5_clnt.c), and the dispatch routine notifymeprog_5()  *)
(* that the turned-around connection runs.                                 *)
(*                                                                         *)
(* A product class is abstracted to its set of feedtypes and its "from"    *)
(* time; products are numbered by arrival time.  The upstream LDM is the   *)
(* environment.  It is not in the repository; it answers NOTIFYME the way  *)
(* an upstream that restricts requests to its allowed feedtypes does: OK  *)
(* when the request is allowed, else RECLASS to the allowed part (empty   *)
(* when nothing is allowed), and it notifies products of the accepted class *)
(* in arrival order, from the class's "from" time on.  Besides, any call   *)
(* may fail, the upstream may be shutting down, the connection may break  *)
(* or go silent, and svcfd_create()/svc_register() may fail; these faults  *)
(* are counted, up to MaxFailures.  exitIfDone(), one_svc_run() and h_clnt  *)
(* are not in the repository: exitIfDone() exits when done is set and      *)
(* returns nonzero otherwise; one_svc_run() dispatches calls until the     *)
(* connection is closed (ECONNRESET) or is silent (ETIMEDOUT).             *)
(***************************************************************************)
EXTENDS Naturals, FiniteSets

CONSTANTS Feeds,        \* feedtypes
          Request,      \* the feedtypes of notifyme's class (-f)
          Allowed,      \* the feedtypes the upstream allows this host
          NProds,       \* products 1..NProds, in arrival order
          Feed,         \* Feed[p]: the feedtype of product p
          MaxFailures,  \* bound on connection and call faults
          None          \* no session, call or request

Prods == 1..NProds

ASSUME Request \subseteq Feeds /\ Allowed \subseteq Feeds
ASSUME Feed \in [Prods -> Feeds] /\ MaxFailures \in Nat

VARIABLES pc,        \* notifyme's process
          done,      \* done, set by signal_handler() on SIGINT or SIGTERM
          from,      \* clss.from: arrival time of the next wanted product
          clssp,     \* the class forn_signon() sends: [ft, from]
          code,      \* reply.code of the last NOTIFYME reply
          session,   \* the upstream's notifying session: [cls, next], or None
          call,      \* the upstream's outstanding call: [proc, p], or None
          rq,        \* the call notifymeprog_5() is handling: [proc, p, replies]
          reported,  \* products logged by notifymeprog_5()
          status,    \* forn5()'s status, as main() sees it
          failures   \* faults so far

vars == <<pc, done, from, clssp, code, session, call, rq, reported,
          status, failures>>

Class == [ft : SUBSET Feeds, from : 1..NProds + 1]
Procs == {"NULLPROC", "NOTIFICATION"}
Statuses == {"0", "ECONNABORTED", "ECONNRESET", "ETIMEDOUT", "ECONNREFUSED"}

TypeOK ==
  /\ pc \in {"loop", "signon", "register", "serve", "noproc", "sleep",
             "exited"}
  /\ done \in BOOLEAN /\ from \in 1..NProds + 1
  /\ clssp \in Class /\ code \in {"OK", "RECLASS"}
  /\ session \in [cls : Class, next : 1..NProds + 1] \cup {None}
  /\ call \in [proc : Procs, p : Prods] \cup {None}
  /\ rq \in [proc : Procs, p : Prods, replies : 0..2] \cup {None}
  /\ reported \subseteq Prods
  /\ status \in Statuses /\ failures \in 0..MaxFailures

(* clss is built from the options, with "from" at the oldest product. *)
Init ==
  /\ pc = "loop" /\ done = FALSE /\ from = 1
  /\ clssp = [ft |-> Request, from |-> 1] /\ code = "OK"
  /\ session = None /\ call = None /\ rq = None
  /\ reported = {} /\ status = "0" /\ failures = 0

(* A fault happens only while fewer than MaxFailures have. *)
Fault == failures < MaxFailures /\ failures' = failures + 1

(* Every exitIfDone() call: exit when done. *)
Exit == pc' = "exited"

(* The products the upstream still has to notify in a session. *)
Remaining(s) == {p \in Prods : p >= s.next /\ p >= s.cls.from
                                /\ Feed[p] \in s.cls.ft}

-----------------------------------------------------------------------------
(* main(): while (exitIfDone(0)) { clssp = &clss; forn5(...) }.  forn5()'s *)
(* adjustByLastInfo() leaves the class alone: notifyme saves no product    *)
(* information, so savedInfo_get() is NULL.  forn_signon() starts with     *)
(* reply.code = OK, so clssp = *reqpp.                                     *)
Loop ==
  /\ pc = "loop"
  /\ IF done
     THEN Exit /\ UNCHANGED <<clssp, code>>
     ELSE /\ pc' = "signon"
          /\ clssp' = [ft |-> Request, from |-> from] /\ code' = "OK"
  /\ UNCHANGED <<done, from, session, call, rq, reported, status,
                 failures>>

(* The upstream's reply to NOTIFYME for class c. *)
UpReply(c) ==
  IF c.ft \subseteq Allowed THEN "OK" ELSE "RECLASS"

SignOn ==
  /\ pc = "signon"
  /\ \/ /\ Fault
        /\ \E s \in {"ETIMEDOUT", "ECONNABORTED", "ECONNREFUSED"} :
             status' = s
        /\ pc' = IF done THEN "exited" ELSE "sleep"
        /\ UNCHANGED <<clssp, code, session>>
     \/ /\ UpReply(clssp) = "OK"
        /\ pc' = IF done THEN "exited" ELSE "register"
        /\ code' = "OK" /\ status' = "0"
        /\ session' = [cls |-> clssp, next |-> 1]
        /\ UNCHANGED <<clssp, failures>>
     \/ /\ UpReply(clssp) = "RECLASS"
        /\ LET allow == [clssp EXCEPT !.ft = @ \cap Allowed] IN
             IF allow.ft = {}
             THEN /\ status' = "ECONNREFUSED"
                  /\ pc' = IF done THEN "exited" ELSE "sleep"
                  /\ UNCHANGED <<clssp, code>>
             ELSE /\ clssp' = allow /\ code' = "RECLASS"
                  /\ pc' = IF done THEN "exited" ELSE "signon"
                  /\ UNCHANGED status
        /\ UNCHANGED <<session, failures>>
  /\ UNCHANGED <<done, from, call, rq, reported>>

(* forn5(): if (exitIfDone(0) && status == 0), svcfd_create() and          *)
(* svc_register().  If either fails, status stays 0, the socket is closed, *)
(* and main() takes "case 0" and signs on again at once.                   *)
Register ==
  /\ pc = "register"
  /\ \/ done /\ Exit /\ UNCHANGED <<session, failures>>
     \/ ~done /\ pc' = "serve" /\ UNCHANGED <<session, failures>>
     \/ ~done /\ Fault /\ pc' = "loop" /\ session' = None
  /\ UNCHANGED <<done, from, clssp, code, call, rq, reported, status>>

-----------------------------------------------------------------------------
(* The upstream calls NOTIFICATION for its next product of the class, or   *)
(* NULLPROC when it has nothing to send.                                   *)
UpCall ==
  /\ session # None /\ call = None
  /\ IF Remaining(session) # {}
     THEN LET p == CHOOSE q \in Remaining(session) :
                      \A r \in Remaining(session) : q <= r
          IN call' = [proc |-> "NOTIFICATION", p |-> p]
     ELSE call' = [proc |-> "NULLPROC", p |-> NProds]
  /\ UNCHANGED <<pc, done, from, clssp, code, session, rq, reported,
                 status, failures>>

(* notifymeprog_5() for the call one_svc_run() read.  NULLPROC: one reply.  *)
(* NOTIFICATION: exitIfDone(0); clss.from = notice.arrival, then           *)
(* timestamp_incr(); log; svc_sendreply(); then, with no break, on to the   *)
(* default case.                                                            *)
Dispatch ==
  /\ pc = "serve" /\ call # None /\ rq = None
  /\ IF call.proc = "NULLPROC"
     THEN /\ rq' = [proc |-> "NULLPROC", p |-> call.p, replies |-> 1]
          /\ UNCHANGED <<pc, from, reported>>
     ELSE IF done
     THEN Exit /\ UNCHANGED <<rq, from, reported>>
     ELSE /\ from' = call.p + 1
          /\ reported' = reported \cup {call.p}
          /\ rq' = [proc |-> "NOTIFICATION", p |-> call.p, replies |-> 1]
          /\ pc' = "noproc"
  /\ UNCHANGED <<done, clssp, code, session, call, status, failures>>

(* exitIfDone(0), svc_freeargs(), and the default case: svcerr_noproc().    *)
NoProc ==
  /\ pc = "noproc"
  /\ IF done
     THEN Exit /\ UNCHANGED rq
     ELSE /\ rq' = [rq EXCEPT !.replies = @ + 1]
          /\ pc' = "serve"
  /\ UNCHANGED <<done, from, clssp, code, session, call, reported,
                 status, failures>>

(* The upstream reads the reply to its call and goes on with the next      *)
(* product; one_svc_run() waits for the next call.                         *)
UpReplied ==
  /\ pc = "serve" /\ rq # None /\ call # None
  /\ session' = [session EXCEPT !.next = call.p + 1]
  /\ call' = None /\ rq' = None
  /\ UNCHANGED <<pc, done, from, clssp, code, reported, status,
                 failures>>

(* one_svc_run() returns: the upstream closed the connection (ECONNRESET;  *)
(* svc_getreqset() destroyed the transport), or it was silent for          *)
(* inactive_timeo (ETIMEDOUT; forn5() calls svc_destroy()).  Silence with  *)
(* products left, and a closed connection, are faults.                     *)
ServeEnds ==
  /\ pc = "serve" /\ rq = None /\ call = None
  /\ \E s \in {"ECONNRESET", "ETIMEDOUT"} :
       /\ status' = s
       /\ IF s = "ETIMEDOUT" /\ Remaining(session) = {}
          THEN UNCHANGED failures
          ELSE Fault
  /\ pc' = IF done THEN "exited" ELSE "sleep"
  /\ session' = None
  /\ UNCHANGED <<done, from, clssp, code, call, rq, reported>>

(* main(): sleep(interval) after ECONNABORTED, ECONNRESET, ETIMEDOUT or    *)
(* ECONNREFUSED, then the loop.                                            *)
Sleep ==
  /\ pc = "sleep"
  /\ pc' = "loop"
  /\ UNCHANGED <<done, from, clssp, code, session, call, rq, reported,
                 status, failures>>

(* signal_handler(): SIGINT or SIGTERM sets done. *)
Signal ==
  /\ ~done /\ pc # "exited"
  /\ done' = TRUE
  /\ UNCHANGED <<pc, from, clssp, code, session, call, rq, reported,
                 status, failures>>

Notifyme == Loop \/ SignOn \/ Register \/ Dispatch \/ NoProc \/ Sleep
             \/ ServeEnds
Upstream == UpCall \/ UpReplied

Next == Notifyme \/ Upstream \/ Signal

(* notifyme and the upstream are processes the OS schedules.  Signals     *)
(* need not come; faults are bounded by MaxFailures.                       *)
Spec == Init /\ [][Next]_vars /\ WF_vars(Notifyme) /\ WF_vars(Upstream)

-----------------------------------------------------------------------------
(* The products of the request that the upstream allows.  *)
Wanted == {p \in Prods : Feed[p] \in Request \cap Allowed}

OneReplyPerCall == rq # None => rq.replies <= 1
=============================================================================
