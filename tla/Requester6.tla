------------------------------ MODULE Requester6 ------------------------------
(***************************************************************************)
(* The LDM-6 requester (src/protocol2/requester6.c): req6_new() adjusts    *)
(* the request by the last saved product, connects to the upstream LDM,    *)
(* negotiates the class with FEEDME (make_request()), turns the connection *)
(* around and serves it (run_service()), asking the upstream whether it is *)
(* alive when the connection goes silent (is_upstream_alive()); req6_close()*)
(* closes the sockets from a signal handler.                               *)
(*                                                                         *)
(* Products and classes are abstracted away: what is kept is every call's  *)
(* outcome and the resources each path holds.  The upstream LDM, down6,   *)
(* one_svc_run(), the RPC transports, ldm_clnttcp_create_vers() and the    *)
(* caller of req6_new() are not in the repository and are the environment. *)
(* svc_destroy() frees the transport and closes its socket but does not    *)
(* remove the callout (as ONC RPC's TCP transport, and src/rpc/svc.c's      *)
(* svc_register() then accepts the same dispatcher again).  The caller     *)
(* calls req6_new() again unless done is set; the signal handler sets done *)
(* and may call req6_close().                                              *)
(***************************************************************************)
EXTENDS Naturals

VARIABLES pc,            \* the requester's process
          done,          \* done, set by the signal handler
          saved,         \* savedInfo_get() is not NULL
          feedCls,       \* feedpar.prod_class: "request" or the RECLASS one
          result,        \* the error object req6_new() returns (its code)
          clnt,          \* the data connection's CLIENT
          dataSocket,    \* dataSocket >= 0
          dataOpen,      \* the data connection's descriptor is open
          xprt,          \* run_service()'s transport: "none", "live", "freed"
          destroys,      \* svc_destroy() calls on that transport
          registered,    \* the (LDMPROG, SIX, ldmprog_6) callout exists
          down6,         \* the down6 module: "none", "init", "destroyed"
          svcErr,        \* what one_svc_run() returned
          isAliveSocket, \* isAliveSocket >= 0
          aliveOpen      \* the IS_ALIVE connection's descriptor is open

vars == <<pc, done, saved, feedCls, result, clnt, dataSocket, dataOpen, xprt,
          destroys, registered, down6, svcErr, isAliveSocket, aliveOpen>>

Results == {"NULL", "REQ6_TIMED_OUT", "REQ6_UNKNOWN_HOST", "REQ6_BAD_VERSION",
            "REQ6_NO_CONNECT", "REQ6_DISCONNECT", "REQ6_BAD_PATTERN",
            "REQ6_NOT_ALLOWED", "REQ6_BAD_RECLASS", "REQ6_SYSTEM_ERROR",
            "ENOMEM"}

Pcs == {"adjust", "connect", "request", "feedme", "service", "serve",
        "served", "alive", "isalive", "release", "returned", "exited"}

TypeOK ==
  /\ pc \in Pcs /\ done \in BOOLEAN /\ saved \in BOOLEAN
  /\ feedCls \in {"request", "reclass"} /\ result \in Results
  /\ clnt \in {"none", "live", "freed"}
  /\ dataSocket \in BOOLEAN /\ dataOpen \in BOOLEAN
  /\ xprt \in {"none", "live", "freed"} /\ destroys \in 0..2
  /\ registered \in BOOLEAN /\ down6 \in {"none", "init", "destroyed"}
  /\ svcErr \in {"0", "ETIMEDOUT", "ECONNRESET", "EBADF"}
  /\ isAliveSocket \in BOOLEAN /\ aliveOpen \in BOOLEAN

(* A fresh call of req6_new(); savedInfo and the callout are process state. *)
CallState ==
  /\ pc' = "adjust" /\ result' = "NULL" /\ feedCls' = "request"
  /\ clnt' = "none" /\ xprt' = "none" /\ destroys' = 0 /\ down6' = "none"
  /\ svcErr' = "0"

Init ==
  /\ pc = "adjust" /\ done = FALSE /\ saved = FALSE /\ feedCls = "request"
  /\ result = "NULL" /\ clnt = "none" /\ dataSocket = FALSE
  /\ dataOpen = FALSE /\ xprt = "none" /\ destroys = 0
  /\ registered = FALSE /\ down6 = "none" /\ svcErr = "0"
  /\ isAliveSocket = FALSE /\ aliveOpen = FALSE

(* exitIfDone() when done is set: the process exits. *)
Exit ==
  /\ pc' = "exited"
  /\ UNCHANGED <<done, saved, feedCls, result, clnt, dataSocket, dataOpen,
                 xprt, destroys, registered, down6, svcErr, isAliveSocket,
                 aliveOpen>>

-----------------------------------------------------------------------------
(* newSigClass(): allocating the class, copying the prototype or          *)
(* allocating the "SIG=" pattern buffer can fail.                          *)
NewSigClass == {"0", "ENOMEM"}

(* adjustByLastInfo(): without saved information the request is            *)
(* duplicated; with it, an arrival time of TS_NONE is EINVAL, else the     *)
(* signature class is made.                                                *)
AdjustByLastInfo ==
  IF saved THEN {"EINVAL"} \cup NewSigClass ELSE {"0", "ENOMEM"}

(* req6_new(): any adjustByLastInfo() error becomes REQ6_SYSTEM_ERROR. *)
Req6NewAdjust ==
  /\ pc = "adjust"
  /\ \E e \in AdjustByLastInfo :
       IF e = "0" THEN pc' = "connect" /\ UNCHANGED result
       ELSE pc' = "returned" /\ result' = "REQ6_SYSTEM_ERROR"
  /\ UNCHANGED <<done, saved, feedCls, clnt, dataSocket, dataOpen, xprt,
                 destroys, registered, down6, svcErr, isAliveSocket,
                 aliveOpen>>

(* The REQ6 code req6_new() returns for an ldm_clnttcp_create_vers()       *)
(* failure.                                                                *)
ClntCreateError ==
  [LDM_CLNT_UNKNOWN_HOST |-> "REQ6_UNKNOWN_HOST",
   LDM_CLNT_TIMED_OUT    |-> "REQ6_TIMED_OUT",
   LDM_CLNT_BAD_VERSION  |-> "REQ6_BAD_VERSION",
   LDM_CLNT_NO_CONNECT   |-> "REQ6_NO_CONNECT",
   LDM_CLNT_SYSTEM_ERROR |-> "REQ6_SYSTEM_ERROR"]

(* req6_new(): ldm_clnttcp_create_vers() gives the client and dataSocket, *)
(* or fails and its code is translated.                                    *)
Req6NewConnect ==
  /\ pc = "connect"
  /\ \/ /\ clnt' = "live" /\ dataSocket' = TRUE /\ dataOpen' = TRUE
        /\ pc' = "request"
        /\ UNCHANGED result
     \/ /\ \E e \in DOMAIN ClntCreateError : result' = ClntCreateError[e]
        /\ pc' = "returned"
        /\ UNCHANGED <<clnt, dataSocket, dataOpen>>
  /\ UNCHANGED <<done, saved, feedCls, xprt, destroys, registered, down6,
                 svcErr, isAliveSocket, aliveOpen>>
-----------------------------------------------------------------------------
(* make_request(): duplicating the class for feedpar can fail; the error  *)
(* object then carries errno.                                              *)
MakeRequestStart ==
  /\ pc = "request"
  /\ \/ pc' = "feedme" /\ UNCHANGED result
     \/ pc' = "release" /\ result' = "ENOMEM"
  /\ UNCHANGED <<done, saved, feedCls, clnt, dataSocket, dataOpen, xprt,
                 destroys, registered, down6, svcErr, isAliveSocket,
                 aliveOpen>>

(* The error make_request() returns for each FEEDME outcome that ends the  *)
(* loop with one: no reply, BADPATTERN, a RECLASS to the empty class, a    *)
(* RECLASS whose from or to is TS_NONE, and a clone that can't be made.    *)
FeedmeError ==
  [noReply       |-> "REQ6_DISCONNECT",
   BADPATTERN    |-> "REQ6_BAD_PATTERN",
   RECLASS_EMPTY |-> "REQ6_NOT_ALLOWED",
   RECLASS_NONE  |-> "REQ6_BAD_RECLASS",
   RECLASS_NOMEM |-> "REQ6_SYSTEM_ERROR"]

(* One iteration of make_request()'s loop: exitIfDone(0), then feedme_6(). *)
(* OK ends the loop and req6_new() calls run_service(); a valid RECLASS    *)
(* replaces feedpar.prod_class by its clone and asks again.  A closed      *)
(* socket gets no reply.                                                   *)
MakeRequest ==
  /\ pc = "feedme"
  /\ IF done
     THEN Exit
     ELSE /\ \/ /\ dataOpen
                /\ pc' = "service" /\ UNCHANGED <<feedCls, result>>
             \/ /\ dataOpen
                /\ feedCls' = "reclass" /\ UNCHANGED <<pc, result>>
             \/ /\ \E r \in DOMAIN FeedmeError :
                     /\ dataOpen \/ r = "noReply"
                     /\ result' = FeedmeError[r]
                /\ pc' = "release" /\ UNCHANGED feedCls
          /\ UNCHANGED <<done, saved, clnt, dataSocket, dataOpen, xprt,
                         destroys, registered, down6, svcErr, isAliveSocket,
                         aliveOpen>>

-----------------------------------------------------------------------------
(* svc_destroy(): frees the transport and closes its socket. *)
SvcDestroy ==
  /\ xprt' = "freed" /\ destroys' = destroys + 1 /\ dataOpen' = FALSE

(* run_service() leaves its loop with an error: down6_destroy(), then      *)
(* svc_destroy() unless one_svc_run() already destroyed the transport.      *)
LeaveService(err, destroyTransport) ==
  /\ down6' = "destroyed" /\ result' = err /\ pc' = "release"
  /\ IF destroyTransport THEN SvcDestroy
     ELSE UNCHANGED <<xprt, destroys, dataOpen>>

(* run_service() up to its loop: svcfd_create(), svc_register() (which     *)
(* fails only when mem_alloc() does, and finds the callout an earlier call *)
(* left), down6_init() and down6_set_prod_class(); the first that fails    *)
(* gives REQ6_SYSTEM_ERROR and undoes what was done.                        *)
RunService ==
  /\ pc = "service"
  /\ \/ /\ result' = "REQ6_SYSTEM_ERROR" /\ pc' = "release"  \* svcfd_create
        /\ UNCHANGED <<xprt, destroys, dataOpen, registered, down6>>
     \/ /\ ~registered                                        \* svc_register
        /\ result' = "REQ6_SYSTEM_ERROR" /\ pc' = "release"
        /\ SvcDestroy /\ UNCHANGED <<registered, down6>>
     \/ /\ result' = "REQ6_SYSTEM_ERROR" /\ pc' = "release"  \* down6_init
        /\ registered' = TRUE /\ SvcDestroy /\ UNCHANGED down6
     \/ /\ registered' = TRUE                           \* down6_set_prod_class
        /\ LeaveService("REQ6_SYSTEM_ERROR", TRUE)
     \/ /\ registered' = TRUE /\ xprt' = "live" /\ down6' = "init"
        /\ pc' = "serve" /\ UNCHANGED <<result, destroys, dataOpen>>
  /\ UNCHANGED <<done, saved, feedCls, clnt, dataSocket, svcErr,
                 isAliveSocket, aliveOpen>>

(* one_svc_run() on dataSocket: as_shouldSwitch() (0), silence for         *)
(* inactiveTimeout (ETIMEDOUT), or a closed connection (ECONNRESET), for   *)
(* which svc_getreqset() destroyed the transport; on a closed descriptor   *)
(* EBADF.  Meanwhile down6 may save a received product's information.     *)
OneSvcRun ==
  /\ pc = "serve"
  /\ \E e \in IF dataOpen THEN {"0", "ETIMEDOUT", "ECONNRESET"}
              ELSE {"EBADF"} :
       /\ svcErr' = e
       /\ IF e = "ECONNRESET" THEN SvcDestroy
          ELSE UNCHANGED <<xprt, destroys, dataOpen>>
  /\ saved' \in {saved, TRUE}
  /\ pc' = "served"
  /\ UNCHANGED <<done, feedCls, result, clnt, dataSocket, registered, down6,
                 isAliveSocket, aliveOpen>>

(* A run_service() that destroys the transport after every error, also    *)
(* after ECONNRESET, when one_svc_run() has already destroyed it.          *)
RunServiceLoopDestroysTwice ==
  /\ pc = "served"
  /\ IF done
     THEN Exit
     ELSE /\ CASE svcErr = "ETIMEDOUT" ->
                    pc' = "alive"
                    /\ UNCHANGED <<down6, result, xprt, destroys, dataOpen>>
               [] svcErr = "0" -> LeaveService("NULL", TRUE)
               [] OTHER -> LeaveService("REQ6_DISCONNECT", TRUE)
          /\ UNCHANGED <<done, saved, feedCls, clnt, dataSocket, registered,
                         svcErr, isAliveSocket, aliveOpen>>

(* A run_service() without the exitIfDone(0) after one_svc_run(). *)
RunServiceLoopNoExit ==
  /\ pc = "served"
  /\ CASE svcErr = "ETIMEDOUT" ->
            pc' = "alive"
            /\ UNCHANGED <<down6, result, xprt, destroys, dataOpen>>
       [] svcErr = "0" -> LeaveService("NULL", TRUE)
       [] OTHER -> LeaveService("REQ6_DISCONNECT", FALSE)
  /\ UNCHANGED <<done, saved, feedCls, clnt, dataSocket, registered,
                 svcErr, isAliveSocket, aliveOpen>>

(* run_service()'s loop after one_svc_run(): exitIfDone(0); ETIMEDOUT asks *)
(* is_upstream_alive(); any other error is REQ6_DISCONNECT and the         *)
(* transport is taken as destroyed; 0 leaves with no error.                 *)
RunServiceLoop ==
  /\ pc = "served"
  /\ IF done
     THEN Exit
     ELSE /\ CASE svcErr = "ETIMEDOUT" ->
                    pc' = "alive"
                    /\ UNCHANGED <<down6, result, xprt, destroys, dataOpen>>
               [] svcErr = "0" -> LeaveService("NULL", TRUE)
               [] OTHER -> LeaveService("REQ6_DISCONNECT", FALSE)
          /\ UNCHANGED <<done, saved, feedCls, clnt, dataSocket, registered,
                         svcErr, isAliveSocket, aliveOpen>>

(* is_upstream_alive(): if the host lookup fails or the host has another   *)
(* address, the upstream is dead (REQ6_TIMED_OUT).  Otherwise               *)
(* clnttcp_create() with isAliveSocket = RPC_ANYSOCK: a failure assumes    *)
(* the upstream alive and run_service() waits again.                       *)
IsUpstreamAlive ==
  /\ pc = "alive"
  /\ \/ LeaveService("REQ6_TIMED_OUT", TRUE)
        /\ UNCHANGED <<isAliveSocket, aliveOpen>>
     \/ /\ pc' = "serve"
        /\ UNCHANGED <<down6, result, xprt, destroys, dataOpen, isAliveSocket,
                       aliveOpen>>
     \/ /\ isAliveSocket' = TRUE /\ aliveOpen' = TRUE /\ pc' = "isalive"
        /\ UNCHANGED <<down6, result, xprt, destroys, dataOpen>>
  /\ UNCHANGED <<done, saved, feedCls, clnt, dataSocket, registered, svcErr>>

(* is_upstream_alive(), connected: is_alive_6(); no reply assumes the      *)
(* upstream alive, else the reply says.  clnt_destroy() closes the socket, *)
(* then close(isAliveSocket) and isAliveSocket = -1.  A dead upstream is   *)
(* REQ6_TIMED_OUT, a live one is waited for again.                          *)
IsAlive6 ==
  /\ pc = "isalive"
  /\ \E reply \in IF aliveOpen THEN {"none", "TRUE", "FALSE"} ELSE {"none"} :
       IF reply = "FALSE"
       THEN LeaveService("REQ6_TIMED_OUT", TRUE)
       ELSE pc' = "serve" /\ UNCHANGED <<down6, result, xprt, destroys, dataOpen>>
  /\ isAliveSocket' = FALSE /\ aliveOpen' = FALSE
  /\ UNCHANGED <<done, saved, feedCls, clnt, dataSocket, registered, svcErr>>

(* req6_new() after make_request() or run_service(): auth_destroy() and    *)
(* clnt_destroy(), close(dataSocket) (it might already be closed),         *)
(* dataSocket = -1, and free_prod_class().                                  *)
Req6NewRelease ==
  /\ pc = "release"
  /\ clnt' = "freed" /\ dataOpen' = FALSE /\ dataSocket' = FALSE
  /\ pc' = "returned"
  /\ UNCHANGED <<done, saved, feedCls, result, xprt, destroys, registered,
                 down6, svcErr, isAliveSocket, aliveOpen>>

(* req6_close(), from a signal handler: closes dataSocket and              *)
(* isAliveSocket if they are >= 0 and sets them to -1.                     *)
Req6Close ==
  /\ dataSocket' = FALSE /\ isAliveSocket' = FALSE
  /\ dataOpen' = (dataOpen /\ ~dataSocket)
  /\ aliveOpen' = (aliveOpen /\ ~isAliveSocket)

-----------------------------------------------------------------------------
(* The caller of req6_new() calls it again unless done is set. *)
Caller ==
  /\ pc = "returned"
  /\ IF done THEN Exit
     ELSE /\ CallState
          /\ UNCHANGED <<done, saved, dataSocket, dataOpen, registered,
                         isAliveSocket, aliveOpen>>

(* SIGTERM or SIGINT: the handler sets done, and may call req6_close(). *)
Signal ==
  /\ ~done /\ pc # "exited"
  /\ done' = TRUE
  /\ \/ Req6Close
     \/ UNCHANGED <<dataSocket, dataOpen, isAliveSocket, aliveOpen>>
  /\ UNCHANGED <<pc, saved, feedCls, result, clnt, xprt, destroys, registered,
                 down6, svcErr>>

Requester ==
  \/ Req6NewAdjust \/ Req6NewConnect \/ MakeRequestStart \/ MakeRequest
  \/ RunService \/ OneSvcRun \/ RunServiceLoop \/ IsUpstreamAlive
  \/ IsAlive6 \/ Req6NewRelease \/ Caller

Next == Requester \/ Signal

(* The requester is one process the OS keeps scheduling; signals need not  *)
(* come.                                                                    *)
Spec == Init /\ [][Next]_vars /\ WF_vars(Requester)

-----------------------------------------------------------------------------
(* Whatever path req6_new() takes, when it returns it holds nothing: the   *)
(* run_service() transport was destroyed, and never twice (one_svc_run()   *)
(* destroys it on ECONNRESET, run_service() on every other exit), down6 is *)
(* destroyed, the client is destroyed and both sockets are closed.         *)
ReleasedOnReturn ==
  /\ destroys <= 1
  /\ pc = "returned" =>
       /\ xprt # "live" /\ down6 # "init" /\ clnt # "live"
       /\ ~dataSocket /\ ~dataOpen /\ ~isAliveSocket /\ ~aliveOpen

(* Once the signal handler has set done, the requester exits: every loop   *)
(* of make_request() and run_service() calls exitIfDone(), whatever the    *)
(* upstream answers and whether or not req6_close() was called.            *)
SignalEndsRequester == done ~> pc = "exited"
=============================================================================
