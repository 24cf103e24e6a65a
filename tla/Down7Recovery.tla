--------------------------- MODULE Down7Recovery ---------------------------
(***************************************************************************)
(* Recovery of data-products missed by the multicast receiver of a        *)
(* downstream LDM-7 (src/mcast_lib/C/down7.c).                             *)
(*                                                                         *)
(* The multicast receiver reports a missed product index with             *)
(* down7_missedProduct(), which appends it to the missed-but-not-requested *)
(* queue of the multicast receiver memory (mrm).  The request task         *)
(* (startRequestTask/makeRequest) moves it to the requested-but-not-       *)
(* received queue and sends REQUEST_PRODUCT to the upstream LDM-7.  The    *)
(* unicast receive task (startUcastRecvTask/run_svc) dispatches the        *)
(* upstream's replies to deliver_missed_product_7_svc() and                *)
(* no_such_product_7_svc(), which accept a reply only if it names the head *)
(* of the requested queue.  A session is one subscription: when a task    *)
(* ends, reapRecvTasks() shuts the executor down, and down7_start() starts *)
(* a new session.  The mrm queues belong to the Down7 object and outlive   *)
(* sessions; the connection and the messages on it do not.                 *)
(*                                                                         *)
(* The request task, the unicast task (testing the connection when poll() *)
(* times out) and the backlog task share the upstream proxy (Up7Proxy) and *)
(* its RPC client under the proxy's mutex.  An RPC write that fails        *)
(* destroys the client (up7proxy_destroyClient), and up7proxy_lock()       *)
(* asserts that the client exists.  The first product the multicast        *)
(* receiver receives (down7_lastReceived) submits the backlog task         *)
(* (requestSessionBacklog) if the Down7's mcastWorking flag is still       *)
(* clear; down7_new() clears it.                                           *)
(***************************************************************************)
EXTENDS Naturals, Sequences, SequencesExt

CONSTANTS
  Prods,        \* product indexes the multicast receiver may miss
  MaxSessions,  \* bound on the number of sessions of down7_start()'s loop
  NoProd        \* the request task holds no product index

ASSUME MaxSessions \in Nat \ {0} /\ NoProd \notin Prods

Tasks == {"request", "ucast", "mcast", "backlog"}

(* Executor job states: not submitted ("idle", only the backlog task),    *)
(* running, completed with result 0 ("ok"), completed                      *)
(* with LDM7_SYSTEM ("sys") or another nonzero result ("fail"),          *)
(* cancelled by exe_shutdown() ("stopped"), and freed by reapRecvTasks()  *)
(* ("reaped", or "severe" when its LDM7_SYSTEM became the session's       *)
(* status, which makes down7_start() break out of its loop).              *)
JobStates == {"idle", "running", "ok", "fail", "sys", "stopped", "reaped",
              "severe"}

(* Messages from the upstream: a missed product (DELIVER_MISSED_PRODUCT),  *)
(* NO_SUCH_PRODUCT, a backlog product (DELIVER_BACKLOG_PRODUCT) and        *)
(* END_BACKLOG; the last two carry no requested index.                     *)
Replies == [kind : {"prod", "nosuch"}, prod : Prods]
             \cup [kind : {"backlog", "end"}, prod : {NoProd}]

VARIABLES
  missedQ,     \* mrm missed-but-not-requested queue
  requestedQ,  \* mrm requested-but-not-received queue
  missedShut,  \* mrm_shutDownMissedFiles() was called in this session
  rtPc,        \* where the request task is in makeRequest()
  rtProd,      \* the product index makeRequest() peeked
  conn,        \* the TCP connection to the upstream LDM-7: "up" or "down"
  wrShut,      \* shutdown(sock, SHUT_WR) was called by stopRequestTask()
  toUp,        \* REQUEST_PRODUCT messages on their way upstream
  fromUp,      \* replies on their way downstream
  job,         \* executor state of each receiving task
  exeDown,     \* exe_shutdown() was called in this session
  session,     \* number of the current session
  reported,    \* history: indexes passed to down7_missedProduct()
  inserted,    \* indexes inserted into the product-queue by deliver_product()
  missing,     \* history: indexes the upstream declared nonexistent
  unexpected,  \* history: deliveryFailure("Unexpected product received")
  clnt,        \* the proxy's RPC client: "ok", or "none" once destroyed
  mcastWorking,\* Down7 field: a product was received via multicast
  recvd,       \* down7_lastReceived() was called in this session
  aborted,     \* up7proxy_lock()'s log_assert(proxy->clnt != NULL) failed
  dropped,     \* history: requested indexes deliver_product() did not insert
  backlogAsked,\* REQUEST_BACKLOG reached the upstream and is not answered
  ucastPc      \* the unicast task: "start" (creating its transport) or "serve"

vars == <<missedQ, requestedQ, missedShut, rtPc, rtProd, conn, wrShut, toUp,
          fromUp, job, exeDown, session, reported, inserted, missing, unexpected,
          clnt, mcastWorking, recvd, aborted, dropped, backlogAsked,
          ucastPc>>

proxyVars == <<clnt, mcastWorking, recvd, aborted>>

deliveryVars == <<dropped, backlogAsked, ucastPc>>

(* The jobs of a new session: the backlog task is not yet submitted. *)
NewJobs == [t \in Tasks |-> IF t = "backlog" THEN "idle" ELSE "running"]

TypeOK ==
  /\ missedQ \in Seq(Prods)
  /\ requestedQ \in Seq(Prods)
  /\ missedShut \in BOOLEAN /\ wrShut \in BOOLEAN /\ exeDown \in BOOLEAN
  /\ rtPc \in {"peek", "add", "remove", "send"}
  /\ rtProd \in Prods \cup {NoProd}
  /\ conn \in {"up", "down"}
  /\ toUp \in Seq(Prods)
  /\ fromUp \in Seq(Replies)
  /\ job \in [Tasks -> JobStates]
  /\ session \in 1..MaxSessions
  /\ reported \subseteq Prods
  /\ inserted \subseteq Prods /\ missing \subseteq Prods
  /\ unexpected \in BOOLEAN
  /\ clnt \in {"ok", "none"}
  /\ mcastWorking \in BOOLEAN /\ recvd \in BOOLEAN /\ aborted \in BOOLEAN
  /\ dropped \subseteq Prods /\ backlogAsked \in BOOLEAN
  /\ ucastPc \in {"start", "serve"}

(* A session as down7_start() begins it: subscribed, three tasks running. *)
SessionInit ==
  /\ missedShut' = FALSE
  /\ rtPc' = "peek"
  /\ rtProd' = NoProd
  /\ conn' = "up"
  /\ wrShut' = FALSE
  /\ toUp' = <<>>
  /\ fromUp' = <<>>
  /\ job' = NewJobs
  /\ exeDown' = FALSE
  /\ clnt' = "ok"
  /\ recvd' = FALSE
  /\ backlogAsked' = FALSE
  /\ ucastPc' = "start"

Init ==
  /\ missedQ = <<>>
  /\ requestedQ = <<>>
  /\ missedShut = FALSE
  /\ rtPc = "peek"
  /\ rtProd = NoProd
  /\ conn = "up"
  /\ wrShut = FALSE
  /\ toUp = <<>>
  /\ fromUp = <<>>
  /\ job = NewJobs
  /\ exeDown = FALSE
  /\ session = 1
  /\ reported = {}
  /\ inserted = {}
  /\ missing = {}
  /\ unexpected = FALSE
  /\ clnt = "ok"
  /\ mcastWorking = FALSE
  /\ recvd = FALSE
  /\ aborted = FALSE
  /\ dropped = {}
  /\ backlogAsked = FALSE
  /\ ucastPc = "start"

-----------------------------------------------------------------------------
(* exe_shutdown() as reapRecvTasks() calls it: the stop function of the    *)
(* request task (stopRequestTask) shuts the missed queue and the write     *)
(* side of the socket down, the unicast task, which has no stop function,  *)
(* and the backlog task, which has none either, are cancelled, and        *)
(* stopMcastRecvTask() makes the multicast task return.                    *)
ShutdownJobs(j) ==
  [t \in Tasks |-> IF j[t] # "running" THEN j[t]
                   ELSE CASE t \in {"ucast", "backlog"} -> "stopped"
                          [] t = "mcast" -> "fail"
                          [] OTHER -> j[t]]

(* down7_missedProduct(): the multicast receiver, running as the mcast     *)
(* task, appends a missed product index to the missed queue.              *)
MissedProduct(p) ==
  /\ job["mcast"] = "running"
  /\ p \notin reported
  /\ missedQ' = Append(missedQ, p)
  /\ reported' = reported \cup {p}
  /\ UNCHANGED <<requestedQ, missedShut, rtPc, rtProd, conn, wrShut, toUp,
                 fromUp, job, exeDown, session, inserted, missing,
                 unexpected>>
  /\ UNCHANGED proxyVars /\ UNCHANGED deliveryVars

(* A makeRequest() that peeks with mrm_peekMissedFileNoWait() and so     *)
(* does not wait for an entry.                                             *)
MakeRequestPeekNoWait ==
  /\ job["request"] = "running"
  /\ rtPc = "peek"
  /\ \/ /\ missedShut
        /\ job' = [job EXCEPT !["request"] = "fail"]
        /\ UNCHANGED <<rtPc, rtProd>>
     \/ /\ ~missedShut
        /\ rtProd' = IF missedQ # <<>> THEN Head(missedQ) ELSE NoProd
        /\ rtPc' = "add"
        /\ UNCHANGED job
  /\ UNCHANGED <<missedQ, requestedQ, missedShut, conn, wrShut, toUp, fromUp,
                 exeDown, session, reported, inserted, missing, unexpected>>
  /\ UNCHANGED proxyVars /\ UNCHANGED deliveryVars

(* makeRequest(): mrm_peekMissedFileWait() blocks until the missed queue   *)
(* has an entry or is shut down; in the latter case the task returns       *)
(* LDM7_SHUTDOWN.                                                          *)
MakeRequestPeek ==
  /\ job["request"] = "running"
  /\ rtPc = "peek"
  /\ \/ /\ missedShut
        /\ job' = [job EXCEPT !["request"] = "fail"]
        /\ UNCHANGED <<rtPc, rtProd>>
     \/ /\ ~missedShut
        /\ missedQ # <<>>
        /\ rtProd' = Head(missedQ)
        /\ rtPc' = "add"
        /\ UNCHANGED job
  /\ UNCHANGED <<missedQ, requestedQ, missedShut, conn, wrShut, toUp, fromUp,
                 exeDown, session, reported, inserted, missing, unexpected>>
  /\ UNCHANGED proxyVars /\ UNCHANGED deliveryVars

(* An mrm_addRequestedFile() that pushes onto the front of the queue.     *)
MakeRequestAddFront ==
  /\ job["request"] = "running"
  /\ rtPc = "add"
  /\ requestedQ' = <<rtProd>> \o requestedQ
  /\ rtPc' = "remove"
  /\ UNCHANGED <<missedQ, missedShut, rtProd, conn, wrShut, toUp, fromUp, job,
                 exeDown, session, reported, inserted, missing, unexpected>>
  /\ UNCHANGED proxyVars /\ UNCHANGED deliveryVars

(* makeRequest(): mrm_addRequestedFile() before the index leaves the       *)
(* missed queue; if it fails, the task returns LDM7_SYSTEM.                *)
MakeRequestAdd ==
  /\ job["request"] = "running"
  /\ rtPc = "add"
  /\ \/ /\ requestedQ' = Append(requestedQ, rtProd)
        /\ rtPc' = "remove"
        /\ UNCHANGED job
     \/ /\ job' = [job EXCEPT !["request"] = "sys"]
        /\ UNCHANGED <<requestedQ, rtPc>>
  /\ UNCHANGED <<missedQ, missedShut, rtProd, conn, wrShut, toUp, fromUp,
                 exeDown, session, reported, inserted, missing, unexpected>>
  /\ UNCHANGED proxyVars /\ UNCHANGED deliveryVars

(* makeRequest(): mrm_removeMissedFileNoWait() removes the peeked head;    *)
(* only this task removes from the missed queue.                          *)
MakeRequestRemove ==
  /\ job["request"] = "running"
  /\ rtPc = "remove"
  /\ missedQ' = Tail(missedQ)
  /\ rtPc' = "send"
  /\ UNCHANGED <<requestedQ, missedShut, rtProd, conn, wrShut, toUp, fromUp,
                 job, exeDown, session, reported, inserted, missing, unexpected>>
  /\ UNCHANGED proxyVars /\ UNCHANGED deliveryVars

(* up7proxy_lock(): log_assert(proxy->clnt != NULL) aborts the process    *)
(* when an earlier RPC failure destroyed the client.                       *)
Up7ProxyLockFails ==
  /\ clnt = "none"
  /\ aborted' = TRUE
  /\ UNCHANGED <<missedQ, requestedQ, missedShut, rtPc, rtProd, conn, wrShut,
                 toUp, fromUp, job, exeDown, session, reported, inserted,
                 missing, unexpected, clnt, mcastWorking, recvd>>
  /\ UNCHANGED deliveryVars

(* A write the RPC layer refuses: up7proxy_destroyClient() and LDM7_RPC,   *)
(* which ends task t.                                                      *)
RpcWriteFails(t) ==
  /\ clnt' = "none"
  /\ job' = [job EXCEPT ![t] = "fail"]

(* A startRequestTask() whose loop ends after the first successful        *)
(* request.                                                                *)
RequestProductOnce ==
  /\ job["request"] = "running"
  /\ rtPc = "send"
  /\ clnt = "ok"
  /\ \/ /\ conn = "up" /\ ~wrShut
        /\ toUp' = Append(toUp, rtProd)
        /\ rtPc' = "peek" /\ rtProd' = NoProd
        /\ job' = [job EXCEPT !["request"] = "ok"]
        /\ UNCHANGED clnt
     \/ /\ conn = "down" \/ wrShut
        /\ RpcWriteFails("request")
        /\ UNCHANGED <<toUp, rtPc, rtProd>>
  /\ UNCHANGED <<missedQ, requestedQ, missedShut, conn, wrShut, fromUp,
                 exeDown, session, reported, inserted, missing, unexpected,
                 mcastWorking, recvd, aborted>>
  /\ UNCHANGED deliveryVars

(* up7proxy_requestProduct(): the asynchronous RPC is written to the       *)
(* socket.  On a live connection it reaches the upstream; on a dead one    *)
(* the write either fails (LDM7_RPC, the task returns) or is accepted by   *)
(* the kernel and lost.  After SHUT_WR the write fails.  On success the    *)
(* task loops back to makeRequest().  A failed write destroys the client. *)
RequestProduct ==
  /\ job["request"] = "running"
  /\ rtPc = "send"
  /\ \/ Up7ProxyLockFails
     \/ /\ clnt = "ok"
        /\ \/ /\ conn = "up" /\ ~wrShut
              /\ toUp' = Append(toUp, rtProd)
              /\ rtPc' = "peek" /\ rtProd' = NoProd
              /\ UNCHANGED <<job, clnt>>
           \/ /\ conn = "down" /\ ~wrShut
              /\ rtPc' = "peek" /\ rtProd' = NoProd
              /\ UNCHANGED <<toUp, job, clnt>>
           \/ /\ conn = "down" \/ wrShut
              /\ RpcWriteFails("request")
              /\ UNCHANGED <<toUp, rtPc, rtProd>>
        /\ UNCHANGED <<missedQ, requestedQ, missedShut, conn, wrShut, fromUp,
                       exeDown, session, reported, inserted, missing,
                       unexpected, mcastWorking, recvd, aborted>>
        /\ UNCHANGED deliveryVars

(* The upstream LDM-7 answers requests in the order it reads them, with    *)
(* the product or with NO_SUCH_PRODUCT.                                    *)
UpstreamReply ==
  /\ conn = "up"
  /\ toUp # <<>>
  /\ \E kind \in {"prod", "nosuch"} :
       fromUp' = Append(fromUp, [kind |-> kind, prod |-> Head(toUp)])
  /\ toUp' = Tail(toUp)
  /\ UNCHANGED <<missedQ, requestedQ, missedShut, rtPc, rtProd, conn, wrShut,
                 job, exeDown, session, reported, inserted, missing, unexpected>>
  /\ UNCHANGED proxyVars /\ UNCHANGED deliveryVars

(* The requested queue's head, as mrm_peekRequestedFileNoWait() sees it.   *)
IsRequestedHead(p) == requestedQ # <<>> /\ Head(requestedQ) = p

(* deliver_product(): pq_insert()'s outcomes.  0 and PQUEUE_DUP leave the *)
(* product in the queue; a product too big for the queue is dropped; both  *)
(* return 0.  EINVAL is returned as LDM7_SYSTEM.                           *)
DeliverProduct ==
  {[inQueue |-> TRUE, status |-> "0"],
   [inQueue |-> FALSE, status |-> "0"],
   [inQueue |-> FALSE, status |-> "LDM7_SYSTEM"]}

(* deliveryFailure(): svcerr_systemerr() and svc_destroy() close the       *)
(* socket, so what is in flight is lost, and run_svc(), finding its        *)
(* transport gone, returns 0.                                              *)
DeliveryFailure ==
  /\ conn' = "down" /\ toUp' = <<>> /\ fromUp' = <<>>
  /\ job' = [job EXCEPT !["ucast"] = "ok"]

(* createUcastRecvXprt() fails: getpeername() (LDM7_SYSTEM) or           *)
(* svcfd_create() (LDM7_RPC); the socket stays open.                       *)
CreateUcastRecvXprtFails ==
  /\ \E res \in {"sys", "fail"} : job' = [job EXCEPT !["ucast"] = res]
  /\ UNCHANGED <<ucastPc, conn, toUp, fromUp>>

(* run_down7_svc()'s pthread_setspecific() fails (LDM7_SYSTEM), or, in    *)
(* startUcastRecvTask(), svc_register() does (LDM7_RPC): svc_destroy()     *)
(* closes the socket and the task returns the error.                       *)
UcastXprtDestroyed ==
  /\ \E res \in {"sys", "fail"} : job' = [job EXCEPT !["ucast"] = res]
  /\ conn' = "down" /\ toUp' = <<>> /\ fromUp' = <<>>
  /\ UNCHANGED ucastPc

(* startUcastRecvTask() before it serves: it creates and registers the     *)
(* transport, and run_down7_svc() hands it to run_svc().                   *)
UcastStart ==
  /\ job["ucast"] = "running" /\ ucastPc = "start"
  /\ \/ /\ ucastPc' = "serve"
        /\ UNCHANGED <<conn, toUp, fromUp, job>>
     \/ CreateUcastRecvXprtFails
     \/ UcastXprtDestroyed
  /\ UNCHANGED <<missedQ, requestedQ, missedShut, rtPc, rtProd, wrShut,
                 exeDown, session, reported, inserted, missing, unexpected,
                 dropped, backlogAsked>>
  /\ UNCHANGED proxyVars

(* The upstream LDM-7 answers REQUEST_BACKLOG with the backlog products   *)
(* and END_BACKLOG; one backlog product stands for all of them.            *)
UpstreamBacklog ==
  /\ conn = "up"
  /\ backlogAsked
  /\ fromUp' = fromUp \o <<[kind |-> "backlog", prod |-> NoProd],
                           [kind |-> "end", prod |-> NoProd]>>
  /\ backlogAsked' = FALSE
  /\ UNCHANGED <<missedQ, requestedQ, missedShut, rtPc, rtProd, conn, wrShut,
                 toUp, job, exeDown, session, reported, inserted, missing,
                 unexpected, dropped, ucastPc>>
  /\ UNCHANGED proxyVars

(* deliver_missed_product_7_svc(), dispatched by run_svc() on the unicast  *)
(* task.  A product that is not the head of the requested queue goes to    *)
(* deliveryFailure().  Otherwise the head is removed from the requested    *)
(* queue before deliver_product() is called, and a failed insertion also  *)
(* goes to deliveryFailure().                                              *)
DeliverMissedProduct ==
  /\ job["ucast"] = "running" /\ ucastPc = "serve"
  /\ fromUp # <<>>
  /\ Head(fromUp).kind = "prod"
  /\ LET p == Head(fromUp).prod IN
       IF IsRequestedHead(p)
       THEN /\ requestedQ' = Tail(requestedQ)
            /\ \E d \in DeliverProduct :
                 /\ inserted' = IF d.inQueue THEN inserted \cup {p} ELSE inserted
                 /\ dropped' = IF d.inQueue THEN dropped ELSE dropped \cup {p}
                 /\ IF d.status = "0"
                    THEN /\ fromUp' = Tail(fromUp)
                         /\ UNCHANGED <<conn, toUp, job>>
                    ELSE DeliveryFailure
            /\ UNCHANGED unexpected
       ELSE /\ unexpected' = TRUE
            /\ DeliveryFailure
            /\ UNCHANGED <<requestedQ, inserted, dropped>>
  /\ UNCHANGED <<missedQ, missedShut, rtPc, rtProd, wrShut, exeDown, session,
                 reported, missing, backlogAsked, ucastPc>>
  /\ UNCHANGED proxyVars

(* deliver_backlog_product_7_svc(): deliver_product(), and                 *)
(* deliveryFailure() if it fails.                                          *)
DeliverBacklogProduct ==
  /\ job["ucast"] = "running" /\ ucastPc = "serve"
  /\ fromUp # <<>>
  /\ Head(fromUp).kind = "backlog"
  /\ \E d \in DeliverProduct :
       IF d.status = "0"
       THEN /\ fromUp' = Tail(fromUp)
            /\ UNCHANGED <<conn, toUp, job>>
       ELSE DeliveryFailure
  /\ UNCHANGED <<missedQ, requestedQ, missedShut, rtPc, rtProd, wrShut,
                 exeDown, session, reported, inserted, missing, unexpected>>
  /\ UNCHANGED proxyVars /\ UNCHANGED deliveryVars

(* end_backlog_7_svc() only logs that the backlog is complete. *)
EndBacklog ==
  /\ job["ucast"] = "running" /\ ucastPc = "serve"
  /\ fromUp # <<>>
  /\ Head(fromUp).kind = "end"
  /\ fromUp' = Tail(fromUp)
  /\ UNCHANGED <<missedQ, requestedQ, missedShut, rtPc, rtProd, conn, wrShut,
                 toUp, job, exeDown, session, reported, inserted, missing,
                 unexpected>>
  /\ UNCHANGED proxyVars /\ UNCHANGED deliveryVars

(* A no_such_product_7_svc() that removes the head without comparing it.  *)
NoSuchProductUnchecked ==
  /\ job["ucast"] = "running" /\ ucastPc = "serve"
  /\ fromUp # <<>>
  /\ Head(fromUp).kind = "nosuch"
  /\ requestedQ' = Tail(requestedQ)
  /\ missing' = missing \cup {Head(fromUp).prod}
  /\ fromUp' = Tail(fromUp)
  /\ UNCHANGED <<missedQ, missedShut, rtPc, rtProd, conn, wrShut, toUp, job,
                 exeDown, session, reported, inserted, unexpected>>
  /\ UNCHANGED proxyVars /\ UNCHANGED deliveryVars

(* no_such_product_7_svc(): a notice for the head of the requested queue   *)
(* removes it; any other notice is only logged.                            *)
NoSuchProduct ==
  /\ job["ucast"] = "running" /\ ucastPc = "serve"
  /\ fromUp # <<>>
  /\ Head(fromUp).kind = "nosuch"
  /\ LET p == Head(fromUp).prod IN
       IF IsRequestedHead(p)
       THEN requestedQ' = Tail(requestedQ) /\ missing' = missing \cup {p}
       ELSE UNCHANGED <<requestedQ, missing>>
  /\ fromUp' = Tail(fromUp)
  /\ UNCHANGED <<missedQ, missedShut, rtPc, rtProd, conn, wrShut, toUp, job,
                 exeDown, session, reported, inserted, unexpected>>
  /\ UNCHANGED proxyVars /\ UNCHANGED deliveryVars

(* The connection to the upstream LDM-7 breaks (the upstream closes it, or *)
(* the network fails); what is in flight is lost.                          *)
ConnectionLost ==
  /\ conn = "up"
  /\ conn' = "down" /\ toUp' = <<>> /\ fromUp' = <<>>
  /\ UNCHANGED <<missedQ, requestedQ, missedShut, rtPc, rtProd, wrShut, job,
                 exeDown, session, reported, inserted, missing, unexpected>>
  /\ UNCHANGED proxyVars /\ UNCHANGED deliveryVars

(* up7proxy_testConnection(), which run_svc() calls when poll() times out *)
(* on the dead connection: it locks the proxy, and a failed test returns  *)
(* LDM7_RPC without destroying the client.                                 *)
TestConnection ==
  \/ Up7ProxyLockFails
  \/ /\ clnt = "ok"
     /\ job' = [job EXCEPT !["ucast"] = "fail"]
     /\ UNCHANGED aborted

(* run_svc() ends on a dead connection: on POLLHUP/POLLERR or a transport  *)
(* the RPC layer destroyed it returns 0; when poll() times out, the        *)
(* failed connection test returns LDM7_RPC.                                *)
RunSvcEnds ==
  /\ job["ucast"] = "running" /\ ucastPc = "serve"
  /\ conn = "down"
  /\ \/ /\ job' = [job EXCEPT !["ucast"] = "ok"]
        /\ UNCHANGED aborted
     \/ TestConnection
  /\ UNCHANGED <<missedQ, requestedQ, missedShut, rtPc, rtProd, conn, wrShut,
                 toUp, fromUp, exeDown, session, reported, inserted, missing,
                 unexpected, clnt, mcastWorking, recvd>>
  /\ UNCHANGED deliveryVars

(* reapRecvTasks(): takes a completed job from the executor; a stopped job *)
(* or one with a nonzero result makes it call exe_shutdown() and, being   *)
(* the first, sets the session's status.  A job that returned 0 does not. *)
ReapRecvTask(t) ==
  /\ job[t] \in {"ok", "fail", "sys", "stopped"}
  /\ IF job[t] # "ok" /\ ~exeDown
     THEN /\ exeDown' = TRUE
          /\ missedShut' = TRUE
          /\ wrShut' = TRUE
          /\ job' = [ShutdownJobs(job) EXCEPT
                       ![t] = IF job[t] = "sys" THEN "severe" ELSE "reaped"]
     ELSE /\ job' = [job EXCEPT ![t] = "reaped"]
          /\ UNCHANGED <<exeDown, missedShut, wrShut>>
  /\ UNCHANGED <<missedQ, requestedQ, rtPc, rtProd, conn, toUp, fromUp,
                 session, reported, inserted, missing, unexpected>>
  /\ UNCHANGED proxyVars /\ UNCHANGED deliveryVars

(* down7_lastReceived(): the multicast receiver, on the mcast task,        *)
(* reports a received product.  If mcastWorking is clear, it sets it and   *)
(* submits requestSessionBacklog() to the executor.  Later calls of the    *)
(* session change nothing the model tracks.                                *)
LastReceived ==
  /\ job["mcast"] = "running"
  /\ ~recvd
  /\ recvd' = TRUE
  /\ mcastWorking' = TRUE
  /\ job' = IF mcastWorking THEN job ELSE [job EXCEPT !["backlog"] = "running"]
  /\ UNCHANGED <<missedQ, requestedQ, missedShut, rtPc, rtProd, conn, wrShut,
                 toUp, fromUp, exeDown, session, reported, inserted, missing,
                 unexpected, clnt, aborted>>
  /\ UNCHANGED deliveryVars

(* up7proxy_requestSessionBacklog(): locks the proxy and writes the       *)
(* asynchronous REQUEST_BACKLOG.  A write the kernel accepts returns 0,     *)
(* whether or not the connection is alive (only on a live one does it      *)
(* reach the upstream); a refused write destroys the client and returns    *)
(* LDM7_RPC.                                                               *)
Up7ProxyRequestSessionBacklog ==
  \/ Up7ProxyLockFails
  \/ /\ clnt = "ok"
     /\ \/ /\ ~wrShut
           /\ job' = [job EXCEPT !["backlog"] = "ok"]
           /\ backlogAsked' = (conn = "up")
           /\ UNCHANGED clnt
        \/ /\ conn = "down" \/ wrShut
           /\ RpcWriteFails("backlog")
           /\ UNCHANGED backlogAsked
     /\ UNCHANGED <<missedQ, requestedQ, missedShut, rtPc, rtProd, conn,
                    wrShut, toUp, fromUp, exeDown, session, reported,
                    inserted, missing, unexpected, mcastWorking, recvd,
                    aborted, dropped, ucastPc>>

(* requestSessionBacklog(), the backlog task: it fills the BacklogSpec     *)
(* (the previous session's last multicast product, if any, this session's *)
(* first one and the time offset, data the model abstracts) and returns   *)
(* what up7proxy_requestSessionBacklog() returns.                          *)
RequestSessionBacklog ==
  /\ job["backlog"] = "running"
  /\ Up7ProxyRequestSessionBacklog

(* runDown7Once() returns once every job is reaped, and down7_start(),     *)
(* the state still being DOWN7_EXECUTING and the status not LDM7_SYSTEM    *)
(* (a "severe" job), naps and subscribes anew: a new connection and new    *)
(* tasks, but the same mrm.                                                *)
NextSession ==
  /\ \A t \in Tasks : job[t] \in {"reaped", "idle"}
  /\ session < MaxSessions
  /\ SessionInit
  /\ session' = session + 1
  /\ UNCHANGED <<missedQ, requestedQ, reported, inserted, missing, unexpected,
                 mcastWorking, aborted, dropped>>

RequestTask ==
  MakeRequestPeek \/ MakeRequestAdd \/ MakeRequestRemove \/ RequestProduct

UcastTask ==
  UcastStart \/ DeliverMissedProduct \/ NoSuchProduct \/ DeliverBacklogProduct \/ EndBacklog
    \/ RunSvcEnds

(* Once up7proxy_lock()'s assertion has aborted the process, nothing moves. *)
Next ==
  /\ ~aborted
  /\ \/ \E p \in Prods : MissedProduct(p)
     \/ LastReceived
     \/ RequestSessionBacklog
     \/ RequestTask
     \/ UpstreamReply
     \/ UpstreamBacklog
     \/ UcastTask
     \/ ConnectionLost
     \/ \E t \in Tasks : ReapRecvTask(t)
     \/ NextSession

(* The request, unicast, backlog and reaping threads are scheduled by the *)
(* OS, and the upstream LDM-7 keeps answering while the connection is up, *)
(* until an abort ends the process.  Missed products, received products   *)
(* and broken connections are the environment's and not fair.             *)
Running(A) == ~aborted /\ A

Fairness ==
  /\ WF_vars(Running(RequestTask))
  /\ WF_vars(Running(UcastTask))
  /\ WF_vars(Running(RequestSessionBacklog))
  /\ WF_vars(Running(UpstreamReply))
  /\ WF_vars(Running(UpstreamBacklog))
  /\ \A t \in Tasks : WF_vars(Running(ReapRecvTask(t)))
  /\ WF_vars(Running(NextSession))

Spec == Init /\ [][Next]_vars /\ Fairness

-----------------------------------------------------------------------------
(* An index is answered once its product is inserted, declared missing,   *)
(* or dropped by deliver_product() as too big for the product-queue or     *)
(* after a failed insertion.                                               *)
answered == inserted \cup missing \cup dropped

(* Every product index the multicast receiver reported missing is, at all  *)
(* times, in the missed queue, in the requested queue, or answered:        *)
(* makeRequest() adds an index to the requested queue before removing it   *)
(* from the missed queue, and the reply handlers remove only the head they *)
(* matched, across any number of sessions.                                 *)
MissedNeverLost ==
  \A p \in reported :
    \/ p \in Range(missedQ)
    \/ p \in Range(requestedQ)
    \/ p \in answered

(* deliver_missed_product_7_svc() never meets a product other than the     *)
(* head of the requested queue ("Unexpected product received"), which      *)
(* would destroy the connection.                                           *)
NoUnexpectedProduct == ~unexpected

(* While the connection to the upstream stays up, every product reported   *)
(* missing is eventually delivered or declared nonexistent.                *)
RecoveredWhileConnected ==
  \A p \in Prods : (p \in reported) ~> (p \in answered \/ conn = "down")

(* Within the first session, which starts with empty queues, the pipeline  *)
(* is right: deliver_missed_product_7_svc() never meets an unexpected      *)
(* product, and every product reported missing in it is delivered,        *)
(* declared nonexistent or dropped unless the connection goes down, the    *)
(* session ends first (a task fails, such as makeRequest() when            *)
(* mrm_addRequestedFile() fails or startUcastRecvTask() before it serves, *)
(* and down7_start() either starts the next session or, on LDM7_SYSTEM,   *)
(* returns) or up7proxy_lock()'s assertion aborts the process             *)
(* (ProxyClientPresent).                                                   *)
(* A lost connection must stay an exception: when run_svc() returns 0 the  *)
(* session goes on without a unicast receiver (see the README).           *)
(* Later sessions inherit the queues, which is where NoUnexpectedProduct   *)
(* and RecoveredWhileConnected fail (see the README).                      *)
FirstSessionSound ==
  session = 1 => ~unexpected

FirstSessionRecovers ==
  \A p \in Prods :
    (p \in reported /\ session = 1) ~>
      (p \in answered \/ conn = "down" \/ session > 1 \/ aborted
        \/ \E t \in Tasks : job[t] = "severe")
-----------------------------------------------------------------------------
(* up7proxy_lock() never finds the proxy's client destroyed, as its        *)
(* log_assert(proxy->clnt != NULL) requires: no task uses the proxy after  *)
(* another task's failed RPC (up7proxy_requestProduct() or                 *)
(* up7proxy_requestSessionBacklog()) destroyed the client.                 *)
ProxyClientPresent == ~aborted

(* Every session whose multicast receiver receives a product submits       *)
(* requestSessionBacklog(), which, by its comment, requests "the backlog   *)
(* of data-products from the previous session".                            *)
BacklogRequested == recvd => job["backlog"] # "idle"
=============================================================================
