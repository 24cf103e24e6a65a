--------------------------- MODULE Down7Lifecycle ---------------------------
(***************************************************************************)
(* Life cycle of a downstream LDM-7 (src/mcast_lib/C/down7.c) in the child *)
(* process that down7_manager.c's executeDown7() runs: the main thread     *)
(* runs down7_start() and then down7_free(); a detached thread waits for a *)
(* termination signal and calls down7_stop().  Each session of             *)
(* down7_start() runs a subscription job and then the receiving jobs on    *)
(* an executor: the multicast job (startMcastRecvTask2, whose stop         *)
(* function is stopMcastRecvTask) and the unicast and request jobs, which  *)
(* are one job "rt" here because their stopping does not take the state   *)
(* mutex.  stateMutex is error-checking: locking it twice on one thread    *)
(* fails.                                                                  *)
(***************************************************************************)
EXTENDS Naturals

CONSTANTS
  MaxSessions   \* bound on the sessions ended by a failure

ASSUME MaxSessions \in Nat \ {0}

States == {"INITIALIZED", "EXECUTING", "STOPPING", "STOPPED"}

(* Ldm7Status values down7_start() passes around; "0" is success. *)
Statuses == {"0", "RPC", "SHUTDOWN", "MCAST", "INVAL", "SYSTEM", "TIMEDOUT",
             "REFUSED", "NOENT", "UNAUTH", "IPV6"}

(* down7_start(): the statuses after which it stops looping. *)
Severe == {"SYSTEM", "INVAL", "MCAST", "SHUTDOWN"}

Jobs == {"sub", "rt", "mc"}

(* Threads that lock stateMutex and that call exe_shutdown(). *)
Threads == {"main", "stopper"}

VARIABLES
  state,      \* down7->state
  owner,      \* the thread holding stateMutex, or "none"
  mainPc,     \* where the main thread is
  status,     \* the status down7_start() is computing
  session,    \* number of the current session
  reapJob,    \* the job reapRecvTasks() is handling
  stopPc,     \* where the termination-signal thread is
  mcPc,       \* where the multicast job's thread is
  job,        \* executor state of each job
  stopped,    \* jobs whose stop function was called or that were cancelled
  failed,     \* jobs that returned a nonzero result
  subResult,  \* the result the subscription job returned
  exeShut,    \* the executor was shut down and not cleared since
  sm,         \* each thread's progress through stopMcastRecvTask()
  mlrStopReq, \* mlr_stop() was called on the live receiver
  mlrPtr,     \* down7->mlr: "null" or "set"
  mlrObj,     \* the Mlr object: "none", "live" or "freed"
  freed,      \* down7_free() freed the Down7 object
  stopEarly,  \* down7_stop() set STOPPING before down7_start() returned
  selfLock,   \* a thread locked stateMutex it already held (EDEADLK)
  mlrUsedFreed,   \* mlr_stop() was called on a freed Mlr
  down7UsedFreed  \* down7_stop() locked the mutex of a freed Down7

vars == <<state, owner, mainPc, status, session, reapJob, stopPc, mcPc, job,
          stopped, failed, subResult, exeShut, sm, mlrStopReq, mlrPtr, mlrObj,
            freed,
          stopEarly, selfLock, mlrUsedFreed, down7UsedFreed>>

MainPcs == {"start", "checkInit", "subSubmit", "subWait", "subRelock",
            "submitRt", "submitMc", "reap", "reapStatus", "reapRelock",
            "rosShutdown", "rosClear", "nap", "napWait", "napRelock",
            "loopCheck", "finish", "unlockRet", "free", "returned", "exited"}

StopPcs == {"wait", "lock1", "setStopping", "shutdown", "lock2", "signal",
            "done"}

TypeOK ==
  /\ state \in States
  /\ owner \in Threads \cup {"none"}
  /\ mainPc \in MainPcs
  /\ status \in Statuses
  /\ session \in 1..MaxSessions
  /\ reapJob \in Jobs
  /\ stopPc \in StopPcs
  /\ mcPc \in {"idle", "run", "free", "null"}
  /\ job \in [Jobs -> {"none", "running", "done", "reaped"}]
  /\ stopped \subseteq Jobs /\ failed \subseteq Jobs
  /\ subResult \in Statuses
  /\ exeShut \in BOOLEAN
  /\ sm \in [Threads -> {"none", "lock", "stop", "unlock"}]
  /\ mlrStopReq \in BOOLEAN
  /\ mlrPtr \in {"null", "set"} /\ mlrObj \in {"none", "live", "freed"}
  /\ freed \in BOOLEAN /\ stopEarly \in BOOLEAN /\ selfLock \in BOOLEAN
  /\ mlrUsedFreed \in BOOLEAN /\ down7UsedFreed \in BOOLEAN

(* down7_new(): the state is INITIALIZED and no job exists. *)
Init ==
  /\ state = "INITIALIZED"
  /\ owner = "none"
  /\ mainPc = "start"
  /\ status = "0"
  /\ session = 1
  /\ reapJob = "sub"
  /\ stopPc = "wait"
  /\ mcPc = "idle"
  /\ job = [j \in Jobs |-> "none"]
  /\ stopped = {} /\ failed = {} /\ subResult = "0"
  /\ exeShut = FALSE
  /\ sm = [t \in Threads |-> "none"]
  /\ mlrStopReq = FALSE
  /\ mlrPtr = "null" /\ mlrObj = "none"
  /\ freed = FALSE /\ stopEarly = FALSE /\ selfLock = FALSE
  /\ mlrUsedFreed = FALSE /\ down7UsedFreed = FALSE

(* The process has not exited: after exit() no thread runs. *)
Alive == mainPc # "exited"

-----------------------------------------------------------------------------
(* exe_shutdown() called on thread t: no job can be submitted until        *)
(* exe_clear(); the subscription job, which has no stop function, is       *)
(* cancelled; stopRequestTask() is called for the rt job; for the          *)
(* multicast job thread t goes on to run stopMcastRecvTask().              *)
ExeShutdown(t) ==
  /\ exeShut' = TRUE
  /\ job' = [job EXCEPT !["sub"] = IF @ = "running" THEN "done" ELSE @]
  /\ stopped' = stopped \cup {j \in Jobs : job[j] = "running"}
  /\ sm' = IF job["mc"] = "running" /\ "mc" \notin stopped
           THEN [sm EXCEPT ![t] = "lock"] ELSE sm

(* stopMcastRecvTask() on thread t: lockState() (an error-checking mutex   *)
(* already held by t fails with EDEADLK), then mlr_stop(down7->mlr) if the *)
(* pointer is not NULL, then unlockState().                                *)
StopMcastLock(t) ==
  /\ Alive /\ sm[t] = "lock"
  /\ \/ /\ owner = t
        /\ selfLock' = TRUE
        /\ UNCHANGED owner
     \/ /\ owner = "none"
        /\ owner' = t
        /\ UNCHANGED selfLock
  /\ sm' = [sm EXCEPT ![t] = "stop"]
  /\ UNCHANGED <<state, mainPc, status, session, reapJob, stopPc, mcPc, job,
                 stopped, failed, subResult, exeShut, mlrStopReq, mlrPtr,
                   mlrObj, freed,
                 stopEarly, mlrUsedFreed, down7UsedFreed>>

StopMcastStop(t) ==
  /\ Alive /\ sm[t] = "stop"
  /\ IF mlrPtr = "set"
     THEN IF mlrObj = "freed"
          THEN mlrUsedFreed' = TRUE /\ UNCHANGED mlrStopReq
          ELSE mlrStopReq' = TRUE /\ UNCHANGED mlrUsedFreed
     ELSE UNCHANGED <<mlrStopReq, mlrUsedFreed>>
  /\ sm' = [sm EXCEPT ![t] = "unlock"]
  /\ UNCHANGED <<state, owner, mainPc, status, session, reapJob, stopPc, mcPc,
                 job, stopped, failed, subResult, exeShut, mlrPtr, mlrObj,
                   freed,
                 stopEarly, selfLock, down7UsedFreed>>

StopMcastUnlock(t) ==
  /\ Alive /\ sm[t] = "unlock"
  /\ owner' = "none"
  /\ sm' = [sm EXCEPT ![t] = "none"]
  /\ UNCHANGED <<state, mainPc, status, session, reapJob, stopPc, mcPc, job,
                 stopped, failed, subResult, exeShut, mlrStopReq, mlrPtr,
                   mlrObj, freed,
                 stopEarly, selfLock, mlrUsedFreed, down7UsedFreed>>

-----------------------------------------------------------------------------
(* startMcastRecvTask2() on the multicast job's thread: mlr_start()        *)
(* returns when mlr_stop() was called or on a multicast error; then,       *)
(* without the state mutex, mlr_free(down7->mlr) and down7->mlr = NULL.    *)
McastReturn ==
  /\ Alive /\ mcPc = "run"
  /\ \/ mlrStopReq                 \* LDM7_SHUTDOWN
     \/ session < MaxSessions      \* LDM7_MCAST
  /\ mlrStopReq' = FALSE
  /\ failed' = failed \cup {"mc"}
  /\ mcPc' = "free"
  /\ UNCHANGED <<state, owner, mainPc, status, session, reapJob, stopPc, job,
                 stopped, subResult, exeShut, sm, mlrPtr, mlrObj, freed,
                 stopEarly, selfLock, mlrUsedFreed, down7UsedFreed>>

McastFree ==
  /\ Alive /\ mcPc = "free"
  /\ mlrObj' = "freed"
  /\ mcPc' = "null"
  /\ UNCHANGED <<state, owner, mainPc, status, session, reapJob, stopPc, job,
                 stopped, failed, subResult, exeShut, sm, mlrStopReq, mlrPtr,
                   freed,
                 stopEarly, selfLock, mlrUsedFreed, down7UsedFreed>>

McastNull ==
  /\ Alive /\ mcPc = "null"
  /\ mlrPtr' = "null"
  /\ mcPc' = "idle"
  /\ job' = [job EXCEPT !["mc"] = "done"]
  /\ UNCHANGED <<state, owner, mainPc, status, session, reapJob, stopPc,
                 stopped, failed, subResult, exeShut, sm, mlrStopReq, mlrObj,
                   freed,
                 stopEarly, selfLock, mlrUsedFreed, down7UsedFreed>>

(* The unicast and request jobs end once stopped (the request job returns  *)
(* LDM7_SHUTDOWN, the unicast job is cancelled) or on an RPC failure.      *)
RtEnds ==
  /\ Alive /\ job["rt"] = "running"
  /\ "rt" \in stopped \/ session < MaxSessions
  /\ job' = [job EXCEPT !["rt"] = "done"]
  /\ failed' = failed \cup {"rt"}
  /\ UNCHANGED <<state, owner, mainPc, status, session, reapJob, stopPc, mcPc,
                 stopped, subResult, exeShut, sm, mlrStopReq, mlrPtr, mlrObj,
                   freed,
                 stopEarly, selfLock, mlrUsedFreed, down7UsedFreed>>

(* getSock(): sa_getInetSockAddr() rejects the address (LDM7_INVAL);      *)
(* socket() fails (LDM7_IPV6 when the IPv6 family is not supported, else   *)
(* LDM7_SYSTEM); connect() fails with ETIMEDOUT (LDM7_TIMEDOUT),           *)
(* ECONNREFUSED (LDM7_REFUSED) or another error (LDM7_SYSTEM).             *)
GetSock(family) ==
  {"0", "INVAL", "TIMEDOUT", "REFUSED", "SYSTEM"}
    \cup (IF family = "AF_UNSPEC" THEN {"IPV6"} ELSE {})

(* getSocket(): a failure with AF_UNSPEC is retried with AF_INET. *)
GetSocket ==
  UNION {IF r = "0" THEN {r} ELSE GetSock("AF_INET") :
           r \in GetSock("AF_UNSPEC")}

(* up7proxy_new() and up7proxy_init(): malloc() or pthread_mutex_init()    *)
(* fail with LDM7_SYSTEM, clnttcp_create() with LDM7_RPC.                  *)
Up7ProxyNew == {"0", "SYSTEM", "RPC"}

(* newClient(): getSocket(), then up7proxy_new() on the connected socket. *)
NewClient == UNION {IF r = "0" THEN Up7ProxyNew ELSE {r} : r \in GetSocket}

(* up7proxy_subscribe(): without a reply, clntStatusToLdm7Status() of the  *)
(* RPC error; with one, the upstream's status: success, LDM7_INVAL (it     *)
(* does not multicast the feed), LDM7_NOENT or LDM7_UNAUTH.                *)
Up7ProxySubscribe == {"TIMEDOUT", "RPC", "0", "INVAL", "NOENT", "UNAUTH"}

(* subscribe(): newClient(), then up7proxy_subscribe(). *)
Subscribe ==
  UNION {IF r = "0" THEN Up7ProxySubscribe ELSE {r} : r \in NewClient}

(* The subscription job ends with subscribe()'s result.  A failure that   *)
(* down7_start() retries needs a session left.                            *)
SubEnds ==
  /\ Alive /\ job["sub"] = "running"
  /\ \E r \in Subscribe :
       /\ r \in {"0"} \cup Severe \/ session < MaxSessions
       /\ subResult' = r
  /\ job' = [job EXCEPT !["sub"] = "done"]
  /\ UNCHANGED <<state, owner, mainPc, status, session, reapJob, stopPc, mcPc,
                 failed,
                 stopped, exeShut, sm, mlrStopReq, mlrPtr, mlrObj, freed,
                 stopEarly, selfLock, mlrUsedFreed, down7UsedFreed>>

-----------------------------------------------------------------------------
(* The main thread.  MainGo(from, to) moves it between two places.        *)
MainGo(from, to) == mainPc = from /\ mainPc' = to

(* The variables the executor's bookkeeping and stopMcastRecvTask() touch. *)
exeVars == <<job, stopped, failed, subResult, exeShut, sm, mlrStopReq, mlrPtr,
             mlrObj>>
flagVars == <<freed, stopEarly, selfLock, mlrUsedFreed, down7UsedFreed>>

(* down7_start(): lockState(). *)
StartLock ==
  /\ MainGo("start", "checkInit")
  /\ owner = "none" /\ owner' = "main"
  /\ UNCHANGED <<state, status, session, reapJob, stopPc, mcPc, exeVars,
                 flagVars>>

(* down7_start(): anything but DOWN7_INITIALIZED is LDM7_INVAL; otherwise  *)
(* the state becomes DOWN7_EXECUTING and the first session begins.         *)
CheckInit ==
  /\ mainPc = "checkInit"
  /\ IF state = "INITIALIZED"
     THEN state' = "EXECUTING" /\ mainPc' = "subSubmit" /\ UNCHANGED status
     ELSE status' = "INVAL" /\ mainPc' = "unlockRet" /\ UNCHANGED state
  /\ UNCHANGED <<owner, session, reapJob, stopPc, mcPc, exeVars, flagVars>>

(* execSubscriptionTask(): exe_submit() of subscribe(); EINVAL (executor   *)
(* shut down) is LDM7_SHUTDOWN; otherwise unlockState() and wait.          *)
SubSubmit ==
  /\ mainPc = "subSubmit"
  /\ IF exeShut
     THEN /\ status' = "SHUTDOWN" /\ mainPc' = "rosShutdown"
          /\ UNCHANGED <<owner, job>>
     ELSE /\ job' = [job EXCEPT !["sub"] = "running"]
          /\ owner' = "none" /\ mainPc' = "subWait"
          /\ UNCHANGED status
  /\ UNCHANGED <<state, session, reapJob, stopPc, mcPc, stopped, failed,
                 subResult,
                 exeShut, sm, mlrStopReq, mlrPtr, mlrObj, flagVars>>

(* execSubscriptionTask(): exe_getCompleted(), then lockState(); a stopped *)
(* job is LDM7_SHUTDOWN, otherwise the job's result.                       *)
SubRelock ==
  /\ MainGo("subWait", "subRelock") /\ job["sub"] = "done"
  /\ UNCHANGED <<state, owner, status, session, reapJob, stopPc, mcPc,
                 exeVars, flagVars>>

SubResult ==
  /\ mainPc = "subRelock"
  /\ owner = "none" /\ owner' = "main"
  /\ LET r == IF "sub" \in stopped THEN "SHUTDOWN" ELSE subResult
     IN /\ status' = r
        /\ mainPc' = IF r = "0" THEN "submitRt" ELSE "rosShutdown"
  /\ job' = [job EXCEPT !["sub"] = "reaped"]
  /\ subResult' = "0"
  /\ UNCHANGED <<state, session, reapJob, stopPc, mcPc, stopped, failed,
                 exeShut, sm, mlrStopReq, mlrPtr, mlrObj, flagVars>>

(* startRecvTasks(): the unicast and request jobs are submitted...         *)
SubmitRt ==
  /\ mainPc = "submitRt"
  /\ IF exeShut
     THEN status' = "SHUTDOWN" /\ mainPc' = "rosShutdown" /\ UNCHANGED job
     ELSE /\ job' = [job EXCEPT !["rt"] = "running"]
          /\ mainPc' = "submitMc" /\ UNCHANGED status
  /\ UNCHANGED <<state, owner, session, reapJob, stopPc, mcPc, stopped,
                 failed, subResult, exeShut, sm, mlrStopReq, mlrPtr, mlrObj,
                   flagVars>>

(* A receive() that keeps the state locked while it reaps the jobs.       *)
SubmitMcLocked ==
  /\ mainPc = "submitMc"
  /\ mlrPtr' = "set" /\ mlrObj' = "live"
  /\ IF exeShut
     THEN /\ status' = "SHUTDOWN" /\ mainPc' = "rosShutdown"
          /\ UNCHANGED <<job, mcPc>>
     ELSE /\ job' = [job EXCEPT !["mc"] = "running"]
          /\ mcPc' = "run"
          /\ mainPc' = "reap"
          /\ UNCHANGED status
  /\ UNCHANGED <<state, owner, session, reapJob, stopPc, stopped, failed,
                 subResult,
                 exeShut, sm, mlrStopReq, flagVars>>

(* ...then startMcastRecvTask(): mlr_new(), down7->mlr = mlr, and          *)
(* exe_submit(); on EINVAL the Mlr is left allocated.  receive() then      *)
(* calls unlockState() and reapRecvTasks().                                *)
SubmitMc ==
  /\ mainPc = "submitMc"
  /\ mlrPtr' = "set" /\ mlrObj' = "live"
  /\ IF exeShut
     THEN /\ status' = "SHUTDOWN" /\ mainPc' = "rosShutdown"
          /\ UNCHANGED <<owner, job, mcPc>>
     ELSE /\ job' = [job EXCEPT !["mc"] = "running"]
          /\ mcPc' = "run"
          /\ owner' = "none" /\ mainPc' = "reap"
          /\ UNCHANGED status
  /\ UNCHANGED <<state, session, reapJob, stopPc, stopped, failed, subResult,
                 exeShut,
                 sm, mlrStopReq, flagVars>>

(* exe_clear(): completed jobs are freed and the executor accepts jobs     *)
(* again (runDown7Once() relies on this to start the next session).        *)
ClearedJobs == [j \in Jobs |-> IF job[j] \in {"done", "reaped"}
                               THEN "none" ELSE job[j]]

(* reapRecvTasks(): exe_getCompleted() returns a finished receiving job;  *)
(* if it was stopped or returned nonzero, exe_shutdown() runs on the main *)
(* thread, which does not hold the state mutex here.                       *)
ReapGet ==
  /\ mainPc = "reap"
  /\ \E j \in {"rt", "mc"} :
       /\ job[j] = "done"
       /\ reapJob' = j
       /\ IF j \in stopped \cup failed
          THEN ExeShutdown("main")
          ELSE UNCHANGED <<job, stopped, exeShut, sm>>
  /\ mainPc' = "reapStatus"
  /\ UNCHANGED <<state, owner, status, session, stopPc, mcPc, failed,
                 subResult,
                 mlrStopReq, mlrPtr, mlrObj, flagVars>>

(* reapRecvTasks(): after exe_shutdown(), exe_clear(); the first such job  *)
(* sets the status: LDM7_SHUTDOWN if stopped, else its result.             *)
ReapStatus ==
  /\ mainPc = "reapStatus" /\ sm["main"] = "none"
  /\ LET j == reapJob
         trig == j \in stopped \cup failed
     IN /\ status' = IF status = "0" /\ trig
                     THEN IF j \in stopped THEN "SHUTDOWN"
                          ELSE IF j = "mc" THEN "MCAST" ELSE "RPC"
                     ELSE status
        /\ exeShut' = (exeShut /\ ~trig)
        /\ job' = [job EXCEPT ![j] = "reaped"]
  /\ mainPc' = "reap"
  /\ UNCHANGED <<state, owner, session, reapJob, stopPc, mcPc, stopped,
                 failed, subResult, sm, mlrStopReq, mlrPtr, mlrObj, flagVars>>

(* receive(): once no job is left, lockState().                            *)
ReapDone ==
  /\ mainPc = "reap"
  /\ \A j \in {"rt", "mc"} : job[j] \in {"none", "reaped"}
  /\ mainPc' = "reapRelock"
  /\ UNCHANGED <<state, owner, status, session, reapJob, stopPc, mcPc,
                 exeVars, flagVars>>

ReapRelock ==
  /\ MainGo("reapRelock", "rosShutdown")
  /\ owner = "none" /\ owner' = "main"
  /\ UNCHANGED <<state, status, session, reapJob, stopPc, mcPc, exeVars,
                 flagVars>>

(* runDown7Once(): exe_shutdown() and exe_clear() with the state locked.   *)
RosShutdown ==
  /\ MainGo("rosShutdown", "rosClear")
  /\ ExeShutdown("main")
  /\ UNCHANGED <<state, owner, status, session, reapJob, stopPc, mcPc, failed,
                 subResult,
                 mlrStopReq, mlrPtr, mlrObj, flagVars>>

(* down7_start(): LDM7_SYSTEM, LDM7_INVAL, LDM7_MCAST or LDM7_SHUTDOWN     *)
(* ends the loop; LDM7_TIMEDOUT subscribes again at once; any other status *)
(* naps first.                                                             *)
RosClear ==
  /\ mainPc = "rosClear" /\ sm["main"] = "none"
  /\ exeShut' = FALSE
  /\ job' = ClearedJobs
  /\ stopped' = {j \in stopped : job[j] = "running"}
  /\ failed' = {j \in failed : job[j] = "running"}
  /\ mainPc' = CASE status \in Severe     -> "finish"
                 [] status = "TIMEDOUT" -> "loopCheck"
                 [] OTHER               -> "nap"
  /\ UNCHANGED <<state, owner, status, session, reapJob, stopPc, mcPc, sm,
                 subResult, mlrStopReq, mlrPtr, mlrObj, flagVars>>

(* nap(): pthread_cond_timedwait() while the state is DOWN7_EXECUTING.    *)
Nap ==
  /\ mainPc = "nap"
  /\ IF state = "EXECUTING"
     THEN owner' = "none" /\ mainPc' = "napWait"
     ELSE UNCHANGED owner /\ mainPc' = "loopCheck"
  /\ UNCHANGED <<state, status, session, reapJob, stopPc, mcPc, exeVars,
                 flagVars>>

(* The 60-second wait times out. *)
NapTimeout ==
  /\ MainGo("napWait", "napRelock")
  /\ UNCHANGED <<state, owner, status, session, reapJob, stopPc, mcPc,
                 exeVars, flagVars>>

NapRelock ==
  /\ MainGo("napRelock", "loopCheck")
  /\ owner = "none" /\ owner' = "main"
  /\ UNCHANGED <<state, status, session, reapJob, stopPc, mcPc, exeVars,
                 flagVars>>

(* down7_start(): loop while DOWN7_EXECUTING. *)
LoopCheck ==
  /\ mainPc = "loopCheck"
  /\ IF state = "EXECUTING"
     THEN /\ session < MaxSessions
          /\ session' = session + 1 /\ status' = "0"
          /\ mainPc' = "subSubmit"
     ELSE mainPc' = "finish" /\ UNCHANGED <<session, status>>
  /\ UNCHANGED <<state, owner, reapJob, stopPc, mcPc, exeVars, flagVars>>

(* down7_start(): LDM7_SHUTDOWN if the state is not DOWN7_EXECUTING, the   *)
(* state becomes DOWN7_STOPPED, unlockState(), return.                     *)
Finish ==
  /\ MainGo("finish", "free")
  /\ status' = IF state # "EXECUTING" THEN "SHUTDOWN" ELSE status
  /\ state' = "STOPPED"
  /\ owner' = "none"
  /\ UNCHANGED <<session, reapJob, stopPc, mcPc, exeVars, flagVars>>

UnlockRet ==
  /\ MainGo("unlockRet", "free")
  /\ owner' = "none"
  /\ UNCHANGED <<state, status, session, reapJob, stopPc, mcPc, exeVars,
                 flagVars>>

(* executeDown7(): down7_free() locks the state; in DOWN7_INITIALIZED or   *)
(* DOWN7_STOPPED it unlocks, destroys the mutex and frees the object,     *)
(* otherwise it returns LDM7_INVAL with the mutex still locked.            *)
Free ==
  /\ MainGo("free", "returned")
  /\ owner = "none"
  /\ IF state \in {"INITIALIZED", "STOPPED"}
     THEN freed' = TRUE /\ UNCHANGED owner
     ELSE owner' = "main" /\ UNCHANGED freed
  /\ UNCHANGED <<state, status, session, reapJob, stopPc, mcPc, exeVars,
                 stopEarly, selfLock, mlrUsedFreed, down7UsedFreed>>

(* elt_start()'s child: exit(0) on LDM7_SHUTDOWN, abort() otherwise.       *)
Exit ==
  /\ MainGo("returned", "exited")
  /\ UNCHANGED <<state, owner, status, session, reapJob, stopPc, mcPc,
                 exeVars, flagVars>>

-----------------------------------------------------------------------------
(* The termination-signal thread: sigwait() returns (waitForTermSig).     *)
SigTerm ==
  /\ Alive /\ stopPc = "wait" /\ stopPc' = "lock1"
  /\ UNCHANGED <<state, owner, mainPc, status, session, reapJob, mcPc,
                 exeVars, flagVars>>

(* down7_stop(): lockState(), which on a freed Down7 locks a destroyed     *)
(* mutex in freed memory.                                                  *)
StopLock(from, to) ==
  /\ Alive /\ stopPc = from /\ stopPc' = to
  /\ owner = "none" /\ owner' = "stopper"
  /\ down7UsedFreed' = (down7UsedFreed \/ freed)
  /\ UNCHANGED <<state, mainPc, status, session, reapJob, mcPc, exeVars,
                 freed, stopEarly, selfLock, mlrUsedFreed>>

(* A down7_stop() that leaves the state alone.                            *)
SetStoppingLost ==
  /\ Alive /\ stopPc = "setStopping" /\ stopPc' = "shutdown"
  /\ owner' = "none"
  /\ UNCHANGED <<state, mainPc, status, session, reapJob, mcPc, exeVars,
                 flagVars>>

(* down7_stop(): down7->state = DOWN7_STOPPING, unlockState().             *)
SetStopping ==
  /\ Alive /\ stopPc = "setStopping" /\ stopPc' = "shutdown"
  /\ state' = "STOPPING"
  /\ stopEarly' = (stopEarly \/ mainPc \notin {"free", "returned"})
  /\ owner' = "none"
  /\ UNCHANGED <<mainPc, status, session, reapJob, mcPc, exeVars, freed,
                 selfLock, mlrUsedFreed, down7UsedFreed>>

(* down7_stop(): exe_shutdown() on this thread. *)
StopShutdown ==
  /\ Alive /\ stopPc = "shutdown" /\ stopPc' = "lock2"
  /\ ExeShutdown("stopper")
  /\ UNCHANGED <<state, owner, mainPc, status, session, reapJob, mcPc, failed,
                 subResult,
                 mlrStopReq, mlrPtr, mlrObj, flagVars>>

(* down7_stop(): wakeUpNappingDown7() and unlockState().                   *)
StopSignal ==
  /\ Alive /\ stopPc = "signal" /\ stopPc' = "done"
  /\ mainPc' = IF mainPc = "napWait" THEN "napRelock" ELSE mainPc
  /\ owner' = "none"
  /\ UNCHANGED <<state, status, session, reapJob, mcPc, exeVars, flagVars>>

Main ==
  \/ StartLock \/ CheckInit \/ SubSubmit \/ SubRelock \/ SubResult
  \/ SubmitRt \/ SubmitMc \/ ReapGet \/ ReapStatus \/ ReapDone \/ ReapRelock
  \/ RosShutdown \/ RosClear \/ Nap \/ NapRelock \/ LoopCheck \/ Finish
  \/ UnlockRet \/ Free \/ Exit

Stopper ==
  \/ StopLock("lock1", "setStopping") \/ SetStopping \/ StopShutdown
  \/ /\ sm["stopper"] = "none"
     /\ StopLock("lock2", "signal")
  \/ StopSignal

StopMcast(t) == StopMcastLock(t) \/ StopMcastStop(t) \/ StopMcastUnlock(t)

Next ==
  \/ Main
  \/ Stopper
  \/ \E t \in Threads : StopMcast(t)
  \/ McastReturn \/ McastFree \/ McastNull
  \/ RtEnds \/ SubEnds
  \/ NapTimeout
  \/ SigTerm

(* Every thread is scheduled (weak fairness); a thread waiting for         *)
(* stateMutex gets it if it is free infinitely often (strong fairness:     *)
(* the holder releases it around every blocking call).  Stopped jobs end,  *)
(* subscriptions end (they time out), and the nap times out.  Signals,     *)
(* multicast errors and RPC failures are the environment's.                *)
Fairness ==
  /\ SF_vars(Main)
  /\ SF_vars(Stopper)
  /\ \A t \in Threads : SF_vars(StopMcast(t))
  /\ WF_vars(mlrStopReq /\ McastReturn)
  /\ WF_vars(McastFree) /\ WF_vars(McastNull)
  /\ WF_vars("rt" \in stopped /\ RtEnds)
  /\ WF_vars(SubEnds)
  /\ WF_vars(NapTimeout)

Spec == Init /\ [][Next]_vars /\ Fairness

-----------------------------------------------------------------------------
(* Once the termination signal is taken, the process exits: down7_stop()   *)
(* ends down7_start() wherever the main thread is (subscribing, reaping,   *)
(* napping, between sessions).                                             *)
StopEndsProcess == (stopPc # "wait") ~> (mainPc = "exited")

(* No thread locks the error-checking stateMutex it already holds: the     *)
(* stop functions exe_shutdown() runs lock the state, so exe_shutdown()    *)
(* must not be called with a running multicast job by a thread holding it. *)
NoSelfDeadlock == ~selfLock

(* stopMcastRecvTask() never calls mlr_stop() on an Mlr that               *)
(* startMcastRecvTask2() has freed.                                        *)
MlrNotUsedAfterFree == ~mlrUsedFreed

(* down7_stop() never locks the state of a Down7 that down7_free() has     *)
(* freed.                                                                  *)
Down7NotUsedAfterFree == ~down7UsedFreed

(* If down7_stop() set DOWN7_STOPPING before down7_start() returned,       *)
(* down7_start() returns LDM7_SHUTDOWN, the status on which the child      *)
(* process exits normally.                                                 *)
StopMeansShutdown ==
  (mainPc \in {"returned", "exited"} /\ stopEarly) => status = "SHUTDOWN"
=============================================================================
