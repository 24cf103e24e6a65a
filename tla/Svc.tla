-------------------------------- MODULE Svc --------------------------------
(***************************************************************************)
(* The ONC RPC service layer (src/rpc/svc.c): the callout list             *)
(* (svc_register, svc_unregister, svc_find), request dispatch              *)
(* (svc_getreqsock) with its error replies, and the transport table        *)
(* (xprt_register, xprt_unregister), driven by the downstream LDM-7's      *)
(* unicast server: startUcastRecvTask(), run_down7_svc() and run_svc() in  *)
(* src/mcast_lib/C/down7.c.  One server thread serves one connection after *)
(* another; between connections other code of the process may register    *)
(* and unregister services.                                                *)
(*                                                                         *)
(* The transport implementation (svcfd_create, SVC_RECV, SVC_STAT,         *)
(* SVC_DESTROY) is not in the repository: SVC_DESTROY is taken to call     *)
(* xprt_unregister() and free the transport, as ONC RPC's TCP transport    *)
(* does, and SVC_RECV and SVC_STAT to return any of their results.         *)
(***************************************************************************)
EXTENDS Naturals, Sequences, SequencesExt

CONSTANTS Progs, Vers, Disps,  \* program and version numbers, dispatchers
          SrvProg, SrvVers,    \* what the server registers (LDMPROG, SEVEN)
          SrvDisp,             \* its dispatch routine (ldmprog_7)
          DispatchMayDestroy,  \* the dispatcher may svc_destroy() the
                               \* transport (deliveryFailure())
          MaxCallouts,         \* callouts mem_alloc() can still allocate
          MaxConns             \* connections served

Callout == [prog : Progs, vers : Vers, disp : Disps]
Call == [prog : Progs, vers : Vers]
Replies == [kind : {"dispatch"}, disp : Disps]
             \cup [kind : {"progvers"}, low : Vers, high : Vers]
             \cup [kind : {"noprog", "auth", "none"}]

VARIABLES callouts,  \* svc_head: the callout list, head first
          xprt,      \* the connection's transport: "none", "live", "freed"
          fdset,     \* the socket is in svc_fdset (xports[sock] = xprt)
          held,      \* run_svc()'s local xprt is not NULL
          destroys,  \* SVC_DESTROY calls on the connection's transport
          pc,        \* the server thread
          reply,     \* the reply to the last request
          conns,     \* connections served
          usedFreed  \* the transport was used after it was freed

vars == <<callouts, xprt, fdset, held, destroys, pc, reply, conns,
          usedFreed>>

Pcs == {"create", "register", "poll", "recv", "stat", "check", "exit"}

TypeOK ==
  /\ callouts \in Seq(Callout) /\ Len(callouts) <= MaxCallouts
  /\ xprt \in {"none", "live", "freed"}
  /\ fdset \in BOOLEAN /\ held \in BOOLEAN
  /\ destroys \in 0..3
  /\ pc \in Pcs /\ reply \in Replies
  /\ conns \in 0..MaxConns /\ usedFreed \in BOOLEAN

Init ==
  /\ callouts = << >>
  /\ xprt = "none" /\ fdset = FALSE /\ held = FALSE /\ destroys = 0
  /\ pc = "create" /\ reply = [kind |-> "none"]
  /\ conns = 0 /\ usedFreed = FALSE

-----------------------------------------------------------------------------
(* svc_find(): the index of the first callout for (prog, vers), or 0. *)
SvcFind(list, p, v) ==
  LET hits == {i \in DOMAIN list : list[i].prog = p /\ list[i].vers = v}
  IN IF hits = {} THEN 0 ELSE Min(hits)

(* The callout loop of svc_getreqsock(): the first callout for the        *)
(* program and version is dispatched; otherwise PROG_MISMATCH with the    *)
(* lowest and highest version of the program, else PROG_UNAVAIL.          *)
RECURSIVE Walk(_, _, _, _, _, _)
Walk(list, p, v, found, lo, hi) ==
  IF list = << >>
  THEN IF found THEN [kind |-> "progvers", low |-> lo, high |-> hi]
       ELSE [kind |-> "noprog"]
  ELSE LET s == Head(list) IN
       IF s.prog = p /\ s.vers = v
       THEN [kind |-> "dispatch", disp |-> s.disp]
       ELSE IF s.prog = p
            THEN Walk(Tail(list), p, v, TRUE,
                      IF found /\ lo <= s.vers THEN lo ELSE s.vers,
                      IF found /\ hi >= s.vers THEN hi ELSE s.vers)
            ELSE Walk(Tail(list), p, v, found, lo, hi)

Dispatch(list, c) == Walk(list, c.prog, c.vers, FALSE, 0, 0)

(* A svc_register() that adds the callout without looking for one. *)
RegisterNoFind(list, p, v, d) ==
  IF Len(list) < MaxCallouts
  THEN [ok |-> TRUE, list |-> <<[prog |-> p, vers |-> v, disp |-> d]>> \o list]
  ELSE [ok |-> FALSE, list |-> list]

(* svc_register(): an existing callout for (prog, vers) is accepted only  *)
(* with the same dispatcher; otherwise a new callout is pushed at the     *)
(* head, if mem_alloc() succeeds.  Protocol 0: no portmapper.              *)
Register(list, p, v, d) ==
  LET i == SvcFind(list, p, v) IN
  IF i # 0 THEN [ok |-> list[i].disp = d, list |-> list]
  ELSE IF Len(list) < MaxCallouts
  THEN [ok |-> TRUE, list |-> <<[prog |-> p, vers |-> v, disp |-> d]>> \o list]
  ELSE [ok |-> FALSE, list |-> list]

(* svc_unregister(): unlink the callout found, if any. *)
Unregister(list, p, v) ==
  LET i == SvcFind(list, p, v) IN
  IF i = 0 THEN list ELSE RemoveAt(list, i)

(* SVC_DESTROY(): xprt_unregister() and free; the transport of an earlier *)
(* SVC_DESTROY is freed memory.                                            *)
Destroy ==
  /\ xprt' = "freed" /\ fdset' = FALSE
  /\ destroys' = destroys + 1
  /\ usedFreed' = (usedFreed \/ xprt = "freed")

-----------------------------------------------------------------------------
(* Between connections, other code of the process registers or            *)
(* unregisters a service.                                                  *)
OtherRegister(p, v, d) ==
  /\ pc = "create"
  /\ callouts' = Register(callouts, p, v, d).list
  /\ UNCHANGED <<xprt, fdset, held, destroys, pc, reply, conns, usedFreed>>

OtherUnregister(p, v) ==
  /\ pc = "create"
  /\ callouts' = Unregister(callouts, p, v)
  /\ UNCHANGED <<xprt, fdset, held, destroys, pc, reply, conns, usedFreed>>

(* createUcastRecvXprt(): svcfd_create() makes the transport and          *)
(* xprt_register() puts the socket in svc_fdset.                           *)
Create ==
  /\ pc = "create" /\ conns < MaxConns
  /\ xprt' = "live" /\ fdset' = TRUE /\ held' = TRUE /\ destroys' = 0
  /\ conns' = conns + 1
  /\ pc' = "register"
  /\ UNCHANGED <<callouts, reply, usedFreed>>

(* startUcastRecvTask(): svc_register(xprt, LDMPROG, SEVEN, ldmprog_7, 0);*)
(* on failure svc_destroy() and LDM7_RPC, else run_down7_svc().           *)
RegisterServer ==
  /\ pc = "register"
  /\ LET r == Register(callouts, SrvProg, SrvVers, SrvDisp) IN
       /\ callouts' = r.list
       /\ IF r.ok
          THEN /\ pc' = "poll"
               /\ UNCHANGED <<xprt, fdset, held, destroys, usedFreed>>
          ELSE pc' = "create" /\ held' = FALSE /\ Destroy
  /\ UNCHANGED <<reply, conns>>

(* run_svc(): poll() reports input, a hang-up or error (status 0), a      *)
(* timeout whose testConnection() fails (LDM7_RPC), or the thread is      *)
(* cancelled in poll() (exe_shutdown()); all but input leave the loop.    *)
Poll ==
  /\ pc = "poll"
  /\ pc' \in {"recv", "exit"}
  /\ UNCHANGED <<callouts, xprt, fdset, held, destroys, reply, conns,
                 usedFreed>>

(* svc_getreqsock(): SVC_RECV(); if a call was received, authenticate it   *)
(* and walk the callout list; the dispatcher (ldmprog_7) may call          *)
(* deliveryFailure(), which replies SYSTEM_ERR and svc_destroy()s the      *)
(* transport.                                                              *)
Recv ==
  /\ pc = "recv"
  /\ usedFreed' = (usedFreed \/ xprt = "freed")
  /\ \/ /\ UNCHANGED <<reply, xprt, fdset, destroys>>     \* nothing received
     \/ /\ reply' = [kind |-> "auth"]                      \* AUTH_ERROR
        /\ UNCHANGED <<xprt, fdset, destroys>>
     \/ \E c \in Call :
          /\ reply' = Dispatch(callouts, c)
          /\ \/ UNCHANGED <<xprt, fdset, destroys>>
             \/ /\ DispatchMayDestroy /\ reply'.kind = "dispatch"
                /\ reply'.disp = SrvDisp
                /\ xprt' = "freed" /\ fdset' = FALSE
                /\ destroys' = destroys + 1
  /\ pc' = "stat"
  /\ UNCHANGED <<callouts, held, conns>>

(* svc_getreqsock(), call_done: SVC_STAT(xprt); XPRT_DIED destroys the    *)
(* transport and ends, XPRT_MOREREQS receives again, XPRT_IDLE ends.       *)
Stat ==
  /\ pc = "stat"
  /\ \/ /\ pc' = "check" /\ Destroy                        \* XPRT_DIED
     \/ /\ pc' \in {"recv", "check"}                       \* MOREREQS, IDLE
        /\ usedFreed' = (usedFreed \/ xprt = "freed")
        /\ UNCHANGED <<xprt, fdset, destroys>>
  /\ UNCHANGED <<callouts, held, reply, conns>>

(* A run_svc() that does not forget the transport the RPC layer destroyed. *)
CheckKeepsXprt ==
  /\ pc = "check"
  /\ pc' = IF fdset THEN "poll" ELSE "exit"
  /\ UNCHANGED <<callouts, xprt, fdset, held, destroys, reply, conns,
                 usedFreed>>

(* run_svc(): if the socket left svc_fdset, the RPC layer destroyed the   *)
(* transport: xprt = NULL and return 0; otherwise poll again.              *)
Check ==
  /\ pc = "check"
  /\ IF fdset
     THEN pc' = "poll" /\ UNCHANGED held
     ELSE pc' = "exit" /\ held' = FALSE
  /\ UNCHANGED <<callouts, xprt, fdset, destroys, reply, conns, usedFreed>>

(* run_svc(): pthread_cleanup_pop(xprt != NULL) runs destroyTransport(),  *)
(* svc_destroy(xprt), when run_svc() still holds the transport (also when *)
(* the thread is cancelled in poll()).                                     *)
Exit ==
  /\ pc = "exit"
  /\ IF held THEN Destroy ELSE UNCHANGED <<xprt, fdset, destroys, usedFreed>>
  /\ held' = FALSE
  /\ pc' = "create"
  /\ UNCHANGED <<callouts, reply, conns>>

Next ==
  \/ \E p \in Progs, v \in Vers, d \in Disps : OtherRegister(p, v, d)
  \/ \E p \in Progs, v \in Vers : OtherUnregister(p, v)
  \/ Create \/ RegisterServer \/ Poll \/ Recv \/ Stat \/ Check \/ Exit

Spec == Init /\ [][Next]_vars

-----------------------------------------------------------------------------
(* Reference dispatch: the one dispatcher registered for the call's        *)
(* program and version; else PROG_MISMATCH with the extreme versions       *)
(* registered for the program; else PROG_UNAVAIL.  Two dispatchers for     *)
(* one program and version make the dispatch ambiguous.                    *)
RefDispatch(list, c) ==
  LET same == {list[i].disp : i \in {j \in DOMAIN list :
                  list[j].prog = c.prog /\ list[j].vers = c.vers}}
      vs == {list[i].vers : i \in {j \in DOMAIN list : list[j].prog = c.prog}}
  IN IF same # {}
     THEN IF \E d \in Disps : same = {d}
          THEN [kind |-> "dispatch", disp |-> CHOOSE d \in same : TRUE]
          ELSE [kind |-> "ambiguous"]
     ELSE IF vs # {} THEN [kind |-> "progvers", low |-> Min(vs), high |-> Max(vs)]
     ELSE [kind |-> "noprog"]

(* Whatever sequence of svc_register() and svc_unregister() calls built    *)
(* the callout list, svc_getreqsock() dispatches every call as the         *)
(* reference does: registration never lets two dispatchers serve one       *)
(* program and version, and unregistration removes the one it finds.       *)
DispatchAgrees ==
  \A c \in Call : Dispatch(callouts, c) = RefDispatch(callouts, c)

(* Every connection's transport is destroyed exactly once by the time the *)
(* server thread is done with it: by the RPC layer on XPRT_DIED, or by     *)
(* run_svc()'s cleanup handler, or after a failed svc_register().          *)
DestroyedOnce ==
  (pc = "create" /\ conns > 0) => (xprt = "freed" /\ destroys = 1)

(* No part of the server uses the transport after it has been freed. *)
NoUseAfterFree == ~usedFreed
=============================================================================
