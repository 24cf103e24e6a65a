------------------------------- MODULE LdmProxy -------------------------------
(***************************************************************************)
(* The proxy for a remote LDM (src/protocol2/LdmProxy.c): lp_new() connects *)
(* with LDM-6 and falls back to LDM-5 when the remote LDM refuses the       *)
(* version; lp_hiya(), lp_send() and lp_flush() then go through the         *)
(* version's functions.  LDM-5 messages are synchronous calls; LDM-6 sends  *)
(* HEREIS_6 and BLKDATA_6 asynchronously (clnt_call() with a zero timeout   *)
(* returns RPC_TIMEDOUT when the message is written) and only NULLPROC_6 in *)
(* lp_flush() waits for a reply.                                           *)
(*                                                                         *)
(* Data is abstracted to sizes: a product is an index with Size[p] bytes    *)
(* and a message is its kind, packet number and length.  The remote LDM,    *)
(* the TCP connection, ldm_clnttcp_create_vers() and the client of the      *)
(* proxy are not in the repository and are the environment.  The client    *)
(* follows LdmProxy.h: lp_new(), lp_hiya(), lp_send() of each product in    *)
(* turn and lp_flush() at any time until a call fails, then lp_free().      *)
(* One TCP stream and one server process: a synchronous call is answered    *)
(* only after the LDM has processed every message written before it.       *)
(***************************************************************************)
EXTENDS Naturals, Sequences, SequencesExt

CONSTANTS NProds,       \* the number of products the client sends
          Size,         \* Size[p]: info.sz of product p
          DBUFMAX,      \* the largest LDM-5 HEREIS product and BLKDATA packet
          HereisLimits, \* max_hereis values an LDM-6 may announce in HIYA_6
          UpVersions    \* the LDM versions the remote host may run

VARIABLES pc,        \* where the client is: "new", "hiya", "send", "free", "done"
          upVersion, \* the version of the remote LDM
          version,   \* proxy->version (0 until lp_new() succeeds)
          maxHereis, \* proxy->max_hereis
          status,    \* the LdmProxyStatus the last call returned
          conn,      \* the TCP connection: "up", or "down" for good
          chan,      \* LDM-6 asynchronous messages written, not yet read
          recv,      \* recv[p]: the messages of product p the LDM processed
          next,      \* the product the client sends next
          okSent,    \* products for which lp_send() returned 0
          confirmed  \* products lp_send() accepted before an lp_flush() returned 0

Prods == 1..NProds  \* sent in this order

vars == <<pc, upVersion, version, maxHereis, status, conn, chan, recv, next,
          okSent, confirmed>>

Statuses == {"OK", "UNWANTED", "TIMEDOUT", "RPC_ERROR", "LDM_ERROR",
             "HOSTUNREACH", "SYSTEM"}

Msg(kind, pktnum, len) == [kind |-> kind, pktnum |-> pktnum, len |-> len]

Kinds == {"HEREIS5", "BLKDATA5", "HEREIS6", "BLKDATA6"}

TypeOK ==
  /\ pc \in {"new", "hiya", "send", "free", "done"}
  /\ upVersion \in UpVersions /\ version \in {0, 5, 6}
  /\ maxHereis \in {0} \cup HereisLimits /\ status \in Statuses
  /\ conn \in {"up", "down"}
  /\ \A i \in DOMAIN chan : chan[i].prod \in Prods /\ chan[i].msg.kind \in Kinds
  /\ \A p \in Prods : \A i \in DOMAIN recv[p] : recv[p][i].kind \in Kinds
  /\ next \in 1..NProds + 1
  /\ okSent \subseteq Prods /\ confirmed \subseteq okSent

-----------------------------------------------------------------------------
(* Helpers *)

(* getStatus() after a call that got no reply: LP_TIMEDOUT or LP_RPC_ERROR. *)
GetStatus == status' \in {"TIMEDOUT", "RPC_ERROR"}

(* A synchronous clnt_call() is answered: the connection is up and the LDM  *)
(* has read everything written before the call.                            *)
Answered == conn = "up" /\ chan = <<>>

(* The LDM processes the messages ms of product p. *)
Processed(p, ms) == recv' = [recv EXCEPT ![p] = @ \o ms]

(* Mutant of Packets: pkt.pktnum++ dropped from the loop. *)
RECURSIVE PacketsNoIncr(_, _)
PacketsNoIncr(unsent, pktnum) ==
  IF unsent = 0 THEN <<>>
  ELSE LET nsend == IF DBUFMAX < unsent THEN DBUFMAX ELSE unsent
       IN <<Msg("BLKDATA5", pktnum, nsend)>> \o PacketsNoIncr(unsent - nsend, pktnum)

(* The BLKDATA_5 packets of my_csbd_5()'s loop for unsent bytes. *)
RECURSIVE Packets(_, _)
Packets(unsent, pktnum) ==
  IF unsent = 0 THEN <<>>
  ELSE LET nsend == IF DBUFMAX < unsent THEN DBUFMAX ELSE unsent
       IN <<Msg("BLKDATA5", pktnum, nsend)>> \o Packets(unsent - nsend, pktnum + 1)

(* An asynchronous LDM-6 message: written to a live connection and read   *)
(* later; written to a dead one and lost (clnt_stat() is still            *)
(* RPC_TIMEDOUT), or refused by the dead socket (getStatus()).             *)
WriteAsync(p, m) ==
  \/ /\ conn = "up"
     /\ chan' = Append(chan, [prod |-> p, msg |-> m])
     /\ status' = "OK"
  \/ /\ conn = "down"
     /\ status' \in {"OK", "RPC_ERROR"}
     /\ UNCHANGED chan

(* convertStatus(): the proxy status for ldm_clnttcp_create_vers()'s error. *)
ConvertStatus(e) ==
  CASE e = "UNKNOWN_HOST" -> "HOSTUNREACH"
    [] e = "TIMED_OUT"    -> "TIMEDOUT"
    [] e = "NO_CONNECT"   -> "RPC_ERROR"
    [] e = "BAD_VERSION"  -> "LDM_ERROR"
    [] OTHER              -> "SYSTEM"

(* ldm_clnttcp_create_vers(): refused with LDM_CLNT_BAD_VERSION by an LDM  *)
(* older than v; any attempt may fail to reach the host.                  *)
ClntCreate(v) ==
  (IF v <= upVersion THEN {"OK"} ELSE {"BAD_VERSION"})
    \cup {"UNKNOWN_HOST", "TIMED_OUT", "NO_CONNECT", "SYSTEM"}

-----------------------------------------------------------------------------
(* The version functions; each sets status' to what it returns. *)

(* my_hiya_5(): HIYA answered OK or RECLASS succeeds; SHUTTING_DOWN,      *)
(* DONT_SEND, RESTART, REDIRECT or another code is LP_LDM_ERROR.           *)
MyHiya5 ==
  /\ \/ GetStatus
     \/ Answered /\ status' \in {"OK", "LDM_ERROR"}
  /\ UNCHANGED maxHereis

(* my_hiya_6(): as my_hiya_5(), but OK and RECLASS also set max_hereis    *)
(* from the reply, and BADPATTERN and RESEND are LP_LDM_ERROR too.         *)
MyHiya6 ==
  \/ GetStatus /\ UNCHANGED maxHereis
  \/ Answered /\ status' = "LDM_ERROR" /\ UNCHANGED maxHereis
  \/ Answered /\ status' = "OK" /\ maxHereis' \in HereisLimits

(* my_hereis_5(): one synchronous HEREIS.  A call that times out may have *)
(* been processed by the LDM; DONT_SEND is LP_UNWANTED.                   *)
MyHereis5(p) ==
  LET m == Msg("HEREIS5", 0, Size[p]) IN
  \/ GetStatus /\ UNCHANGED recv
  \/ Answered /\ GetStatus /\ Processed(p, <<m>>)
  \/ Answered /\ status' = "OK" /\ Processed(p, <<m>>)
  \/ Answered /\ status' \in {"UNWANTED", "LDM_ERROR"} /\ UNCHANGED recv

(* my_csbd_5(): COMINGSOON (my_comingsoon_5()), then my_blkdata_5() of    *)
(* each packet until one gets no reply or a reply other than OK.  k        *)
(* packets were acknowledged; a packet whose call timed out may have been *)
(* processed.                                                              *)
MyCsbd5(p) ==
  LET pkts == Packets(Size[p], 0) IN
  \/ GetStatus /\ UNCHANGED recv
  \/ Answered /\ status' \in {"UNWANTED", "LDM_ERROR"} /\ UNCHANGED recv
  \/ Answered /\ status' = "OK" /\ Processed(p, pkts)
  \/ /\ Answered
     /\ \E k \in 0..Len(pkts) - 1 :
          \/ GetStatus /\ \E j \in {k, k + 1} : Processed(p, SubSeq(pkts, 1, j))
          \/ status' = "LDM_ERROR" /\ Processed(p, SubSeq(pkts, 1, k))

(* my_send_5(): COMINGSOON/BLKDATA only for a product larger than DBUFMAX. *)
MySend5(p) ==
  /\ IF DBUFMAX < Size[p] THEN MyCsbd5(p) ELSE MyHereis5(p)
  /\ UNCHANGED chan

(* my_hereis_6(): HEREIS_6, asynchronous. *)
MyHereis6(p) ==
  /\ WriteAsync(p, Msg("HEREIS6", 0, Size[p]))
  /\ UNCHANGED recv

(* my_csbd_6(): the synchronous COMINGSOON_6, then on a reply of 0 the   *)
(* whole product in one asynchronous BLKDATA_6.                           *)
MyCsbd6(p) ==
  /\ \/ GetStatus /\ UNCHANGED chan
     \/ Answered /\ status' \in {"UNWANTED", "LDM_ERROR"} /\ UNCHANGED chan
     \/ Answered /\ WriteAsync(p, Msg("BLKDATA6", 0, Size[p]))
  /\ UNCHANGED recv

(* my_send_6(): HEREIS_6 for a product of at most max_hereis bytes. *)
MySend6(p) ==
  IF Size[p] <= maxHereis THEN MyHereis6(p) ELSE MyCsbd6(p)

(* my_flush_5(): LDM-5 messages are synchronous; nothing to do. *)
MyFlush5 == status' = "OK"

(* Mutant of MyFlush6: NULLPROC_6 sent like the other LDM-6 messages,   *)
(* without waiting for the LDM to read what was written before it.       *)
MyFlush6NoWait ==
  \/ GetStatus
  \/ conn = "up" /\ status' = "OK"

(* my_flush_6(): the synchronous NULLPROC_6, answered after everything   *)
(* written before it.                                                     *)
MyFlush6 ==
  \/ GetStatus
  \/ Answered /\ status' = "OK"

-----------------------------------------------------------------------------
(* The public functions, each with what the client does with its status. *)

Init ==
  /\ pc = "new"
  /\ upVersion \in UpVersions
  /\ version = 0 /\ maxHereis = 0 /\ status = "OK"
  /\ conn = "up" /\ chan = <<>>
  /\ recv = [p \in Prods |-> <<>>]
  /\ next = 1 /\ okSent = {} /\ confirmed = {}

(* lp_new(): the allocations fail (LP_SYSTEM), or LDM-6 connects, or LDM-6 *)
(* is refused for its version and LDM-5 is tried.  Any other error of the  *)
(* first attempt, or an error of the second, is converted and returned.    *)
(* max_hereis is left uninitialized: nothing reads it before lp_hiya().    *)
LpNew ==
  /\ pc = "new"
  /\ LET Created(v) == version' = v /\ status' = "OK" /\ pc' = "hiya"
         Failed(e)  == status' = ConvertStatus(e) /\ pc' = "done"
                       /\ UNCHANGED version
     IN \/ status' = "SYSTEM" /\ pc' = "done" /\ UNCHANGED version
        \/ \E e6 \in ClntCreate(6) :
             \/ e6 = "OK" /\ Created(6)
             \/ e6 \notin {"OK", "BAD_VERSION"} /\ Failed(e6)
             \/ e6 = "BAD_VERSION" /\ \E e5 \in ClntCreate(5) :
                  IF e5 = "OK" THEN Created(5) ELSE Failed(e5)
  /\ UNCHANGED <<upVersion, maxHereis, conn, chan, recv, next, okSent, confirmed>>

(* lp_hiya(): the version's HIYA; the client sends only after a 0. *)
LpHiya ==
  /\ pc = "hiya"
  /\ IF version = 5 THEN MyHiya5 ELSE MyHiya6
  /\ pc' = IF status' = "OK" THEN "send" ELSE "free"
  /\ UNCHANGED <<upVersion, version, conn, chan, recv, next, okSent, confirmed>>

(* lp_send() of the next product; the client goes on after 0 or          *)
(* LP_UNWANTED and stops after an error.                                 *)
LpSend ==
  /\ pc = "send" /\ next \in Prods
  /\ IF version = 5 THEN MySend5(next) ELSE MySend6(next)
  /\ next' = next + 1
  /\ okSent' = IF status' = "OK" THEN okSent \cup {next} ELSE okSent
  /\ pc' = IF status' \in {"OK", "UNWANTED"} THEN "send" ELSE "free"
  /\ UNCHANGED <<upVersion, version, maxHereis, conn, confirmed>>

(* lp_flush(), between sends or after the last one. *)
LpFlush ==
  /\ pc = "send"
  /\ IF version = 5 THEN MyFlush5 ELSE MyFlush6
  /\ confirmed' = IF status' = "OK" THEN okSent ELSE confirmed
  /\ pc' = IF status' = "OK" /\ next \in Prods THEN "send" ELSE "free"
  /\ UNCHANGED <<upVersion, version, maxHereis, conn, chan, recv, next, okSent>>

(* lp_free(): clnt_destroy() closes the socket; what was written is still *)
(* delivered.                                                             *)
LpFree ==
  /\ pc = "free"
  /\ pc' = "done"
  /\ UNCHANGED <<upVersion, version, maxHereis, status, conn, chan, recv, next,
                 okSent, confirmed>>

(* The remote LDM reads the next asynchronous message. *)
LdmReceive ==
  /\ conn = "up" /\ chan # <<>>
  /\ Processed(Head(chan).prod, <<Head(chan).msg>>)
  /\ chan' = Tail(chan)
  /\ UNCHANGED <<pc, upVersion, version, maxHereis, status, conn, next, okSent,
                 confirmed>>

(* The connection breaks; what is in flight is lost. *)
ConnBreak ==
  /\ conn = "up" /\ version # 0
  /\ conn' = "down" /\ chan' = <<>>
  /\ UNCHANGED <<pc, upVersion, version, maxHereis, status, recv, next, okSent,
                 confirmed>>

Next == LpNew \/ LpHiya \/ LpSend \/ LpFlush \/ LpFree \/ LdmReceive \/ ConnBreak

Spec == Init /\ [][Next]_vars

-----------------------------------------------------------------------------
(* Properties *)

(* The LDM has processed the whole of product p. *)
Delivered(p) ==
  recv[p] # <<>> /\ FoldLeft(LAMBDA n, m : n + m.len, 0, recv[p]) = Size[p]

(* What a 0 from lp_send() and lp_flush() promises: an LDM-5 lp_send()    *)
(* returns 0 only when the LDM has acknowledged the whole product (every  *)
(* BLKDATA packet of my_csbd_5()'s loop), and a product that LDM-6's      *)
(* asynchronous lp_send() accepted is processed by the LDM once a later   *)
(* lp_flush() has returned 0, however the connection failed in between.   *)
DeliveryConfirmed ==
  \A p \in okSent : (version = 5 \/ p \in confirmed) => Delivered(p)

(* Every message the LDM processes keeps the protocol's limits: a HEREIS  *)
(* or BLKDATA packet of LDM-5 is at most DBUFMAX bytes, the packets of a  *)
(* product are numbered 0, 1, ... in order and none is empty, and an      *)
(* LDM-6 HEREIS_6 is at most the max_hereis the LDM announced in HIYA_6.  *)
PacketsWithinLimits ==
  \A p \in Prods : \A i \in DOMAIN recv[p] :
    LET m == recv[p][i] IN
    /\ m.kind = "BLKDATA5" => 0 < m.len /\ m.len <= DBUFMAX /\ m.pktnum = i - 1
    /\ m.kind = "HEREIS5" => m.len <= DBUFMAX
    /\ m.kind = "HEREIS6" => m.len <= maxHereis

=============================================================================
