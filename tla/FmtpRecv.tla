------------------------------- MODULE FmtpRecv -------------------------------
(***************************************************************************)
(* The FMTP v3 receiver (class fmtpRecvv3, fmtpRecvv3.h; behaviour from   *)
(* spec.md sections 3-5, 7 and 8, since the .cpp is not in the tree).     *)
(* Three receiver threads share one mutex: the multicast reader           *)
(* (mcastHandler -> mcastBOPHandler / recvMemData / mcastEOPHandler), the *)
(* retransmission receiver (retxHandler -> retxBOPHandler / recvMemData / *)
(* retxEOPHandler / RETX_END) and the retransmission requester            *)
(* (retxRequester) that drains msgqueue onto the TCP connection; a timer  *)
(* thread (timerThread) ends products that ran out of time.  A DATA       *)
(* handler claims its segment's bit under the lock and copies the payload *)
(* into the product buffer after releasing it (spec 4.D); the copy is a   *)
(* step of its own.  The upstream sender emits a fixed stream of products *)
(* onto a multicast network that may lose and swap packets, and answers   *)
(* every request over TCP with the packet or with RETX_END.                *)
(***************************************************************************)
EXTENDS Naturals, Sequences, SequencesExt, FiniteSets

CONSTANTS
  W,          \* width in bits of prodindex (32 in the code)
  First,      \* prodindex of the first product the sender multicasts
  Sizes,      \* prodsize of each product sent, in bytes, in sending order
  PayLen,     \* full payload length of a DATA segment
  MaxLoss,    \* bound on multicast packets lost
  MaxReorder, \* bound on adjacent multicast packets swapped
  QCap,       \* capacity of msgqueue (spec 5: ~4096, overflow drops oldest)
  Refusable   \* request kinds the upstream may answer with RETX_END

Mod == 2^W
Index(k) == (First + k) % Mod
NProds == Len(Sizes)
Products == {Index(k) : k \in 0..NProds - 1}
SizeOf(i) == Sizes[CHOOSE n \in 1..NProds : Index(n - 1) = i]
(* A product's segments; the last one is short when prodsize is not a    *)
(* multiple of the payload length.                                        *)
NSegs(i) == (SizeOf(i) + PayLen - 1) \div PayLen
Segs(i) == 0..NSegs(i) - 1
NoIdx == Mod                    \* no BOP seen yet (prodidx_mcast unset)
Threads == {"mcast", "retx"}
NoCopy == [idx |-> NoIdx, seg |-> 0, fin |-> FALSE]

(* Mutant of After: prodindex compared as a plain unsigned integer.       *)
AfterUnsigned(a, b) == a > b

(* prodindex comparison with wraparound: the signed W-bit difference.      *)
After(a, b) == LET d == (a - b) % Mod IN 0 < d /\ d < Mod \div 2

Pkt(f, i, s) == [flag |-> f, idx |-> i, seq |-> s]
Req(f, i, s) == [flag |-> f, idx |-> i, seq |-> s]

(* The sender's multicast stream: BOP, the DATA segments by seqnum, EOP.   *)
ProdPackets(i) ==
  <<Pkt("BOP", i, 0)>>
  \o [n \in 1..NSegs(i) |-> Pkt("DATA", i, (n - 1) * PayLen)]
  \o <<Pkt("EOP", i, 0)>>
Stream == FoldLeft(LAMBDA s, k : s \o ProdPackets(Index(k)), <<>>,
                   [n \in 1..NProds |-> n - 1])

(* Segment number of a seqnum (offset into the product).                   *)
SegOf(s) == s \div PayLen

VARIABLES
  sent, net, lostPkts, reorders,  \* sender and multicast network
  toSnd, toRcv, refused,          \* TCP connection, each way; RETX_END replies
  trackermap,                     \* indices with a ProdTracker entry
  bits, eopSeen,                  \* per entry: segments claimed, EOP seen
  misBOPset, prodidx_mcast,       \* missing BOPs; the current product
  msgqueue, overflowed,           \* pending requests; indices whose request fell out
  copying,                        \* per thread: payload copy in progress
  delivered, abandoned,           \* notifier outcomes
  retxCount,                      \* requests written per index
  eopEarly,                       \* history: indices whose EOP came before their BOP
  phase,                          \* "run", "stopping" (Stop() called), "down"
  cancelled                       \* indices dropped by shutdown()

sndVars == <<sent, net, lostPkts, reorders, toSnd, toRcv, refused>>
rcvVars == <<trackermap, bits, eopSeen, misBOPset, prodidx_mcast, msgqueue,
             overflowed, copying, delivered, abandoned, retxCount, eopEarly>>
ctlVars == <<phase, cancelled>>
vars == <<sndVars, rcvVars, ctlVars>>

Init ==
  /\ sent = 0 /\ net = <<>> /\ lostPkts = {} /\ reorders = 0
  /\ toSnd = <<>> /\ toRcv = <<>> /\ refused = {}
  /\ trackermap = {} /\ misBOPset = {} /\ prodidx_mcast = NoIdx
  /\ bits = [i \in Products |-> {}] /\ eopSeen = [i \in Products |-> FALSE]
  /\ msgqueue = <<>> /\ overflowed = {}
  /\ copying = [t \in Threads |-> NoCopy]
  /\ delivered = {} /\ abandoned = {}
  /\ retxCount = [i \in Products |-> 0]
  /\ eopEarly = {}
  /\ phase = "run" /\ cancelled = {}

(* Appending to the bounded msgqueue: when full, the oldest request is     *)
(* dropped (spec 5).                                                       *)
PushReq(q, r) == IF Len(q) >= QCap THEN Append(Tail(q), r) ELSE Append(q, r)
PushAll(q, rs) == FoldLeft(PushReq, q, rs)
Dropped(q, rs) ==
  {(q \o rs)[n].idx : n \in 1..(Len(q) + Len(rs) - QCap)}

(* Queue the requests rs (in order), recording whose request fell out.     *)
Enqueue(rs) ==
  /\ msgqueue' = PushAll(msgqueue, rs)
  /\ overflowed' = overflowed \cup Dropped(msgqueue, rs)

(* DATA_REQs for the segments in ss, in seqnum order.                      *)
SegReqs(i, ss) ==
  LET gs == SelectSeq([n \in 1..NSegs(i) |-> n - 1], LAMBDA g : g \in ss)
  IN  [n \in 1..Len(gs) |-> Req("DATA_REQ", i, gs[n] * PayLen)]

(* requestMissingBopsInclusive: the indices after prodidx_mcast up to and *)
(* including i that are neither tracked nor already requested, in order.  *)
MissingBopsInclusive(i) ==
  SelectSeq([k \in 1..((i - prodidx_mcast) % Mod) |-> (prodidx_mcast + k) % Mod],
            LAMBDA j : j \notin trackermap \cup misBOPset)

(* Mutant of GapIdx: the inclusive interval (requestMissingBopsInclusive) *)
(* used where the exclusive one belongs, so the new BOP's own index is    *)
(* requested too.                                                         *)
GapIdxInclusive(i) == MissingBopsInclusive(i)

(* Indices strictly between prodidx_mcast and i that are neither tracked  *)
(* nor already requested, in order (BOP gap detection, spec 4.A).         *)
GapIdx(i) ==
  SelectSeq([k \in 1..((i - prodidx_mcast) % Mod) - 1 |-> (prodidx_mcast + k) % Mod],
            LAMBDA j : j \notin trackermap \cup misBOPset)

(* An untracked index whose DATA or EOP arrives on the multicast path:     *)
(* when it is newer than prodidx_mcast, addUnrqBOPinSet and               *)
(* requestMissingBopsInclusive add it and every unknown index before it   *)
(* to misBOPset, queue their BOP_REQs and make it the current product;    *)
(* otherwise it is out of sequence and dropped.                           *)
NoteMissingBOP(t, i) ==
  IF t = "mcast" /\ (prodidx_mcast = NoIdx \/ After(i, prodidx_mcast))
  THEN LET gap == IF prodidx_mcast = NoIdx THEN <<i>> ELSE MissingBopsInclusive(i)
       IN /\ misBOPset' = misBOPset \cup Range(gap)
          /\ prodidx_mcast' = i
          /\ Enqueue([n \in 1..Len(gap) |-> Req("BOP_REQ", gap[n], 0)])
  ELSE UNCHANGED <<misBOPset, prodidx_mcast, msgqueue, overflowed>>

(* BOPHandler: a BOP is accepted when no entry exists and it is either a   *)
(* requested one (rmMisBOPinSet) or newer than the highest seen; on the    *)
(* multicast path a jump past prodidx_mcast + 1 requests the gap.          *)
BOPHandler(t, i) ==
  LET newer == prodidx_mcast = NoIdx \/ After(i, prodidx_mcast)
      gap   == IF t = "mcast" /\ prodidx_mcast # NoIdx /\ newer
               THEN GapIdx(i) ELSE <<>>
  IN IF i \notin trackermap /\ (i \in misBOPset \/ newer)
     THEN /\ trackermap' = trackermap \cup {i}
          /\ bits' = [bits EXCEPT ![i] = {}]
          /\ eopSeen' = [eopSeen EXCEPT ![i] = FALSE]
          /\ misBOPset' = (misBOPset \ {i}) \cup Range(gap)
          /\ prodidx_mcast' = IF newer THEN i ELSE prodidx_mcast
          /\ Enqueue([n \in 1..Len(gap) |-> Req("BOP_REQ", gap[n], 0)])
          /\ UNCHANGED <<copying, delivered, abandoned>>
     ELSE UNCHANGED <<trackermap, bits, eopSeen, misBOPset, prodidx_mcast,
                      msgqueue, overflowed, copying, delivered, abandoned>>

(* Mutant of DeliverProd: the tracker entry is not erased on delivery.   *)
DeliverProdKeepsEntry(i) ==
  /\ delivered' = delivered \cup {i}
  /\ UNCHANGED trackermap

DeliverProd(i) ==
  /\ trackermap' = trackermap \ {i}
  /\ delivered' = delivered \cup {i}

(* The highest segment of product i received so far, -1 before any.       *)
LastSeg(i) == IF bits[i] = {} THEN -1 ELSE Max(bits[i])

(* recvMemData: a new segment's bit is claimed under the lock and the copy *)
(* left to the thread's next step; on the multicast path the segments     *)
(* between the highest one received before and it are requested          *)
(* (requestAnyMissingData, pushMissingDataReq).  A duplicate is           *)
(* dropped; a segment of an untracked product notes a missing BOP.        *)
DataHandler(t, i, s) ==
  LET g == SegOf(s) IN
  IF i \in trackermap
  THEN IF g \in bits[i]
       THEN UNCHANGED <<trackermap, bits, eopSeen, misBOPset, prodidx_mcast,
                        msgqueue, overflowed, copying, delivered, abandoned>>
       ELSE /\ bits' = [bits EXCEPT ![i] = @ \cup {g}]
            /\ copying' = [copying EXCEPT ![t] =
                 [idx |-> i, seg |-> g, fin |-> eopSeen[i] /\ bits[i] \cup {g} = Segs(i)]]
            /\ IF t = "mcast"
               THEN Enqueue(SegReqs(i, {h \in Segs(i) : LastSeg(i) < h /\ h < g}))
               ELSE UNCHANGED <<msgqueue, overflowed>>
            /\ UNCHANGED <<trackermap, eopSeen, misBOPset, prodidx_mcast,
                           delivered, abandoned>>
  ELSE /\ NoteMissingBOP(t, i)
       /\ UNCHANGED <<trackermap, bits, eopSeen, copying, delivered, abandoned>>

(* EOPHandler: a product whose bits are all set is delivered; otherwise   *)
(* the EOP is recorded and, on the multicast path, every missing segment  *)
(* is requested.                                                          *)
EOPHandler(t, i) ==
  IF i \in trackermap
  THEN IF bits[i] = Segs(i)
       THEN /\ DeliverProd(i)
            /\ UNCHANGED <<bits, eopSeen, misBOPset, prodidx_mcast, msgqueue,
                           overflowed, copying, abandoned>>
       ELSE /\ eopSeen' = [eopSeen EXCEPT ![i] = TRUE]
            /\ IF t = "mcast" THEN Enqueue(SegReqs(i, Segs(i) \ bits[i]))
                              ELSE UNCHANGED <<msgqueue, overflowed>>
            /\ UNCHANGED <<trackermap, bits, misBOPset, prodidx_mcast,
                           copying, delivered, abandoned>>
  ELSE /\ NoteMissingBOP(t, i)
       /\ UNCHANGED <<trackermap, bits, eopSeen, copying, delivered, abandoned>>

(* RETX_END from the sender: the product (tracked or missing its BOP) is  *)
(* abandoned and the missed-product hook called.                          *)
RetxEndHandler(i) ==
  /\ \/ /\ i \in trackermap
        /\ trackermap' = trackermap \ {i} /\ abandoned' = abandoned \cup {i}
        /\ UNCHANGED misBOPset
     \/ /\ i \in misBOPset \ trackermap
        /\ misBOPset' = misBOPset \ {i} /\ abandoned' = abandoned \cup {i}
        /\ UNCHANGED trackermap
     \/ /\ i \notin trackermap \cup misBOPset
        /\ UNCHANGED <<trackermap, misBOPset, abandoned>>
  /\ UNCHANGED <<bits, eopSeen, prodidx_mcast, msgqueue, overflowed, copying,
                 delivered>>

Handle(t, p) ==
  CASE p.flag = "BOP"  -> BOPHandler(t, p.idx)
    [] p.flag = "DATA" -> DataHandler(t, p.idx, p.seq)
    [] p.flag = "EOP"  -> EOPHandler(t, p.idx)
    [] OTHER           -> RetxEndHandler(p.idx)

(* History: an EOP read before its product's multicast BOP reached the   *)
(* receiver (the BOP is still unsent or in flight).                       *)
BOPArrived(i) ==
  LET bop == Pkt("BOP", i, 0)
  IN  /\ \E n \in 1..sent : Stream[n] = bop
      /\ \A n \in 1..Len(net) : net[n] # bop
NoteEarlyEOP(p) ==
  eopEarly' = IF p.flag = "EOP" /\ ~BOPArrived(p.idx)
              THEN eopEarly \cup {p.idx} ELSE eopEarly

(* mcastHandler: the multicast reader takes the next datagram once its    *)
(* previous payload copy is done.                                         *)
McastRead ==
  /\ phase = "run" /\ copying["mcast"] = NoCopy /\ net # <<>>
  /\ net' = Tail(net)
  /\ Handle("mcast", Head(net)) /\ NoteEarlyEOP(Head(net))
  /\ UNCHANGED <<sent, lostPkts, reorders, toSnd, toRcv, refused, retxCount,
                 ctlVars>>

(* retxHandler: the retransmission receiver reads the TCP stream.         *)
RetxRead ==
  /\ phase = "run" /\ copying["retx"] = NoCopy /\ toRcv # <<>>
  /\ toRcv' = Tail(toRcv)
  /\ Handle("retx", Head(toRcv)) /\ NoteEarlyEOP(Head(toRcv))
  /\ UNCHANGED <<sent, net, lostPkts, reorders, toSnd, refused, retxCount,
                 ctlVars>>

(* The payload copy, outside the lock; the thread whose claim completed a *)
(* product after its EOP delivers it.                                     *)
Copy(t) ==
  LET c == copying[t] IN
  /\ c # NoCopy
  /\ copying' = [copying EXCEPT ![t] = NoCopy]
  /\ IF c.fin /\ c.idx \in trackermap
     THEN DeliverProd(c.idx)
     ELSE UNCHANGED <<trackermap, delivered>>
  /\ UNCHANGED <<sndVars, bits, eopSeen, misBOPset, prodidx_mcast, msgqueue,
                 overflowed, abandoned, retxCount, eopEarly, ctlVars>>

(* retxRequester: the head of msgqueue is written to the TCP connection.  *)
RetxRequester ==
  /\ phase = "run" /\ msgqueue # <<>>
  /\ toSnd' = Append(toSnd, Head(msgqueue))
  /\ msgqueue' = Tail(msgqueue)
  /\ retxCount' = [retxCount EXCEPT ![Head(msgqueue).idx] = @ + 1]
  /\ UNCHANGED <<sent, net, lostPkts, reorders, toRcv, refused, trackermap,
                 bits, eopSeen, misBOPset, prodidx_mcast, overflowed, copying,
                 delivered, abandoned, eopEarly, ctlVars>>

(* A product's timer can only fire once nothing of it is still on its way *)
(* (the product timeout covers transmission and retransmission, spec 4.E): *)
(* every packet of it has been sent and none is queued, in flight or       *)
(* being copied, and no request for it is pending.                        *)
Emitted(i) == \A n \in 1..Len(Stream) : Stream[n].idx = i => n <= sent
WindowPassed(i) == Emitted(i) /\ \A n \in 1..Len(net) : net[n].idx # i
Quiet(i) ==
  /\ WindowPassed(i)
  /\ \A n \in 1..Len(toRcv) : toRcv[n].idx # i
  /\ \A n \in 1..Len(toSnd) : toSnd[n].idx # i
  /\ \A n \in 1..Len(msgqueue) : msgqueue[n].idx # i
  /\ \A t \in Threads : copying[t].idx # i

(* Mutant of Timer: the timer is armed by the EOP instead of the BOP.     *)
TimerArmedAtEOP(i) ==
  /\ phase = "run" /\ i \in trackermap /\ eopSeen[i] /\ Quiet(i)
  /\ IF bits[i] = Segs(i)
     THEN /\ DeliverProd(i)
          /\ UNCHANGED <<abandoned, msgqueue, overflowed>>
     ELSE /\ trackermap' = trackermap \ {i}
          /\ abandoned' = abandoned \cup {i}
          /\ Enqueue(<<Req("RETX_END", i, 0)>>)
          /\ UNCHANGED delivered
  /\ UNCHANGED <<sndVars, bits, eopSeen, misBOPset, prodidx_mcast, copying,
                 retxCount, eopEarly, ctlVars>>

(* timerThread: on expiry a complete product is delivered; otherwise it   *)
(* is abandoned (missed hook, entry freed) and a RETX_END queued.         *)
Timer(i) ==
  /\ phase = "run" /\ i \in trackermap /\ Quiet(i)
  /\ IF eopSeen[i] /\ bits[i] = Segs(i)
     THEN /\ DeliverProd(i)
          /\ UNCHANGED <<abandoned, msgqueue, overflowed>>
     ELSE /\ trackermap' = trackermap \ {i}
          /\ abandoned' = abandoned \cup {i}
          /\ Enqueue(<<Req("RETX_END", i, 0)>>)
          /\ UNCHANGED delivered
  /\ UNCHANGED <<sndVars, bits, eopSeen, misBOPset, prodidx_mcast, copying,
                 retxCount, eopEarly, ctlVars>>

(* The upstream sender multicasts its next packet.                        *)
Emit ==
  /\ phase = "run" /\ sent < Len(Stream)
  /\ net' = Append(net, Stream[sent + 1])
  /\ sent' = sent + 1
  /\ UNCHANGED <<lostPkts, reorders, toSnd, toRcv, refused, rcvVars, ctlVars>>

(* The multicast network loses a datagram ...                             *)
Lose ==
  /\ phase = "run" /\ Cardinality(lostPkts) < MaxLoss
  /\ \E n \in 1..Len(net) :
       /\ net' = RemoveAt(net, n)
       /\ lostPkts' = lostPkts \cup {net[n]}
  /\ UNCHANGED <<sent, reorders, toSnd, toRcv, refused, rcvVars, ctlVars>>

(* ... or delivers two adjacent datagrams in the other order.             *)
Swap ==
  /\ phase = "run" /\ reorders < MaxReorder
  /\ \E n \in 1..Len(net) - 1 :
       net' = [net EXCEPT ![n] = net[n + 1], ![n + 1] = net[n]]
  /\ reorders' = reorders + 1
  /\ UNCHANGED <<sent, lostPkts, toSnd, toRcv, refused, rcvVars, ctlVars>>

(* The upstream retransmitter answers a request with the packet asked for *)
(* or, once its window has moved past the product (spec 4.C), with        *)
(* RETX_END; a RETX_END from the receiver only ends the product at the    *)
(* sender.  The window outlasts multicast delay and only moves forward:   *)
(* the sender lets a product go only once all of it has been multicast    *)
(* and none of it is still in flight, and never takes it back.            *)
Answer ==
  /\ phase = "run" /\ toSnd # <<>>
  /\ toSnd' = Tail(toSnd)
  /\ LET r == Head(toSnd) IN
     IF r.flag = "RETX_END"
     THEN UNCHANGED <<toRcv, refused>>
     ELSE \/ /\ r.idx \notin refused
             /\ toRcv' = Append(toRcv, Pkt(IF r.flag = "BOP_REQ" THEN "BOP"
                                                           ELSE "DATA",
                                          r.idx, r.seq))
             /\ UNCHANGED refused
          \/ /\ r.flag \in Refusable /\ WindowPassed(r.idx)
             /\ toRcv' = Append(toRcv, Pkt("RETX_END", r.idx, 0))
             /\ refused' = refused \cup {r.idx}
  /\ UNCHANGED <<sent, net, lostPkts, reorders, rcvVars, ctlVars>>

(* Stop(), called by the application or, through taskExit(), by a thread *)
(* that hit a fatal error: the stop flag is set and both sockets closed,  *)
(* so each thread exits at its next wakeup; a reader still finishes the   *)
(* payload copy of the segment it claimed.  To bound the state space the  *)
(* model calls Stop() only once the receiver has read the whole stream    *)
(* and no request or retransmission is on its way.                        *)
Stop ==
  /\ phase = "run" /\ sent = Len(Stream)
  /\ net = <<>> /\ toRcv = <<>> /\ toSnd = <<>> /\ msgqueue = <<>>
  /\ phase' = "stopping"
  /\ UNCHANGED <<sndVars, rcvVars, cancelled>>

(* The rest of Stop(): stopJoinMcastHandler and stopJoinRetxHandler wait  *)
(* until no reader holds a claimed segment, then shutdown() drops every   *)
(* live tracker and missing-BOP entry through the notifier's              *)
(* cancellation hook (spec 4.D, 5).                                       *)
Shutdown ==
  /\ phase = "stopping"
  /\ \A t \in Threads : copying[t] = NoCopy
  /\ cancelled' = trackermap \cup misBOPset
  /\ trackermap' = {} /\ misBOPset' = {}
  /\ phase' = "down"
  /\ UNCHANGED <<sndVars, bits, eopSeen, prodidx_mcast, msgqueue, overflowed,
                 copying, delivered, abandoned, retxCount, eopEarly>>

Receiver ==
  \/ McastRead \/ RetxRead \/ RetxRequester
  \/ \E t \in Threads : Copy(t)
  \/ \E i \in Products : Timer(i)

Next == Receiver \/ Emit \/ Lose \/ Swap \/ Answer \/ Stop \/ Shutdown

(* Every receiver thread runs whenever it has work (each blocks only on   *)
(* its own input), the timer fires, and TCP delivers; loss and reordering *)
(* need not happen.  Stop() need not be called; once it is, the control  *)
(* thread's joins and shutdown() complete.                                *)
Fairness ==
  /\ WF_vars(McastRead) /\ WF_vars(RetxRead) /\ WF_vars(RetxRequester)
  /\ \A t \in Threads : WF_vars(Copy(t))
  /\ \A i \in Products : WF_vars(Timer(i))
  /\ WF_vars(Emit) /\ WF_vars(Answer) /\ WF_vars(Shutdown)

Spec == Init /\ [][Next]_vars /\ Fairness

-----------------------------------------------------------------------------
TypeOK ==
  /\ trackermap \subseteq Products /\ misBOPset \subseteq Products
  /\ prodidx_mcast \in Products \cup {NoIdx}
  /\ \A i \in Products : bits[i] \subseteq Segs(i)
  /\ eopSeen \in [Products -> BOOLEAN]
  /\ Len(msgqueue) <= QCap
  /\ delivered \subseteq Products /\ abandoned \subseteq Products
  /\ phase \in {"run", "stopping", "down"} /\ cancelled \subseteq Products

(* The receiver implements FmtpDelivery: each product becomes live when   *)
(* it is tracked or its BOP is missing, and ends once, delivered or       *)
(* missed, or cancelled by shutdown(), never re-opened (spec 3: an entry exists only between BOP and  *)
(* delivery or abandonment; 8: each index in exactly one state).          *)
Status == [i \in Products |->
             IF i \in trackermap \cup misBOPset THEN "live"
             ELSE IF i \in delivered THEN "delivered"
             ELSE IF i \in abandoned THEN "missed"
             ELSE IF i \in cancelled THEN "cancelled"
             ELSE "none"]
(* Spec 8: every index ever observed is in exactly one of the missing-BOP *)
(* set, the tracker map, DELIVERED, ABANDONED and (after shutdown())      *)
(* cancelled; no step moves an index back out of a terminal state.        *)
OneStatePerIndex ==
  LET St == <<misBOPset, trackermap, delivered, abandoned, cancelled>>
  IN  \A m, n \in 1..5 : m < n => St[m] \cap St[n] = {}
Abs == INSTANCE FmtpDelivery WITH status <- Status
FmtpSpec == Abs!Spec

(* Spec 4.D: a payload copy made after the lock is released writes into a *)
(* product buffer that still exists.                                      *)
CopyTargetsLiveEntry ==
  \A t \in Threads : copying[t] # NoCopy => copying[t].idx \in trackermap

(* Spec 8 round-trip law: with no loss and no reordering, and across the  *)
(* prodindex wraparound, the receiver never writes a retransmission       *)
(* request.                                                               *)
CleanStreamNoRetx ==
  lostPkts = {} /\ reorders = 0 => \A i \in Products : retxCount[i] = 0

(* Spec 8 round-trip laws: a product whose BOP and EOP got through, the  *)
(* EOP after the BOP, and none of whose requests the upstream refused or  *)
(* the full msgqueue dropped, is eventually delivered however the network *)
(* lost or reordered its DATA segments (scenarios 2, 5 and 6), unless the *)
(* receiver was stopped first.                                            *)
Spoiled(i) ==
  \/ i \in refused \cup overflowed \cup eopEarly
  \/ phase # "run"
  \/ \E f \in {"BOP", "EOP"} : Pkt(f, i, 0) \in lostPkts
RecoveredUnlessSpoiled ==
  <>[](\A i \in Products : ~Spoiled(i) => i \in delivered)

(* Spec 8: the retransmission requester (retxRequester) never writes a   *)
(* request, other than RETX_END, for a product that is in neither the     *)
(* missing-BOP set nor the tracker, i.e. one already delivered or missed. *)
NoSpuriousRequest ==
  [][RetxRequester => LET r == Head(msgqueue) IN
                      r.flag # "RETX_END" => r.idx \in trackermap \cup misBOPset]_vars

=============================================================================
