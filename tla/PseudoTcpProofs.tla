-------------------------- MODULE PseudoTcpProofs ---------------------------
(***************************************************************************)
(* The inductive invariant of PseudoTcp: the two ends and every packet in  *)
(* the network agree.  One lemma for each action; the theorems are at the  *)
(* end.                                                                    *)
(***************************************************************************)
EXTENDS PseudoTcpOperators

----------------------------------------------------------------------------
(* What a step must keep.                                                  *)

\* What Good depends on.
SameCore(t, u) ==
  /\ u.una = t.una /\ u.nxt = t.nxt /\ u.wnd = t.wnd /\ u.rto = t.rto
  /\ u.recover = t.recover /\ u.mss = t.mss /\ u.slist = t.slist /\ u.end = t.end
  /\ u.rcv = t.rcv /\ u.rwnd = t.rwnd /\ u.rlist = t.rlist
  /\ u.rpos = t.rpos /\ u.dlen = t.dlen

\* A change that Good does not see.
LEMMA SameCoreGood ==
  ASSUME NEW t, NEW r, NEW u \in Tcb, Good(t, r), SameCore(t, u)
  PROVE  Good(u, r) /\ Grows(t, u)
<1>1. t \in Tcb /\ r \in Tcb
  BY DEF Good
<1>2. \A q : Bounds(t, q) <=> Bounds(u, q)
  BY DEF Bounds, SameCore
<1>3. Grows(t, u)
  <2>1. t.nxt = u.nxt /\ t.rcv = u.rcv /\ t.rwnd = u.rwnd
    BY DEF SameCore
  <2> QED  BY <1>1, <1>2, <2>1, TcbTypes DEF Grows
<1>4. Sender(u)
  BY DEF Good, Sender, Segments, SameCore
<1>5. Receiver(u)
  BY DEF Good, Receiver, SameCore
<1>6. Link(u, r)
  BY <1>2 DEF Good, Link, SameCore
<1>7. Link(r, u)
  BY DEF Good, Link, SameCore
<1> QED  BY <1>1, <1>3, <1>4, <1>5, <1>6, <1>7 DEF Good

\* A connection that was opened has queued its connect message.
Opened == {"SynSent", "SynReceived", "Established"}
StateOK(t) == /\ t.state = "Listen" => t.end = 0
              /\ t.state \in Opened => t.end > 0

\* What it takes for a step that changes t to u to keep the invariant.
KeepsGood(t, u, r) == Good(u, r) /\ Grows(t, u) /\ StateOK(u)

\* What leaves the stream alone: nothing is queued, received or read.
Quiet(t, u) ==
  /\ u.end = t.end /\ u.state \in {t.state, "Closed"}
  /\ u.rcv = t.rcv /\ u.rlist = t.rlist /\ u.cell = t.cell
  /\ u.rpos = t.rpos /\ u.dlen = t.dlen /\ (t.shutdown => u.shutdown)
Quieted(e) == \E u \in Tcb : Quiet(tcb[e], u) /\ tcb' = [tcb EXCEPT ![e] = u]

\* Changing what is left to do.
LEMMA TodoIs ==
  ASSUME NEW t \in Tcb, NEW d \in Todos
  PROVE  LET u == [t EXCEPT !.todo = d]
         IN /\ u \in Tcb /\ SameCore(t, u) /\ u.state = t.state /\ u.todo = d
            /\ SameAcks(t, u) /\ SameReceiver(t, u) /\ u.writeable = t.writeable
BY DEF Tcb, SameCore, SameAcks, SameReceiver

\* Changing the state.
LEMMA StateIs ==
  ASSUME NEW t \in Tcb, NEW s \in States
  PROVE  LET u == [t EXCEPT !.state = s]
         IN /\ u \in Tcb /\ SameCore(t, u) /\ u.state = s /\ u.todo = t.todo
            /\ SameAcks(t, u) /\ SameReceiver(t, u) /\ u.writeable = t.writeable
BY DEF Tcb, SameCore, SameAcks, SameReceiver

\* Only the state and what is left to do differ.
Turns(t, u, s, d) ==
  /\ u \in Tcb /\ SameCore(t, u) /\ u.state = s /\ u.todo = d
  /\ SameAcks(t, u) /\ SameReceiver(t, u) /\ u.writeable = t.writeable

\* Changing both.
LEMMA StateTodoIs ==
  ASSUME NEW t \in Tcb, NEW s \in States, NEW d \in Todos
  PROVE  Turns(t, [t EXCEPT !.state = s, !.todo = d], s, d)
BY DEF Tcb, Turns, SameCore, SameAcks, SameReceiver

\* Only what is left to do, and whether an acknowledgement is due, differs.
Delays(t, u, d, b) ==
  /\ u \in Tcb /\ SameCore(t, u) /\ u.state = t.state /\ u.todo = d
  /\ u.tack = b /\ u.acked = t.acked /\ SameReceiver(t, u)
  /\ u.writeable = t.writeable

\* Changing what is left to do and whether an acknowledgement is due.
LEMMA TodoTackIs ==
  ASSUME NEW t \in Tcb, NEW d \in Todos, NEW b \in BOOLEAN
  PROVE  Delays(t, [t EXCEPT !.todo = d, !.tack = b], d, b)
BY DEF Tcb, Delays, SameCore, SameReceiver

\* Changing m_bWriteEnable, m_bReadEnable or m_shutdown.
LEMMA FlagsAre ==
  ASSUME NEW t \in Tcb, NEW b \in BOOLEAN
  PROVE  /\ LET u == [t EXCEPT !.writeable = b]
            IN /\ u \in Tcb /\ SameCore(t, u) /\ u.state = t.state /\ u.todo = t.todo
               /\ SameAcks(t, u) /\ SameReceiver(t, u) /\ u.writeable = b
         /\ LET u == [t EXCEPT !.readable = b]
            IN /\ u \in Tcb /\ SameCore(t, u) /\ u.state = t.state /\ u.todo = t.todo
               /\ SameAcks(t, u) /\ u.readable = b /\ u.writeable = t.writeable
               /\ u.cell = t.cell /\ u.shutdown = t.shutdown
         /\ LET u == [t EXCEPT !.shutdown = b]
            IN /\ u \in Tcb /\ SameCore(t, u) /\ u.state = t.state /\ u.todo = t.todo
               /\ SameAcks(t, u) /\ u.readable = t.readable /\ u.writeable = t.writeable
               /\ u.cell = t.cell /\ u.shutdown = b
BY ZenonT(40) DEF Tcb, SameCore, SameAcks, SameReceiver

\* What packet() leaves alone.
LEMMA AcknowledgedCore ==
  ASSUME NEW t \in Tcb
  PROVE  /\ SameCore(t, Acknowledged(t)) /\ Acknowledged(t) \in Tcb
         /\ Acknowledged(t).state = t.state /\ Acknowledged(t).todo = t.todo
         /\ Acknowledged(t).acked = t.rcv /\ Acknowledged(t).tack = FALSE
         /\ Acknowledged(t).writeable = t.writeable
         /\ SameReceiver(t, Acknowledged(t))
BY AcknowledgedIs DEF SameCore, SameProgress, SameList, SameReceiver

\* What closedown leaves alone.
LEMMA ClosedCore ==
  ASSUME NEW t \in Tcb
  PROVE  /\ SameCore(t, Closed(t)) /\ Closed(t) \in Tcb
         /\ Closed(t).state = "Closed" /\ Closed(t).todo = "Idle"
         /\ SameReceiver(t, Closed(t))
BY ClosedIs DEF SameCore, SameProgress, SameList, SameReceiver

\* A change that Good does not see.
LEMMA SameCoreStep ==
  ASSUME NEW t, NEW r, NEW u \in Tcb, Good(t, r), StateOK(t), SameCore(t, u),
         u.state \in {t.state, "Closed"} \/ (u.state \in Opened /\ t.end > 0)
  PROVE  KeepsGood(t, u, r)
<1>1. u.end = t.end
  BY DEF SameCore
<1>2. StateOK(u)
  BY <1>1 DEF StateOK, Opened
<1> QED  BY <1>2, SameCoreGood DEF KeepsGood

\* Two parts of a step.
LEMMA KeepsGoodTrans ==
  ASSUME NEW t \in Tcb, NEW u, NEW v, NEW r, Good(u, r), Grows(t, u), KeepsGood(u, v, r)
  PROVE  KeepsGood(t, v, r)
BY GrowsTrans DEF KeepsGood, Good

(* The connection as a whole.                                              *)

\* Every packet in the network is as it should be between the ends it goes between.
PacketsOK(f, ps) == \A p \in ps : p \in Packet /\ PacketOK(p, f[Peer[p.to]], f[p.to])
\* Each end is good with its peer.
EndsOK(f) == /\ f \in [End -> Tcb]
             /\ \A e \in End : Good(f[e], f[Peer[e]]) /\ StateOK(f[e])

\* The safety part of the invariant.
TcpInv == EndsOK(tcb) /\ PacketsOK(tcb, net)

\* A packet in the network stays as it should be when its sender grows,
LEMMA PacketSent ==
  ASSUME NEW p \in Packet, NEW s \in Tcb, NEW u \in Tcb, NEW r, PacketOK(p, s, r), Grows(s, u)
  PROVE  PacketOK(p, u, r)
<1>1. /\ p.seq \in Int /\ p.len \in Nat /\ p.ack \in Nat /\ p.wnd \in Nat
  BY DEF Packet
<1>2. /\ s.nxt \in Nat /\ u.nxt \in Nat /\ s.rcv \in Nat /\ u.rcv \in Nat
      /\ s.rwnd \in Int /\ u.rwnd \in Int
  BY TcbTypes
<1>3. s.nxt <= u.nxt /\ s.rcv <= u.rcv /\ s.rcv + s.rwnd <= u.rcv + u.rwnd
  BY DEF Grows
<1>4. ASSUME p.len > 0
      PROVE  p.seq + p.len <= u.nxt /\ Bounds(u, p.seq + p.len)
  <2>1. p.seq >= 0 /\ p.seq + p.len <= s.nxt /\ Bounds(s, p.seq + p.len)
    BY <1>4 DEF PacketOK
  <2>2. p.seq + p.len \in Nat
    BY <1>1, <2>1
  <2>3. Bounds(u, p.seq + p.len)
    BY <2>1, <2>2 DEF Grows
  <2> QED  BY <1>1, <1>2, <1>3, <2>1, <2>2, <2>3
<1>5. p.ack <= u.rcv /\ p.ack + p.wnd <= u.rcv + u.rwnd
  <2>1. p.ack <= s.rcv /\ p.ack + p.wnd <= s.rcv + s.rwnd
    BY DEF PacketOK
  <2> QED  BY <1>1, <1>2, <1>3, <2>1
<1> QED  BY <1>4, <1>5 DEF PacketOK

\* and when its receiver does.
LEMMA PacketTo ==
  ASSUME NEW p \in Packet, NEW s, NEW r \in Tcb, NEW u \in Tcb, PacketOK(p, s, r), Grows(r, u)
  PROVE  PacketOK(p, s, u)
<1>1. p.ack \in Nat
  BY DEF Packet
<1>2. Bounds(u, p.ack)
  BY <1>1 DEF PacketOK, Grows
<1> QED  BY <1>2 DEF PacketOK

\* One end changes, and may send packets.
LEMMA OneEnd ==
  ASSUME TcpInv, NEW e \in End, NEW u, NEW sent,
         KeepsGood(tcb[e], u, tcb[Peer[e]]), tcb' = [tcb EXCEPT ![e] = u],
         \A p \in sent : p \in Packet /\ p.to = Peer[e] /\ PacketOK(p, u, tcb[Peer[e]]),
         net' \subseteq net \cup sent
  PROVE  TcpInv'
<1>1. /\ Peer \in [End -> End] /\ \A x \in End : Peer[x] # x /\ Peer[Peer[x]] = x
  BY ConstantsOK
<1>2. /\ tcb \in [End -> Tcb] /\ \A x \in End : Good(tcb[x], tcb[Peer[x]]) /\ StateOK(tcb[x])
  BY DEF TcpInv, EndsOK
<1>3. u \in Tcb /\ Good(u, tcb[Peer[e]]) /\ Grows(tcb[e], u) /\ StateOK(u)
  BY DEF KeepsGood, Good
<1>4. /\ tcb' \in [End -> Tcb] /\ tcb'[e] = u
      /\ \A x \in End : x # e => tcb'[x] = tcb[x]
  BY <1>2, <1>3
<1>5. ASSUME NEW x \in End  PROVE Good(tcb'[x], tcb'[Peer[x]]) /\ StateOK(tcb'[x])
  <2>1. CASE x = e
    <3>1. tcb'[Peer[e]] = tcb[Peer[e]]
      BY <1>1, <1>4
    <3> QED  BY <1>3, <1>4, <2>1, <3>1
  <2>2. CASE x = Peer[e]
    <3>1. x # e /\ Peer[x] = e
      BY <1>1, <2>2
    <3>2. tcb'[x] = tcb[x] /\ tcb'[Peer[x]] = u
      BY <1>4, <3>1
    <3>3. Good(tcb[x], tcb[e]) /\ StateOK(tcb[x]) /\ tcb[x] \in Tcb
      BY <1>2, <3>1
    <3>4. Good(tcb[x], u)
      BY <1>3, <2>2, <3>3 DEF Good
    <3> QED  BY <3>2, <3>3, <3>4
  <2>3. CASE x # e /\ x # Peer[e]
    <3>1. Peer[x] \in End /\ Peer[x] # e
      BY <1>1, <2>3
    <3> QED  BY <1>2, <1>4, <2>3, <3>1
  <2> QED  BY <2>1, <2>2, <2>3
<1>6. ASSUME NEW p \in net'
      PROVE  p \in Packet /\ PacketOK(p, tcb'[Peer[p.to]], tcb'[p.to])
  <2>1. CASE p \in net
    <3>1. p \in Packet /\ p.to \in End /\ PacketOK(p, tcb[Peer[p.to]], tcb[p.to])
      BY <2>1 DEF TcpInv, PacketsOK, Packet
    <3>2. Peer[p.to] \in End /\ Peer[p.to] # p.to
      BY <1>1, <3>1
    <3>3. tcb[p.to] \in Tcb /\ tcb[Peer[p.to]] \in Tcb
      BY <1>2, <3>1, <3>2
    <3>4. CASE p.to = e
      BY <1>3, <1>4, <3>1, <3>2, <3>3, <3>4, PacketTo
    <3>5. CASE Peer[p.to] = e
      BY <1>3, <1>4, <3>1, <3>2, <3>3, <3>5, PacketSent
    <3>6. CASE p.to # e /\ Peer[p.to] # e
      BY <1>4, <3>1, <3>2, <3>6
    <3> QED  BY <3>4, <3>5, <3>6
  <2>2. CASE p \in sent
    <3>1. p \in Packet /\ p.to = Peer[e] /\ PacketOK(p, u, tcb[Peer[e]])
      BY <2>2
    <3>2. Peer[p.to] = e /\ p.to # e /\ p.to \in End
      BY <1>1, <3>1
    <3> QED  BY <1>4, <3>1, <3>2
  <2> QED  BY <2>1, <2>2
<1> QED  BY <1>4, <1>5, <1>6 DEF TcpInv, EndsOK, PacketsOK

\* The end may wait with data to send: Nagle's algorithm held it, or the network failed it.
MayHold(e) == Nagle \/ e \in MayFail
\* An acknowledgement was sent, is due, will go with the end of this call, or with data that
\* waits.
Due(e, t) == \/ t.acked = t.rcv \/ t.tack
             \/ t.todo \in {"Delayed", "Immediate"}
             \/ MayHold(e) /\ t.nxt < t.end
\* Whatever the end waits for will come.
Waits(e, t) ==
  /\ e \notin MayFail /\ t.todo = "Idle" /\ t.una < t.end => t.una < t.nxt \/ t.wnd = 0
  /\ t.writeable => t.una < t.end
  /\ t.readable => t.dlen = 0
\* Both hold of an open end.
Live(e, t) == t.state # "Closed" => Due(e, t) /\ Waits(e, t)
\* The second part of the invariant.
LiveInv == \A e \in End : Live(e, tcb[e])

\* One end changes, and may send packets,
LEMMA EndStep ==
  ASSUME TcpInv, LiveInv, NEW e \in End, NEW u, NEW sent,
         KeepsGood(tcb[e], u, tcb[Peer[e]]), Live(e, u), tcb' = [tcb EXCEPT ![e] = u],
         \A p \in sent : p \in Packet /\ p.to = Peer[e] /\ PacketOK(p, u, tcb[Peer[e]]),
         net' \subseteq net \cup sent
  PROVE  TcpInv' /\ LiveInv'
<1>1. TcpInv'
  BY OneEnd
<1>2. tcb \in [End -> Tcb]
  BY DEF TcpInv, EndsOK
<1>3. ASSUME NEW x \in End  PROVE Live(x, tcb'[x])
  <2>1. CASE x = e
    BY <1>2, <2>1
  <2>2. CASE x # e
    BY <1>2, <2>2 DEF LiveInv
  <2> QED  BY <2>1, <2>2
<1> QED  BY <1>1, <1>3 DEF LiveInv

\* sends none,
LEMMA EndStepSilent ==
  ASSUME TcpInv, LiveInv, NEW e \in End, NEW u,
         KeepsGood(tcb[e], u, tcb[Peer[e]]), Live(e, u), tcb' = [tcb EXCEPT ![e] = u],
         net' \subseteq net
  PROVE  TcpInv' /\ LiveInv'
<1> DEFINE sent == {}
<1>1. /\ net' \subseteq net \cup sent
      /\ \A p \in sent : p \in Packet /\ p.to = Peer[e] /\ PacketOK(p, u, tcb[Peer[e]])
  OBVIOUS
<1> HIDE DEF sent
<1> QED  BY <1>1, EndStep

\* or one.
LEMMA EndStepSends ==
  ASSUME TcpInv, LiveInv, NEW e \in End, NEW u, NEW q,
         KeepsGood(tcb[e], u, tcb[Peer[e]]), Live(e, u), tcb' = [tcb EXCEPT ![e] = u],
         q \in Packet, q.to = Peer[e], PacketOK(q, u, tcb[Peer[e]]),
         net' \subseteq net \cup {q}
  PROVE  TcpInv' /\ LiveInv'
<1> DEFINE sent == {q}
<1>1. /\ net' \subseteq net \cup sent
      /\ \A p \in sent : p \in Packet /\ p.to = Peer[e] /\ PacketOK(p, u, tcb[Peer[e]])
  OBVIOUS
<1> HIDE DEF sent
<1> QED  BY <1>1, EndStep

\* What the invariant says of an end.
LEMMA EndFacts ==
  ASSUME TcpInv, NEW e \in End
  PROVE  /\ tcb[e] \in Tcb /\ tcb[Peer[e]] \in Tcb /\ Peer[e] \in End
         /\ Good(tcb[e], tcb[Peer[e]]) /\ StateOK(tcb[e])
BY ConstantsOK DEF TcpInv, EndsOK, Good

\* The network holds no packet that was not sent.
LEMMA IntoIs ==
  ASSUME NEW rest, NEW q, Into(rest, {q})
  PROVE  net' \subseteq rest \cup {q}
BY DEF Into

\* A packet without data is as it should be,
LEMMA AckPacket ==
  ASSUME NEW e \in End, NEW t, NEW r, Good(t, r), NEW seq \in Int
  PROVE  LET q == MakePacket(e, t, seq, 0, FALSE)
         IN q \in Packet /\ q.to = Peer[e] /\ PacketOK(q, t, r)
<1> DEFINE q == MakePacket(e, t, seq, 0, FALSE)
<1>1. t \in Tcb /\ r \in Tcb /\ t.rcv \in Nat /\ t.rwnd \in Nat
  BY TcbTypes DEF Good, Receiver
<1>2. /\ q.to = Peer[e] /\ q.seq = seq /\ q.len = 0 /\ q.ctl = FALSE
      /\ q.ack = t.rcv /\ q.wnd = t.rwnd
  BY DEF MakePacket
<1>3. q \in Packet
  BY <1>1, ConstantsOK DEF MakePacket, Packet
<1>4. Bounds(r, t.rcv)
  BY DEF Good, Link
<1> HIDE DEF q
<1>5. PacketOK(q, t, r)
  BY <1>1, <1>2, <1>4 DEF PacketOK
<1> QED  BY <1>2, <1>3, <1>5 DEF q

\* and so is one that transmit makes.
LEMMA DataPacket ==
  ASSUME NEW e \in End, NEW t, NEW r, Good(t, r), NEW i \in 1..Len(t.slist),
         t.slist[i].seq <= t.nxt,
         t.slist[i].seq = t.nxt => t.nxt + t.slist[i].len <= r.rcv + r.rwnd
  PROVE  LET q == TransmitPacket(e, t, i)
         IN q \in Packet /\ q.to = Peer[e] /\ PacketOK(q, Transmitted(t, i), r)
<1> DEFINE q == TransmitPacket(e, t, i)
           n == Min2(t.slist[i].len, FittingMss(t, i))
           s == t.slist[i].seq
           k == t.slist[i].ctl
           u == Transmitted(t, i)
<1>1. t \in Tcb /\ r \in Tcb /\ t.rcv \in Nat /\ t.rwnd \in Nat /\ t.slist \in Seq(Segment)
  BY TcbTypes DEF Good, Receiver
<1>2. /\ s \in Nat /\ k \in BOOLEAN /\ t.slist[i].len \in Nat
      /\ k <=> s = 0
      /\ k => t.slist[i].len = 1
  BY <1>1, ListTypes DEF Good, Sender, Segments, ListOK, Elements
<1>3. /\ s + n <= u.nxt /\ Bounds(u, s + n) /\ n > 0 /\ n \in Nat /\ SameReceiver(t, u)
      /\ u \in Tcb
  BY TransmittedGood DEF Good
<1>4. n <= t.slist[i].len
  BY <1>1, FittingMssIs DEF Good, Sender
<1>5. k => n = 1
  BY <1>2, <1>3, <1>4
<1>6. u.rcv = t.rcv /\ u.rwnd = t.rwnd
  BY <1>3 DEF SameReceiver
<1>7. Bounds(r, t.rcv)
  BY DEF Good, Link
<1>8. /\ q.to = Peer[e] /\ q.seq = s /\ q.len = n /\ q.ctl = k
      /\ q.ack = t.rcv /\ q.wnd = t.rwnd /\ q \in Packet
  <2>1. q = [to |-> Peer[e], seq |-> s, len |-> n, ctl |-> k, ack |-> t.rcv, wnd |-> t.rwnd]
    BY DEF TransmitPacket, MakePacket
  <2> HIDE DEF q, s, n, k
  <2>2. Peer[e] \in End
    BY ConstantsOK
  <2> QED  BY <1>1, <1>2, <1>3, <2>1, <2>2 DEF Packet
<1> HIDE DEF q, s, n, k, u
<1>9. PacketOK(q, u, r)
  BY <1>1, <1>2, <1>3, <1>5, <1>6, <1>7, <1>8 DEF PacketOK
<1> QED  BY <1>8, <1>9 DEF q, u

\* With nothing in flight, there is nothing to send only if there is nothing at all, or
\* the window is closed.
LEMMA NothingAvailable ==
  ASSUME NEW t \in Tcb, t.mss > 0, t.una <= t.nxt, NEW w \in Windows(t), Available(t, w) = 0,
         t.una < t.end
  PROVE  t.una < t.nxt \/ t.wnd = 0
<1>1. t.una \in Nat /\ t.nxt \in Nat /\ t.end \in Nat /\ t.mss \in Nat /\ t.wnd \in Nat
  BY TcbTypes
<1>2. w \in Nat /\ (w = 0 => t.wnd = 0)
  BY <1>1 DEF Windows
<1>3. ASSUME t.una = t.nxt  PROVE w = 0
  <2> DEFINE a == Min2(Buffered(t) - InFlight(t), t.mss)
  <2>1. Max2(w - InFlight(t), 0) = w
    BY <1>1, <1>2, <1>3 DEF InFlight, Max2
  <2>2. a \in Nat /\ a > 0
    BY <1>1, <1>3 DEF Buffered, InFlight, Min2
  <2>3. Available(t, w) = IF a <= w THEN a ELSE IF w * 4 < w THEN 0 ELSE w
    BY <2>1 DEF Available
  <2> HIDE DEF a
  <2> QED  BY <1>2, <2>2, <2>3
<1> QED  BY <1>1, <1>2, <1>3

\* What attemptSend may send fits the window that is left.
LEMMA AvailableIs ==
  ASSUME NEW t \in Tcb, t.una <= t.nxt, t.nxt <= t.end, NEW w \in Windows(t),
         Available(t, w) # 0
  PROVE  /\ Available(t, w) \in Nat /\ Available(t, w) > 0
         /\ t.nxt + Available(t, w) <= t.end /\ t.nxt + Available(t, w) <= t.una + t.wnd
<1>1. t.una \in Nat /\ t.nxt \in Nat /\ t.end \in Nat /\ t.mss \in Nat /\ t.wnd \in Nat
  BY TcbTypes
<1>2. w \in Nat /\ w <= t.wnd
  BY <1>1 DEF Windows
<1> DEFINE a == Min2(Buffered(t) - InFlight(t), t.mss)
           b == Max2(w - InFlight(t), 0)
<1>3. a \in Nat /\ t.nxt + a <= t.end
  BY <1>1 DEF Buffered, InFlight, Min2
<1>4. b \in Nat /\ (b > 0 => t.nxt + b <= t.una + t.wnd)
  BY <1>1, <1>2 DEF InFlight, Max2
<1>5. Available(t, w) = IF a <= b THEN a ELSE IF b * 4 < w THEN 0 ELSE b
  BY DEF Available
<1> HIDE DEF a, b
<1>6. Available(t, w) \in {a, b} /\ Available(t, w) <= a /\ Available(t, w) <= b
  BY <1>2, <1>3, <1>4, <1>5
<1>7. Available(t, w) \in Nat /\ Available(t, w) > 0
  BY <1>3, <1>4, <1>6
<1>8. t.nxt + Available(t, w) <= t.end
  BY <1>1, <1>3, <1>6, <1>7
<1>9. t.nxt + Available(t, w) <= t.una + t.wnd
  BY <1>1, <1>4, <1>6, <1>7
<1> QED  BY <1>7, <1>8, <1>9

\* The first segment that was not sent is the one that m_snd_nxt is at.
LEMMA UnsentIs ==
  ASSUME NEW t \in Tcb, Segments(t), t.nxt < t.end
  PROVE  Unsent(t) \in 1..Len(t.slist) /\ t.slist[Unsent(t)].seq = t.nxt
<1> DEFINE R(i) == t.slist[i].xmit = 0 /\ \A j \in 1..i - 1 : t.slist[j].xmit > 0
<1>1. /\ t.slist \in Seq(Segment) /\ t.nxt \in Nat /\ t.end \in Nat /\ Len(t.slist) \in Nat
      /\ \A i \in 1..Len(t.slist) :
           /\ t.slist[i].seq \in Nat /\ t.slist[i].len \in Nat /\ t.slist[i].xmit \in Nat
  BY TcbTypes, ListTypes
<1>2. /\ StartsAt(t.slist, t.nxt)
      /\ \A i \in 1..Len(t.slist) : /\ t.slist[i].len > 0
                                    /\ t.slist[i].xmit > 0 <=> t.slist[i].seq < t.nxt
      /\ Ordered(t.slist)
  BY <1>1 DEF Segments, ListOK, Elements
<1>3. PICK k \in 1..Len(t.slist) : t.slist[k].seq = t.nxt
  BY <1>2 DEF StartsAt
<1>4. ASSUME NEW j \in 1..Len(t.slist), j < k  PROVE t.slist[j].xmit > 0
  <2>1. t.slist[j].seq + t.slist[j].len <= t.nxt
    BY <1>2, <1>3, <1>4 DEF Ordered
  <2>2. t.slist[j].seq < t.nxt
    BY <1>1, <1>2, <2>1
  <2> QED  BY <1>2, <2>2
<1>5. t.slist[k].xmit = 0
  BY <1>1, <1>2, <1>3
<1>6. R(k)
  BY <1>1, <1>4, <1>5
<1>7. \A i \in 1..Len(t.slist) : R(i) => i = k
  <2> SUFFICES ASSUME NEW i \in 1..Len(t.slist), R(i)  PROVE i = k
    OBVIOUS
  <2>1. ~(i < k)
    BY <1>4
  <2>2. ~(k < i)
    BY <1>1, <1>5
  <2> QED  BY <1>1, <2>1, <2>2
<1>8. Unsent(t) = CHOOSE i \in 1..Len(t.slist) : R(i)
  BY DEF Unsent
<1> HIDE DEF R
<1>9. Unsent(t) = k
  BY <1>6, <1>7, <1>8
<1> QED  BY <1>3, <1>9

----------------------------------------------------------------------------
(* The actions, one by one, each with what it does to the stream.          *)

\* The loop of attemptSend: an acknowledgement alone,
LEMMA SendAckStep ==
  ASSUME TcpInv, LiveInv, NEW e \in End, SendAck(e)
  PROVE  TcpInv' /\ LiveInv' /\ Quieted(e)
<1> DEFINE t == tcb[e]
           r == tcb[Peer[e]]
           a == Acknowledged(t)
           u == [a EXCEPT !.todo = "Idle"]
           q == MakePacket(e, t, t.nxt, 0, FALSE)
<1>1. t \in Tcb /\ Good(t, r) /\ StateOK(t) /\ t.mss > 0 /\ t.una <= t.nxt
  BY EndFacts DEF Good, Sender, Segments, ListOK
<1>2. tcb' = [tcb EXCEPT ![e] = u] /\ net' \subseteq net \cup {q}
  BY IntoIs DEF SendAck
<1>3. PICK w \in Windows(t) : Available(t, w) = 0
  BY DEF SendAck
<1>4. t.una < t.end => t.una < t.nxt \/ t.wnd = 0
  BY <1>1, <1>3, NothingAvailable
<1>5. q \in Packet /\ q.to = Peer[e] /\ PacketOK(q, t, r)
  <2>1. t.nxt \in Int
    BY <1>1, TcbTypes
  <2> QED  BY <1>1, <2>1, AckPacket
<1>6. /\ a \in Tcb /\ SameCore(t, a) /\ a.state = t.state /\ a.acked = t.rcv
      /\ a.writeable = t.writeable /\ SameReceiver(t, a)
  BY <1>1, AcknowledgedCore
<1> HIDE DEF t, r, a, q
<1>7. /\ u \in Tcb /\ SameCore(a, u) /\ u.state = a.state /\ u.todo = "Idle"
      /\ SameAcks(a, u) /\ SameReceiver(a, u) /\ u.writeable = a.writeable
  BY <1>6, TodoIs DEF Todos
<1> HIDE DEF u
<1>8. SameCore(t, u) /\ u.state = t.state /\ u.acked = u.rcv /\ u.readable = t.readable
      /\ u.writeable = t.writeable
  BY <1>6, <1>7 DEF SameCore, SameReceiver, SameAcks
<1>9. KeepsGood(t, u, r)
  BY <1>1, <1>7, <1>8, SameCoreStep
<1>10. Live(e, t)
  BY DEF LiveInv, t
<1>11. Live(e, u)
  BY <1>4, <1>8, <1>10 DEF Live, Due, Waits, SameCore
<1>12. PacketOK(q, u, r)
  BY <1>1, <1>5, <1>7, <1>9, PacketSent DEF KeepsGood
<1>13. Quiet(t, u)
  BY <1>6, <1>7, <1>8 DEF Quiet, SameCore, SameReceiver
<1>14. Quieted(e)
  BY <1>2, <1>7, <1>13 DEF Quieted, t
<1>15. TcpInv' /\ LiveInv'
  BY <1>2, <1>5, <1>9, <1>11, <1>12, EndStepSends DEF t, r
<1> QED  BY <1>14, <1>15

\* nothing, and
LEMMA SendNothingStep ==
  ASSUME TcpInv, LiveInv, NEW e \in End, SendNothing(e)
  PROVE  TcpInv' /\ LiveInv' /\ Quieted(e)
<1> DEFINE t == tcb[e]
           r == tcb[Peer[e]]
<1>1. /\ t \in Tcb /\ Good(t, r) /\ StateOK(t) /\ t.mss > 0 /\ t.una <= t.nxt /\ t.nxt <= t.end
  BY EndFacts DEF Good, Sender, Segments, ListOK
<1>2. /\ t.tack \in BOOLEAN /\ t.todo \in Todos /\ t.todo # "Idle" /\ net' = net
      /\ tcb \in [End -> Tcb]
  BY <1>1, TcbTypes DEF SendNothing, Idle, TcpInv, EndsOK
<1>3. PICK w \in Windows(t) :
        LET n == Available(t, w)
            later == n = 0 /\ ~AckNow(t)
        IN /\ later \/ HeldBack(t, n)
           /\ tcb' = [tcb EXCEPT ![e].todo = "Idle",
                                 ![e].tack = @ \/ (later /\ t.todo = "Delayed")]
  BY DEF SendNothing
<1> DEFINE n == Available(t, w)
           later == n = 0 /\ ~AckNow(t)
           b == t.tack \/ (later /\ t.todo = "Delayed")
           u == [t EXCEPT !.todo = "Idle", !.tack = b]
<1>4. later \/ HeldBack(t, n)
  BY <1>3
<1>5. tcb' = [tcb EXCEPT ![e] = u]
  <2>1. tcb' = [tcb EXCEPT ![e].todo = "Idle",
                           ![e].tack = @ \/ (later /\ t.todo = "Delayed")]
    BY <1>3
  <2> HIDE DEF later
  <2> QED  BY <1>2, <2>1, Zenon
<1>6. b \in BOOLEAN
  BY <1>2, Zenon
<1>7. n # 0 => n > 0 /\ t.nxt + n <= t.end /\ n \in Nat
  BY <1>1, AvailableIs
<1>8. n = 0 /\ t.una < t.end => t.una < t.nxt \/ t.wnd = 0
  BY <1>1, NothingAvailable
<1>9. HeldBack(t, n) => n # 0 /\ Nagle /\ t.una < t.nxt
  BY <1>1, TcbTypes DEF HeldBack
<1>10. Live(e, t)
  BY DEF LiveInv
<1>11. t.nxt \in Nat /\ t.end \in Nat
  BY <1>1, TcbTypes
<1>12. later => (n = 0 /\ (t.todo = "Delayed" => b) /\ t.todo # "Immediate")
  BY DEF AckNow
<1>13. t.tack => b
  OBVIOUS
<1> HIDE DEF t, r, n, later, b
<1>14. /\ u \in Tcb /\ SameCore(t, u) /\ u.state = t.state /\ u.todo = "Idle"
       /\ u.tack = b /\ u.acked = t.acked /\ SameReceiver(t, u) /\ u.writeable = t.writeable
  <2>1. "Idle" \in Todos
    BY DEF Todos
  <2>2. Delays(t, u, "Idle", b)
    BY <1>1, <1>6, <2>1, TodoTackIs
  <2> HIDE DEF u
  <2> QED  BY <2>2 DEF Delays
<1> HIDE DEF u
<1>15. KeepsGood(t, u, r)
  BY <1>1, <1>14, SameCoreStep
<1>16. ASSUME u.state # "Closed"
       PROVE  Due(e, u) /\ Waits(e, u)
  <2>1. Due(e, t) /\ Waits(e, t)
    BY <1>10, <1>14, <1>16 DEF Live
  <2>2. CASE later
    BY <1>8, <1>12, <1>13, <1>14, <2>1, <2>2 DEF Due, Waits, SameCore, SameReceiver
  <2>3. CASE HeldBack(t, n)
    <3>1. Nagle /\ t.una < t.nxt /\ t.nxt < t.end
      BY <1>7, <1>9, <1>11, <2>3
    <3> QED  BY <1>14, <2>1, <3>1 DEF Due, MayHold, Waits, SameCore, SameReceiver
  <2> QED  BY <1>4, <2>2, <2>3
<1>17. Live(e, u)
  BY <1>16 DEF Live
<1>18. Quiet(t, u)
  BY <1>14 DEF Quiet, SameCore, SameReceiver
<1>19. Quieted(e)
  BY <1>5, <1>14, <1>18 DEF Quieted, t
<1>20. TcpInv' /\ LiveInv'
  BY <1>2, <1>5, <1>15, <1>17, EndStepSilent DEF t, r
<1> QED  BY <1>19, <1>20

\* A segment of t that lies before what was sent, or fits the window that is left.
Sendable(t, r, i) == /\ i \in 1..Len(t.slist) /\ t.slist[i].seq <= t.nxt
                     /\ t.slist[i].seq = t.nxt => t.nxt + t.slist[i].len <= r.rcv + r.rwnd

\* The object that has sent a segment.
LEMMA TransmittedStep ==
  ASSUME NEW t, NEW r, Good(t, r), StateOK(t), NEW i, Sendable(t, r, i), NEW e \in End
  PROVE  LET u == Transmitted(t, i)
             q == TransmitPacket(e, t, i)
         IN /\ KeepsGood(t, u, r)
            /\ q \in Packet /\ q.to = Peer[e] /\ PacketOK(q, u, r)
            /\ u.una = t.una /\ u.end = t.end /\ u.wnd = t.wnd /\ u.acked = u.rcv
            /\ u.writeable = t.writeable /\ u.state = t.state /\ u.todo = t.todo
            /\ SameReceiver(t, u)
<1> DEFINE u == Transmitted(t, i)
           q == TransmitPacket(e, t, i)
<1>1. i \in 1..Len(t.slist) /\ t.slist[i].seq <= t.nxt
  BY DEF Sendable
<1>2. t.slist[i].seq = t.nxt => t.nxt + t.slist[i].len <= r.rcv + r.rwnd
  BY DEF Sendable
<1>3. /\ Good(u, r) /\ Grows(t, u) /\ u.una = t.una /\ u.end = t.end /\ u.wnd = t.wnd
      /\ u.acked = t.rcv /\ SameReceiver(t, u)
      /\ u.writeable = t.writeable /\ u.state = t.state /\ u.todo = t.todo
  BY <1>1, <1>2, TransmittedGood
<1>4. q \in Packet /\ q.to = Peer[e] /\ PacketOK(q, u, r)
  BY <1>1, <1>2, DataPacket
<1> HIDE DEF u, q
<1>5. StateOK(u)
  BY <1>3 DEF StateOK
<1>6. u.acked = u.rcv
  BY <1>3 DEF SameReceiver
<1> QED  BY <1>3, <1>4, <1>5, <1>6 DEF KeepsGood, u, q

\* a segment.
LEMMA SendSegmentStep ==
  ASSUME TcpInv, LiveInv, NEW e \in End, SendSegment(e)
  PROVE  TcpInv' /\ LiveInv' /\ Quieted(e)
<1> DEFINE t == tcb[e]
           r == tcb[Peer[e]]
           i == Unsent(t)
<1>1. /\ t \in Tcb /\ r \in Tcb /\ Good(t, r) /\ StateOK(t) /\ t.mss > 0 /\ t.una <= t.nxt
      /\ t.nxt <= t.end /\ Segments(t) /\ Live(e, t) /\ tcb \in [End -> Tcb]
  BY EndFacts DEF Good, Sender, Segments, ListOK, LiveInv, TcpInv, EndsOK
<1>2. PICK w \in Windows(t) :
        LET n == Available(t, w)
            v == SplitAt(t, i, n)
        IN /\ n # 0
           /\ \/ /\ tcb' = [tcb EXCEPT ![e] = [Transmitted(v, i) EXCEPT !.todo = "None"]]
                 /\ Into(net, {TransmitPacket(e, v, i)})
              \/ /\ e \in MayFail
                 /\ tcb' = [tcb EXCEPT ![e] = [v EXCEPT !.todo = "Idle"]]
                 /\ UNCHANGED net
  BY DEF SendSegment
<1> DEFINE n == Available(t, w)
           v == SplitAt(t, i, n)
           x == Transmitted(v, i)
           u == [x EXCEPT !.todo = "None"]
           z == [v EXCEPT !.todo = "Idle"]
           q == TransmitPacket(e, v, i)
<1>3. n # 0
  BY <1>2
<1>4. \/ tcb' = [tcb EXCEPT ![e] = u] /\ net' \subseteq net \cup {q}
      \/ tcb' = [tcb EXCEPT ![e] = z] /\ net' = net /\ e \in MayFail
  <2>1. \/ tcb' = [tcb EXCEPT ![e] = u] /\ Into(net, {q})
        \/ tcb' = [tcb EXCEPT ![e] = z] /\ net' = net /\ e \in MayFail
    BY <1>2
  <2> HIDE DEF u, z, q
  <2> QED  BY <2>1, IntoIs
<1>5. n \in Nat /\ n > 0 /\ t.nxt + n <= t.end /\ t.nxt + n <= t.una + t.wnd
  BY <1>1, <1>3, AvailableIs
<1>6. t.nxt \in Nat /\ t.end \in Nat /\ t.una \in Nat /\ t.wnd \in Nat /\ r.rcv + r.rwnd \in Int
  BY <1>1, TcbTypes
<1>7. t.nxt < t.end
  BY <1>5, <1>6
<1>8. i \in 1..Len(t.slist) /\ t.slist[i].seq = t.nxt
  BY <1>1, <1>7, UnsentIs
<1>9. t.slist[i].len \in Nat
  BY <1>1, <1>8, TcbTypes, ListTypes
<1>10. t.una + t.wnd <= r.rcv + r.rwnd
  BY <1>1 DEF Good, Link
<1> HIDE DEF i, n, t, r
<1>11. /\ Good(v, r) /\ Grows(t, v)
       /\ v = t \/ Relisted(t, v, SplitList(t.slist, i, n), t.end)
       /\ i \in 1..Len(v.slist) /\ v.slist[i].seq = t.slist[i].seq
       /\ v.slist[i].len = Min2(t.slist[i].len, n)
  BY <1>1, <1>5, <1>8, SplitAtGood
<1> HIDE DEF v
<1>12. /\ v \in Tcb /\ v.nxt = t.nxt /\ v.end = t.end /\ v.una = t.una /\ v.state = t.state
       /\ v.wnd = t.wnd /\ v.writeable = t.writeable /\ SameReceiver(t, v)
  BY <1>11 DEF Good, Relisted, SameProgress, SameReceiver
<1>13. v.slist[i].len <= n /\ v.slist[i].len \in Nat
  BY <1>5, <1>9, <1>11 DEF Min2
<1>14. Sendable(v, r, i)
  <2>1. v.slist[i].seq = t.nxt
    BY <1>8, <1>11
  <2> DEFINE m == v.slist[i].len
  <2>2. m <= n /\ m \in Nat
    BY <1>13
  <2> HIDE DEF m
  <2>3. t.nxt + m <= r.rcv + r.rwnd
    BY <1>5, <1>6, <1>10, <2>2
  <2> QED  BY <1>6, <1>11, <1>12, <2>1, <2>3 DEF Sendable, m
<1>15. StateOK(v)
  BY <1>1, <1>12 DEF StateOK
<1>16. KeepsGood(t, v, r)
  BY <1>11, <1>15 DEF KeepsGood
<1>17. CASE tcb' = [tcb EXCEPT ![e] = u] /\ net' \subseteq net \cup {q}
  <2>1. /\ KeepsGood(v, x, r) /\ q \in Packet /\ q.to = Peer[e] /\ PacketOK(q, x, r)
        /\ x.una = v.una /\ x.end = v.end /\ x.wnd = v.wnd /\ x.acked = x.rcv
        /\ x.writeable = v.writeable /\ x.state = v.state /\ SameReceiver(v, x)
    BY <1>11, <1>14, <1>15, TransmittedStep
  <2> HIDE DEF x, q
  <2>2. x \in Tcb /\ StateOK(x) /\ Good(x, r) /\ Grows(v, x)
    BY <2>1 DEF KeepsGood, Good
  <2>3. /\ u \in Tcb /\ SameCore(x, u) /\ u.state = x.state /\ u.todo = "None"
        /\ SameAcks(x, u) /\ SameReceiver(x, u) /\ u.writeable = x.writeable
    BY <2>2, TodoIs DEF Todos
  <2> HIDE DEF u
  <2>4. KeepsGood(x, u, r)
    BY <2>2, <2>3, SameCoreStep
  <2>5. PacketOK(q, u, r)
    BY <2>1, <2>2, <2>3, <2>4, PacketSent DEF KeepsGood
  <2>6. KeepsGood(t, u, r)
    <3>1. Good(x, r) /\ Grows(t, x)
      BY <1>1, <1>11, <1>12, <2>2, GrowsTrans
    <3> QED  BY <1>1, <2>4, <3>1, KeepsGoodTrans
  <2>7. Live(e, u)
    BY <1>1, <1>12, <2>1, <2>3 DEF Live, Due, Waits, SameCore, SameReceiver, SameAcks
  <2>8. Quiet(t, u)
    BY <1>12, <2>1, <2>3 DEF Quiet, SameCore, SameReceiver
  <2>9. Quieted(e)
    BY <1>17, <2>3, <2>8 DEF Quieted, t
  <2>10. TcpInv' /\ LiveInv'
    BY <1>17, <2>1, <2>5, <2>6, <2>7, EndStepSends DEF t, r
  <2> QED  BY <2>9, <2>10
<1>18. CASE tcb' = [tcb EXCEPT ![e] = z] /\ net' = net /\ e \in MayFail
  <2>1. /\ z \in Tcb /\ SameCore(v, z) /\ z.state = v.state /\ SameReceiver(v, z)
        /\ z.writeable = v.writeable
    BY <1>12, TodoIs DEF Todos
  <2> HIDE DEF z
  <2>2. KeepsGood(v, z, r)
    BY <1>11, <1>15, <2>1, SameCoreStep
  <2>3. KeepsGood(t, z, r)
    BY <1>1, <1>11, <2>2, KeepsGoodTrans
  <2>4. Live(e, z)
    <3>1. z.nxt < z.end
      BY <1>7, <1>12, <2>1 DEF SameCore
    <3> QED  BY <1>1, <1>12, <1>18, <2>1, <3>1
             DEF Live, Due, MayHold, Waits, SameCore, SameReceiver
  <2>5. Quiet(t, z)
    BY <1>12, <2>1 DEF Quiet, SameCore, SameReceiver
  <2>6. Quieted(e)
    BY <1>18, <2>1, <2>5 DEF Quieted, t
  <2>7. TcpInv' /\ LiveInv'
    BY <1>18, <2>3, <2>4, EndStepSilent DEF t, r
  <2> QED  BY <2>6, <2>7
<1> QED  BY <1>4, <1>17, <1>18

\* Only m_slist, its end and m_snd_wnd differ.
Queues(t, u, n, w) ==
  /\ u.end = t.end + n /\ u.una = t.una /\ u.nxt = t.nxt /\ u.wnd = w
  /\ u.writeable = t.writeable /\ u.state = t.state /\ u.todo = t.todo
  /\ SameReceiver(t, u) /\ SameAcks(t, u)

\* What queue changes.
LEMMA QueueStep ==
  ASSUME NEW t, NEW r, Good(t, r), NEW n \in Nat, n > 0, NEW c \in BOOLEAN,
         c <=> t.end = 0, c => n = 1, t.end + n <= t.una + SndBuf
  PROVE  LET u == Queue(t, n, c)
         IN Good(u, r) /\ Grows(t, u) /\ Queues(t, u, n, t.wnd)
<1> DEFINE u == Queue(t, n, c)
<1>1. Good(u, r) /\ Grows(t, u)
  BY QueueGood
<1>2. t \in Tcb
  BY DEF Good
<1>3. \E L : Relisted(t, u, L, t.end + n)
  BY <1>2, QueueIs
<1> HIDE DEF u
<1>4. Queues(t, u, n, t.wnd)
  BY <1>3 DEF Relisted, Queues, SameProgress
<1> QED  BY <1>1, <1>4 DEF u

\* What queueConnectMessage sets before it queues.
LEMMA WndIs ==
  ASSUME NEW t \in Tcb, NEW w \in Nat
  PROVE  LET u == [t EXCEPT !.wnd = w]
         IN /\ u \in Tcb /\ Queues(t, u, 0, w)
            /\ u.mss = t.mss /\ u.recover = t.recover /\ u.rto = t.rto /\ SameList(t, u)
<1>1. t.end + 0 = t.end
  BY TcbTypes
<1> QED  BY <1>1 DEF Tcb, Queues, SameList, SameReceiver, SameAcks

\* Queueing the connect message.
LEMMA QueueConnectStep ==
  ASSUME NEW t, NEW r, Good(t, r), Receiver(r), t.end = 0
  PROVE  LET u == QueueConnect(t)
         IN Good(u, r) /\ Grows(t, u) /\ Queues(t, u, 1, 1)
<1> DEFINE v == [t EXCEPT !.wnd = 1]
           u == QueueConnect(t)
<1>1. t \in Tcb /\ r \in Tcb /\ Sender(t) /\ t.una = 0 /\ t.nxt = 0
  <2>1. t \in Tcb /\ r \in Tcb /\ Sender(t) /\ t.una <= t.nxt /\ t.nxt <= t.end
    BY DEF Good, Sender, Segments, ListOK
  <2> QED  BY <2>1, TcbTypes
<1>2. u = Queue(v, 1, TRUE)
  BY DEF QueueConnect, CtlLen
<1> HIDE DEF u
<1>3. /\ v \in Tcb /\ Queues(t, v, 0, 1)
      /\ v.mss = t.mss /\ v.recover = t.recover /\ v.rto = t.rto /\ SameList(t, v)
  BY <1>1, WndIs
<1> HIDE DEF v
<1>4. v.una = 0 /\ v.nxt = 0 /\ v.end = 0 /\ v.wnd = 1 /\ SameReceiver(t, v) /\ SameAcks(t, v)
      /\ v.writeable = t.writeable /\ v.state = t.state /\ v.todo = t.todo
  BY <1>1, <1>3 DEF Queues, SameList
<1>5. Sender(v)
  BY <1>1, <1>3, <1>4 DEF Sender, Segments, SameList
<1>6. \A q \in Nat : Bounds(t, q) => Bounds(v, q)
  BY <1>1, <1>3, <1>4 DEF Bounds, SameList
<1>7. v.una <= r.rcv /\ v.nxt <= r.rcv + r.rwnd /\ v.una + v.wnd <= r.rcv + r.rwnd
  <2>1. t.una <= r.rcv /\ t.nxt <= r.rcv + r.rwnd
    BY DEF Good, Link
  <2>2. t.mss \in Nat /\ RcvBuf \in Nat /\ RcvBuf > 0 /\ r.rcv + r.rwnd \in Int
    BY <1>1, ConstantsOK, TcbTypes
  <2>3. RcvBuf <= r.rcv + r.rwnd
    BY DEF Receiver
  <2> QED  BY <1>1, <1>4, <2>1, <2>2, <2>3
<1>8. Good(v, r) /\ Grows(t, v)
  <2>1. t.nxt <= v.nxt
    BY <1>1, <1>4
  <2> QED  BY <1>3, <1>4, <1>5, <1>6, <1>7, <2>1, SenderGood
<1>9. SndBuf \in Nat /\ SndBuf > 0
  BY ConstantsOK
<1>10. /\ Good(Queue(v, 1, TRUE), r) /\ Grows(v, Queue(v, 1, TRUE))
       /\ Queues(v, Queue(v, 1, TRUE), 1, v.wnd)
  <2>1. TRUE <=> v.end = 0
    BY <1>4
  <2>2. v.end + 1 <= v.una + SndBuf /\ 1 \in Nat /\ 1 > 0
    BY <1>4, <1>9
  <2> QED  BY <1>8, <2>1, <2>2, QueueStep
<1>11. Good(u, r) /\ Grows(v, u) /\ Queues(v, u, 1, 1)
  BY <1>2, <1>4, <1>10
<1>12. Grows(t, u)
  BY <1>1, <1>3, <1>8, <1>11, GrowsTrans DEF Good
<1>13. Queues(t, u, 1, 1)
  BY <1>1, <1>4, <1>11 DEF Queues, SameReceiver, SameAcks
<1> QED  BY <1>11, <1>12, <1>13 DEF u

\* Connect.
LEMMA ConnectStep ==
  ASSUME TcpInv, LiveInv, NEW e \in End, Connect(e)
  PROVE  /\ TcpInv' /\ LiveInv'
         /\ \E u \in Tcb : /\ SameReceiver(tcb[e], u) /\ tcb[e].end = 0 /\ u.end = 1
                           /\ u.state = "SynSent" /\ tcb' = [tcb EXCEPT ![e] = u]
<1> DEFINE t == tcb[e]
           r == tcb[Peer[e]]
           v == QueueConnect(t)
           u == [v EXCEPT !.state = "SynSent", !.todo = "None"]
<1>1. /\ t \in Tcb /\ r \in Tcb /\ Good(t, r) /\ StateOK(t) /\ Live(e, t) /\ Receiver(r)
      /\ Segments(t)
  <2>1. Good(r, tcb[Peer[Peer[e]]])
    BY EndFacts
  <2> QED  BY <2>1, EndFacts DEF LiveInv, Good, Sender
<1>2. /\ t.state = "Listen" /\ t.todo = "Idle" /\ t.end = 0
      /\ tcb' = [tcb EXCEPT ![e] = u] /\ net' = net
  BY <1>1 DEF Connect, Idle, StateOK
<1> HIDE DEF t, r
<1>3. Good(v, r) /\ Grows(t, v) /\ Queues(t, v, 1, 1) /\ v \in Tcb
  BY <1>1, <1>2, QueueConnectStep DEF Good
<1> HIDE DEF v
<1>4. /\ u \in Tcb /\ SameCore(v, u) /\ u.state = "SynSent" /\ u.todo = "None"
      /\ SameAcks(v, u) /\ SameReceiver(v, u) /\ u.writeable = v.writeable
  <2>1. "SynSent" \in States /\ "None" \in Todos
    BY DEF States, Todos
  <2>2. Turns(v, u, "SynSent", "None")
    BY <1>3, <2>1, StateTodoIs
  <2> HIDE DEF u
  <2> QED  BY <2>2 DEF Turns
<1> HIDE DEF u
<1>5. Good(u, r) /\ Grows(v, u)
  BY <1>3, <1>4, SameCoreGood
<1>6. Grows(t, u)
  BY <1>1, <1>3, <1>4, <1>5, GrowsTrans
<1>7. u.end = 1 /\ u.una = t.una /\ u.nxt = t.nxt
  BY <1>2, <1>3, <1>4 DEF Queues, SameCore
<1>8. KeepsGood(t, u, r)
  BY <1>4, <1>5, <1>6, <1>7 DEF KeepsGood, StateOK
<1>9. t.una \in Nat /\ t.nxt \in Nat /\ t.una <= t.nxt /\ t.nxt <= t.end
  BY <1>1, TcbTypes DEF Segments, ListOK
<1>10. Live(e, u)
  <2>1. t.una = 0 /\ t.nxt = 0
    BY <1>2, <1>9
  <2>2. u.una < u.end /\ (t.nxt < t.end => u.nxt < u.end)
    BY <1>2, <1>7, <2>1
  <2> QED  BY <1>1, <1>2, <1>3, <1>4, <2>2
           DEF Live, Due, Waits, SameReceiver, SameAcks, SameCore, Queues
<1>11. SameReceiver(t, u)
  BY <1>3, <1>4 DEF Queues, SameReceiver
<1>12. TcpInv' /\ LiveInv'
  BY <1>2, <1>8, <1>10, EndStepSilent DEF t, r
<1> QED  BY <1>2, <1>4, <1>7, <1>11, <1>12 DEF t

\* Send: n bytes are queued, or the user waits.
LEMMA WriteStep ==
  ASSUME TcpInv, LiveInv, NEW e \in End, Write(e), written \in [End -> Nat]
  PROVE  /\ TcpInv' /\ LiveInv' /\ written' \in [End -> Nat]
         /\ \/ Quieted(e) /\ written' = written
            \/ \E n \in Nat, u \in Tcb :
                 /\ n > 0 /\ written' = [written EXCEPT ![e] = @ + n]
                 /\ SameReceiver(tcb[e], u) /\ tcb[e].end > 0 /\ u.end = tcb[e].end + n
                 /\ u.state = tcb[e].state /\ tcb' = [tcb EXCEPT ![e] = u]
<1> DEFINE t == tcb[e]
           r == tcb[Peer[e]]
           n == Min2(Writes[e] - written[e], SndBuf - Buffered(t))
           v == Queue(t, n, FALSE)
           u == [v EXCEPT !.todo = "None"]
           z == [t EXCEPT !.writeable = TRUE]
<1>1. /\ t \in Tcb /\ r \in Tcb /\ Good(t, r) /\ StateOK(t) /\ Live(e, t)
      /\ t.una <= t.nxt /\ t.nxt <= t.end /\ t.end <= t.una + SndBuf
      /\ tcb \in [End -> Tcb]
  BY EndFacts DEF LiveInv, Good, Sender, Segments, ListOK, TcpInv, EndsOK
<1>2. /\ t.todo = "Idle" /\ t.state = "Established" /\ written[e] < Writes[e] /\ net' = net
      /\ \/ /\ n = 0
            /\ tcb' = [tcb EXCEPT ![e].writeable = TRUE]
            /\ UNCHANGED written
         \/ /\ n # 0
            /\ tcb' = [tcb EXCEPT ![e] = u]
            /\ written' = [written EXCEPT ![e] = @ + n]
  BY DEF Write, Idle
<1>3. /\ t.una \in Nat /\ t.nxt \in Nat /\ t.end \in Nat /\ SndBuf \in Nat /\ SndBuf > 0
      /\ written[e] \in Nat /\ Writes[e] \in Nat
  BY <1>1, TcbTypes, ConstantsOK
<1>4. n \in Nat /\ t.end + n <= t.una + SndBuf
  BY <1>1, <1>2, <1>3 DEF Min2, Buffered
<1>5. n = 0 => t.una < t.end
  BY <1>1, <1>2, <1>3 DEF Min2, Buffered
<1>6. t.end > 0
  BY <1>1, <1>2 DEF StateOK, Opened
<1>7. ASSUME n = 0
      PROVE  TcpInv' /\ LiveInv' /\ written' \in [End -> Nat] /\ Quieted(e) /\ written' = written
  <2>1. tcb' = [tcb EXCEPT ![e] = z] /\ written' = written
    <3>1. tcb' = [tcb EXCEPT ![e].writeable = TRUE] /\ written' = written
      BY <1>2, <1>7
    <3> QED  BY <1>1, <3>1, Zenon
  <2>2. t.una < t.end
    BY <1>5, <1>7
  <2> HIDE DEF t, r, n
  <2>3. /\ z \in Tcb /\ SameCore(t, z) /\ z.state = t.state /\ z.todo = t.todo
        /\ SameAcks(t, z) /\ SameReceiver(t, z) /\ z.writeable = TRUE
    BY <1>1, FlagsAre
  <2> HIDE DEF z
  <2>4. KeepsGood(t, z, r)
    BY <1>1, <2>3, SameCoreStep
  <2>5. Live(e, z)
    BY <1>1, <2>2, <2>3 DEF Live, Due, Waits, SameCore, SameAcks, SameReceiver
  <2>6. Quiet(t, z)
    BY <2>3 DEF Quiet, SameCore, SameReceiver
  <2>7. Quieted(e)
    BY <2>1, <2>3, <2>6 DEF Quieted, t
  <2>8. TcpInv' /\ LiveInv'
    BY <1>2, <2>1, <2>4, <2>5, EndStepSilent DEF t, r
  <2> QED  BY <2>1, <2>7, <2>8
<1>8. ASSUME n # 0
      PROVE  /\ TcpInv' /\ LiveInv' /\ written' \in [End -> Nat]
             /\ \E k \in Nat, x \in Tcb :
                  /\ k > 0 /\ written' = [written EXCEPT ![e] = @ + k]
                  /\ SameReceiver(t, x) /\ t.end > 0 /\ x.end = t.end + k
                  /\ x.state = t.state /\ tcb' = [tcb EXCEPT ![e] = x]
  <2> HIDE DEF t, r, n, u, v
  <2>1. tcb' = [tcb EXCEPT ![e] = u] /\ written' = [written EXCEPT ![e] = @ + n] /\ n > 0
    BY <1>2, <1>4, <1>8
  <2>2. Good(v, r) /\ Grows(t, v) /\ Queues(t, v, n, t.wnd) /\ v \in Tcb
    <3>1. FALSE <=> t.end = 0
      BY <1>3, <1>6
    <3> QED  BY <1>1, <1>4, <2>1, <3>1, QueueStep DEF Good, v
  <2>3. /\ u \in Tcb /\ SameCore(v, u) /\ u.state = v.state /\ u.todo = "None"
        /\ SameAcks(v, u) /\ SameReceiver(v, u) /\ u.writeable = v.writeable
    BY <2>2, TodoIs DEF Todos, u
  <2>4. Good(u, r) /\ Grows(v, u)
    BY <2>2, <2>3, SameCoreGood
  <2>5. Grows(t, u)
    BY <1>1, <2>2, <2>3, <2>4, GrowsTrans
  <2>6. u.end = t.end + n /\ u.una = t.una /\ u.nxt = t.nxt /\ u.state = t.state
    BY <2>2, <2>3 DEF Queues, SameCore
  <2>7. KeepsGood(t, u, r)
    <3>1. u.end > 0
      BY <1>3, <1>4, <1>6, <2>6
    <3> QED  BY <1>2, <2>4, <2>5, <2>6, <3>1 DEF KeepsGood, StateOK
  <2>8. Live(e, u)
    <3>1. (t.una < t.end => u.una < u.end) /\ (t.nxt < t.end => u.nxt < u.end)
      BY <1>3, <1>4, <2>6
    <3> QED  BY <1>1, <1>2, <2>2, <2>3, <3>1
             DEF Live, Due, Waits, SameReceiver, SameAcks, SameCore, Queues
  <2>9. written' \in [End -> Nat]
    <3>1. written[e] + n \in Nat
      BY <1>3, <1>4
    <3> QED  BY <2>1, <3>1
  <2>10. SameReceiver(t, u)
    BY <2>2, <2>3 DEF Queues, SameReceiver
  <2>11. TcpInv' /\ LiveInv'
    BY <1>2, <2>1, <2>7, <2>8, EndStepSilent DEF t, r
  <2> QED  BY <1>4, <1>6, <2>1, <2>3, <2>6, <2>9, <2>10, <2>11
<1> QED  BY <1>7, <1>8

\* n bytes of m_rbuf have been read.
Took(t, n) == [t EXCEPT !.rpos = (@ + n) % RcvBuf, !.dlen = @ - n]
Taken(t, u, n) ==
  /\ u \in Tcb /\ SameProgress(t, u) /\ SameList(t, u) /\ SameAcks(t, u)
  /\ u.state = t.state /\ u.todo = t.todo /\ u.shutdown = t.shutdown
  /\ u.rcv = t.rcv /\ u.rwnd = t.rwnd /\ u.rlist = t.rlist /\ u.cell = t.cell
  /\ u.readable = t.readable
  /\ u.rpos = (t.rpos + n) % RcvBuf /\ u.dlen = t.dlen - n

\* m_rbuf.ReadData takes n bytes.
LEMMA TookIs ==
  ASSUME NEW t \in Tcb, NEW n \in Nat, n <= t.dlen
  PROVE  Taken(t, Took(t, n), n) /\ Took(t, n).rpos < RcvBuf
<1> DEFINE x == (t.rpos + n) % RcvBuf
           y == t.dlen - n
           u == [t EXCEPT !.rpos = x, !.dlen = y]
<1>1. x \in Nat /\ x < RcvBuf /\ y \in Nat
  BY TcbTypes, ConstantsOK, SMTT(30)
<1>2. Took(t, n) = u
  BY DEF Took
<1> HIDE DEF x, y
<1>3. /\ u \in Tcb /\ SameProgress(t, u) /\ SameList(t, u) /\ SameAcks(t, u)
      /\ u.state = t.state /\ u.todo = t.todo /\ u.shutdown = t.shutdown
      /\ u.rcv = t.rcv /\ u.rwnd = t.rwnd /\ u.rlist = t.rlist /\ u.cell = t.cell
      /\ u.readable = t.readable /\ u.rpos = x /\ u.dlen = y
  BY <1>1 DEF Tcb, SameProgress, SameList, SameAcks
<1> HIDE DEF u
<1> QED  BY <1>1, <1>2, <1>3 DEF Taken, x, y

\* Reading leaves the offered window in the buffer, and opening it never closes it.
Opens(t, u) ==
  /\ u \in Tcb /\ SameProgress(t, u) /\ SameList(t, u) /\ SameAcks(t, u)
  /\ u.state = t.state /\ u.shutdown = t.shutdown /\ u.todo \in {t.todo, "Immediate"}
  /\ u.rcv = t.rcv /\ u.rlist = t.rlist /\ u.cell = t.cell /\ u.rpos = t.rpos
  /\ u.dlen = t.dlen /\ u.readable = t.readable /\ u.rwnd \in {t.rwnd, Room(t)}

\* Opening the window.
LEMMA OpensIs ==
  ASSUME NEW t \in Tcb
  PROVE  Opens(t, OpenWindow(t))
<1> DEFINE u == OpenWindow(t)
<1>1. CASE u = t
  BY <1>1 DEF Opens, SameProgress, SameList, SameAcks
<1>2. CASE u # t
  <2>1. /\ u \in Tcb
        /\ SameProgress(t, u) /\ SameList(t, u) /\ SameAcks(t, u)
        /\ u.state = t.state /\ u.shutdown = t.shutdown
        /\ u.rcv = t.rcv /\ u.rlist = t.rlist
        /\ u.cell = t.cell /\ u.rpos = t.rpos
        /\ u.dlen = t.dlen /\ u.readable = t.readable
        /\ u.rwnd = Room(t) /\ u.todo \in {t.todo, "Immediate"}
    BY <1>2, OpenWindowIs
  <2> HIDE DEF u
  <2>2. Opens(t, u)
    BY <2>1 DEF Opens
  <2> QED  BY <2>2 DEF u
<1> QED  BY <1>1, <1>2

\* Reading keeps an end good.
LEMMA ReadGood ==
  ASSUME NEW t, NEW r, Good(t, r), NEW n \in Nat, n <= t.dlen,
         NEW v, Taken(t, v, n), v.rpos < RcvBuf, NEW u, Opens(v, u)
  PROVE  Good(u, r) /\ Grows(t, u)
<1>1. t \in Tcb /\ r \in Tcb /\ v \in Tcb /\ u \in Tcb
  BY DEF Good, Taken, Opens
<1>2. /\ t.rcv \in Nat /\ t.rwnd \in Int /\ t.dlen \in Nat /\ RcvBuf \in Nat
  BY <1>1, TcbTypes, ConstantsOK
<1>3. /\ 0 <= t.rwnd /\ t.rwnd <= RcvBuf - t.dlen /\ RcvBuf <= t.rcv + t.rwnd
      /\ t.rcv <= r.nxt /\ Bounds(r, t.rcv)
      /\ \A g \in t.rlist : g.len > 0 /\ g.seq + g.len <= r.nxt /\ Bounds(r, g.seq + g.len)
  BY DEF Good, Receiver, Link
<1>4. /\ u.rcv = t.rcv /\ u.rlist = t.rlist /\ u.rpos < RcvBuf /\ u.dlen = t.dlen - n
      /\ u.rwnd \in {t.rwnd, RcvBuf - (t.dlen - n)}
  BY DEF Taken, Opens, Room
<1>5. SameProgress(t, u) /\ SameList(t, u)
  BY DEF Taken, Opens, SameProgress, SameList
<1>6. t.rwnd <= u.rwnd /\ u.rwnd <= RcvBuf - u.dlen /\ u.rwnd \in Int
  BY <1>2, <1>3, <1>4
<1>7. Receiver(u)
  BY <1>2, <1>3, <1>4, <1>6 DEF Receiver
<1>8. t.rcv <= u.rcv /\ t.rcv + t.rwnd <= u.rcv + u.rwnd
  BY <1>2, <1>4, <1>6
<1> QED  BY <1>1, <1>3, <1>4, <1>5, <1>7, <1>8, ReceiverGood

\* Recv: n bytes are read, or the user waits.
LEMMA ReadStep ==
  ASSUME TcpInv, LiveInv, NEW e \in End, NEW len \in ReadSizes, Read(e, len)
  PROVE  /\ TcpInv' /\ LiveInv'
         /\ LET n == Min2(len, tcb[e].dlen)
            IN /\ n = 0 => Quieted(e)
               /\ n # 0 => \E v, u : /\ Taken(tcb[e], v, n) /\ v.rpos < RcvBuf /\ Opens(v, u)
                                     /\ tcb' = [tcb EXCEPT ![e] = u]
<1> DEFINE t == tcb[e]
           r == tcb[Peer[e]]
           n == Min2(len, t.dlen)
           v == Took(t, n)
           u == OpenWindow(v)
           z == [t EXCEPT !.readable = TRUE]
<1>1. /\ t \in Tcb /\ r \in Tcb /\ Good(t, r) /\ StateOK(t) /\ Live(e, t)
      /\ tcb \in [End -> Tcb]
  BY EndFacts DEF LiveInv, TcpInv, EndsOK
<1>2. /\ t.todo = "Idle" /\ t.state = "Established" /\ net' = net
      /\ \/ n = 0 /\ tcb' = [tcb EXCEPT ![e].readable = TRUE]
         \/ n # 0 /\ tcb' = [tcb EXCEPT ![e] = u]
  BY DEF Read, Idle, Took
<1>3. len \in Nat /\ len > 0 /\ t.dlen \in Nat
  BY <1>1, TcbTypes, ConstantsOK
<1>4. n \in Nat /\ n <= t.dlen /\ (n = 0 => t.dlen = 0)
  BY <1>3 DEF Min2
<1>5. ASSUME n = 0  PROVE TcpInv' /\ LiveInv' /\ Quieted(e)
  <2>1. tcb' = [tcb EXCEPT ![e] = z]
    <3>1. tcb' = [tcb EXCEPT ![e].readable = TRUE]
      BY <1>2, <1>5
    <3> QED  BY <1>1, <3>1, Zenon
  <2>2. t.dlen = 0
    BY <1>4, <1>5
  <2> HIDE DEF t, r, n
  <2>3. /\ z \in Tcb /\ SameCore(t, z) /\ z.state = t.state /\ z.todo = t.todo
        /\ SameAcks(t, z) /\ z.writeable = t.writeable
        /\ z.cell = t.cell /\ z.shutdown = t.shutdown
    BY <1>1, FlagsAre
  <2> HIDE DEF z
  <2>4. KeepsGood(t, z, r)
    BY <1>1, <2>3, SameCoreStep
  <2>5. Live(e, z)
    BY <1>1, <2>2, <2>3 DEF Live, Due, Waits, SameCore, SameAcks
  <2>6. Quiet(t, z)
    BY <2>3 DEF Quiet, SameCore
  <2>7. Quieted(e)
    BY <2>1, <2>3, <2>6 DEF Quieted, t
  <2>8. TcpInv' /\ LiveInv'
    BY <1>2, <2>1, <2>4, <2>5, EndStepSilent DEF t, r
  <2> QED  BY <2>7, <2>8
<1>6. ASSUME n # 0
      PROVE  /\ TcpInv' /\ LiveInv'
             /\ \E x, y : /\ Taken(t, x, n) /\ x.rpos < RcvBuf /\ Opens(x, y)
                          /\ tcb' = [tcb EXCEPT ![e] = y]
  <2> HIDE DEF t, r, n, v, u
  <2>1. tcb' = [tcb EXCEPT ![e] = u] /\ t.dlen # 0
    BY <1>2, <1>3, <1>4, <1>6
  <2>2. Taken(t, v, n) /\ v.rpos < RcvBuf
    BY <1>1, <1>4, TookIs DEF v
  <2>3. Opens(v, u)
    BY <2>2, OpensIs DEF Taken, u
  <2>4. Good(u, r) /\ Grows(t, u)
    BY <1>1, <1>4, <2>2, <2>3, ReadGood
  <2>5. /\ u.state = t.state /\ u.end = t.end /\ u.una = t.una /\ u.nxt = t.nxt /\ u.wnd = t.wnd
        /\ u.writeable = t.writeable /\ u.readable = t.readable /\ u.rcv = t.rcv
        /\ u.acked = t.acked /\ u.tack = t.tack /\ u.todo \in {"Idle", "Immediate"}
    BY <1>2, <2>2, <2>3 DEF Taken, Opens, SameProgress, SameList, SameAcks
  <2>6. KeepsGood(t, u, r)
    BY <1>1, <2>4, <2>5 DEF KeepsGood, StateOK
  <2>7. Live(e, u)
    BY <1>1, <1>2, <2>1, <2>5 DEF Live, Due, Waits
  <2>8. TcpInv' /\ LiveInv'
    BY <1>2, <2>1, <2>6, <2>7, EndStepSilent DEF t, r
  <2> QED  BY <2>1, <2>2, <2>3, <2>8
<1> QED  BY <1>5, <1>6

\* Close.
LEMMA CloseStep ==
  ASSUME TcpInv, LiveInv, NEW e \in End, Close(e)
  PROVE  TcpInv' /\ LiveInv' /\ Quieted(e)
<1> DEFINE t == tcb[e]
           r == tcb[Peer[e]]
           z == [t EXCEPT !.shutdown = TRUE]
<1>1. /\ t \in Tcb /\ Good(t, r) /\ StateOK(t) /\ Live(e, t) /\ tcb \in [End -> Tcb]
  BY EndFacts DEF LiveInv, TcpInv, EndsOK
<1>2. net' = net /\ tcb' = [tcb EXCEPT ![e] = z]
  <2>1. net' = net /\ tcb' = [tcb EXCEPT ![e].shutdown = TRUE]
    BY DEF Close
  <2> QED  BY <1>1, <2>1, Zenon
<1> HIDE DEF t, r
<1>3. /\ z \in Tcb /\ SameCore(t, z) /\ z.state = t.state /\ z.todo = t.todo
      /\ SameAcks(t, z) /\ z.writeable = t.writeable /\ z.readable = t.readable
      /\ z.cell = t.cell /\ z.shutdown = TRUE
  BY <1>1, FlagsAre
<1> HIDE DEF z
<1>4. KeepsGood(t, z, r)
  BY <1>1, <1>3, SameCoreStep
<1>5. Live(e, z)
  BY <1>1, <1>3 DEF Live, Due, Waits, SameCore, SameAcks
<1>6. Quiet(t, z)
  BY <1>3 DEF Quiet, SameCore
<1>7. Quieted(e)
  BY <1>2, <1>3, <1>6 DEF Quieted, t
<1>8. TcpInv' /\ LiveInv'
  BY <1>2, <1>4, <1>5, EndStepSilent DEF t, r
<1> QED  BY <1>7, <1>8

\* An end that is closed, and one that has sent an acknowledgement.
LEMMA ClosedStep ==
  ASSUME TcpInv, LiveInv, NEW e \in End, tcb' = [tcb EXCEPT ![e] = Closed(tcb[e])],
         net' \subseteq net
  PROVE  TcpInv' /\ LiveInv' /\ Quieted(e)
<1> DEFINE t == tcb[e]
           r == tcb[Peer[e]]
           u == Closed(t)
<1>1. t \in Tcb /\ Good(t, r) /\ StateOK(t)
  BY EndFacts
<1>2. u \in Tcb /\ SameCore(t, u) /\ u.state = "Closed" /\ SameReceiver(t, u)
  BY <1>1, ClosedCore
<1>3. tcb' = [tcb EXCEPT ![e] = u]
  OBVIOUS
<1> HIDE DEF t, r, u
<1>4. KeepsGood(t, u, r)
  BY <1>1, <1>2, SameCoreStep
<1>5. Live(e, u)
  BY <1>2 DEF Live
<1>6. Quiet(t, u)
  BY <1>2 DEF Quiet, SameCore, SameReceiver
<1>7. Quieted(e)
  BY <1>2, <1>3, <1>6 DEF Quieted, t
<1>8. TcpInv' /\ LiveInv'
  BY <1>3, <1>4, <1>5, EndStepSilent DEF t, r
<1> QED  BY <1>7, <1>8

\* A step that only sends an acknowledgement.
LEMMA AcknowledgedStep ==
  ASSUME TcpInv, LiveInv, NEW e \in End, tcb' = [tcb EXCEPT ![e] = Acknowledged(tcb[e])],
         NEW seq \in Int, Into(net, {MakePacket(e, tcb[e], seq, 0, FALSE)})
  PROVE  TcpInv' /\ LiveInv' /\ Quieted(e)
<1> DEFINE t == tcb[e]
           r == tcb[Peer[e]]
           u == Acknowledged(t)
           q == MakePacket(e, t, seq, 0, FALSE)
<1>1. t \in Tcb /\ Good(t, r) /\ StateOK(t) /\ Live(e, t)
  BY EndFacts DEF LiveInv
<1>2. /\ u \in Tcb /\ SameCore(t, u) /\ u.state = t.state /\ u.acked = t.rcv
      /\ u.todo = t.todo /\ u.writeable = t.writeable /\ SameReceiver(t, u)
  BY <1>1, AcknowledgedCore
<1>3. net' \subseteq net \cup {q}
  BY IntoIs
<1>4. q \in Packet /\ q.to = Peer[e] /\ PacketOK(q, t, r)
  BY <1>1, AckPacket
<1> HIDE DEF t, r, u, q
<1>5. KeepsGood(t, u, r)
  BY <1>1, <1>2, SameCoreStep
<1>6. Live(e, u)
  BY <1>1, <1>2 DEF Live, Due, Waits, SameCore, SameReceiver
<1>7. PacketOK(q, u, r)
  BY <1>1, <1>2, <1>4, <1>5, PacketSent DEF KeepsGood
<1>8. tcb' = [tcb EXCEPT ![e] = u]
  BY DEF u, t
<1>9. Quiet(t, u)
  BY <1>2 DEF Quiet, SameCore, SameReceiver
<1>10. Quieted(e)
  BY <1>2, <1>8, <1>9 DEF Quieted, t
<1>11. TcpInv' /\ LiveInv'
  BY <1>3, <1>4, <1>5, <1>6, <1>7, <1>8, EndStepSends DEF t, r
<1> QED  BY <1>10, <1>11

\* NotifyClock: the probe of a closed window,
LEMMA ProbeStep ==
  ASSUME TcpInv, LiveInv, NEW e \in End, Probe(e)
  PROVE  TcpInv' /\ LiveInv' /\ Quieted(e)
<1>1. tcb[e].nxt - 1 \in Int
  BY EndFacts, TcbTypes
<1>2. CASE /\ tcb' = [tcb EXCEPT ![e] = Acknowledged(tcb[e])]
           /\ Into(net, {MakePacket(e, tcb[e], tcb[e].nxt - 1, 0, FALSE)})
  BY <1>1, <1>2, AcknowledgedStep
<1>3. CASE tcb' = [tcb EXCEPT ![e] = Closed(tcb[e])] /\ UNCHANGED net
  BY <1>3, ClosedStep
<1> QED  BY <1>2, <1>3 DEF Probe

\* the delayed acknowledgement, and
LEMMA DelayedAckStep ==
  ASSUME TcpInv, LiveInv, NEW e \in End, DelayedAck(e)
  PROVE  TcpInv' /\ LiveInv' /\ Quieted(e)
<1>1. tcb[e].nxt \in Int
  BY EndFacts, TcbTypes
<1> QED  BY <1>1, AcknowledgedStep DEF DelayedAck

\* The first segment can be sent again while something is in flight.
LEMMA FirstSendable ==
  ASSUME NEW t, NEW r, Good(t, r), t.una < t.nxt
  PROVE  Sendable(t, r, 1)
<1>1. /\ t \in Tcb /\ Segments(t) /\ t.slist \in Seq(Segment)
      /\ t.una \in Nat /\ t.nxt \in Nat /\ t.end \in Nat
  BY TcbTypes DEF Good, Sender
<1>2. t.nxt <= t.end /\ Spans(t.slist, t.una, t.end)
  BY <1>1 DEF Segments, ListOK
<1>3. Len(t.slist) # 0 /\ Len(t.slist) \in Nat
  BY <1>1, <1>2, LenProperties DEF Spans
<1>4. t.slist[1].seq = t.una /\ 1 \in 1..Len(t.slist)
  BY <1>2, <1>3 DEF Spans
<1> QED  BY <1>1, <1>4 DEF Sendable

\* the retransmission of the first segment.
LEMMA RetransmitTimeoutStep ==
  ASSUME TcpInv, LiveInv, NEW e \in End, RetransmitTimeout(e)
  PROVE  TcpInv' /\ LiveInv' /\ Quieted(e)
<1> DEFINE t == tcb[e]
           r == tcb[Peer[e]]
           u == Transmitted(t, 1)
           q == TransmitPacket(e, t, 1)
<1>1. /\ t \in Tcb /\ Good(t, r) /\ StateOK(t) /\ Live(e, t) /\ t.una < t.nxt
      /\ t.una \in Nat /\ t.nxt \in Nat
  BY EndFacts, TcbTypes DEF LiveInv, RetransmitTimeout, Good, Sender
<1>2. CASE tcb' = [tcb EXCEPT ![e] = u] /\ Into(net, {q})
  <2>1. net' \subseteq net \cup {q} /\ tcb' = [tcb EXCEPT ![e] = u]
    BY <1>2, IntoIs
  <2> HIDE DEF t, r
  <2>2. Sendable(t, r, 1)
    BY <1>1, FirstSendable
  <2>3. /\ KeepsGood(t, u, r)
        /\ q \in Packet /\ q.to = Peer[e] /\ PacketOK(q, u, r)
        /\ u.una = t.una /\ u.end = t.end /\ u.wnd = t.wnd /\ u.acked = u.rcv
        /\ u.writeable = t.writeable /\ u.state = t.state /\ u.todo = t.todo
        /\ SameReceiver(t, u)
    BY <1>1, <2>2, TransmittedStep
  <2> HIDE DEF u, q
  <2>4. Live(e, u)
    <3>1. u.una < u.nxt
      BY <1>1, <2>3, TcbTypes DEF KeepsGood, Good, Grows
    <3> QED  BY <1>1, <2>3, <3>1 DEF Live, Due, Waits, SameReceiver
  <2>5. Quiet(t, u) /\ u \in Tcb
    BY <2>3 DEF Quiet, SameReceiver, KeepsGood, Good
  <2>6. Quieted(e)
    BY <2>1, <2>5 DEF Quieted, t
  <2>7. TcpInv' /\ LiveInv'
    BY <2>1, <2>3, <2>4, EndStepSends DEF t, r
  <2> QED  BY <2>6, <2>7
<1>3. CASE tcb' = [tcb EXCEPT ![e] = Closed(t)] /\ UNCHANGED net
  BY <1>3, ClosedStep
<1> QED  BY <1>2, <1>3 DEF RetransmitTimeout

----------------------------------------------------------------------------
(* NotifyPacket, in the parts that process() consists of.                  *)

\* An acknowledgement was sent or is due, whatever is left to do.
Owes(e, t) == t.acked = t.rcv \/ t.tack \/ (MayHold(e) /\ t.nxt < t.end)

\* A connection that has had a connect message.
Joined(t) == t.state \in {"SynReceived", "Established"}

\* A part of NotifyPacket that leaves receiving alone.
Turned(t, u, r, p) ==
  /\ KeepsGood(t, u, r) /\ SameReceiver(t, u)
  /\ Owes(p.to, t) => Owes(p.to, u)
  /\ u.end = t.end \/ (p.ctl /\ t.end = 0 /\ u.end = 1)
  /\ Joined(u) => Joined(t) \/ p.ctl

\* Two such parts,
LEMMA TurnedTrans ==
  ASSUME NEW t \in Tcb, NEW u, NEW v, NEW r, NEW p, Turned(t, u, r, p), Turned(u, v, r, p)
  PROVE  Turned(t, v, r, p)
<1>1. KeepsGood(t, v, r)
  BY GrowsTrans DEF Turned, KeepsGood, Good
<1> QED  BY <1>1, Zenon DEF Turned, SameReceiver

\* and none.
LEMMA TurnedRefl ==
  ASSUME NEW t, NEW r, NEW p, Good(t, r), StateOK(t)
  PROVE  Turned(t, t, r, p)
BY GrowsRefl DEF Turned, KeepsGood, SameReceiver, Good

\* Only the state and m_mss differ.
Establishes(t, u, s, m) ==
  /\ u \in Tcb /\ u.mss = m /\ u.state = s
  /\ u.una = t.una /\ u.nxt = t.nxt /\ u.wnd = t.wnd /\ u.rto = t.rto
  /\ u.recover = t.recover /\ u.todo = t.todo /\ u.writeable = t.writeable
  /\ SameList(t, u) /\ SameReceiver(t, u) /\ SameAcks(t, u)

\* adjustMTU in a change of state.
LEMMA StateMssIs ==
  ASSUME NEW t \in Tcb, NEW s \in States, NEW m \in Nat
  PROVE  Establishes(t, [t EXCEPT !.state = s, !.mss = m], s, m)
BY DEF Tcb, Establishes, SameList, SameReceiver, SameAcks

\* The connection is established.
LEMMA StateMssTurned ==
  ASSUME NEW t, NEW r, NEW p, Good(t, r), t.end > 0, Joined(t) \/ p.ctl,
         NEW u, Establishes(t, u, "Established", Mss)
  PROVE  Turned(t, u, r, p)
<1>1. u \in Tcb /\ SameReceiver(t, u) /\ SameAcks(t, u) /\ u.end = t.end /\ u.nxt = t.nxt
  BY DEF Establishes, SameList
<1>2. Good(u, r) /\ Grows(t, u)
  <2>1. u.mss > 0
    BY ConstantsOK DEF Establishes
  <2> QED  BY <2>1, MssGood DEF Establishes
<1>3. StateOK(u)
  BY <1>1 DEF Establishes, StateOK
<1>4. Owes(p.to, t) => Owes(p.to, u)
  BY <1>1 DEF Owes, SameReceiver, SameAcks
<1> QED  BY <1>1, <1>2, <1>3, <1>4 DEF Turned, KeepsGood, Joined

\* A part that Good does not see.
LEMMA SameCoreTurned ==
  ASSUME NEW t, NEW r, NEW p, Good(t, r), StateOK(t), NEW u \in Tcb, SameCore(t, u),
         u.state = t.state, SameAcks(t, u), SameReceiver(t, u)
  PROVE  Turned(t, u, r, p)
<1>1. KeepsGood(t, u, r)
  BY SameCoreStep
<1> QED  BY <1>1 DEF Turned, Owes, Joined, SameCore, SameAcks, SameReceiver

\* The parts of process, one by one: a connect message,
LEMMA OpeningTurned ==
  ASSUME NEW t, NEW r, Good(t, r), StateOK(t), Receiver(r), NEW p
  PROVE  Turned(t, Opening(t, p), r, p) /\ Opening(t, p).nxt = t.nxt
<1> DEFINE v == [t EXCEPT !.state = "SynReceived"]
           z == [t EXCEPT !.state = "Established", !.mss = Mss]
<1>1. t \in Tcb /\ Mss \in Nat /\ t.nxt \in Nat /\ t.end \in Nat
  BY TcbTypes, ConstantsOK DEF Good
<1>2. CASE p.ctl /\ t.state = "Listen"
  <2>1. Opening(t, p) = QueueConnect(v)
    BY <1>2 DEF Opening
  <2>2. t.end = 0
    BY <1>2 DEF StateOK
  <2>3. /\ v \in Tcb /\ SameCore(t, v) /\ v.state = "SynReceived"
        /\ SameAcks(t, v) /\ SameReceiver(t, v)
    BY <1>1, StateIs DEF States
  <2> HIDE DEF v
  <2>4. Good(v, r) /\ Grows(t, v) /\ v.end = 0 /\ v.nxt = t.nxt
    BY <2>2, <2>3, SameCoreGood DEF SameCore
  <2> DEFINE u == QueueConnect(v)
  <2>5. Good(u, r) /\ Grows(v, u) /\ Queues(v, u, 1, 1)
    BY <2>4, QueueConnectStep
  <2> HIDE DEF u
  <2>6. /\ u.end = 1 /\ u.state = "SynReceived" /\ u.nxt = t.nxt
        /\ SameAcks(t, u) /\ SameReceiver(t, u)
    BY <2>3, <2>4, <2>5 DEF Queues, SameAcks, SameReceiver
  <2>7. Grows(t, u)
    BY <1>1, <2>3, <2>4, <2>5, GrowsTrans DEF Good
  <2>8. StateOK(u)
    BY <2>6 DEF StateOK
  <2>9. Owes(p.to, t) => Owes(p.to, u)
    <3>1. t.nxt < t.end => u.nxt < u.end
      BY <1>1, <2>2, <2>6
    <3> QED  BY <2>6, <3>1 DEF Owes, SameAcks, SameReceiver
  <2>10. Turned(t, u, r, p)
    BY <1>2, <2>2, <2>5, <2>6, <2>7, <2>8, <2>9 DEF Turned, KeepsGood
  <2> QED  BY <2>1, <2>6, <2>10 DEF u
<1>3. CASE p.ctl /\ t.state = "SynSent"
  <2>1. Opening(t, p) = z
    BY <1>3 DEF Opening
  <2>2. t.end > 0
    BY <1>3 DEF StateOK, Opened
  <2>3. Establishes(t, z, "Established", Mss)
    BY <1>1, StateMssIs DEF States
  <2> HIDE DEF z
  <2>4. Turned(t, z, r, p) /\ z.nxt = t.nxt
    BY <1>3, <2>2, <2>3, StateMssTurned DEF Joined, Establishes
  <2> QED  BY <2>1, <2>4
<1>4. CASE ~p.ctl \/ t.state \notin {"Listen", "SynSent"}
  <2>1. Opening(t, p) = t
    BY <1>4 DEF Opening
  <2> QED  BY <2>1, TurnedRefl
<1> QED  BY <1>2, <1>3, <1>4

\* an acknowledgement,
LEMMA AckingTurned ==
  ASSUME NEW t, NEW r, Good(t, r), StateOK(t), NEW p \in Packet, PacketOK(p, r, t)
  PROVE  LET u == Acking(t, p)
         IN /\ Turned(t, u, r, p) /\ u.nxt = t.nxt /\ u.recover = t.recover
            /\ u.una = IF Valuable(t, p) THEN p.ack ELSE t.una
<1> DEFINE u == Acking(t, p)
<1>1. /\ Good(u, r) /\ Grows(t, u) /\ u.nxt = t.nxt /\ u.end = t.end /\ u.recover = t.recover
      /\ u.state = t.state /\ SameReceiver(t, u) /\ SameAcks(t, u)
      /\ u.una = IF Valuable(t, p) THEN p.ack ELSE t.una
  BY AckingGood
<1> HIDE DEF u
<1>2. StateOK(u)
  BY <1>1 DEF StateOK
<1>3. Owes(p.to, t) => Owes(p.to, u)
  BY <1>1 DEF Owes, SameReceiver, SameAcks
<1> QED  BY <1>1, <1>2, <1>3 DEF Turned, KeepsGood, Joined, u

\* the start of the recovery,
LEMMA RecoveringTurned ==
  ASSUME NEW o, NEW x, NEW r, Good(x, r), StateOK(x), NEW p
  PROVE  Turned(x, Recovering(o, x, p), r, p)
<1> DEFINE u == [x EXCEPT !.recover = x.nxt]
<1>1. CASE Valuable(o, p)
  BY <1>1, TurnedRefl DEF Recovering
<1>2. CASE ~Valuable(o, p)
  <2>1. Recovering(o, x, p) = u
    BY <1>2 DEF Recovering
  <2>2. x \in Tcb /\ x.nxt \in Nat /\ r \in Tcb
    BY TcbTypes DEF Good
  <2>3. /\ u \in Tcb /\ u.mss = x.mss /\ u.state = x.state
        /\ u.una = x.una /\ u.nxt = x.nxt /\ u.wnd = x.wnd /\ u.rto = x.rto
        /\ u.recover = x.nxt /\ SameList(x, u) /\ SameReceiver(x, u) /\ SameAcks(x, u)
    BY <2>2 DEF Tcb, SameList, SameReceiver, SameAcks
  <2> HIDE DEF u
  <2>4. Sender(u)
    BY <2>2, <2>3 DEF Good, Sender, Segments, SameList
  <2>5. \A q : Bounds(x, q) => Bounds(u, q)
    BY <2>3 DEF Bounds, SameList
  <2>6. x.una <= r.rcv /\ x.nxt <= r.rcv + r.rwnd /\ x.una + x.wnd <= r.rcv + r.rwnd
        /\ x.nxt <= x.nxt
    BY <2>2 DEF Good, Link
  <2>7. Good(u, r) /\ Grows(x, u)
    BY <2>3, <2>4, <2>5, <2>6, SenderGood
  <2>8. StateOK(u) /\ (Owes(p.to, x) => Owes(p.to, u))
    BY <2>3 DEF StateOK, Owes, SameReceiver, SameAcks, SameList
  <2> QED  BY <2>1, <2>3, <2>7, <2>8 DEF Turned, KeepsGood, Joined, SameList
<1> QED  BY <1>1, <1>2

\* the first packet that is not a connect message, and
LEMMA EstablishedTurned ==
  ASSUME NEW t, NEW r, Good(t, r), StateOK(t), NEW p
  PROVE  Turned(t, Established(t, p), r, p)
<1> DEFINE z == [t EXCEPT !.state = "Established", !.mss = Mss]
<1>1. t \in Tcb /\ Mss \in Nat
  BY ConstantsOK DEF Good
<1>2. CASE t.state = "SynReceived" /\ ~p.ctl
  <2>1. Established(t, p) = z
    BY <1>2 DEF Established
  <2>2. t.end > 0
    BY <1>2 DEF StateOK, Opened
  <2>3. Establishes(t, z, "Established", Mss)
    BY <1>1, StateMssIs DEF States
  <2> HIDE DEF z
  <2>4. Turned(t, z, r, p)
    BY <1>2, <2>2, <2>3, StateMssTurned DEF Joined
  <2> QED  BY <2>1, <2>4
<1>3. CASE ~(t.state = "SynReceived" /\ ~p.ctl)
  <2>1. Established(t, p) = t
    BY <1>3 DEF Established
  <2> QED  BY <2>1, TurnedRefl
<1> QED  BY <1>2, <1>3

\* OnTcpWriteable, after which a user who still waits has something to wait for.
LEMMA WriteableTurned ==
  ASSUME NEW t, NEW r, NEW p, Good(t, r), StateOK(t)
  PROVE  /\ Turned(t, Writeable(t), r, p)
         /\ Writeable(t).writeable => Writeable(t).una < Writeable(t).end
<1> DEFINE z == [t EXCEPT !.writeable = FALSE]
<1>1. /\ t \in Tcb /\ t.una \in Nat /\ t.end \in Nat /\ SndBuf \in Nat /\ RcvBuf \in Nat
      /\ SndBuf > 0 /\ RcvBuf > 0
  BY TcbTypes, ConstantsOK DEF Good
<1>2. CASE Buffered(t) < (SndBuf + RcvBuf) \div 2
  <2>1. Writeable(t) = z
    BY <1>2 DEF Writeable
  <2>2. /\ z \in Tcb /\ SameCore(t, z) /\ z.state = t.state /\ SameAcks(t, z)
        /\ SameReceiver(t, z) /\ z.writeable = FALSE
    BY <1>1, FlagsAre
  <2> HIDE DEF z
  <2>3. Turned(t, z, r, p)
    BY <2>2, SameCoreTurned
  <2> QED  BY <2>1, <2>2, <2>3
<1>3. CASE ~(Buffered(t) < (SndBuf + RcvBuf) \div 2)
  <2>1. Writeable(t) = t
    BY <1>3 DEF Writeable
  <2>2. t.una < t.end
    <3>1. (SndBuf + RcvBuf) \div 2 >= 1
      BY <1>1
    <3> HIDE DEF z
    <3>2. (SndBuf + RcvBuf) \div 2 \in Int
      BY <1>1
    <3> QED  BY <1>1, <1>3, <3>1, <3>2 DEF Buffered
  <2> QED  BY <2>1, <2>2, TurnedRefl
<1> QED  BY <1>2, <1>3

\* What process leaves to attemptSend.
LEMMA AckForIs ==
  ASSUME NEW t, NEW p
  PROVE  /\ AckFor(t, p) \in Todos /\ AckFor(t, p) # "Idle"
         /\ p.seq # t.rcv \/ p.len # 0 => AckFor(t, p) \in {"Delayed", "Immediate"}
BY DEF AckFor, Todos

\* What was received is acknowledged, or will be.
LEMMA ReceivedIsAcknowledged ==
  ASSUME NEW t, NEW r, Good(t, r), NEW p \in Packet, PacketOK(p, r, t),
         Receiving(t, p).rcv # t.rcv
  PROVE  AckFor(t, p) \in {"Delayed", "Immediate"}
<1>1. /\ t.rcv \in Nat /\ p.seq \in Int /\ p.len \in Nat /\ t.dlen \in Nat /\ RcvBuf \in Nat
  BY TcbTypes, ConstantsOK DEF Good, Packet
<1>2. Lo(t, p) < Hi(t, p)
  BY ReceivingIs DEF Counts, Keeps, Early
<1>3. p.len # 0
  BY <1>1, <1>2 DEF Lo, Hi, Min2, Max2, Room
<1> QED  BY <1>3, AckForIs

\* The data of a packet has been taken.
Arrived(t, p) == [Receiving(t, p) EXCEPT !.todo = AckFor(t, p)]
\* NotifyPacket in parts: all that comes before the data, and the data; or the connection is
\* given up, which takes something in flight.
Notified(e, p) ==
  \/ tcb' = tcb
  \/ \E u : /\ Turned(tcb[e], u, tcb[Peer[e]], p)
           /\ \/ tcb' = [tcb EXCEPT ![e] = Arrived(u, p)]
              \/ tcb[e].end > 0 /\ tcb' = [tcb EXCEPT ![e] = Closed(u)]

\* The end of process, from the state change to the data.
LEMMA ProcessStep ==
  ASSUME NEW t, NEW r, Good(t, r), StateOK(t), NEW p \in Packet, PacketOK(p, r, t)
  PROVE  LET w == Process(t, p)
         IN /\ KeepsGood(t, w, r)
            /\ Owes(p.to, t) /\ (t.readable => t.dlen = 0) => Due(p.to, w) /\ Waits(p.to, w)
            /\ \E u : Turned(t, u, r, p) /\ w = Arrived(u, p)
<1> DEFINE y == Established(t, p)
           u == Writeable(y)
           x == Receiving(u, p)
           d == AckFor(u, p)
           w == Process(t, p)
<1>1. t \in Tcb
  BY DEF Good
<1>2. Turned(t, y, r, p)
  BY EstablishedTurned
<1>3. Good(y, r) /\ StateOK(y)
  BY <1>2 DEF Turned, KeepsGood
<1> HIDE DEF y
<1>4. Turned(y, u, r, p) /\ (u.writeable => u.una < u.end)
  BY <1>3, WriteableTurned
<1> HIDE DEF u
<1>5. Turned(t, u, r, p)
  BY <1>1, <1>2, <1>4, TurnedTrans
<1>6. Good(u, r) /\ StateOK(u) /\ Grows(t, u) /\ u \in Tcb
  BY <1>5 DEF Turned, KeepsGood, Good
<1>7. PacketOK(p, r, u)
  BY <1>1, <1>6, PacketTo
<1>8. Good(x, r) /\ Grows(u, x) /\ x \in Tcb
  BY <1>6, <1>7, ReceivingGood DEF Good
<1>9. /\ SameProgress(u, x) /\ SameList(u, x) /\ SameAcks(u, x) /\ x.state = u.state
      /\ \/ x = u
         \/ Counted(u, x, Hi(u, p))
         \/ InOrder(u, x, r, Hi(u, p))
         \/ Early(u, x, Lo(u, p), Hi(u, p))
  BY <1>6, <1>7, ReceivingIs
<1>10. d \in Todos /\ d # "Idle" /\ (x.rcv # u.rcv => d \in {"Delayed", "Immediate"})
  BY <1>6, <1>7, ReceivedIsAcknowledged, AckForIs
<1>11. w = Arrived(u, p)
  BY DEF Process, Arrived, u, y
<1>12. w = [x EXCEPT !.todo = d]
  BY DEF Process, x, d, u, y
<1> HIDE DEF x, d, w
<1>13. (u.readable => u.dlen = 0) => (x.readable => x.dlen = 0)
  BY <1>9 DEF Counted, InOrder, Early
<1>14. /\ w \in Tcb /\ SameCore(x, w) /\ w.state = x.state /\ w.todo = d
       /\ SameAcks(x, w) /\ SameReceiver(x, w) /\ w.writeable = x.writeable
  BY <1>8, <1>10, <1>12, TodoIs
<1>15. StateOK(x)
  BY <1>6, <1>9 DEF StateOK, SameList
<1>16. KeepsGood(x, w, r)
  BY <1>8, <1>14, <1>15, SameCoreStep
<1>17. KeepsGood(t, w, r)
  <2>1. Grows(t, x)
    BY <1>1, <1>6, <1>8, GrowsTrans
  <2> QED  BY <1>1, <1>8, <1>16, <2>1, KeepsGoodTrans
<1>18. ASSUME Owes(p.to, t), t.readable => t.dlen = 0
       PROVE  Due(p.to, w) /\ Waits(p.to, w)
  <2>1. Owes(p.to, u) /\ (u.readable => u.dlen = 0)
    BY <1>5, <1>18 DEF Turned, SameReceiver
  <2>2. Due(p.to, w)
    <3>1. CASE x.rcv # u.rcv
      BY <1>10, <1>14, <3>1 DEF Due
    <3>2. CASE x.rcv = u.rcv
      <4>1. Owes(p.to, w)
        BY <1>9, <1>14, <2>1, <3>2
           DEF Owes, SameAcks, SameReceiver, SameProgress, SameList, SameCore
      <4> QED  BY <4>1 DEF Due, Owes
    <3> QED  BY <3>1, <3>2
  <2>3. Waits(p.to, w)
    <3>1. w.todo # "Idle"
      BY <1>10, <1>14
    <3>2. w.readable => w.dlen = 0
      BY <1>13, <1>14, <2>1 DEF SameReceiver
    <3>3. w.writeable => w.una < w.end
      BY <1>4, <1>9, <1>14 DEF SameProgress, SameList, SameCore
    <3> QED  BY <3>1, <3>2, <3>3 DEF Waits
  <2> QED  BY <2>2, <2>3
<1> QED  BY <1>5, <1>17, <1>18, <1>11 DEF w

\* NotifyPacket, for every packet, late, twice or out of order.
LEMMA NotifyPacketStep ==
  ASSUME TcpInv, LiveInv, NEW e \in End, NEW p \in net, NotifyPacket(e, p)
  PROVE  TcpInv' /\ LiveInv' /\ Notified(e, p)
<1> DEFINE t == tcb[e]
           r == tcb[Peer[e]]
           o == Opening(t, p)
           a == Acking(o, p)
           x == Transmitted(a, 1)
           y == Recovering(o, x, p)
           q == TransmitPacket(e, a, 1)
           w == Process(a, p)
           z == Process(y, p)
           c == Closed(a)
<1>1. /\ t \in Tcb /\ r \in Tcb /\ Good(t, r) /\ StateOK(t) /\ Live(e, t) /\ Receiver(r)
  <2>1. Good(r, tcb[Peer[Peer[e]]])
    BY EndFacts
  <2> QED  BY <2>1, EndFacts DEF LiveInv, Good, Sender
<1>2. p \in Packet /\ PacketOK(p, r, t) /\ t.todo = "Idle" /\ p.to = e
  BY DEF NotifyPacket, TcpInv, PacketsOK, Idle
<1>3. PICK rest \in {net, net \ {p}} :
        \/ t.state = "Closed" /\ net' = rest /\ UNCHANGED tcb
        \/ /\ t.state # "Closed"
           /\ tcb' = [tcb EXCEPT ![e] = w] /\ net' = rest
        \/ /\ t.state # "Closed" /\ Retransmits(o, p)
           /\ tcb' = [tcb EXCEPT ![e] = z] /\ Into(rest, {q})
        \/ /\ Retransmits(o, p)
           /\ tcb' = [tcb EXCEPT ![e] = c] /\ net' = rest
  BY DEF NotifyPacket
<1> HIDE DEF t, r
<1>4. Turned(t, o, r, p) /\ o.nxt = t.nxt
  BY <1>1, OpeningTurned
<1> HIDE DEF o
<1>5. Good(o, r) /\ StateOK(o) /\ Grows(t, o) /\ o \in Tcb
  BY <1>4 DEF Turned, KeepsGood, Good
<1>6. PacketOK(p, r, o)
  BY <1>1, <1>2, <1>5, PacketTo
<1>7. /\ Turned(o, a, r, p) /\ a.nxt = o.nxt /\ a.una = IF Valuable(o, p) THEN p.ack ELSE o.una
  BY <1>2, <1>5, <1>6, AckingTurned
<1> HIDE DEF a
<1>8. Turned(t, a, r, p)
  BY <1>1, <1>4, <1>7, TurnedTrans
<1>9. Good(a, r) /\ StateOK(a) /\ Grows(t, a) /\ a \in Tcb /\ SameReceiver(t, a)
  BY <1>8 DEF Turned, KeepsGood, Good
<1>10. PacketOK(p, r, a)
  BY <1>1, <1>2, <1>9, PacketTo
<1>11. ASSUME t.state # "Closed"
       PROVE  Owes(p.to, t) /\ (t.readable => t.dlen = 0)
  BY <1>1, <1>2, <1>11 DEF Live, Due, Waits, Owes
<1>12. Retransmits(o, p) => a.una < a.nxt /\ t.end > 0
  <2>1. /\ o.una \in Nat /\ o.nxt \in Nat /\ o.recover \in Nat /\ p.ack \in Nat
        /\ o.una <= o.nxt /\ o.recover <= o.nxt
    BY <1>2, <1>5, TcbTypes DEF Packet, Good, Sender, Segments, ListOK
  <2>2. /\ t.nxt \in Nat /\ t.end \in Nat /\ t.nxt <= t.end
    BY <1>1, TcbTypes DEF Good, Sender, Segments, ListOK
  <2>3. Retransmits(o, p) => a.una < a.nxt /\ o.nxt > 0
    BY <1>7, <2>1 DEF Retransmits, Valuable
  <2> QED  BY <1>4, <2>2, <2>3
<1>13. CASE t.state = "Closed" /\ net' = rest /\ UNCHANGED tcb
  <2>1. KeepsGood(t, t, r)
    BY <1>1, GrowsRefl DEF KeepsGood
  <2>2. tcb' = [tcb EXCEPT ![e] = t]
    BY <1>13 DEF t, TcpInv, EndsOK
  <2>3. net' \subseteq net
    BY <1>3, <1>13
  <2>4. TcpInv' /\ LiveInv'
    BY <1>1, <2>1, <2>2, <2>3, EndStepSilent DEF t, r
  <2> QED  BY <1>13, <2>4 DEF Notified
<1>14. CASE t.state # "Closed" /\ tcb' = [tcb EXCEPT ![e] = w] /\ net' = rest
  <2>1. \E u : Turned(a, u, r, p) /\ w = Arrived(u, p)
    BY <1>2, <1>9, <1>10, ProcessStep
  <2>2. /\ KeepsGood(a, w, r)
        /\ Owes(p.to, a) /\ (a.readable => a.dlen = 0) => Due(p.to, w) /\ Waits(p.to, w)
    BY <1>2, <1>9, <1>10, ProcessStep
  <2> HIDE DEF w
  <2>3. KeepsGood(t, w, r)
    BY <1>1, <1>9, <2>2, KeepsGoodTrans
  <2>4. Live(e, w)
    <3>1. Owes(p.to, a) /\ (a.readable => a.dlen = 0)
      BY <1>8, <1>11, <1>14 DEF Turned, SameReceiver
    <3> QED  BY <1>2, <2>2, <3>1 DEF Live
  <2>5. net' \subseteq net
    BY <1>3, <1>14
  <2>6. TcpInv' /\ LiveInv'
    BY <1>14, <2>3, <2>4, <2>5, EndStepSilent DEF t, r
  <2>7. \E u : Turned(t, u, r, p) /\ w = Arrived(u, p)
    BY <1>1, <1>8, <2>1, TurnedTrans
  <2>8. Notified(e, p)
    BY <1>14, <2>7 DEF Notified, t, r
  <2> QED  BY <2>6, <2>8
<1>15. CASE /\ t.state # "Closed" /\ Retransmits(o, p)
            /\ tcb' = [tcb EXCEPT ![e] = z] /\ Into(rest, {q})
  <2>1. a.una < a.nxt
    BY <1>15, <1>12
  <2>2. /\ KeepsGood(a, x, r) /\ q \in Packet /\ q.to = Peer[e] /\ PacketOK(q, x, r)
        /\ x.acked = x.rcv /\ SameReceiver(a, x) /\ x.end = a.end /\ x.state = a.state
    BY <1>9, <2>1, FirstSendable, TransmittedStep
  <2> HIDE DEF x, q
  <2>3. Good(x, r) /\ StateOK(x) /\ Grows(a, x) /\ x \in Tcb
    BY <2>2 DEF KeepsGood, Good
  <2>4. Turned(x, y, r, p)
    BY <2>3, RecoveringTurned
  <2> HIDE DEF y
  <2>5. Good(y, r) /\ StateOK(y) /\ Grows(x, y) /\ y \in Tcb /\ SameReceiver(x, y)
    BY <2>4 DEF Turned, KeepsGood, Good
  <2>6. Grows(a, y)
    BY <1>9, <2>3, <2>5, GrowsTrans
  <2>7. PacketOK(p, r, y)
    BY <1>2, <1>9, <1>10, <2>5, <2>6, PacketTo
  <2>8. \E u : Turned(y, u, r, p) /\ z = Arrived(u, p)
    BY <1>2, <2>5, <2>7, ProcessStep
  <2>9. /\ KeepsGood(y, z, r)
        /\ Owes(p.to, y) /\ (y.readable => y.dlen = 0) => Due(p.to, z) /\ Waits(p.to, z)
    BY <1>2, <2>5, <2>7, ProcessStep
  <2> HIDE DEF z
  <2>10. Grows(x, z) /\ z \in Tcb
    BY <2>3, <2>5, <2>9, GrowsTrans DEF KeepsGood, Good
  <2>11. KeepsGood(t, z, r)
    <3>1. Grows(t, y)
      BY <1>1, <1>9, <2>5, <2>6, GrowsTrans
    <3> QED  BY <1>1, <2>5, <2>9, <3>1, KeepsGoodTrans
  <2>12. PacketOK(q, z, r)
    BY <2>2, <2>3, <2>10, PacketSent
  <2>13. Live(e, z)
    <3>1. Owes(p.to, y) /\ (y.readable => y.dlen = 0)
      <4>1. Owes(p.to, y)
        BY <2>2, <2>4 DEF Turned, Owes
      <4>2. t.readable => t.dlen = 0
        BY <1>11, <1>15
      <4> QED  BY <1>9, <2>2, <2>5, <4>1, <4>2 DEF SameReceiver
    <3> QED  BY <1>2, <2>9, <3>1 DEF Live
  <2>14. net' \subseteq net \cup {q}
    <3>1. net' \subseteq rest \cup {q}
      BY <1>15, IntoIs
    <3> QED  BY <1>3, <3>1
  <2>15. TcpInv' /\ LiveInv'
    BY <1>15, <2>2, <2>11, <2>12, <2>13, <2>14, EndStepSends DEF t, r
  <2>16. Turned(a, x, r, p)
    BY <2>2 DEF Turned, Owes, Joined
  <2>17. Turned(t, y, r, p)
    BY <1>1, <1>8, <1>9, <2>4, <2>16, TurnedTrans
  <2>18. \E u : Turned(t, u, r, p) /\ z = Arrived(u, p)
    BY <1>1, <2>8, <2>17, TurnedTrans
  <2>19. Notified(e, p)
    BY <1>15, <2>18 DEF Notified, t, r
  <2> QED  BY <2>15, <2>19
<1>16. CASE Retransmits(o, p) /\ tcb' = [tcb EXCEPT ![e] = c] /\ net' = rest
  <2>1. c \in Tcb /\ SameCore(a, c) /\ c.state = "Closed"
    BY <1>9, ClosedCore
  <2> HIDE DEF c
  <2>2. KeepsGood(a, c, r)
    BY <1>9, <2>1, SameCoreStep
  <2>3. KeepsGood(t, c, r)
    BY <1>1, <1>9, <2>2, KeepsGoodTrans
  <2>4. Live(e, c)
    BY <2>1 DEF Live
  <2>5. net' \subseteq net
    BY <1>3, <1>16
  <2>6. TcpInv' /\ LiveInv'
    BY <1>16, <2>3, <2>4, <2>5, EndStepSilent DEF t, r
  <2>7. Notified(e, p)
    BY <1>8, <1>16, <1>12 DEF Notified, t, r, c
  <2> QED  BY <2>6, <2>7
<1> QED  BY <1>3, <1>13, <1>14, <1>15, <1>16

----------------------------------------------------------------------------
(* The invariant, and the theorems.                                        *)

\* The users' part of the type.
UsersOK == written \in [End -> Nat] /\ got \in [End -> Seq(Int)]
\* The inductive invariant.
IInv == TcpInv /\ LiveInv /\ UsersOK

\* Two new objects are good.
LEMMA FreshGood ==
  /\ Fresh \in Tcb /\ Good(Fresh, Fresh) /\ StateOK(Fresh)
  /\ \A e : Live(e, Fresh)
<1>1. /\ Mss \in Nat /\ Mss > 0 /\ RcvBuf \in Nat /\ RcvBuf > 0 /\ SndBuf \in Nat /\ SndBuf > 0
  BY ConstantsOK
<1>2. Fresh \in Tcb
  <2>1. [c \in 0..RcvBuf - 1 |-> 0] \in [0..RcvBuf - 1 -> Int]
    OBVIOUS
  <2>2. << >> \in Seq(Segment)
    OBVIOUS
  <2> QED  BY <1>1, <2>1, <2>2 DEF Fresh, Tcb, States, Todos
<1>3. /\ Fresh.state = "Listen" /\ Fresh.todo = "Idle" /\ Fresh.una = 0 /\ Fresh.nxt = 0
      /\ Fresh.end = 0 /\ Fresh.wnd = 1 /\ Fresh.slist = << >> /\ Fresh.rto = FALSE
      /\ Fresh.recover = 0 /\ Fresh.mss = Mss /\ Fresh.rcv = 0 /\ Fresh.rwnd = RcvBuf
      /\ Fresh.acked = 0 /\ Fresh.rlist = {} /\ Fresh.rpos = 0 /\ Fresh.dlen = 0
      /\ Fresh.writeable = FALSE
  BY DEF Fresh
<1> DEFINE t == Fresh
<1>4. Segments(t)
  <2>1. Len(t.slist) = 0
    BY <1>3
  <2> QED  BY <1>3, <2>1 DEF Segments, ListOK, Elements, Ordered, Chained, Spans
<1> HIDE DEF t
<1>5. Sender(t) /\ Receiver(t)
  BY <1>1, <1>3, <1>4 DEF Sender, Receiver, t
<1>6. Link(t, t)
  <2>1. Bounds(t, 0)
    BY <1>3 DEF Bounds, Bound, t
  <2> QED  BY <1>1, <1>3, <2>1 DEF Link, t
<1>7. StateOK(t) /\ \A e : Live(e, t)
  BY <1>3 DEF StateOK, Opened, Live, Due, Waits, t
<1> QED  BY <1>2, <1>5, <1>6, <1>7 DEF Good, t

\* The invariant holds at the start,
LEMMA InitIInv ==
  ASSUME Init
  PROVE  IInv
<1>1. /\ tcb = [e \in End |-> Fresh] /\ net = {}
  BY DEF Init
<1>2. Peer \in [End -> End]
  BY ConstantsOK
<1>3. UsersOK
  BY DEF Init, UsersOK
<1>4. EndsOK(tcb) /\ LiveInv
  BY <1>1, <1>2, FreshGood DEF EndsOK, LiveInv
<1>5. PacketsOK(tcb, net)
  BY <1>1 DEF PacketsOK
<1> QED  BY <1>3, <1>4, <1>5 DEF IInv, TcpInv

\* A step of one end but Write leaves what was written alone, and all but Read what was read.
LEMMA ReadUsers ==
  ASSUME TcpInv, UsersOK, NEW e \in End, NEW len \in ReadSizes, Read(e, len)
  PROVE  UsersOK'
<1> DEFINE t == tcb[e]
           n == Min2(len, t.dlen)
           b == [i \in 1..n |-> t.cell[(t.rpos + i - 1) % RcvBuf]]
<1>1. t \in Tcb /\ t.rpos \in Nat /\ t.cell \in [0..RcvBuf - 1 -> Int] /\ t.dlen \in Nat
  BY EndFacts, TcbTypes
<1>2. RcvBuf \in Nat /\ RcvBuf > 0 /\ len \in Nat
  BY ConstantsOK
<1>3. n \in Nat
  BY <1>1, <1>2 DEF Min2
<1>4. \/ got' = got
      \/ got' = [got EXCEPT ![e] = @ \o b]
  BY DEF Read
<1>5. written' = written
  BY DEF Read
<1> HIDE DEF t, n
<1>6. b \in Seq(Int)
  <2>1. \A i \in 1..n : t.cell[(t.rpos + i - 1) % RcvBuf] \in Int
    <3> SUFFICES ASSUME NEW i \in 1..n  PROVE t.cell[(t.rpos + i - 1) % RcvBuf] \in Int
      OBVIOUS
    <3>1. t.rpos + i - 1 \in Nat
      BY <1>1, <1>3
    <3>2. (t.rpos + i - 1) % RcvBuf \in 0..RcvBuf - 1
      BY <1>2, <3>1
    <3> QED  BY <1>1, <3>2
  <2>2. b \in [1..n -> Int]
    BY <2>1
  <2> HIDE DEF b
  <2> QED  BY <1>3, <2>2
<1> HIDE DEF b
<1>7. got[e] \o b \in Seq(Int)
  BY <1>6, ConcatProperties DEF UsersOK
<1> QED  BY <1>4, <1>5, <1>7 DEF UsersOK

\* and every step keeps it.
LEMMA StepIInv ==
  ASSUME IInv, [Next]_vars
  PROVE  IInv'
<1>1. TcpInv /\ LiveInv /\ UsersOK
  BY DEF IInv
<1>2. ASSUME NEW e \in End, Step(e)
      PROVE  TcpInv' /\ LiveInv' /\ UsersOK'
  <2>1. CASE Connect(e)
    BY <1>1, <2>1, ConnectStep DEF Connect, users, UsersOK
  <2>2. CASE Write(e)
    BY <1>1, <2>2, WriteStep DEF Write, UsersOK
  <2>3. CASE \E n \in ReadSizes : Read(e, n)
    BY <1>1, <2>3, ReadStep, ReadUsers
  <2>4. CASE Close(e)
    BY <1>1, <2>4, CloseStep DEF Close, users, UsersOK
  <2>5. CASE \E p \in net : NotifyPacket(e, p)
    BY <1>1, <2>5, NotifyPacketStep DEF NotifyPacket, users, UsersOK
  <2>6. CASE RetransmitTimeout(e)
    BY <1>1, <2>6, RetransmitTimeoutStep DEF RetransmitTimeout, users, UsersOK
  <2>7. CASE Probe(e)
    BY <1>1, <2>7, ProbeStep DEF Probe, users, UsersOK
  <2>8. CASE DelayedAck(e)
    BY <1>1, <2>8, DelayedAckStep DEF DelayedAck, users, UsersOK
  <2>9. CASE SendAck(e)
    BY <1>1, <2>9, SendAckStep DEF SendAck, users, UsersOK
  <2>10. CASE SendNothing(e)
    BY <1>1, <2>10, SendNothingStep DEF SendNothing, users, UsersOK
  <2>11. CASE SendSegment(e)
    BY <1>1, <2>11, SendSegmentStep DEF SendSegment, users, UsersOK
  <2> QED  BY <1>2, <2>1, <2>2, <2>3, <2>4, <2>5, <2>6, <2>7, <2>8, <2>9, <2>10, <2>11
           DEF Step, NotifyClock, AttemptSend
<1>3. CASE UNCHANGED vars
  BY <1>1, <1>3 DEF vars, IInv, TcpInv, LiveInv, UsersOK, EndsOK, PacketsOK
<1> QED  BY <1>2, <1>3 DEF IInv, Next

\* The invariant always holds: the two ends of PseudoTcp and the packets between them agree,
\* whatever the network loses, delays or repeats.
THEOREM AlwaysIInv == Spec => []IInv
BY InitIInv, StepIInv, PTL DEF Spec

\* Every variable keeps its type: the numbers of an end are in order, and the window it offers
\* is never negative and never beyond the room in m_rbuf (process, Recv).
THEOREM TypeCorrect == Spec => []TypeOK
<1>1. ASSUME IInv  PROVE TypeOK
  <2>1. ASSUME NEW e \in End
        PROVE  /\ DOMAIN tcb[e] = DOMAIN Fresh
               /\ tcb[e].state \in States /\ tcb[e].todo \in Todos
               /\ tcb[e].una <= tcb[e].nxt /\ tcb[e].nxt <= tcb[e].end
               /\ tcb[e].rwnd \in 0..Room(tcb[e]) /\ tcb[e].dlen \in 0..RcvBuf
    <3> DEFINE t == tcb[e]
    <3>1. /\ t \in Tcb /\ t.una <= t.nxt /\ t.nxt <= t.end
          /\ 0 <= t.rwnd /\ t.rwnd <= RcvBuf - t.dlen
      BY <1>1, EndFacts DEF IInv, Good, Sender, Segments, ListOK, Receiver
    <3> HIDE DEF t
    <3>2. DOMAIN t = DOMAIN Fresh
      BY <3>1 DEF Tcb, Fresh
    <3>3. /\ t.state \in States /\ t.todo \in Todos /\ t.rwnd \in Int /\ t.dlen \in Nat
          /\ RcvBuf \in Nat
      BY <3>1, TcbTypes, ConstantsOK
    <3>4. t.rwnd \in 0..Room(t) /\ t.dlen \in 0..RcvBuf
      BY <3>1, <3>3 DEF Room
    <3> QED  BY <3>1, <3>2, <3>3, <3>4 DEF t
  <2> QED  BY <1>1, <2>1 DEF TypeOK, IInv, UsersOK, TcpInv, PacketsOK
<1> QED  BY <1>1, AlwaysIInv, PTL

\* m_slist holds what is queued without a gap, and the timer runs exactly while something is in
\* flight, whatever queue, transmit and process have done to it.
THEOREM SegmentsCoverQueue == Spec => []SegmentsCover
<1>1. ASSUME IInv  PROVE SegmentsCover
  <2> SUFFICES ASSUME NEW e \in End
               PROVE  LET t == tcb[e]
                          ends(i) == IF i = 0 THEN t.una ELSE t.slist[i].seq + t.slist[i].len
                      IN /\ \A i \in 1..Len(t.slist) :
                              /\ t.slist[i].seq = ends(i - 1)
                              /\ t.slist[i].xmit > 0 <=> t.slist[i].seq < t.nxt
                         /\ ends(Len(t.slist)) = t.end
                         /\ t.rto <=> t.nxt > t.una
    BY Zenon DEF SegmentsCover
  <2> DEFINE t == tcb[e]
             ends(i) == IF i = 0 THEN t.una ELSE t.slist[i].seq + t.slist[i].len
             L == t.slist
  <2>1. t \in Tcb /\ Segments(t) /\ (t.rto <=> t.una < t.nxt)
    BY <1>1, EndFacts DEF IInv, Good, Sender
  <2> HIDE DEF t
  <2>2. t.una \in Nat /\ t.nxt \in Nat /\ L \in Seq(Segment) /\ Len(L) \in Nat
    BY <2>1, TcbTypes, ListTypes
  <2>3. Elements(L, t.nxt) /\ Chained(L) /\ Spans(L, t.una, t.end)
    BY <2>1 DEF Segments, ListOK
  <2>4. ASSUME NEW i \in 1..Len(L)  PROVE L[i].seq = ends(i - 1)
    <3>1. CASE i = 1
      BY <2>2, <2>3, <3>1 DEF Spans
    <3>2. CASE i # 1
      <4>1. i - 1 \in 1..Len(L) - 1 /\ (i - 1) + 1 = i /\ i - 1 # 0
        BY <2>2, <3>2
      <4>2. L[(i - 1) + 1].seq = L[i - 1].seq + L[i - 1].len
        BY <2>3, <4>1 DEF Chained
      <4> QED  BY <4>1, <4>2
    <3> QED  BY <3>1, <3>2
  <2>5. \A i \in 1..Len(L) : L[i].xmit > 0 <=> L[i].seq < t.nxt
    BY <2>3 DEF Elements
  <2>6. ends(Len(L)) = t.end
    BY <2>3 DEF Spans
  <2>7. t.rto <=> t.nxt > t.una
    BY <2>1, <2>2
  <2> QED  BY <2>4, <2>5, <2>6, <2>7 DEF t
<1> QED  BY <1>1, AlwaysIInv, PTL

\* A sender keeps to the window: the data of every packet in the network fits m_rbuf of its
\* receiver, also when it comes late or twice (attemptSend, process).
THEOREM WindowIsHonoured == Spec => []WindowHonoured
<1>1. ASSUME IInv  PROVE WindowHonoured
  <2> SUFFICES ASSUME NEW p \in net, p.len > 0
               PROVE  p.seq + p.len <= tcb[p.to].rcv + Room(tcb[p.to])
    BY DEF WindowHonoured
  <2> DEFINE r == tcb[p.to]
             s == tcb[Peer[p.to]]
  <2>1. /\ p \in Packet /\ PacketOK(p, s, r)
    BY <1>1 DEF IInv, TcpInv, PacketsOK
  <2>2. p.to \in End /\ p.seq \in Int /\ p.len \in Nat
    BY <2>1 DEF Packet
  <2>3. Good(r, s)
    BY <1>1, <2>2, EndFacts DEF IInv
  <2> HIDE DEF r, s
  <2>4. /\ r.rcv \in Nat /\ r.rwnd \in Int /\ r.dlen \in Nat /\ s.nxt \in Nat /\ RcvBuf \in Nat
    BY <2>3, TcbTypes, ConstantsOK DEF Good
  <2>5. p.seq + p.len <= s.nxt /\ s.nxt <= r.rcv + r.rwnd /\ r.rwnd <= RcvBuf - r.dlen
    BY <2>1, <2>3 DEF PacketOK, Good, Link, Receiver
  <2>6. p.seq + p.len <= r.rcv + Room(r)
    BY <2>2, <2>4, <2>5 DEF Room
  <2> QED  BY <2>6 DEF r
<1> QED  BY <1>1, AlwaysIInv, PTL

\* Nobody waits for an event that will not come: a waiting writer has something to be
\* acknowledged, a waiting reader an empty buffer, and unacknowledged data has a timer
\* unless the network failed its end.
THEOREM NobodyStalls == Spec => []NothingStalls
<1>1. ASSUME IInv  PROVE NothingStalls
  <2> SUFFICES ASSUME NEW e \in End, tcb[e].state # "Closed", Idle(e)
               PROVE  LET t == tcb[e]
                      IN /\ t.writeable => Buffered(t) > 0
                         /\ t.readable => t.dlen = 0
                         /\ e \notin MayFail /\ Buffered(t) > 0 => t.rto \/ t.wnd = 0
    BY Zenon DEF NothingStalls
  <2> DEFINE t == tcb[e]
  <2>1. /\ t \in Tcb /\ (t.rto <=> t.una < t.nxt) /\ Waits(e, t) /\ t.todo = "Idle"
    BY <1>1, EndFacts DEF IInv, Good, Sender, LiveInv, Live, Idle
  <2> HIDE DEF t
  <2>2. Buffered(t) > 0 <=> t.una < t.end
    BY <2>1, TcbTypes DEF Buffered
  <2> QED  BY <2>1, <2>2 DEF Waits, t
<1> QED  BY <1>1, AlwaysIInv, PTL

\* What was received was acknowledged, or its acknowledgement is due, or it goes with data
\* that the network failed or that Nagle's algorithm holds back and a timer, a probe or an
\* acknowledgement sets going (the early return of attemptSend).
THEOREM AcknowledgementComes == Spec => []AckComes
<1>1. ASSUME IInv  PROVE AckComes
  <2> SUFFICES ASSUME NEW e \in End, tcb[e].state # "Closed", Idle(e)
               PROVE  LET t == tcb[e]
                      IN \/ t.acked = t.rcv \/ t.tack
                         \/ t.nxt < t.end /\ (e \in MayFail \/ (Nagle /\ (t.rto \/ t.wnd = 0)))
    BY Zenon DEF AckComes
  <2> DEFINE t == tcb[e]
  <2>1. /\ t \in Tcb /\ (t.rto <=> t.una < t.nxt) /\ Due(e, t) /\ Waits(e, t) /\ t.todo = "Idle"
        /\ t.una <= t.nxt
    BY <1>1, EndFacts DEF IInv, Good, Sender, Segments, ListOK, LiveInv, Live, Idle
  <2> HIDE DEF t
  <2>2. t.nxt < t.end => t.una < t.end
    BY <2>1, TcbTypes
  <2> QED  BY <2>1, <2>2 DEF Due, Waits, MayHold, t
<1> QED  BY <1>1, AlwaysIInv, PTL
=============================================================================
