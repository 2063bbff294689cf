----------------------------- MODULE PseudoTcp -----------------------------
(***************************************************************************)
(* cricket::PseudoTcp (p2p/base/pseudotcp.cc): a reliable byte stream over *)
(* a network that loses, duplicates and reorders packets, with its buffers *)
(* (FifoBuffer in base/stream.cc).  Two ends, one thread each.             *)
(*                                                                         *)
(* A call (Connect, Send, Recv, NotifyPacket, NotifyClock) is one step, up *)
(* to the loop of attemptSend that ends most of them: each round of that   *)
(* loop is a step of its own, which the end takes before anything else.    *)
(* Bytes carry their sequence numbers.  The connect message is CtlLen      *)
(* bytes, so the first byte of data has the number CtlLen.                 *)
(*                                                                         *)
(* Two things are choices here: when a timer runs out, and how far above   *)
(* m_mss the congestion window is.                                         *)
(***************************************************************************)
EXTENDS Integers, Sequences, FiniteSets

CONSTANTS
  End, Peer,      \* the two ends; the other end of an end
  Active,         \* the ends that call Connect
  Writes,         \* how many bytes the user of each end writes
  SndBuf, RcvBuf, \* m_sbuf_len, m_rbuf_len
  Mss, PathMss,   \* m_mss after adjustMTU; the longest packet the network takes
  MaxXmit,        \* transmissions of a segment before the connection is given up,
  MaxXmitOpening, \* and before it was established
  Nagle,          \* m_use_nagling
  AckDelay,       \* m_ack_delay # 0
  MayFail,        \* the ends whose TcpWritePacket may return WR_FAIL
  MayClose,       \* the ends whose users call Close(false)
  ReadSizes,      \* lengths that Recv is called with
  Again,          \* bound: may connect messages, may others be delivered again?
  MaxNet          \* bound: packets in the network

CtlLen == 1
Min2(a, b) == IF a < b THEN a ELSE b
Max2(a, b) == IF a > b THEN a ELSE b

ASSUME ConstantsOK ==
  /\ Peer \in [End -> End] /\ \A e \in End : Peer[e] # e /\ Peer[Peer[e]] = e
  /\ Active \subseteq End /\ MayClose \subseteq End /\ MayFail \subseteq End
  /\ Writes \in [End -> Nat]
  /\ SndBuf \in Nat \ {0} /\ RcvBuf \in Nat \ {0}
  /\ Mss \in Nat \ {0} /\ PathMss \in Nat \ {0} /\ PathMss <= Mss
  /\ {MaxXmit, MaxXmitOpening} \subseteq Nat \ {0} /\ MaxNet \in Nat
  /\ {Nagle, AckDelay} \subseteq BOOLEAN
  /\ ReadSizes \subseteq Nat \ {0} /\ Again \subseteq BOOLEAN

States == {"Listen", "SynSent", "SynReceived", "Established", "Closed"}

\* What is left to do in attemptSend: nothing, or its loop with sfNone,
\* sfDelayedAck or sfImmediateAck.
Todos == {"Idle", "None", "Delayed", "Immediate"}

Segment == [seq: Nat, len: Nat, xmit: Nat, ctl: BOOLEAN]
Packet == [to: End, seq: Int, len: Nat, ctl: BOOLEAN, ack: Nat, wnd: Nat]

Tcb == [state: States, shutdown: BOOLEAN, todo: Todos,
        \* m_snd_una, m_snd_nxt, the end of what is queued, m_snd_wnd, m_slist
        una: Nat, nxt: Nat, end: Nat, wnd: Nat, slist: Seq(Segment),
        \* m_rto_base # 0, m_dup_acks (up to 4), m_recover, m_mss
        rto: BOOLEAN, dup: 0..4, recover: Nat, mss: Nat,
        \* m_rcv_nxt, m_rcv_wnd, m_t_ack # 0, m_rlist
        rcv: Nat, rwnd: Int, tack: BOOLEAN, rlist: SUBSET [seq: Nat, len: Nat],
        \* history: the last acknowledgement that packet() has sent
        acked: Nat,
        \* m_rbuf: buffer_, read_position_, data_length_
        cell: [0..RcvBuf - 1 -> Int], rpos: Nat, dlen: Nat,
        readable: BOOLEAN, writeable: BOOLEAN]   \* m_bReadEnable, m_bWriteEnable

VARIABLES
  tcb,       \* the PseudoTcp object of each end
  net,       \* packets in the network
  written,   \* how many bytes the user of each end has written
  got        \* the bytes that the user of each end has read

vars == <<tcb, net, written, got>>
users == <<written, got>>

Buffered(t) == t.end - t.una
InFlight(t) == t.nxt - t.una
Room(t) == RcvBuf - t.dlen            \* m_rbuf.GetWriteRemaining
Idle(e) == tcb[e].todo = "Idle"

----------------------------------------------------------------------------
(* Sending.                                                                *)

\* The byte after the connect message is byte 1 of the stream.
Byte(seq) == seq - CtlLen + 1

MakePacket(e, t, seq, len, ctl) ==
  [to |-> Peer[e], seq |-> seq, len |-> len, ctl |-> ctl, ack |-> t.rcv, wnd |-> t.rwnd]

\* What packet() leaves in the sender.
Acknowledged(t) == [t EXCEPT !.tack = FALSE, !.acked = t.rcv]

\* The network takes a packet or loses it; a packet that is received may stay, so that
\* it comes again.
Into(rest, packets) == \E kept \in SUBSET packets :
                         /\ Cardinality(rest \cup kept) <= MaxNet
                         /\ net' = rest \cup kept

\* queue: data joins the last segment if that was not sent yet and is of the same type.
Queue(t, n, ctl) ==
  LET last == t.slist[Len(t.slist)]
  IN IF t.slist # <<>> /\ last.ctl = ctl /\ last.xmit = 0
     THEN [t EXCEPT !.slist[Len(t.slist)].len = @ + n, !.end = @ + n]
     ELSE [t EXCEPT !.slist = Append(@, [seq |-> t.end, len |-> n, xmit |-> 0, ctl |-> ctl]),
                    !.end = @ + n]

QueueConnect(t) == Queue([t EXCEPT !.wnd = CtlLen], CtlLen, TRUE)

\* transmit: may this segment be sent (again)?
MayTransmit(t, i) == t.slist[i].xmit < IF t.state = "Established" THEN MaxXmit ELSE MaxXmitOpening

\* m_mss after TcpWritePacket has returned WR_TOO_LARGE until it took the packet.
FittingMss(t, i) == IF Min2(t.slist[i].len, t.mss) > PathMss THEN PathMss ELSE t.mss

\* Fault: the rest of a split segment keeps the sequence number of the whole.
SplitAtSameSeq(t, i, n) ==
  LET s == t.slist[i]
  IN IF n < s.len
     THEN [t EXCEPT !.slist = SubSeq(@, 1, i - 1)
                              \o <<[s EXCEPT !.len = n], [s EXCEPT !.len = @ - n]>>
                              \o SubSeq(@, i + 1, Len(@))]
     ELSE t

\* Splits segment i of the list after n bytes.
SplitAt(t, i, n) ==
  LET s == t.slist[i]
  IN IF n < s.len
     THEN [t EXCEPT !.slist = SubSeq(@, 1, i - 1)
                              \o <<[s EXCEPT !.len = n],
                                   [s EXCEPT !.seq = @ + n, !.len = @ - n]>>
                              \o SubSeq(@, i + 1, Len(@))]
     ELSE t

\* transmit, when the network takes the packet: the object after it, and the packet.
Transmitted(t, i) ==
  LET mss == FittingMss(t, i)
      u == SplitAt([t EXCEPT !.mss = mss], i, mss)
      s == u.slist[i]
  IN [Acknowledged(u) EXCEPT !.slist[i].xmit = @ + 1,
                             !.nxt = IF s.xmit = 0 THEN @ + s.len ELSE @,
                             !.rto = TRUE]

TransmitPacket(e, t, i) ==
  LET s == t.slist[i]
  IN MakePacket(e, t, s.seq, Min2(s.len, FittingMss(t, i)), s.ctl)

Closed(t) == [t EXCEPT !.state = "Closed", !.todo = "Idle"]

\* The windows attemptSend may find: the congestion window is never below m_mss.
Windows(t) == IF t.wnd <= t.mss THEN {t.wnd} ELSE t.mss .. t.wnd

\* Fault: what is in flight does not count.
AvailableTwice(t, window) == Min2(Min2(Buffered(t) - InFlight(t), t.mss), window)

\* nAvailable, for a window.
Available(t, window) ==
  LET useable == Max2(window - InFlight(t), 0)
      avail == Min2(Buffered(t) - InFlight(t), t.mss)
  IN IF avail <= useable THEN avail
     ELSE IF useable * 4 < window THEN 0 ELSE useable      \* RFC 813 - avoid SWS

Unsent(t) == CHOOSE i \in 1..Len(t.slist) :
               /\ t.slist[i].xmit = 0
               /\ \A j \in 1..i - 1 : t.slist[j].xmit > 0

(* The loop of attemptSend, one round.                                     *)

\* The acknowledgement that was asked for goes at once: an immediate one, or the second
\* delayed one.
AckNow(t) == t.todo = "Immediate" \/ (t.todo = "Delayed" /\ t.tack)

\* Nothing to send but the acknowledgement.
SendAck(e) ==
  /\ AckNow(tcb[e]) /\ \E w \in Windows(tcb[e]) : Available(tcb[e], w) = 0
  /\ tcb' = [tcb EXCEPT ![e] = [Acknowledged(@) EXCEPT !.todo = "Idle"]]
  /\ Into(net, {MakePacket(e, tcb[e], tcb[e].nxt, 0, FALSE)})
  /\ UNCHANGED users

\* Nagle's algorithm holds n bytes back.
HeldBack(t, n) == n # 0 /\ Nagle /\ t.nxt > t.una /\ n < t.mss

\* No packet: the acknowledgement, if one was asked for, is delayed, or held back with
\* the data.
SendNothing(e) ==
  /\ ~Idle(e)
  /\ \E w \in Windows(tcb[e]) :
       LET n == Available(tcb[e], w)
           later == n = 0 /\ ~AckNow(tcb[e])
       IN /\ later \/ HeldBack(tcb[e], n)
          /\ tcb' = [tcb EXCEPT ![e].todo = "Idle",
                                ![e].tack = @ \/ (later /\ tcb[e].todo = "Delayed")]
  /\ UNCHANGED <<net, users>>

\* Sends a segment and goes on with sfNone; a failure ends the loop.
SendSegment(e) ==
  /\ ~Idle(e)
  /\ \E w \in Windows(tcb[e]) :
       LET n == Available(tcb[e], w)
           i == Unsent(tcb[e])
           t == SplitAt(tcb[e], i, n)
       IN /\ n # 0 /\ ~HeldBack(tcb[e], n)
          /\ \/ /\ tcb' = [tcb EXCEPT ![e] = [Transmitted(t, i) EXCEPT !.todo = "None"]]
                /\ Into(net, {TransmitPacket(e, t, i)})
             \/ /\ e \in MayFail
                /\ tcb' = [tcb EXCEPT ![e] = [t EXCEPT !.todo = "Idle"]]
                /\ UNCHANGED net
  /\ UNCHANGED users

----------------------------------------------------------------------------
(* Calls of the user.                                                      *)

Connect(e) ==
  /\ e \in Active /\ Idle(e) /\ tcb[e].state = "Listen"
  /\ tcb' = [tcb EXCEPT ![e] = [QueueConnect(@) EXCEPT !.state = "SynSent", !.todo = "None"]]
  /\ UNCHANGED <<net, users>>

\* Send, with as much as is left to write or as there is room for.
Write(e) ==
  LET t == tcb[e]
      n == Min2(Writes[e] - written[e], SndBuf - Buffered(t))
  IN /\ Idle(e) /\ t.state = "Established" /\ written[e] < Writes[e]
     /\ IF n = 0
        THEN /\ ~t.writeable
             /\ tcb' = [tcb EXCEPT ![e].writeable = TRUE]
             /\ UNCHANGED written
        ELSE /\ tcb' = [tcb EXCEPT ![e] = [Queue(t, n, FALSE) EXCEPT !.todo = "None"]]
             /\ written' = [written EXCEPT ![e] = @ + n]
     /\ UNCHANGED <<net, got>>

\* Fault: the window opens to the whole buffer, read or not.
OpenWindowWhole(t) == [t EXCEPT !.rwnd = RcvBuf]

\* Recv: the window opens when there is room enough; if it was closed, the sender is told.
OpenWindow(t) ==
  IF Room(t) - t.rwnd >= Min2(RcvBuf \div 2, t.mss)
  THEN [t EXCEPT !.rwnd = Room(t), !.todo = IF t.rwnd = 0 THEN "Immediate" ELSE @]
  ELSE t

Read(e, len) ==
  LET t == tcb[e]
      n == Min2(len, t.dlen)
  IN /\ Idle(e) /\ t.state = "Established"
     /\ IF n = 0
        THEN /\ ~t.readable
             /\ tcb' = [tcb EXCEPT ![e].readable = TRUE]
             /\ UNCHANGED got
        ELSE /\ tcb' = [tcb EXCEPT ![e] =
                  OpenWindow([t EXCEPT !.rpos = (@ + n) % RcvBuf, !.dlen = @ - n])]
             /\ got' = [got EXCEPT ![e] =
                  @ \o [i \in 1..n |-> t.cell[(t.rpos + i - 1) % RcvBuf]]]
     /\ UNCHANGED <<net, written>>

\* Close(false), once all is written.
Close(e) ==
  /\ e \in MayClose /\ Idle(e) /\ ~tcb[e].shutdown /\ written[e] = Writes[e]
  /\ tcb' = [tcb EXCEPT ![e].shutdown = TRUE]
  /\ UNCHANGED <<net, users>>

----------------------------------------------------------------------------
(* NotifyPacket: process().                                                *)

\* A connect message.
Opening(t, p) ==
  IF ~p.ctl THEN t
  ELSE CASE t.state = "Listen" -> QueueConnect([t EXCEPT !.state = "SynReceived"])
         [] t.state = "SynSent" -> [t EXCEPT !.state = "Established", !.mss = Mss]
         [] OTHER -> t

Valuable(t, p) == t.una < p.ack /\ p.ack <= t.nxt

\* The segments left after n bytes are acknowledged.  Of one that is acknowledged in part
\* the length shrinks; its number stays.
Unacknowledged(slist, n) ==
  LET before(i) == IF i = 1 THEN 0 ELSE slist[i].seq - slist[1].seq
      first == CHOOSE i \in 1..Len(slist) + 1 :
                 /\ i <= Len(slist) => before(i) + slist[i].len > n
                 /\ \A j \in 1..i - 1 : before(j) + slist[j].len <= n
      rest == SubSeq(slist, first, Len(slist))
  IN IF rest = <<>> \/ before(first) = n THEN rest
     ELSE [rest EXCEPT ![1].len = @ - (n - before(first))]

\* Fault: any acknowledgement stops the retransmission timer.
AckingStopsTimer(t, p) ==
  IF Valuable(t, p)
  THEN [t EXCEPT !.wnd = p.wnd, !.una = p.ack, !.rto = FALSE,
                 !.slist = Unacknowledged(@, p.ack - t.una)]
  ELSE t

Acking(t, p) ==
  CASE Valuable(t, p) ->
         [t EXCEPT !.wnd = p.wnd, !.una = p.ack, !.rto = p.ack # t.nxt,
                   !.slist = Unacknowledged(@, p.ack - t.una),
                   !.dup = IF @ >= 3 /\ p.ack < t.recover THEN @ ELSE 0]
    [] p.ack = t.una ->
         [t EXCEPT !.wnd = p.wnd,
                   !.dup = IF p.len > 0 THEN @
                           ELSE IF t.una # t.nxt THEN Min2(@ + 1, 4) ELSE 0]
    [] OTHER -> t

\* Fast retransmission: after the third duplicate, and in recovery after each valuable ack.
Retransmits(t, p) == \/ Valuable(t, p) /\ t.dup >= 3 /\ p.ack < t.recover
                     \/ p.ack = t.una /\ p.len = 0 /\ t.una # t.nxt /\ t.dup = 2

Recovering(t, u, p) == IF Valuable(t, p) THEN u ELSE [u EXCEPT !.recover = u.nxt]

\* The first packet that is not a connect message opens a passive end.
Established(t, p) == IF t.state = "SynReceived" /\ ~p.ctl
                     THEN [t EXCEPT !.state = "Established", !.mss = Mss]
                     ELSE t

\* OnTcpWriteable.
Writeable(t) == IF Buffered(t) < (SndBuf + RcvBuf) \div 2 THEN [t EXCEPT !.writeable = FALSE]
                ELSE t

\* The saved segments that connect to byte n extend it to here.
Reach(rlist, n) ==
  CHOOSE r \in {n} \cup {s.seq + s.len : s \in rlist} :
    /\ r >= n
    /\ \A s \in rlist : s.seq <= r => s.seq + s.len <= r
    /\ \A q \in {n} \cup {s.seq + s.len : s \in rlist} :
         q >= n /\ (\A s \in rlist : s.seq <= q => s.seq + s.len <= q) => r <= q

\* Fault: bytes that come early are put where the next ones belong.
StoredNext(t, lo, hi) ==
  [t EXCEPT !.cell = [c \in 0..RcvBuf - 1 |->
     LET at == {s \in lo..hi - 1 : (t.rpos + t.dlen + (s - lo)) % RcvBuf = c}
     IN IF at = {} THEN @[c] ELSE Byte(CHOOSE s \in at : TRUE)]]

\* m_rbuf.WriteOffset: the bytes lo..hi-1 go where m_rcv_nxt is the next to be written.
Stored(t, lo, hi) ==
  [t EXCEPT !.cell = [c \in 0..RcvBuf - 1 |->
     LET at == {s \in lo..hi - 1 : (t.rpos + t.dlen + (s - t.rcv)) % RcvBuf = c}
     IN IF at = {} THEN @[c] ELSE Byte(CHOOSE s \in at : TRUE)]]

\* The data of a segment, cut to what is new and to what there is room for.
Receiving(t, p) ==
  LET lo == Max2(p.seq, t.rcv)
      hi == Min2(p.seq + p.len, t.rcv + Room(t))
      next == Reach(t.rlist, hi)
      u == Stored(t, lo, hi)
  IN IF lo >= hi THEN t
     ELSE IF p.ctl \/ t.shutdown
     THEN IF lo = t.rcv THEN [t EXCEPT !.rcv = hi] ELSE t
     ELSE IF lo = t.rcv
     THEN [u EXCEPT !.rcv = next, !.rwnd = @ - (next - t.rcv), !.dlen = @ + (next - t.rcv),
                    !.rlist = {s \in @ : s.seq > next}, !.readable = FALSE]
     ELSE [u EXCEPT !.rlist = @ \cup {[seq |-> lo, len |-> hi - lo]}]

\* Fault: a segment that fills a gap is not acknowledged, those behind it were when they came.
AckForUnlessFills(t, p) ==
  LET cut == Min2(p.seq + p.len, t.rcv + Room(t))
  IN IF p.seq # t.rcv THEN "Immediate"
     ELSE IF p.len = 0 \/ Receiving(t, p).rcv > cut THEN "None"
     ELSE IF AckDelay THEN "Delayed" ELSE "Immediate"

\* Old and new segments are acknowledged at once, data with a delay.
AckFor(t, p) ==
  LET cut == Min2(p.seq + p.len, t.rcv + Room(t))
  IN IF p.seq # t.rcv \/ Receiving(t, p).rcv > cut THEN "Immediate"
     ELSE IF p.len = 0 THEN "None"
     ELSE IF AckDelay THEN "Delayed" ELSE "Immediate"

Process(t, p) ==
  LET u == Writeable(Established(t, p))
  IN [Receiving(u, p) EXCEPT !.todo = AckFor(u, p)]

NotifyPacket(e, p) ==
  LET opened == Opening(tcb[e], p)
      acked == Acking(opened, p)
  IN /\ p \in net /\ p.to = e /\ Idle(e)
     /\ \E rest \in {net, net \ {p}} :
          /\ rest = net => p.ctl \in Again
          /\ \/ /\ tcb[e].state = "Closed" /\ net' = rest /\ UNCHANGED tcb
             \/ /\ tcb[e].state # "Closed" /\ ~Retransmits(opened, p)
                /\ tcb' = [tcb EXCEPT ![e] = Process(acked, p)]
                /\ net' = rest
             \/ /\ tcb[e].state # "Closed" /\ Retransmits(opened, p)
                /\ \/ /\ MayTransmit(acked, 1)
                      /\ tcb' = [tcb EXCEPT ![e] =
                           Process(Recovering(opened, Transmitted(acked, 1), p), p)]
                      /\ Into(rest, {TransmitPacket(e, acked, 1)})
                   \/ /\ ~MayTransmit(acked, 1) \/ e \in MayFail
                      /\ tcb' = [tcb EXCEPT ![e] = Closed(acked)]
                      /\ net' = rest
     /\ UNCHANGED users

----------------------------------------------------------------------------
(* NotifyClock.                                                            *)

RetransmitTimeout(e) ==
  /\ Idle(e) /\ tcb[e].state # "Closed" /\ tcb[e].rto
  /\ \/ /\ MayTransmit(tcb[e], 1)
        /\ tcb' = [tcb EXCEPT ![e] = Transmitted(@, 1)]
        /\ Into(net, {TransmitPacket(e, tcb[e], 1)})
     \/ /\ ~MayTransmit(tcb[e], 1) \/ e \in MayFail
        /\ tcb' = [tcb EXCEPT ![e] = Closed(@)]
        /\ UNCHANGED net
  /\ UNCHANGED users

\* A closed window is probed, until the peer has been silent for too long.
Probe(e) ==
  /\ Idle(e) /\ tcb[e].state # "Closed" /\ tcb[e].wnd = 0
  /\ \/ /\ tcb' = [tcb EXCEPT ![e] = Acknowledged(@)]
        /\ Into(net, {MakePacket(e, tcb[e], tcb[e].nxt - 1, 0, FALSE)})
     \/ /\ tcb' = [tcb EXCEPT ![e] = Closed(@)]
        /\ UNCHANGED net
  /\ UNCHANGED users

DelayedAck(e) ==
  /\ Idle(e) /\ tcb[e].state # "Closed" /\ tcb[e].tack
  /\ tcb' = [tcb EXCEPT ![e] = Acknowledged(@)]
  /\ Into(net, {MakePacket(e, tcb[e], tcb[e].nxt, 0, FALSE)})
  /\ UNCHANGED users

----------------------------------------------------------------------------
Fresh == [state |-> "Listen", shutdown |-> FALSE, todo |-> "Idle",
          una |-> 0, nxt |-> 0, end |-> 0, wnd |-> 1, slist |-> <<>>,
          rto |-> FALSE, dup |-> 0, recover |-> 0, mss |-> Mss,
          rcv |-> 0, rwnd |-> RcvBuf, tack |-> FALSE, acked |-> 0, rlist |-> {},
          cell |-> [c \in 0..RcvBuf - 1 |-> 0], rpos |-> 0, dlen |-> 0,
          readable |-> TRUE, writeable |-> FALSE]

Init == /\ tcb = [e \in End |-> Fresh]
        /\ net = {}
        /\ written = [e \in End |-> 0]
        /\ got = [e \in End |-> <<>>]

AttemptSend(e) == SendAck(e) \/ SendNothing(e) \/ SendSegment(e)
NotifyClock(e) == RetransmitTimeout(e) \/ Probe(e) \/ DelayedAck(e)

Step(e) ==
  \/ Connect(e) \/ Write(e) \/ (\E n \in ReadSizes : Read(e, n)) \/ Close(e)
  \/ (\E p \in net : NotifyPacket(e, p))
  \/ NotifyClock(e)
  \/ AttemptSend(e)

Next == \E e \in End : Step(e)

Spec == Init /\ [][Next]_vars

----------------------------------------------------------------------------
(* Properties.                                                             *)

\* Every variable keeps its type.
TypeOK ==
  /\ \A e \in End : /\ DOMAIN tcb[e] = DOMAIN Fresh
                     /\ tcb[e].state \in States /\ tcb[e].todo \in Todos
                     /\ tcb[e].una <= tcb[e].nxt /\ tcb[e].nxt <= tcb[e].end
                     /\ tcb[e].rwnd \in 0..Room(tcb[e]) /\ tcb[e].dlen \in 0..RcvBuf
  /\ \A p \in net : p \in Packet
  /\ written \in [End -> Nat]
  /\ got \in [End -> Seq(Int)]

\* m_slist holds what is queued, from m_snd_una on, without a gap: first what was sent,
\* up to m_snd_nxt, then the rest.  (Fast retransmission and the timer take its front,
\* and transmit computes the place of a segment in m_sbuf from its number.)  The timer
\* runs while something is in flight.
SegmentsCover ==
  \A e \in End :
    LET t == tcb[e]
        ends(i) == IF i = 0 THEN t.una ELSE t.slist[i].seq + t.slist[i].len
    IN t.state # "Closed" =>
         /\ \A i \in 1..Len(t.slist) :
              /\ t.slist[i].seq = ends(i - 1)
              /\ t.slist[i].xmit > 0 <=> t.slist[i].seq < t.nxt
         /\ ends(Len(t.slist)) = t.end
         /\ t.rto <=> t.nxt > t.una

\* A sender keeps to the window: what is in the network fits the receiver's buffer, also
\* when it comes late or twice, so that no segment is taken in part.
WindowHonoured ==
  \A p \in net : p.len > 0 => p.seq + p.len <= tcb[p.to].rcv + Room(tcb[p.to])

\* "Segment has data (so we need to ACK!)" (pseudotcp.cc): what was received has been
\* acknowledged, or a delayed acknowledgement is due, or data that waits to be sent will
\* carry it: data that Nagle's algorithm held back, which an acknowledgement, the timer or
\* a probe sets going again, or data that could not be sent.
AckComes ==
  \A e \in End :
    LET t == tcb[e]
    IN t.state # "Closed" /\ Idle(e) =>
         \/ t.acked = t.rcv \/ t.tack
         \/ t.nxt < t.end /\ (e \in MayFail \/ (Nagle /\ (t.rto \/ t.wnd = 0)))

\* Nobody waits for an event that will not come: a user who waits to write waits for
\* acknowledgements still to come, and one who waits to read has nothing to; and data
\* that is not acknowledged has a timer (of retransmission, or to probe a closed window),
\* unless it could not be sent.
NothingStalls ==
  \A e \in End :
    LET t == tcb[e]
    IN t.state # "Closed" /\ Idle(e) =>
         /\ t.writeable => Buffered(t) > 0
         /\ t.readable => t.dlen = 0
         /\ e \notin MayFail /\ Buffered(t) > 0 => t.rto \/ t.wnd = 0

\* Fault: data in flight is not waited for.
MayGoSent(t) == t.shutdown /\ (t.state # "Established" \/ (t.nxt = t.end /\ ~t.tack))

\* clock_check returns false: a connection closed gracefully may be destroyed.
MayGo(t) == t.shutdown /\ (t.state # "Established" \/ (Buffered(t) = 0 /\ ~t.tack))

\* Close(false) loses nothing: when the object of an open connection may be destroyed, the
\* other end has all that was written, unless its user has closed it too.
FlushedWhenDone ==
  \A e \in End :
    MayGo(tcb[e]) /\ Idle(e) /\ tcb[e].state = "Established" /\ ~tcb[Peer[e]].shutdown =>
      Len(got[Peer[e]]) + tcb[Peer[e]].dlen = written[e]

\* The connection is the pair of byte streams it promises to be.
Stream == INSTANCE ByteStream WITH End <- End, Peer <- Peer, written <- written, got <- got
StreamSpec == Stream!Spec

\* The bytes read are the first of those written, in order.
StreamIntact ==
  \A e \in End : /\ Len(got[e]) <= written[Peer[e]]
                 /\ \A i \in 1..Len(got[e]) : got[e][i] = i

=============================================================================
