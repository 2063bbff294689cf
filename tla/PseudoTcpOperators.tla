------------------------- MODULE PseudoTcpOperators -------------------------
(***************************************************************************)
(* What the operators of PseudoTcp do to the object of an end, for every   *)
(* value of the constants: the list of segments (m_slist), queue, transmit,*)
(* an acknowledgement, and the data of a packet.                           *)
(***************************************************************************)
EXTENDS PseudoTcp, SequenceTheorems, WellFoundedInduction, TLAPS

----------------------------------------------------------------------------
(* The parts of an object, and operations that change one of them only.    *)

\* m_rbuf and what belongs to receiving stay.
SameReceiver(t, u) ==
  /\ u.shutdown = t.shutdown /\ u.rcv = t.rcv /\ u.rwnd = t.rwnd /\ u.rlist = t.rlist
  /\ u.cell = t.cell /\ u.rpos = t.rpos /\ u.dlen = t.dlen /\ u.readable = t.readable

\* What belongs to sending stays, but for m_slist and its end.
SameProgress(t, u) ==
  /\ u.una = t.una /\ u.nxt = t.nxt /\ u.wnd = t.wnd /\ u.rto = t.rto
  /\ u.recover = t.recover /\ u.mss = t.mss /\ u.writeable = t.writeable

SameList(t, u) == u.slist = t.slist /\ u.end = t.end
SameAcks(t, u) == u.tack = t.tack /\ u.acked = t.acked

\* packet() records the acknowledgement it carries and changes nothing else.
LEMMA AcknowledgedIs ==
  ASSUME NEW t \in Tcb
  PROVE  /\ Acknowledged(t) \in Tcb
         /\ SameProgress(t, Acknowledged(t)) /\ SameList(t, Acknowledged(t))
         /\ SameReceiver(t, Acknowledged(t))
         /\ Acknowledged(t).state = t.state /\ Acknowledged(t).todo = t.todo
         /\ Acknowledged(t).acked = t.rcv /\ Acknowledged(t).tack = FALSE
         /\ Acknowledged(t).dup = t.dup
BY DEF Acknowledged, Tcb, SameProgress, SameList, SameReceiver

\* closedown leaves the stream as it is.
LEMMA ClosedIs ==
  ASSUME NEW t \in Tcb
  PROVE  /\ Closed(t) \in Tcb
         /\ SameProgress(t, Closed(t)) /\ SameList(t, Closed(t))
         /\ SameReceiver(t, Closed(t)) /\ SameAcks(t, Closed(t))
         /\ Closed(t).state = "Closed" /\ Closed(t).todo = "Idle"
         /\ Closed(t).dup = t.dup
BY DEF Closed, Tcb, SameProgress, SameList, SameReceiver, SameAcks, States, Todos

\* When Recv opens the window, it opens to all of the room in m_rbuf, and not below what it was.
LEMMA OpenWindowIs ==
  ASSUME NEW t \in Tcb
  PROVE  \/ OpenWindow(t) = t
         \/ /\ OpenWindow(t) \in Tcb
            /\ SameProgress(t, OpenWindow(t)) /\ SameList(t, OpenWindow(t))
            /\ SameAcks(t, OpenWindow(t))
            /\ OpenWindow(t).state = t.state /\ OpenWindow(t).shutdown = t.shutdown
            /\ OpenWindow(t).rcv = t.rcv /\ OpenWindow(t).rlist = t.rlist
            /\ OpenWindow(t).cell = t.cell /\ OpenWindow(t).rpos = t.rpos
            /\ OpenWindow(t).dlen = t.dlen /\ OpenWindow(t).readable = t.readable
            /\ OpenWindow(t).rwnd = Room(t)
            /\ OpenWindow(t).todo \in {t.todo, "Immediate"}
            /\ Room(t) - t.rwnd >= Min2(RcvBuf \div 2, t.mss)
<1> DEFINE d == IF t.rwnd = 0 THEN "Immediate" ELSE t.todo
           u == [t EXCEPT !.rwnd = Room(t), !.todo = d]
<1>1. \/ OpenWindow(t) = t
      \/ OpenWindow(t) = u /\ (Room(t) - t.rwnd >= Min2(RcvBuf \div 2, t.mss))
  BY DEF OpenWindow, Tcb
<1>2. Room(t) \in Int /\ d \in Todos
  BY ConstantsOK, SMTT(30) DEF Room, Tcb, Todos
<1> HIDE DEF d
<1>3. /\ u \in Tcb /\ SameProgress(t, u) /\ SameList(t, u) /\ SameAcks(t, u)
      /\ u.state = t.state /\ u.shutdown = t.shutdown
      /\ u.rcv = t.rcv /\ u.rlist = t.rlist
      /\ u.cell = t.cell /\ u.rpos = t.rpos
      /\ u.dlen = t.dlen /\ u.readable = t.readable
      /\ u.rwnd = Room(t) /\ u.todo = d
  BY <1>2 DEF Tcb, SameProgress, SameList, SameAcks
<1>4. d \in {t.todo, "Immediate"}
  BY DEF d
<1> QED  BY <1>1, <1>3, <1>4

\* Only m_slist and its end differ.
Relisted(t, u, L, m) ==
  /\ u \in Tcb /\ u.slist = L /\ u.end = m
  /\ SameProgress(t, u) /\ SameReceiver(t, u) /\ SameAcks(t, u)
  /\ u.state = t.state /\ u.todo = t.todo /\ u.dup = t.dup

\* Replacing m_slist and its end leaves the rest of the object alone.
LEMMA WithList ==
  ASSUME NEW t \in Tcb, NEW L \in Seq(Segment), NEW m \in Nat
  PROVE  Relisted(t, [t EXCEPT !.slist = L, !.end = m], L, m)
BY DEF Relisted, Tcb, SameProgress, SameReceiver, SameAcks

\* m_slist after queue: the last segment is longer, or there is one more.
LongerLast(L, n) == [L EXCEPT ![Len(L)] = [L[Len(L)] EXCEPT !.len = L[Len(L)].len + n]]
OneMore(L, q, n, c) == Append(L, [seq |-> q, len |-> n, xmit |-> 0, ctl |-> c])

\* queue either lengthens the last segment or appends one.
LEMMA QueueIs ==
  ASSUME NEW t \in Tcb, NEW n \in Nat, NEW c \in BOOLEAN
  PROVE  LET k == Len(t.slist)
         IN \/ Relisted(t, Queue(t, n, c), OneMore(t.slist, t.end, n, c), t.end + n)
            \/ /\ t.slist # <<>> /\ t.slist[k].ctl = c /\ t.slist[k].xmit = 0
               /\ Relisted(t, Queue(t, n, c), LongerLast(t.slist, n), t.end + n)
<1> DEFINE k == Len(t.slist)
           A == OneMore(t.slist, t.end, n, c)
           s == [t.slist[k] EXCEPT !.len = t.slist[k].len + n]
           B == LongerLast(t.slist, n)
<1>1. t.slist \in Seq(Segment) /\ t.end \in Nat /\ t.end + n \in Nat
  BY DEF Tcb
<1>2. CASE t.slist # <<>> /\ t.slist[k].ctl = c /\ t.slist[k].xmit = 0
  <2>1. k \in 1..Len(t.slist) /\ t.slist[k] \in Segment
    BY <1>1, <1>2, EmptySeq, ElementOfSeq
  <2>2. s \in Segment
    BY <2>1 DEF Segment
  <2>3. B \in Seq(Segment)
    BY <2>1, <2>2, <1>1, ExceptSeq DEF LongerLast
  <2>4. Queue(t, n, c) = [t EXCEPT !.slist = B, !.end = t.end + n]
    BY <1>2 DEF Queue, Tcb, Segment, LongerLast
  <2> HIDE DEF B
  <2>5. Relisted(t, Queue(t, n, c), B, t.end + n)
    BY <2>3, <2>4, <1>1, WithList
  <2> QED  BY <2>5, <1>2 DEF B
<1>3. CASE ~(t.slist # <<>> /\ t.slist[k].ctl = c /\ t.slist[k].xmit = 0)
  <2>1. Queue(t, n, c) = [t EXCEPT !.slist = A, !.end = t.end + n]
    BY <1>3 DEF Queue, Tcb, OneMore
  <2>2. A \in Seq(Segment)
    BY <1>1, AppendProperties DEF Segment, OneMore
  <2> HIDE DEF A
  <2>3. Relisted(t, Queue(t, n, c), A, t.end + n)
    BY <2>2, <2>1, <1>1, WithList 
  <2> QED  BY <2>3 DEF A
<1> QED  BY <1>2, <1>3

\* The two parts of a segment, and m_slist after segment i was split.
FirstPart(s, n) == [s EXCEPT !.len = n]
SecondPart(s, n) == [s EXCEPT !.seq = s.seq + n, !.len = s.len - n]
SplitList(L, i, n) == SubSeq(L, 1, i - 1) \o <<FirstPart(L[i], n), SecondPart(L[i], n)>>
                                          \o SubSeq(L, i + 1, Len(L))

\* The two parts of a segment are segments.
LEMMA PartsAre ==
  ASSUME NEW s \in Segment, NEW n \in Nat, n < s.len
  PROVE  /\ FirstPart(s, n) \in Segment /\ SecondPart(s, n) \in Segment
         /\ FirstPart(s, n).seq = s.seq /\ FirstPart(s, n).len = n
         /\ FirstPart(s, n).xmit = s.xmit /\ FirstPart(s, n).ctl = s.ctl
         /\ SecondPart(s, n).seq = s.seq + n /\ SecondPart(s, n).len = s.len - n
         /\ SecondPart(s, n).xmit = s.xmit /\ SecondPart(s, n).ctl = s.ctl
<1>1. s.seq + n \in Nat /\ s.len - n \in Nat
  BY DEF Segment
<1> QED  BY <1>1 DEF FirstPart, SecondPart, Segment

\* The list after a split, segment by segment.
LEMMA SplitListIs ==
  ASSUME NEW L \in Seq(Segment), NEW i \in 1..Len(L), NEW n \in Nat, n < L[i].len
  PROVE  /\ SplitList(L, i, n) \in Seq(Segment) /\ Len(SplitList(L, i, n)) = Len(L) + 1
         /\ \A k \in 1..Len(L) + 1 :
              SplitList(L, i, n)[k] = IF k < i THEN L[k] ELSE IF k = i THEN FirstPart(L[i], n)
                                      ELSE IF k = i + 1 THEN SecondPart(L[i], n) ELSE L[k - 1]
<1> DEFINE X == SubSeq(L, 1, i - 1)
           Y == SubSeq(L, i + 1, Len(L))
           M == <<FirstPart(L[i], n), SecondPart(L[i], n)>>
<1>1. Len(L) \in Nat /\ i \in Nat /\ L[i] \in Segment /\ \A k \in 1..Len(L) : L[k] \in Segment
  BY LenProperties, ElementOfSeq
<1>2. FirstPart(L[i], n) \in Segment /\ SecondPart(L[i], n) \in Segment
  BY <1>1, PartsAre
<1>3. X \in Seq(Segment) /\ Len(X) = i - 1 /\ \A k \in 1..i - 1 : X[k] = L[k]
  <2>1. \A k \in 1..i - 1 : L[k] \in Segment
    BY <1>1
  <2> QED  BY <1>1, <2>1, SubSeqProperties
<1>4. Y \in Seq(Segment) /\ Len(Y) = Len(L) - i /\ \A k \in 1..Len(L) - i : Y[k] = L[k + i]
  <2>1. \A k \in i + 1..Len(L) : L[k] \in Segment
    BY <1>1
  <2>2. /\ Y \in Seq(Segment) /\ Len(Y) = IF i + 1 <= Len(L) THEN Len(L) - (i + 1) + 1 ELSE 0
        /\ \A k \in 1 .. Len(L) - (i + 1) + 1 : Y[k] = L[i + 1 + k - 1]
    BY <1>1, <2>1, SubSeqProperties
  <2> QED  BY <1>1, <2>2
<1>5. M \in Seq(Segment) /\ Len(M) = 2 /\ M[1] = FirstPart(L[i], n) /\ M[2] = SecondPart(L[i], n)
  BY <1>2
<1> HIDE DEF X, Y, M
<1> DEFINE XM == X \o M
           V == XM \o Y
<1>6. /\ XM \in Seq(Segment) /\ Len(XM) = Len(X) + Len(M)
      /\ \A k \in 1..Len(X) + Len(M) : XM[k] = IF k <= Len(X) THEN X[k] ELSE M[k - Len(X)]
  BY <1>3, <1>5, ConcatProperties
<1> HIDE DEF XM
<1>7. /\ V \in Seq(Segment) /\ Len(V) = Len(XM) + Len(Y)
      /\ \A k \in 1..Len(XM) + Len(Y) : V[k] = IF k <= Len(XM) THEN XM[k] ELSE Y[k - Len(XM)]
  <2>1. XM \in Seq(Segment) /\ Y \in Seq(Segment)
    BY <1>4, <1>6
  <2> QED  BY <2>1, ConcatProperties
<1>8. SplitList(L, i, n) = V
  BY DEF SplitList, X, Y, M, XM, V
<1>9. /\ Len(XM) = i + 1
      /\ \A k \in 1..i + 1 : XM[k] = IF k <= i - 1 THEN X[k] ELSE M[k - (i - 1)]
  BY <1>1, <1>3, <1>5, <1>6
<1>10. /\ V \in Seq(Segment) /\ Len(V) = Len(L) + 1
       /\ \A k \in 1..Len(L) + 1 : V[k] = IF k <= i + 1 THEN XM[k] ELSE Y[k - (i + 1)]
  BY <1>1, <1>4, <1>7, <1>9
<1> HIDE DEF V
<1>11. ASSUME NEW k \in 1..Len(L) + 1
       PROVE  V[k] = IF k < i THEN L[k] ELSE IF k = i THEN FirstPart(L[i], n)
                     ELSE IF k = i + 1 THEN SecondPart(L[i], n) ELSE L[k - 1]
  <2>1. CASE k < i
    BY <1>1, <1>3, <1>9, <1>10, <2>1
  <2>2. CASE k = i \/ k = i + 1
    BY <1>1, <1>5, <1>9, <1>10, <2>2
  <2>3. CASE k > i + 1
    <3>1. PICK j \in 1..Len(L) - i : j = k - (i + 1)
      BY <1>1, <2>3
    <3>2. V[k] = Y[j]
      BY <1>1, <1>10, <2>3, <3>1
    <3>3. Y[j] = L[k - 1]
      <4>1. j + i = k - 1
        BY <1>1, <3>1
      <4> QED  BY <1>4, <4>1
    <3>4. ~(k < i) /\ k # i /\ k # i + 1
      BY <1>1, <2>3
    <3> QED  BY <3>2, <3>3, <3>4
  <2> QED  BY <1>1, <2>1, <2>2, <2>3
<1> QED  BY <1>8, <1>10, <1>11

\* transmit splits a segment, or leaves the list when it is short enough.
LEMMA SplitAtIs ==
  ASSUME NEW t \in Tcb, NEW i \in 1..Len(t.slist), NEW n \in Nat
  PROVE  IF n < t.slist[i].len
         THEN Relisted(t, SplitAt(t, i, n), SplitList(t.slist, i, n), t.end)
         ELSE SplitAt(t, i, n) = t
<1>1. t.slist \in Seq(Segment) /\ t.slist[i] \in Segment /\ t.end \in Nat
  BY ElementOfSeq DEF Tcb
<1>2. CASE n < t.slist[i].len
  <2> DEFINE V == SplitList(t.slist, i, n)
  <2>1. V \in Seq(Segment)
    BY <1>1, <1>2, SplitListIs
  <2>2. SplitAt(t, i, n) = [t EXCEPT !.slist = V]
    BY <1>1, <1>2 DEF SplitAt, SplitList, Segment, Tcb, FirstPart, SecondPart
  <2> HIDE DEF V
  <2>3. [t EXCEPT !.slist = V] = [t EXCEPT !.slist = V, !.end = t.end]
    BY DEF Tcb
  <2>4. Relisted(t, SplitAt(t, i, n), V, t.end)
    BY <2>1, <2>2, <2>3, <1>1, WithList
  <2> QED  BY <1>2, <2>4 DEF V
<1> QED  BY <1>2 DEF SplitAt

----------------------------------------------------------------------------
(* m_slist.                                                                *)

\* Every segment of m_slist has data, was sent exactly if it starts below m_snd_nxt, and is a
\* connect message, one byte long, exactly if it is the first of the stream.
Elements(L, x) ==
  \A i \in 1..Len(L) : /\ L[i].len > 0
                       /\ L[i].xmit > 0 <=> L[i].seq < x
                       /\ L[i].ctl <=> L[i].seq = 0
                       /\ L[i].ctl => L[i].len = 1
\* A segment ends before each later one starts.
Ordered(L) == \A i, j \in 1..Len(L) : i < j => L[i].seq + L[i].len <= L[j].seq
\* A segment ends where the next one starts.
Chained(L) == \A i \in 1..Len(L) - 1 : L[i + 1].seq = L[i].seq + L[i].len
\* The list reaches from u to e.
Spans(L, u, e) ==
  IF Len(L) = 0 THEN u = e
  ELSE L[1].seq = u /\ L[Len(L)].seq + L[Len(L)].len = e
\* A segment starts at q.
StartsAt(L, q) == \E i \in 1..Len(L) : L[i].seq = q

\* m_slist is well formed between m_snd_una = u and its end e, with m_snd_nxt = x at a boundary.
ListOK(L, u, x, e) ==
  /\ u <= x /\ x <= e /\ (x = e \/ StartsAt(L, x))
  /\ Elements(L, x) /\ Ordered(L) /\ Chained(L) /\ Spans(L, u, e)

\* q lies at a boundary of the list, or before it: an acknowledgement of q takes whole segments.
Bound(L, u, x, q) == q <= u \/ q = x \/ StartsAt(L, q)

\* A part is not greater than the sum.
LEMMA LeqParts == \A p, q, r \in Nat : p + q <= r => p <= r
  OBVIOUS

\* Adding to the greater side.
LEMMA LeqMore == \A p, q, r, s \in Nat : p + q <= r => p + q <= r + s
  OBVIOUS

\* The types of what a list of segments holds.
LEMMA ListTypes ==
  ASSUME NEW L \in Seq(Segment)
  PROVE  /\ Len(L) \in Nat
         /\ \A i \in 1..Len(L) : /\ L[i] \in Segment /\ L[i].seq \in Nat /\ L[i].len \in Nat
                                 /\ L[i].xmit \in Nat /\ L[i].ctl \in BOOLEAN
<1>1. \A i \in 1..Len(L) : L[i] \in Segment
  BY ElementOfSeq
<1> QED  BY <1>1, LenProperties DEF Segment

\* A segment was sent whole or not at all, and lies between the ends of the list.
LEMMA SentWhole ==
  ASSUME NEW L \in Seq(Segment), NEW u \in Nat, NEW x \in Nat, NEW e \in Nat,
         ListOK(L, u, x, e), NEW i \in 1..Len(L)
  PROVE  /\ L[i].seq < x => L[i].seq + L[i].len <= x
         /\ u <= L[i].seq /\ L[i].seq + L[i].len <= e
         /\ i < Len(L) => L[i + 1].seq = L[i].seq + L[i].len
         /\ i = Len(L) => L[i].seq + L[i].len = e
<1>1. Len(L) \in Nat /\ i \in Nat /\ Len(L) # 0 /\ Len(L) \in 1..Len(L) /\ 1 \in 1..Len(L)
  BY ListTypes
<1>2. /\ L[i].seq \in Nat /\ L[i].len \in Nat /\ L[1].seq \in Nat /\ L[1].len \in Nat
      /\ L[Len(L)].seq \in Nat /\ L[Len(L)].len \in Nat
  BY <1>1, ListTypes
<1>3. L[1].seq = u /\ L[Len(L)].seq + L[Len(L)].len = e
  BY <1>1 DEF ListOK, Spans
<1>4. 1 < i => L[1].seq + L[1].len <= L[i].seq
  BY <1>1 DEF ListOK, Ordered
<1>5. i < Len(L) => L[i].seq + L[i].len <= L[Len(L)].seq
  BY <1>1 DEF ListOK, Ordered
<1>6. u <= L[i].seq /\ L[i].seq + L[i].len <= e
  <2> DEFINE k == Len(L)
             a == L[i].seq
             n == L[i].len
             b == L[1].seq
             m == L[1].len
             c == L[k].seq
             d == L[k].len
  <2>1. /\ a \in Nat /\ n \in Nat /\ b \in Nat /\ m \in Nat /\ c \in Nat /\ d \in Nat
        /\ b = u /\ c + d = e
    BY <1>2, <1>3
  <2>2. /\ 1 < i => b + m <= a
        /\ i < k => a + n <= c
        /\ i = 1 => a = b
        /\ i = k => a = c /\ n = d
    BY <1>4, <1>5
  <2>3. i \in Nat /\ k \in Nat /\ (i = 1 \/ 1 < i) /\ (i = k \/ i < k)
    BY <1>1
  <2> HIDE DEF a, n, b, m, c, d, k
  <2>4. u <= a
    BY <2>1, <2>2, <2>3
  <2>5. a + n <= e
    BY <2>1, <2>2, <2>3
  <2> QED  BY <2>4, <2>5 DEF a, n
<1>7. ASSUME L[i].seq < x  PROVE L[i].seq + L[i].len <= x
  <2>1. CASE x = e
    BY <2>1, <1>6
  <2>2. CASE StartsAt(L, x)
    <3>1. PICK j \in 1..Len(L) : L[j].seq = x
      BY <2>2 DEF StartsAt
    <3>2. j \in Nat /\ L[j].len \in Nat
      BY <1>1, ListTypes
    <3>3. j < i => L[j].seq + L[j].len <= L[i].seq
      BY DEF ListOK, Ordered
    <3>4. i < j => L[i].seq + L[i].len <= L[j].seq
      BY DEF ListOK, Ordered
    <3> QED  BY <1>1, <1>2, <1>7, <3>1, <3>2, <3>3, <3>4
  <2> QED  BY <2>1, <2>2 DEF ListOK
<1>8. i < Len(L) => L[i + 1].seq = L[i].seq + L[i].len
  BY <1>1 DEF ListOK, Chained
<1> QED  BY <1>3, <1>6, <1>7, <1>8

\* queue with a new segment keeps the list well formed and its boundaries.
LEMMA OneMoreOK ==
  ASSUME NEW L \in Seq(Segment), NEW u \in Nat, NEW x \in Nat, NEW e \in Nat,
         ListOK(L, u, x, e), NEW n \in Nat, n > 0, NEW c \in BOOLEAN,
         c <=> e = 0, c => n = 1
  PROVE  /\ ListOK(OneMore(L, e, n, c), u, x, e + n)
         /\ \A q : Bound(L, u, x, q) => Bound(OneMore(L, e, n, c), u, x, q)
<1> DEFINE s == [seq |-> e, len |-> n, xmit |-> 0, ctl |-> c]
           V == OneMore(L, e, n, c)
           k == Len(L)
<1>1. s \in Segment /\ s.seq = e /\ s.len = n /\ s.xmit = 0 /\ s.ctl = c
  BY DEF Segment
<1> HIDE DEF s
<1>2. Len(V) = k + 1 /\ V[k + 1] = s /\ \A i \in 1..k : V[i] = L[i]
  BY <1>1, AppendProperties DEF OneMore, s
<1> HIDE DEF V
<1>3. k \in Nat /\ \A i \in 1..k + 1 : i \in 1..k \/ i = k + 1
  BY ListTypes
<1> HIDE DEF k
<1>4. \A i \in 1..k : L[i].seq \in Nat /\ L[i].len \in Nat /\ L[i].seq + L[i].len <= e
  BY ListTypes, SentWhole DEF k
<1>5. Elements(V, x)
  <2>1. Elements(L, x) /\ x <= e
    BY DEF ListOK
  <2> QED  BY <1>1, <1>2, <1>3, <2>1 DEF Elements, k
<1>6. Ordered(V)
  <2>1. Ordered(L)
    BY DEF ListOK
  <2> SUFFICES ASSUME NEW i \in 1..k + 1, NEW j \in 1..k + 1, i < j
               PROVE  V[i].seq + V[i].len <= V[j].seq
    BY <1>2 DEF Ordered
  <2>2. i \in 1..k
    BY <1>3
  <2> QED  BY <1>1, <1>2, <1>3, <1>4, <2>1, <2>2 DEF Ordered, k
<1>7. Chained(V)
  <2>1. Chained(L)
    BY DEF ListOK
  <2> SUFFICES ASSUME NEW i \in 1..k
               PROVE  V[i + 1].seq = V[i].seq + V[i].len
    BY <1>2, <1>3 DEF Chained
  <2>2. CASE i = k
    <3>1. L[k].seq + L[k].len = e
      BY <2>2, SentWhole DEF k
    <3> QED  BY <1>1, <1>2, <2>2, <3>1
  <2>3. CASE i # k
    <3>1. i \in 1..k - 1 /\ i + 1 \in 1..k
      BY <1>3, <2>3
    <3> QED  BY <1>2, <2>1, <3>1 DEF Chained, k
  <2> QED  BY <2>2, <2>3
<1>8. Spans(V, u, e + n)
  <2>1. Spans(L, u, e)
    BY DEF ListOK
  <2>2. V[1].seq = u
    BY <1>1, <1>2, <1>3, <2>1 DEF Spans, k
  <2> QED  BY <1>1, <1>2, <1>3, <2>2 DEF Spans
<1>9. \A q : StartsAt(L, q) \/ q = e => StartsAt(V, q)
  BY <1>1, <1>2, <1>3 DEF StartsAt, k
<1>10. u <= x /\ x <= e + n /\ StartsAt(V, x)
  BY <1>9 DEF ListOK
<1>11. ListOK(V, u, x, e + n)
  BY <1>5, <1>6, <1>7, <1>8, <1>10 DEF ListOK
<1>12. \A q : Bound(L, u, x, q) => Bound(V, u, x, q)
  BY <1>9 DEF Bound
<1> QED  BY <1>11, <1>12 DEF V

\* queue that lengthens the last segment, which was not sent, does so too.
LEMMA LongerLastOK ==
  ASSUME NEW L \in Seq(Segment), NEW u \in Nat, NEW x \in Nat, NEW e \in Nat,
         ListOK(L, u, x, e), NEW n \in Nat, n > 0, NEW c \in BOOLEAN,
         c <=> e = 0, L # <<>>, L[Len(L)].ctl = c, L[Len(L)].xmit = 0
  PROVE  /\ ListOK(LongerLast(L, n), u, x, e + n)
         /\ \A q : Bound(L, u, x, q) => Bound(LongerLast(L, n), u, x, q)
<1> DEFINE k == Len(L)
           s == [L[k] EXCEPT !.len = L[k].len + n]
           V == LongerLast(L, n)
<1>1. k \in 1..k /\ k \in Nat /\ k > 0 /\ L[k] \in Segment /\ L[k].seq \in Nat /\ L[k].len \in Nat
  BY EmptySeq, ListTypes
<1>2. /\ s \in Segment /\ s.seq = L[k].seq /\ s.len = L[k].len + n /\ s.xmit = L[k].xmit
      /\ s.ctl = L[k].ctl
  <2>1. L[k].len + n \in Nat
    BY <1>1
  <2> QED  BY <1>1, <2>1 DEF Segment
<1>3. Len(V) = k /\ \A i \in 1..k : V[i] = IF i = k THEN s ELSE L[i]
  BY <1>1, <1>2, ExceptSeq DEF LongerLast
<1>4. L[k].seq + L[k].len = e /\ L[k].len > 0 /\ ~(L[k].seq < x) /\ c = FALSE
  <2>1. L[k].seq + L[k].len = e
    BY <1>1, SentWhole
  <2>2. L[k].len > 0 /\ ~(L[k].seq < x)
    BY <1>1 DEF ListOK, Elements
  <2>3. e # 0
    BY <1>1, <2>1, <2>2
  <2> QED  BY <2>1, <2>2, <2>3
<1> HIDE DEF s, V
<1>5. /\ \A i \in 1..k : V[i].seq = L[i].seq /\ V[i].xmit = L[i].xmit /\ V[i].ctl = L[i].ctl
      /\ \A i \in 1..k : i # k => V[i].len = L[i].len
      /\ V[k].len = L[k].len + n
  BY <1>1, <1>2, <1>3
<1>6. Elements(V, x)
  <2>1. Elements(L, x) /\ L[k].ctl = FALSE
    BY <1>4 DEF ListOK
  <2> QED  BY <1>1, <1>3, <1>5, <2>1 DEF Elements
<1>7. Ordered(V)
  <2>1. Ordered(L)
    BY DEF ListOK
  <2>2. \A i, j \in 1..k : i < j => i # k
    BY <1>1
  <2> QED  BY <1>3, <1>5, <2>1, <2>2 DEF Ordered
<1>8. Chained(V)
  <2>1. Chained(L)
    BY DEF ListOK
  <2>2. \A i \in 1..k - 1 : i \in 1..k /\ i + 1 \in 1..k /\ i # k
    BY <1>1
  <2> QED  BY <1>3, <1>5, <2>1, <2>2 DEF Chained
<1>9. Spans(V, u, e + n)
  <2>1. Spans(L, u, e) /\ 1 \in 1..k
    BY <1>1 DEF ListOK
  <2>2. V[1].seq = u
    BY <1>1, <1>5, <2>1 DEF Spans
  <2>3. V[k].seq = L[k].seq /\ V[k].len = L[k].len + n
    BY <1>1, <1>5
  <2>4. (L[k].seq + L[k].len) + n = e + n
    BY <1>4
  <2>5. L[k].seq + (L[k].len + n) = (L[k].seq + L[k].len) + n
    BY <1>1
  <2>6. V[k].seq + V[k].len = e + n
    BY <2>3, <2>4, <2>5
  <2> QED  BY <1>1, <1>3, <2>2, <2>6 DEF Spans
<1>10. \A q : StartsAt(L, q) => StartsAt(V, q)
  BY <1>3, <1>5 DEF StartsAt
<1>11. u <= x /\ x <= e + n /\ StartsAt(V, x)
  <2>1. u <= x /\ x <= e /\ (x = e \/ StartsAt(L, x))
    BY DEF ListOK
  <2>2. x # e
    BY <1>1, <1>4
  <2> QED  BY <1>10, <2>1, <2>2
<1>12. ListOK(V, u, x, e + n)
  BY <1>6, <1>7, <1>8, <1>9, <1>11 DEF ListOK
<1>13. \A q : Bound(L, u, x, q) => Bound(V, u, x, q)
  BY <1>10 DEF Bound
<1> QED  BY <1>12, <1>13 DEF V

\* Splitting a segment keeps the list well formed and only adds a boundary.
LEMMA SplitListOK ==
  ASSUME NEW L \in Seq(Segment), NEW u \in Nat, NEW x \in Nat, NEW e \in Nat,
         ListOK(L, u, x, e), NEW i \in 1..Len(L), NEW n \in Nat, n > 0, n < L[i].len
  PROVE  /\ ListOK(SplitList(L, i, n), u, x, e)
         /\ \A q : Bound(L, u, x, q) => Bound(SplitList(L, i, n), u, x, q)
<1> DEFINE a == FirstPart(L[i], n)
           b == SecondPart(L[i], n)
           V == SplitList(L, i, n)
           k == Len(L)
<1>1. /\ k \in Nat /\ i \in Nat /\ i \in 1..k /\ L[i] \in Segment
      /\ L[i].seq \in Nat /\ L[i].len \in Nat
  BY ListTypes
<1>2. /\ a.seq = L[i].seq /\ a.len = n /\ a.xmit = L[i].xmit /\ a.ctl = L[i].ctl
      /\ b.seq = L[i].seq + n /\ b.len = L[i].len - n /\ b.xmit = L[i].xmit /\ b.ctl = L[i].ctl
  BY <1>1, PartsAre
<1>3. /\ Len(V) = k + 1
      /\ \A j \in 1..k + 1 : V[j] = IF j < i THEN L[j] ELSE IF j = i THEN a
                                    ELSE IF j = i + 1 THEN b ELSE L[j - 1]
  BY SplitListIs
<1> HIDE DEF a, b, V
<1>4. a.seq \in Nat /\ a.len \in Nat /\ b.seq \in Nat /\ b.len \in Nat
  BY <1>1, <1>2
<1>5. a.seq + a.len = b.seq /\ b.seq + b.len = L[i].seq + L[i].len
  <2>1. (L[i].seq + n) + (L[i].len - n) = L[i].seq + L[i].len
    BY <1>1
  <2> QED  BY <1>2, <2>1
<1>6. Elements(L, x) /\ Ordered(L) /\ Chained(L) /\ Spans(L, u, e)
  BY DEF ListOK
<1>7. /\ V[i] = a /\ V[i + 1] = b
      /\ \A j \in 1..k : j < i => V[j] = L[j]
      /\ \A j \in 1..k : i < j => V[j + 1] = L[j]
  <2>1. \A j \in 1..k : i < j => j + 1 \in 1..k + 1 /\ ~(j + 1 < i) /\ j + 1 # i /\ j + 1 # i + 1
                                 /\ (j + 1) - 1 = j
    BY <1>1
  <2>2. i \in 1..k + 1 /\ i + 1 \in 1..k + 1 /\ ~(i < i) /\ ~(i + 1 < i) /\ i + 1 # i
    BY <1>1
  <2>3. \A j \in 1..k : j \in 1..k + 1
    BY <1>1
  <2> QED  BY <1>3, <2>1, <2>2, <2>3
\* Every index of V is one of these.
<1>8. \A m \in 1..k + 1 : \/ m \in 1..k /\ m < i
                          \/ m = i
                          \/ m = i + 1
                          \/ \E j \in 1..k : i < j /\ m = j + 1
  <2>1. \A m \in 1..k + 1 : m > i + 1 => m - 1 \in 1..k /\ i < m - 1 /\ m = (m - 1) + 1
    BY <1>1
  <2> QED  BY <1>1, <2>1
<1> HIDE DEF k
<1>9. /\ L[i].ctl = FALSE /\ L[i].seq # 0
      /\ L[i].xmit > 0 <=> L[i].seq < x
      /\ L[i].seq < x <=> L[i].seq + n < x
  <2>1. L[i].len # 1 /\ L[i].len > 0
    BY <1>1
  <2>2. L[i].ctl = FALSE /\ L[i].seq # 0 /\ (L[i].xmit > 0 <=> L[i].seq < x)
    BY <1>6, <2>1, ListTypes DEF Elements
  <2>3. L[i].seq < x => L[i].seq + L[i].len <= x
    BY SentWhole
  <2> QED  BY <1>1, <2>2, <2>3
<1>10. Elements(V, x)
  <2> DEFINE Good(s) == /\ s.len > 0
                        /\ s.xmit > 0 <=> s.seq < x
                        /\ s.ctl <=> s.seq = 0
                        /\ s.ctl => s.len = 1
  <2>1. \A j \in 1..k : Good(L[j])
    BY <1>6 DEF Elements, k
  <2>2. Good(a) /\ Good(b)
    BY <1>1, <1>2, <1>9
  <2> HIDE DEF Good
  <2>3. \A m \in 1..k + 1 : Good(V[m])
    BY <1>7, <1>8, <2>1, <2>2
  <2> QED  BY <1>3, <2>3 DEF Elements, Good
<1>11. Ordered(V)
  <2> SUFFICES ASSUME NEW m \in 1..k + 1, NEW j \in 1..k + 1, m < j
               PROVE  V[m].seq + V[m].len <= V[j].seq
    BY <1>3 DEF Ordered
  <2>1. /\ \A h, g \in 1..k : h < g => L[h].seq + L[h].len <= L[g].seq
        /\ \A h \in 1..k : L[h].seq \in Nat /\ L[h].len \in Nat
    BY <1>6, ListTypes DEF Ordered, k
  <2>2. CASE j \in 1..k /\ j < i
    <3>1. m \in 1..k /\ m < i
      BY <1>1, <2>2
    <3> QED  BY <1>7, <2>1, <2>2, <3>1
  <2>3. CASE j = i
    <3>1. m \in 1..k /\ m < i
      BY <1>1, <2>3
    <3> QED  BY <1>1, <1>2, <1>7, <2>1, <2>3, <3>1
  <2>4. CASE j = i + 1
    <3>1. m = i \/ (m \in 1..k /\ m < i)
      BY <1>1, <2>4
    <3>2. CASE m = i
      <4>1. V[m] = a /\ V[j] = b
        BY <1>7, <2>4, <3>2
      <4>2. a.seq + a.len <= b.seq
        BY <1>4, <1>5
      <4> QED  BY <4>1, <4>2
    <3>3. CASE m \in 1..k /\ m < i
      <4>1. L[m].seq + L[m].len <= L[i].seq /\ L[m].seq \in Nat /\ L[m].len \in Nat
        BY <1>1, <2>1, <3>3
      <4>2. L[m].seq + L[m].len <= L[i].seq + n
        BY <1>1, <4>1, LeqMore
      <4>3. V[m] = L[m] /\ V[j] = b
        BY <1>7, <2>4, <3>3
      <4> QED  BY <1>2, <4>2, <4>3
    <3> QED  BY <3>1, <3>2, <3>3
  <2>5. ASSUME NEW g \in 1..k, i < g, j = g + 1
        PROVE  V[m].seq + V[m].len <= V[j].seq
    <3>1. V[j] = L[g] /\ L[i].seq + L[i].len <= L[g].seq /\ L[g].seq \in Nat
      BY <1>1, <1>7, <2>1, <2>5
    <3>2. CASE m \in 1..k /\ m < i
      <4>1. m < g
        BY <1>1, <2>5, <3>2
      <4> QED  BY <1>7, <2>1, <3>1, <3>2, <4>1
    <3>3. CASE m = i
      <4>1. V[m] = a
        BY <1>7, <3>3
      <4>2. a.seq + a.len <= L[g].seq
        <5>1. b.seq + b.len <= L[g].seq
          BY <1>5, <3>1
        <5>2. b.seq <= L[g].seq
          BY <1>4, <3>1, <5>1, LeqParts
        <5> QED  BY <1>5, <5>2
      <4> QED  BY <3>1, <4>1, <4>2
    <3>4. CASE m = i + 1
      <4>1. V[m] = b
        BY <1>7, <3>4
      <4>2. b.seq + b.len <= L[g].seq
        BY <1>5, <3>1
      <4> QED  BY <3>1, <4>1, <4>2
    <3>5. ASSUME NEW h \in 1..k, i < h, m = h + 1
          PROVE  V[m].seq + V[m].len <= V[j].seq
      <4>1. h < g
        BY <1>1, <2>5, <3>5
      <4> QED  BY <1>7, <2>1, <3>1, <3>5, <4>1
    <3> QED  BY <1>8, <3>2, <3>3, <3>5, <3>4
  <2> QED  BY <1>8, <2>2, <2>3, <2>4, <2>5
<1>12. Chained(V)
  <2> SUFFICES ASSUME NEW m \in 1..k
               PROVE  V[m + 1].seq = V[m].seq + V[m].len
    BY <1>1, <1>3 DEF Chained
  <2>1. \A h \in 1..k - 1 : L[h + 1].seq = L[h].seq + L[h].len
    BY <1>6 DEF Chained, k
  <2>2. CASE m < i
    <3>1. m \in 1..k - 1 /\ m + 1 \in 1..k /\ (m + 1 < i \/ m + 1 = i)
      BY <1>1, <2>2
    <3> QED  BY <1>2, <1>7, <2>1, <2>2, <3>1
  <2>3. CASE m = i
    BY <1>1, <1>2, <1>7, <2>3
  <2>4. CASE m > i
    <3>1. m - 1 \in 1..k - 1 /\ (m - 1) + 1 = m /\ m \in 1..k /\ i < m /\ (m - 1 = i \/ i < m - 1)
          /\ m - 1 \in 1..k
      BY <1>1, <2>4
    <3>2. V[m + 1] = L[m] /\ L[m].seq = L[m - 1].seq + L[m - 1].len
      BY <1>7, <2>1, <3>1
    <3>3. CASE m - 1 = i
      <4>1. V[m] = b /\ L[m].seq = L[i].seq + L[i].len
        BY <1>7, <3>1, <3>2, <3>3
      <4> QED  BY <1>5, <3>2, <4>1
    <3>4. CASE i < m - 1
      BY <1>7, <3>1, <3>2, <3>4
    <3> QED  BY <3>1, <3>3, <3>4
  <2> QED  BY <1>1, <2>2, <2>3, <2>4
<1>13. Spans(V, u, e)
  <2>1. L[1].seq = u /\ L[k].seq + L[k].len = e /\ 1 \in 1..k /\ k \in 1..k
    BY <1>1, <1>6 DEF Spans, k
  <2>2. V[1].seq = u
    <3>1. i = 1 \/ 1 < i
      BY <1>1
    <3> QED  BY <1>2, <1>7, <2>1, <3>1
  <2>3. V[k + 1].seq + V[k + 1].len = e
    <3>1. CASE i = k
      <4>1. V[k + 1] = b
        BY <1>7, <3>1
      <4> QED  BY <1>1, <1>2, <2>1, <3>1, <4>1, SMTT(30)
    <3>2. CASE i < k
      <4>1. V[k + 1] = L[k]
        BY <1>7, <2>1, <3>2
      <4> QED  BY <2>1, <4>1
    <3> QED  BY <1>1, <3>1, <3>2
  <2> QED  BY <1>1, <1>3, <2>2, <2>3 DEF Spans
<1>14. \A q : StartsAt(L, q) => StartsAt(V, q)
  <2> SUFFICES ASSUME NEW j \in 1..k  PROVE StartsAt(V, L[j].seq)
    BY DEF StartsAt, k
  <2>1. CASE j < i
    <3>1. j \in 1..k + 1 /\ V[j] = L[j]
      BY <1>1, <1>7, <2>1
    <3>2. j \in 1..Len(V) /\ V[j].seq = L[j].seq
      BY <1>3, <3>1
    <3> QED  BY <3>2 DEF StartsAt
  <2>2. CASE j = i
    <3>1. i \in 1..k + 1 
      BY <1>1
    <3>2. V[i].seq = L[j].seq
      BY <1>2, <1>7, <2>2
    <3>3. i \in 1..Len(V)
      BY <1>3, <3>1
    <3> QED  BY <3>2, <3>3 DEF StartsAt
  <2>3. CASE i < j
    <3>1. j + 1 \in 1..k + 1 /\ V[j + 1] = L[j]
      BY <1>1, <1>7, <2>3
    <3> QED  BY <1>3, <3>1 DEF StartsAt
  <2> QED  BY <1>1, <2>1, <2>2, <2>3
<1>15. ListOK(V, u, x, e)
  BY <1>10, <1>11, <1>12, <1>13, <1>14 DEF ListOK
<1>16. \A q : Bound(L, u, x, q) => Bound(V, u, x, q)
  BY <1>14 DEF Bound
<1> QED  BY <1>15, <1>16 DEF V

\* m_slist after segment i was sent once more.
SentOnce(L, i) == [L EXCEPT ![i] = [L[i] EXCEPT !.xmit = L[i].xmit + 1]]

\* Sending a segment changes its count of transmissions only.
LEMMA SentOnceIs ==
  ASSUME NEW L \in Seq(Segment), NEW i \in 1..Len(L)
  PROVE  /\ SentOnce(L, i) \in Seq(Segment) /\ Len(SentOnce(L, i)) = Len(L)
         /\ \A j \in 1..Len(L) :
              /\ SentOnce(L, i)[j].seq = L[j].seq /\ SentOnce(L, i)[j].len = L[j].len
              /\ SentOnce(L, i)[j].ctl = L[j].ctl
              /\ j # i => SentOnce(L, i)[j].xmit = L[j].xmit
         /\ SentOnce(L, i)[i].xmit > 0
<1> DEFINE s == [L[i] EXCEPT !.xmit = L[i].xmit + 1]
<1>1. L[i] \in Segment /\ L[i].xmit + 1 \in Nat /\ L[i].xmit + 1 > 0
  BY ListTypes
<1>2. /\ s \in Segment /\ s.seq = L[i].seq /\ s.len = L[i].len /\ s.ctl = L[i].ctl
      /\ s.xmit = L[i].xmit + 1
  BY <1>1 DEF Segment
<1> HIDE DEF s
<1>3. /\ SentOnce(L, i) \in Seq(Segment) /\ Len(SentOnce(L, i)) = Len(L)
      /\ \A j \in 1..Len(L) : SentOnce(L, i)[j] = IF j = i THEN s ELSE L[j]
  BY <1>2, ExceptSeq DEF SentOnce, s
<1> QED  BY <1>1, <1>2, <1>3

\* Sending a segment that starts at or below m_snd_nxt keeps the list well formed; m_snd_nxt
\* moves over the segment if it is new.
LEMMA SentOnceOK ==
  ASSUME NEW L \in Seq(Segment), NEW u \in Nat, NEW x \in Nat, NEW e \in Nat,
         ListOK(L, u, x, e), NEW i \in 1..Len(L), L[i].seq <= x
  PROVE  LET y == IF L[i].xmit = 0 THEN x + L[i].len ELSE x
         IN /\ y \in Nat /\ x <= y /\ u < y
            /\ y = IF L[i].seq = x THEN L[i].seq + L[i].len ELSE x
            /\ L[i].seq + L[i].len <= y
            /\ ListOK(SentOnce(L, i), u, y, e)
            /\ \A q : Bound(L, u, x, q) => Bound(SentOnce(L, i), u, y, q)
            /\ Bound(SentOnce(L, i), u, y, L[i].seq + L[i].len)
<1> DEFINE y == IF L[i].xmit = 0 THEN x + L[i].len ELSE x
           V == SentOnce(L, i)
           k == Len(L)
<1>1. /\ Len(V) = k /\ V[i].xmit > 0
      /\ \A j \in 1..k : /\ V[j].seq = L[j].seq /\ V[j].len = L[j].len /\ V[j].ctl = L[j].ctl
                         /\ j # i => V[j].xmit = L[j].xmit
  BY SentOnceIs
<1>2. /\ k \in Nat /\ i \in 1..k
      /\ L[i].seq \in Nat /\ L[i].len \in Nat /\ L[i].xmit \in Nat
  BY ListTypes
<1>3. /\ u <= x /\ x <= e /\ (x = e \/ StartsAt(L, x))
      /\ Elements(L, x) /\ Ordered(L) /\ Chained(L) /\ Spans(L, u, e)
  BY DEF ListOK
<1>4. /\ L[i].len > 0 /\ (L[i].xmit > 0 <=> L[i].seq < x)
      /\ L[i].seq < x => L[i].seq + L[i].len <= x
      /\ u <= L[i].seq /\ L[i].seq + L[i].len <= e
      /\ i < k => L[i + 1].seq = L[i].seq + L[i].len
      /\ i = k => L[i].seq + L[i].len = e
  <2>1. L[i].len > 0 /\ (L[i].xmit > 0 <=> L[i].seq < x)
    BY <1>2, <1>3 DEF Elements
  <2> QED  BY <2>1, SentWhole
<1> DEFINE p == L[i].seq
           l == L[i].len
           c == L[i].xmit
<1>5. /\ p \in Nat /\ l \in Nat /\ c \in Nat /\ l > 0 /\ p <= x /\ (c > 0 <=> p < x)
      /\ p < x => p + l <= x
      /\ u <= p /\ p + l <= e
  BY <1>2, <1>4
<1> HIDE DEF V, k, p, l, c
<1>6. /\ y \in Nat /\ x <= y /\ u < y /\ y <= e
      /\ y = IF p = x THEN p + l ELSE x
      /\ p + l <= y /\ p < y
  <2>1. y = IF c = 0 THEN x + l ELSE x
    BY DEF c, l
  <2> HIDE DEF y
  <2> QED  BY <1>3, <1>5, <2>1
<1> HIDE DEF y
<1>7. Elements(V, y)
  <2> SUFFICES ASSUME NEW j \in 1..k
               PROVE  /\ V[j].len > 0
                      /\ V[j].xmit > 0 <=> V[j].seq < y
                      /\ V[j].ctl <=> V[j].seq = 0
                      /\ V[j].ctl => V[j].len = 1
    BY <1>1 DEF Elements
  <2>1. /\ L[j].len > 0 /\ (L[j].ctl <=> L[j].seq = 0) /\ (L[j].ctl => L[j].len = 1)
        /\ (L[j].xmit > 0 <=> L[j].seq < x)
    BY <1>3 DEF Elements, k
  <2>2. CASE j = i
    BY <1>1, <1>6, <2>1, <2>2 DEF p
  <2>3. CASE j # i
    <3>1. L[j].seq \in Nat /\ L[j].len \in Nat /\ j \in Nat
      BY <1>2, ListTypes DEF k
    <3>2. L[j].seq < x <=> L[j].seq < y
      <4>1. CASE p = x
        <5>1. j < i => L[j].seq + L[j].len <= p
          BY <1>3 DEF Ordered, k, p
        <5>2. i < j => p + l <= L[j].seq
          BY <1>3 DEF Ordered, k, p, l
        <5> DEFINE sj == L[j].seq
                   lj == L[j].len
        <5>3. /\ sj \in Nat /\ lj \in Nat /\ lj > 0
              /\ (j < i => sj + lj <= p) /\ (i < j => p + l <= sj)
          BY <3>1, <2>1, <5>1, <5>2
        <5> HIDE DEF sj, lj
        <5>4. sj < x <=> sj < y
          BY <1>2, <1>5, <1>6, <2>3, <3>1, <4>1, <5>3
        <5> QED  BY <5>4 DEF sj
      <4>2. CASE p # x
        BY <1>6, <4>2
      <4> QED  BY <4>1, <4>2
    <3> QED  BY <1>1, <2>1, <2>3, <3>2
  <2> QED  BY <2>2, <2>3
<1>8. Ordered(V) /\ Chained(V) /\ Spans(V, u, e)
  <2>1. Ordered(V)
    BY <1>1, <1>3 DEF Ordered, k
  <2>2. Chained(V)
    <3>1. \A j \in 1..k - 1 : j \in 1..k /\ j + 1 \in 1..k
      BY <1>2
    <3> QED  BY <1>1, <1>3, <3>1 DEF Chained, k
  <2>3. Spans(V, u, e)
    <3>1. 1 \in 1..k /\ k \in 1..k
      BY <1>2
    <3> QED  BY <1>1, <1>3, <3>1 DEF Spans, k
  <2> QED  BY <2>1, <2>2, <2>3
<1>9. \A q : StartsAt(L, q) => StartsAt(V, q)
  BY <1>1 DEF StartsAt, k
<1>10. p + l = e \/ StartsAt(V, p + l)
  <2>1. CASE i = k
    BY <1>4, <2>1 DEF p, l
  <2>2. CASE i # k
    <3>1. i + 1 \in 1..k /\ i < k
      BY <1>2, <2>2
    <3>2. V[i + 1].seq = p + l
      BY <1>1, <1>4, <3>1 DEF p, l
    <3> QED  BY <1>1, <3>1, <3>2 DEF StartsAt
  <2> QED  BY <2>1, <2>2
<1>11. y = e \/ StartsAt(V, y)
  BY <1>3, <1>6, <1>9, <1>10
<1>12. ListOK(V, u, y, e)
  BY <1>3, <1>6, <1>7, <1>8, <1>11 DEF ListOK
<1>13. StartsAt(V, x) \/ x = y
  <2>1. StartsAt(V, p)
    BY <1>1, <1>2 DEF StartsAt, p
  <2> QED  BY <1>6, <2>1
<1>14. \A q : Bound(L, u, x, q) => Bound(V, u, y, q)
  BY <1>9, <1>13 DEF Bound
<1>15. Bound(V, u, y, p + l)
  <2>1. p + l = e => p + l = y
    BY <1>3, <1>5, <1>6
  <2> QED  BY <1>10, <2>1 DEF Bound
<1> QED  BY <1>6, <1>12, <1>14, <1>15 DEF V, p, l, y

\* An acknowledgement of whole segments leaves the segments from there on.
LEMMA UnacknowledgedOK ==
  ASSUME NEW L \in Seq(Segment), NEW u \in Nat, NEW x \in Nat, NEW e \in Nat,
         ListOK(L, u, x, e), NEW a \in Nat, u < a, a <= x, Bound(L, u, x, a)
  PROVE  /\ Unacknowledged(L, a - u) \in Seq(Segment)
         /\ ListOK(Unacknowledged(L, a - u), a, x, e)
         /\ \A q \in Nat : Bound(L, u, x, q) => Bound(Unacknowledged(L, a - u), a, x, q)
<1> DEFINE k == Len(L)
           before(i) == IF i = 1 THEN 0 ELSE L[i].seq - L[1].seq
           First(i) == /\ i <= k => before(i) + L[i].len > a - u
                       /\ \A j \in 1..i - 1 : before(j) + L[j].len <= a - u
           first == CHOOSE i \in 1..k + 1 : First(i)
           V == SubSeq(L, first, k)
<1>1. /\ u <= x /\ x <= e /\ (x = e \/ StartsAt(L, x))
      /\ Elements(L, x) /\ Ordered(L) /\ Chained(L) /\ Spans(L, u, e)
  BY DEF ListOK
<1>2. k \in Nat /\ k # 0 /\ 1 \in 1..k /\ L[1].seq = u
  <2>1. k \in Nat
    BY ListTypes
  <2>2. k # 0
    BY <1>1 DEF Spans
  <2> QED  BY <1>1, <2>1, <2>2 DEF Spans
<1>3. \A i \in 1..k : before(i) + L[i].len = (L[i].seq + L[i].len) - u /\ before(i) = L[i].seq - u
  <2> SUFFICES ASSUME NEW i \in 1..k
               PROVE  before(i) + L[i].len = (L[i].seq + L[i].len) - u /\ before(i) = L[i].seq - u
    OBVIOUS
  <2>1. L[i].seq \in Nat /\ L[i].len \in Nat
    BY ListTypes
  <2>2. before(i) = L[i].seq - u
    BY <1>2, <2>1
  <2> HIDE DEF before
  <2> QED  BY <2>1, <2>2
<1>4. \A i \in 1..k : /\ before(i) + L[i].len > a - u <=> L[i].seq + L[i].len > a
                      /\ before(i) + L[i].len <= a - u <=> L[i].seq + L[i].len <= a
  <2> SUFFICES ASSUME NEW i \in 1..k
               PROVE  /\ before(i) + L[i].len > a - u <=> L[i].seq + L[i].len > a
                      /\ before(i) + L[i].len <= a - u <=> L[i].seq + L[i].len <= a
    OBVIOUS
  <2> DEFINE m == L[i].seq + L[i].len
  <2>1. L[i].seq \in Nat /\ L[i].len \in Nat
    BY ListTypes
  <2>2. m \in Nat /\ before(i) + L[i].len = m - u
    <3>1. m \in Nat
      BY <2>1, SMTT(30)
    <3> HIDE DEF before
    <3>2. before(i) + L[i].len = m - u
      BY <1>3
    <3> QED  BY <3>1, <3>2
  <2> HIDE DEF m, before
  <2>3. (m - u > a - u <=> m > a) /\ (m - u <= a - u <=> m <= a)
    BY <2>2
  <2> QED  BY <2>2, <2>3 DEF m
\* The first segment left is the one that starts at a, if one does.
<1>5. PICK f \in 1..k + 1 :
         /\ f <= k => L[f].seq = a
         /\ f = k + 1 => a = e
         /\ \A j \in 1..k : j < f => L[j].seq + L[j].len <= a
  <2>1. CASE StartsAt(L, a)
    <3>1. PICK f \in 1..k : L[f].seq = a
      BY <2>1 DEF StartsAt
    <3> QED  BY <1>1, <1>2, <3>1 DEF Ordered
  <2>2. CASE a = e
    <3>1. \A j \in 1..k : L[j].seq + L[j].len <= a
      BY <2>2, SentWhole
    <3> QED  BY <1>2, <2>2, <3>1
  <2>3. StartsAt(L, a) \/ a = e
    <3>1. ~(a <= u)
      OBVIOUS
    <3> QED  BY <1>1, <3>1 DEF Bound
  <2> QED  BY <2>1, <2>2, <2>3
<1>6. f <= k => f \in 1..k /\ L[f].seq + L[f].len > a
  <2> SUFFICES ASSUME f <= k  PROVE f \in 1..k /\ L[f].seq + L[f].len > a
    OBVIOUS
  <2>1. f \in 1..k
    BY <1>2
  <2>2. L[f].len > 0 /\ L[f].len \in Nat
    BY <1>1, <2>1, ListTypes DEF Elements
  <2>3. L[f].seq = a
    BY <1>5
  <2> QED  BY <2>1, <2>2, <2>3
<1>7. First(f)
  <2>1. \A j \in 1..f - 1 : j \in 1..k /\ j < f
    BY <1>2
  <2> QED  BY <1>4, <1>5, <1>6, <2>1
<1>8. \A i \in 1..k + 1 : First(i) => i = f
  <2> SUFFICES ASSUME NEW i \in 1..k + 1, First(i), i # f  PROVE FALSE
    OBVIOUS
  <2>1. CASE i < f
    <3>1. i \in 1..k /\ i <= k
      BY <1>2, <2>1
    <3>2. L[i].seq + L[i].len > a
      BY <1>4, <3>1
    <3>3. L[i].seq + L[i].len <= a
      BY <1>5, <2>1, <3>1
    <3>4. L[i].seq + L[i].len \in Nat
      BY <3>1, ListTypes, SMTT(30)
    <3> QED  BY <3>2, <3>3, <3>4
  <2>2. CASE f < i
    <3>1. f \in 1..k /\ f <= k /\ f \in 1..i - 1
      BY <1>2, <2>2
    <3>2. L[f].seq + L[f].len <= a
      BY <1>4, <3>1
    <3>3. L[f].seq + L[f].len > a
      BY <1>6, <3>1
    <3>4. L[f].seq + L[f].len \in Nat
      BY <3>1, ListTypes
    <3> QED  BY <3>2, <3>3, <3>4
  <2> QED  BY <1>2, <2>1, <2>2
<1>9. first = f
  <2> HIDE DEF First
  <2> QED  BY <1>7, <1>8
<1>10. Unacknowledged(L, a - u) =
         IF V = <<>> \/ before(first) = a - u THEN V
         ELSE [V EXCEPT ![1].len = @ - ((a - u) - before(first))]
  BY DEF Unacknowledged
<1> HIDE DEF First, first
<1>11. /\ V \in Seq(Segment) /\ Len(V) = k - f + 1
       /\ \A j \in 1..k - f + 1 : V[j] = L[f + j - 1]
  <2>1. \A j \in f..k : L[j] \in Segment
    BY <1>2, ListTypes
  <2>2. /\ V \in Seq(Segment)
        /\ Len(V) = IF f <= k THEN k - f + 1 ELSE 0
        /\ \A j \in 1..k - f + 1 : V[j] = L[f + j - 1]
    BY <1>2, <1>9, <2>1, SubSeqProperties
  <2>3. (IF f <= k THEN k - f + 1 ELSE 0) = k - f + 1
    BY <1>2
  <2> HIDE DEF V
  <2> QED  BY <2>2, <2>3
<1>12. Unacknowledged(L, a - u) = V
  <2>1. CASE f <= k
    <3>1. before(f) = a - u
      BY <1>3, <1>5, <1>6, <2>1
    <3> QED  BY <1>9, <1>10, <3>1
  <2>2. CASE f = k + 1
    <3>1. Len(V) = 0
      BY <1>2, <1>11, <2>2
    <3>2. V = <<>>
      BY <1>11, <3>1, EmptySeq
    <3> QED  BY <1>10, <3>2
  <2> QED  BY <1>2, <2>1, <2>2
<1> HIDE DEF V, before
<1> DEFINE n == k - f + 1
<1>13. n \in Nat /\ Len(V) = n /\ \A j \in 1..n : f + j - 1 \in 1..k /\ V[j] = L[f + j - 1]
  <2>1. n \in Nat /\ \A j \in 1..n : f + j - 1 \in 1..k
    BY <1>2
  <2> QED  BY <1>11, <2>1
<1>14. Elements(V, x)
  BY <1>1, <1>13 DEF Elements
<1>15. Ordered(V)
  <2>1. \A i, j \in 1..n : i < j => f + i - 1 < f + j - 1
    BY <1>2
  <2> HIDE DEF n
  <2> QED  BY <1>1, <1>13, <2>1 DEF Ordered
<1>16. Chained(V)
  <2> SUFFICES ASSUME NEW j \in 1..n - 1  PROVE V[j + 1].seq = V[j].seq + V[j].len
    BY <1>13 DEF Chained
  <2>1. /\ j \in 1..n /\ j + 1 \in 1..n /\ f + j - 1 \in 1..k - 1
        /\ f + (j + 1) - 1 = (f + j - 1) + 1
    BY <1>2
  <2> HIDE DEF n
  <2>2. V[j] = L[f + j - 1] /\ V[j + 1] = L[(f + j - 1) + 1]
    BY <1>13, <2>1
  <2> QED  BY <1>1, <2>1, <2>2 DEF Chained
<1>17. Spans(V, a, e)
  <2>1. CASE f = k + 1
    <3>1. n = 0
      BY <1>2, <2>1
    <3> QED  BY <1>5, <1>13, <2>1, <3>1 DEF Spans
  <2>2. CASE f <= k
    <3>1. n # 0 /\ 1 \in 1..n /\ n \in 1..n /\ f + 1 - 1 = f /\ f + n - 1 = k
      BY <1>2, <2>2
    <3> HIDE DEF n
    <3>2. V[1] = L[f] /\ V[n] = L[k]
      BY <1>13, <3>1
    <3> QED  BY <1>1, <1>2, <1>5, <1>13, <2>2, <3>1, <3>2 DEF Spans
  <2> QED  BY <1>2, <2>1, <2>2
<1>18. \A q \in Nat : StartsAt(L, q) => q <= a \/ StartsAt(V, q)
  <2> SUFFICES ASSUME NEW q \in Nat, NEW i \in 1..k, L[i].seq = q  PROVE q <= a \/ StartsAt(V, q)
    BY DEF StartsAt
  <2>1. CASE i < f
    <3>1. L[i].seq + L[i].len <= a /\ L[i].len \in Nat
      BY <1>5, <2>1, ListTypes
    <3>2. q <= a
      BY <3>1, LeqParts
    <3> QED  BY <3>2
  <2>2. CASE i >= f
    <3>1. i - f + 1 \in 1..n /\ f + (i - f + 1) - 1 = i
      BY <1>2, <2>2
    <3> HIDE DEF n
    <3>2. V[i - f + 1].seq = q
      BY <1>13, <3>1
    <3> QED  BY <1>13, <3>1, <3>2 DEF StartsAt
  <2> QED  BY <1>2, <2>1, <2>2
<1>19. x = e \/ StartsAt(V, x)
  <2>1. CASE StartsAt(V, a)
    BY <1>1, <1>18, <2>1
  <2>2. CASE ~StartsAt(V, a)
    <3>1. f = k + 1
      <4> SUFFICES ASSUME f <= k  PROVE FALSE
        BY <1>2
      <4>1. 1 \in 1..n /\ f + 1 - 1 = f
        BY <1>2
      <4> HIDE DEF n
      <4> QED  BY <1>5, <1>13, <2>2, <4>1 DEF StartsAt
    <3> QED  BY <1>1, <1>5, <3>1
  <2> QED  BY <2>1, <2>2
<1>20. ListOK(V, a, x, e)
  BY <1>1, <1>14, <1>15, <1>16, <1>17, <1>19 DEF ListOK
<1>21. \A q \in Nat : Bound(L, u, x, q) => Bound(V, a, x, q)
  BY <1>18 DEF Bound
<1> QED  BY <1>11, <1>12, <1>20, <1>21

----------------------------------------------------------------------------
(* What holds between the two ends, and what keeps it.                     *)

\* m_slist is well formed; q is a boundary of it.
Segments(t) == ListOK(t.slist, t.una, t.nxt, t.end)
Bounds(t, q) == Bound(t.slist, t.una, t.nxt, q)

\* What holds of an end as a sender: its list is well formed, what is queued fits m_sbuf, and
\* the retransmission timer runs exactly while something is in flight.
Sender(t) ==
  /\ Segments(t)
  /\ t.end <= t.una + SndBuf /\ t.mss > 0 /\ t.recover <= t.nxt
  /\ t.rto <=> t.una < t.nxt
\* What holds of an end as a receiver: the window offered is within the room in m_rbuf, and with
\* what was received it is never less than a whole buffer.
Receiver(t) ==
  /\ 0 <= t.rwnd /\ t.rwnd <= RcvBuf - t.dlen /\ RcvBuf <= t.rcv + t.rwnd /\ t.rpos < RcvBuf

\* What holds between a sender s and the receiver r of what it sends: the receiver is between
\* what is acknowledged and what was sent, at a boundary, nothing was sent beyond the window it
\* offers, and what it holds early was sent and ends at a boundary.
Link(s, r) ==
  /\ s.una <= r.rcv /\ r.rcv <= s.nxt /\ Bounds(s, r.rcv)
  /\ s.nxt <= r.rcv + r.rwnd /\ s.una + s.wnd <= r.rcv + r.rwnd
  /\ \A g \in r.rlist : g.len > 0 /\ g.seq + g.len <= s.nxt /\ Bounds(s, g.seq + g.len)

\* An end with the object t and its peer with r.
Good(t, r) == /\ t \in Tcb /\ r \in Tcb
              /\ Sender(t) /\ Receiver(t) /\ Link(t, r) /\ Link(r, t)

\* What a step may never take back, for the packets still in the network depend on it: a
\* boundary, what was sent or received, and the right edge of the window.
Grows(t, u) == /\ \A q \in Nat : Bounds(t, q) => Bounds(u, q)
               /\ t.nxt <= u.nxt /\ t.rcv <= u.rcv /\ t.rcv + t.rwnd <= u.rcv + u.rwnd

\* What holds of a packet from s to r, however late it comes: its data was sent and ends at a
\* boundary, it is the connect message exactly if it starts the stream, and it acknowledges and
\* offers no more than s has by now.
PacketOK(p, s, r) ==
  /\ p.len > 0 => /\ p.seq >= 0 /\ p.seq + p.len <= s.nxt /\ Bounds(s, p.seq + p.len)
                  /\ p.ctl <=> p.seq = 0
                  /\ p.ctl => p.len = 1
  /\ p.ctl => p.len > 0
  /\ p.ack <= s.rcv /\ p.ack + p.wnd <= s.rcv + s.rwnd /\ Bounds(r, p.ack)

\* The types of the fields.
LEMMA TcbTypes ==
  ASSUME NEW t \in Tcb
  PROVE  /\ t.una \in Nat /\ t.nxt \in Nat /\ t.end \in Nat /\ t.wnd \in Nat
         /\ t.slist \in Seq(Segment) /\ t.rto \in BOOLEAN /\ t.dup \in 0..4 /\ t.recover \in Nat
         /\ t.mss \in Nat /\ t.rcv \in Nat /\ t.rwnd \in Int /\ t.tack \in BOOLEAN
         /\ t.rlist \in SUBSET [seq: Nat, len: Nat] /\ t.acked \in Nat /\ t.rpos \in Nat
         /\ t.dlen \in Nat /\ t.readable \in BOOLEAN /\ t.writeable \in BOOLEAN
         /\ t.state \in States /\ t.todo \in Todos /\ t.shutdown \in BOOLEAN
         /\ t.cell \in [0..RcvBuf - 1 -> Int]
BY DEF Tcb

\* Growing is transitive.
LEMMA GrowsTrans ==
  ASSUME NEW t \in Tcb, NEW u \in Tcb, NEW v \in Tcb, Grows(t, u), Grows(u, v)
  PROVE  Grows(t, v)
BY TcbTypes, SMTT(30) DEF Grows

\* Growing is reflexive.
LEMMA GrowsRefl == ASSUME NEW t \in Tcb PROVE Grows(t, t)
BY TcbTypes DEF Grows

\* What belongs to one direction depends only on its fields.
LEMMA SameGood ==
  ASSUME NEW t, NEW r, NEW u \in Tcb, Good(t, r),
         SameProgress(t, u), SameList(t, u), SameReceiver(t, u)
  PROVE  Good(u, r) /\ Grows(t, u)
<1>1. t \in Tcb /\ r \in Tcb
  BY DEF Good
<1>2. \A q : Bounds(t, q) <=> Bounds(u, q)
  BY DEF Bounds, SameProgress, SameList
<1>3. Grows(t, u)
  <2>1. t.nxt = u.nxt /\ t.rcv = u.rcv /\ t.rwnd = u.rwnd
    BY DEF SameProgress, SameReceiver
  <2> QED  BY <1>1, <1>2, <2>1, TcbTypes DEF Grows
<1>4. Sender(u)
  BY DEF Good, Sender, Segments, SameProgress, SameList
<1>5. Receiver(u)
  BY DEF Good, Receiver, SameReceiver
<1>6. Link(u, r)
  BY <1>2 DEF Good, Link, SameProgress
<1>7. Link(r, u)
  BY DEF Good, Link, SameReceiver
<1> QED  BY <1>1, <1>3, <1>4, <1>5, <1>6, <1>7 DEF Good

\* A change of the sender's part that keeps it well formed, its boundaries, and the window.
LEMMA SenderGood ==
  ASSUME NEW t, NEW r, NEW u \in Tcb, Good(t, r), SameReceiver(t, u),
         Sender(u), t.nxt <= u.nxt,
         \A q \in Nat : Bounds(t, q) => Bounds(u, q),
         u.una <= r.rcv, u.nxt <= r.rcv + r.rwnd, u.una + u.wnd <= r.rcv + r.rwnd
  PROVE  Good(u, r) /\ Grows(t, u)
<1>1. t \in Tcb /\ r \in Tcb /\ Receiver(u) /\ Link(r, u)
  BY DEF Good, Receiver, Link, SameReceiver, Bounds
<1>2. Grows(t, u)
  BY <1>1, TcbTypes DEF Grows, SameReceiver
<1>3. Link(u, r)
  <2>1. \A g \in r.rlist : g.seq \in Nat /\ g.len \in Nat /\ g.seq + g.len \in Nat
    BY <1>1, TcbTypes
  <2>2. /\ r.rcv <= t.nxt /\ Bounds(t, r.rcv)
        /\ \A g \in r.rlist : g.len > 0 /\ g.seq + g.len <= t.nxt /\ Bounds(t, g.seq + g.len)
    BY DEF Good, Link
  <2>3. r.rcv <= u.nxt /\ Bounds(u, r.rcv)
    BY <1>1, <2>2, TcbTypes
  <2>4. \A g \in r.rlist : g.seq + g.len <= u.nxt
    <3>1. \A x, y, z \in Nat : x <= y /\ y <= z => x <= z
      OBVIOUS
    <3>2. t.nxt \in Nat /\ u.nxt \in Nat
      BY <1>1, TcbTypes
    <3> QED  BY <2>1, <2>2, <3>1, <3>2
  <2>5. \A g \in r.rlist : Bounds(u, g.seq + g.len)
    BY <2>1, <2>2
  <2> QED  BY <2>2, <2>3, <2>4, <2>5 DEF Link
<1> QED  BY <1>1, <1>2, <1>3 DEF Good

\* queue keeps an end good.
LEMMA QueueGood ==
  ASSUME NEW t, NEW r, Good(t, r), NEW n \in Nat, n > 0, NEW c \in BOOLEAN,
         c <=> t.end = 0, c => n = 1, t.end + n <= t.una + SndBuf
  PROVE  LET u == Queue(t, n, c)
         IN Good(u, r) /\ Grows(t, u)
<1> DEFINE u == Queue(t, n, c)
<1>1. t \in Tcb /\ Sender(t) /\ Segments(t)
  BY DEF Good, Sender
<1>2. PICK L \in {OneMore(t.slist, t.end, n, c), LongerLast(t.slist, n)} :
         /\ Relisted(t, u, L, t.end + n)
         /\ ListOK(L, t.una, t.nxt, t.end + n)
         /\ \A q : Bound(t.slist, t.una, t.nxt, q) => Bound(L, t.una, t.nxt, q)
  <2>1. CASE Relisted(t, u, OneMore(t.slist, t.end, n, c), t.end + n)
    BY <1>1, <2>1, OneMoreOK, TcbTypes DEF Segments
  <2>2. CASE /\ t.slist # <<>> /\ t.slist[Len(t.slist)].ctl = c
             /\ t.slist[Len(t.slist)].xmit = 0
             /\ Relisted(t, u, LongerLast(t.slist, n), t.end + n)
    BY <1>1, <2>2, LongerLastOK, TcbTypes DEF Segments
  <2> QED  BY <1>1, <2>1, <2>2, QueueIs
<1> HIDE DEF u
<1>3. /\ u \in Tcb /\ SameReceiver(t, u) /\ SameProgress(t, u)
      /\ u.slist = L /\ u.end = t.end + n
  BY <1>2 DEF Relisted
<1>4. Sender(u)
  BY <1>1, <1>2, <1>3 DEF Sender, Segments, SameProgress
<1>5. \A q \in Nat : Bounds(t, q) => Bounds(u, q)
  BY <1>2, <1>3 DEF Bounds, SameProgress
<1>6. t.nxt <= u.nxt /\ u.una <= r.rcv /\ u.nxt <= r.rcv + r.rwnd /\ u.una + u.wnd <= r.rcv + r.rwnd
  <2>1. u.nxt = t.nxt /\ u.una = t.una /\ u.wnd = t.wnd /\ t.nxt \in Nat
    BY <1>1, <1>3, TcbTypes DEF SameProgress
  <2>2. t.una <= r.rcv /\ t.nxt <= r.rcv + r.rwnd /\ t.una + t.wnd <= r.rcv + r.rwnd
    BY DEF Good, Link
  <2> QED  BY <2>1, <2>2
<1> QED  BY <1>3, <1>4, <1>5, <1>6, SenderGood DEF u

\* Splitting a segment keeps an end good.
LEMMA SplitAtGood ==
  ASSUME NEW t, NEW r, Good(t, r), NEW i \in 1..Len(t.slist), NEW n \in Nat, n > 0
  PROVE  LET u == SplitAt(t, i, n)
         IN /\ Good(u, r) /\ Grows(t, u)
            /\ u = t \/ Relisted(t, u, SplitList(t.slist, i, n), t.end)
            /\ i \in 1..Len(u.slist) /\ u.slist[i].seq = t.slist[i].seq
            /\ u.slist[i].len = Min2(t.slist[i].len, n)
            /\ u.slist[i].xmit = t.slist[i].xmit /\ u.slist[i].ctl = t.slist[i].ctl
<1> DEFINE u == SplitAt(t, i, n)
<1>1. /\ t \in Tcb /\ Sender(t) /\ Segments(t) /\ t.slist \in Seq(Segment)
      /\ t.slist[i] \in Segment /\ t.slist[i].len \in Nat /\ Len(t.slist) \in Nat
  BY TcbTypes, ListTypes DEF Good, Sender
<1>2. CASE ~(n < t.slist[i].len)
  <2>1. u = t
    BY <1>1, <1>2, SplitAtIs
  <2>2. Min2(t.slist[i].len, n) = t.slist[i].len
    BY <1>1, <1>2 DEF Min2
  <2> QED  BY <1>1, <2>1, <2>2, GrowsRefl
<1>3. CASE n < t.slist[i].len
  <2> DEFINE L == SplitList(t.slist, i, n)
  <2>1. Relisted(t, u, L, t.end)
    BY <1>1, <1>3, SplitAtIs
  <2>2. /\ ListOK(L, t.una, t.nxt, t.end)
        /\ \A q : Bound(t.slist, t.una, t.nxt, q) => Bound(L, t.una, t.nxt, q)
    BY <1>1, <1>3, SplitListOK, TcbTypes DEF Segments
  <2>3. /\ i \in 1..Len(L) /\ L[i].seq = t.slist[i].seq /\ L[i].len = n
        /\ L[i].xmit = t.slist[i].xmit /\ L[i].ctl = t.slist[i].ctl
    <3>1. Len(L) = Len(t.slist) + 1
      BY <1>1, <1>3, SplitListIs
    <3>2. i \in 1..Len(t.slist) + 1 /\ ~(i < i) /\ i \in Nat
      BY <1>1
    <3>3. L[i] = FirstPart(t.slist[i], n)
      BY <1>1, <1>3, <3>2, SplitListIs
    <3> QED  BY <1>1, <1>3, <3>1, <3>2, <3>3, PartsAre
  <2> HIDE DEF L, u
  <2>4. /\ u \in Tcb /\ SameReceiver(t, u) /\ SameProgress(t, u)
        /\ u.slist = L /\ u.end = t.end
    BY <2>1 DEF Relisted
  <2>5. Sender(u)
    BY <1>1, <2>2, <2>4 DEF Sender, Segments, SameProgress
  <2>6. \A q \in Nat : Bounds(t, q) => Bounds(u, q)
    BY <2>2, <2>4 DEF Bounds, SameProgress
  <2>7. t.nxt <= u.nxt /\ u.una <= r.rcv /\ u.nxt <= r.rcv + r.rwnd
        /\ u.una + u.wnd <= r.rcv + r.rwnd
    <3>1. /\ t.una <= r.rcv /\ t.nxt <= r.rcv + r.rwnd /\ t.una + t.wnd <= r.rcv + r.rwnd
          /\ t.nxt \in Nat
      BY <1>1, TcbTypes DEF Good, Link
    <3>2. u.una = t.una /\ u.nxt = t.nxt /\ u.wnd = t.wnd
      BY <2>4 DEF SameProgress
    <3> QED  BY <3>1, <3>2
  <2>8. Good(u, r) /\ Grows(t, u)
    BY <2>4, <2>5, <2>6, <2>7, SenderGood
  <2>9. Min2(t.slist[i].len, n) = n
    BY <1>1, <1>3 DEF Min2
  <2> QED  BY <2>1, <2>3, <2>4, <2>8, <2>9 DEF u, L
<1> QED  BY <1>2, <1>3

\* m_mss after WR_TOO_LARGE is positive and at most what it was or the network takes.
LEMMA FittingMssIs ==
  ASSUME NEW t \in Tcb, t.mss > 0, NEW i \in 1..Len(t.slist)
  PROVE  /\ FittingMss(t, i) \in Nat /\ FittingMss(t, i) > 0
         /\ Min2(t.slist[i].len, FittingMss(t, i)) <= t.slist[i].len
<1>1. t.mss \in Nat /\ PathMss \in Nat /\ PathMss > 0
  BY TcbTypes, ConstantsOK
<1>2. t.slist[i].len \in Nat
  BY TcbTypes, ListTypes
<1>3. FittingMss(t, i) = PathMss \/ FittingMss(t, i) = t.mss
  BY DEF FittingMss
<1> QED  BY <1>1, <1>2, <1>3 DEF Min2

\* Changing m_mss changes nothing else.
LEMMA WithMss ==
  ASSUME NEW t \in Tcb, NEW m \in Nat
  PROVE  LET u == [t EXCEPT !.mss = m]
         IN /\ u \in Tcb /\ u.mss = m /\ u.state = t.state /\ u.todo = t.todo /\ u.dup = t.dup
            /\ u.una = t.una /\ u.nxt = t.nxt /\ u.wnd = t.wnd /\ u.rto = t.rto
            /\ u.recover = t.recover /\ u.writeable = t.writeable
            /\ SameList(t, u) /\ SameReceiver(t, u) /\ SameAcks(t, u)
BY DEF Tcb, SameList, SameReceiver, SameAcks

\* A change of m_mss and of the state keeps an end good.
LEMMA MssGood ==
  ASSUME NEW t, NEW r, NEW u \in Tcb, Good(t, r), u.mss > 0,
         u.una = t.una, u.nxt = t.nxt, u.wnd = t.wnd, u.rto = t.rto, u.recover = t.recover,
         SameList(t, u), SameReceiver(t, u)
  PROVE  Good(u, r) /\ Grows(t, u)
<1>1. t \in Tcb /\ r \in Tcb
  BY DEF Good
<1>2. Sender(u)
  BY DEF Good, Sender, Segments, SameList
<1>3. \A q : Bounds(t, q) => Bounds(u, q)
  BY DEF Bounds, SameList
<1>4. t.una <= r.rcv /\ t.nxt <= r.rcv + r.rwnd /\ t.una + t.wnd <= r.rcv + r.rwnd /\ t.nxt <= t.nxt
  BY <1>1, TcbTypes DEF Good, Link
<1> QED  BY <1>1, <1>2, <1>3, <1>4, SenderGood

\* The object after the packet is sent: u is t with segment i split.
Retired(u, i) ==
  [Acknowledged(u) EXCEPT !.slist[i].xmit = @ + 1,
                          !.nxt = IF u.slist[i].xmit = 0 THEN @ + u.slist[i].len ELSE @,
                          !.rto = TRUE]

\* What transmit changes, field by field.
LEMMA RetiredIs ==
  ASSUME NEW t \in Tcb, NEW i \in 1..Len(t.slist)
  PROVE  LET u == Retired(t, i)
         IN /\ u \in Tcb /\ u.slist = SentOnce(t.slist, i)
            /\ u.nxt = IF t.slist[i].xmit = 0 THEN t.nxt + t.slist[i].len ELSE t.nxt
            /\ u.rto = TRUE /\ u.acked = t.rcv /\ u.tack = FALSE
            /\ u.una = t.una /\ u.end = t.end /\ u.wnd = t.wnd /\ u.recover = t.recover
            /\ u.mss = t.mss /\ u.writeable = t.writeable /\ u.dup = t.dup
            /\ u.state = t.state /\ u.todo = t.todo /\ SameReceiver(t, u)
<1> DEFINE w == Acknowledged(t)
           L == SentOnce(t.slist, i)
           y == IF t.slist[i].xmit = 0 THEN t.nxt + t.slist[i].len ELSE t.nxt
           v == [w EXCEPT !.slist = L, !.nxt = y, !.rto = TRUE]
<1>1. /\ w \in Tcb /\ w.slist = t.slist /\ w.nxt = t.nxt /\ w.acked = t.rcv /\ w.tack = FALSE
      /\ w.una = t.una /\ w.end = t.end /\ w.wnd = t.wnd /\ w.recover = t.recover
      /\ w.mss = t.mss /\ w.writeable = t.writeable /\ w.dup = t.dup
      /\ w.state = t.state /\ w.todo = t.todo /\ SameReceiver(t, w)
  BY AcknowledgedIs DEF SameProgress, SameList
<1> HIDE DEF w
<1>2. L \in Seq(Segment) /\ y \in Nat
  <2>1. t.slist \in Seq(Segment) /\ t.nxt \in Nat
    BY TcbTypes
  <2>2. t.slist[i].xmit \in Nat /\ t.slist[i].len \in Nat
    BY <2>1, ListTypes
  <2> QED  BY <2>1, <2>2, SentOnceIs
<1>3. Retired(t, i) = v
  <2>1. i \in DOMAIN w.slist /\ w.slist[i] \in Segment
    BY <1>1, TcbTypes, ListTypes, LenProperties
  <2>2. Retired(t, i) = [w EXCEPT !.slist[i].xmit = @ + 1,
                                  !.nxt = IF t.slist[i].xmit = 0 THEN @ + t.slist[i].len ELSE @,
                                  !.rto = TRUE]
    BY DEF Retired, w
  <2> QED  BY <1>1, <2>1, <2>2 DEF Tcb, SentOnce, Segment
<1> HIDE DEF L, y
<1>4. /\ v \in Tcb /\ v.slist = L /\ v.nxt = y /\ v.rto = TRUE
      /\ v.acked = w.acked /\ v.tack = w.tack
      /\ v.una = w.una /\ v.end = w.end /\ v.wnd = w.wnd /\ v.recover = w.recover
      /\ v.mss = w.mss /\ v.writeable = w.writeable /\ v.dup = w.dup
      /\ v.state = w.state /\ v.todo = w.todo /\ SameReceiver(w, v)
  BY <1>1, <1>2 DEF Tcb, SameReceiver
<1> HIDE DEF v
<1>5. SameReceiver(t, v)
  BY <1>1, <1>4 DEF SameReceiver
<1> QED  BY <1>1, <1>3, <1>4, <1>5 DEF L, y

\* Sending a segment that fits the window keeps an end good.
LEMMA RetiredGood ==
  ASSUME NEW t, NEW r, Good(t, r), NEW i \in 1..Len(t.slist), t.slist[i].seq <= t.nxt,
         t.slist[i].seq = t.nxt => t.nxt + t.slist[i].len <= r.rcv + r.rwnd
  PROVE  LET u == Retired(t, i)
         IN /\ Good(u, r) /\ Grows(t, u)
            /\ t.slist[i].seq + t.slist[i].len <= u.nxt
            /\ Bounds(u, t.slist[i].seq + t.slist[i].len)
<1> DEFINE u == Retired(t, i)
           L == t.slist
           y == IF L[i].xmit = 0 THEN t.nxt + L[i].len ELSE t.nxt
<1>1. t \in Tcb /\ r \in Tcb /\ Sender(t) /\ L \in Seq(Segment)
  BY TcbTypes DEF Good, Sender
<1>2. /\ u \in Tcb /\ u.slist = SentOnce(L, i) /\ u.nxt = y
      /\ u.rto = TRUE /\ u.acked = t.rcv /\ u.tack = FALSE
      /\ u.una = t.una /\ u.end = t.end /\ u.wnd = t.wnd /\ u.recover = t.recover
      /\ u.mss = t.mss /\ SameReceiver(t, u)
  BY <1>1, RetiredIs
<1> HIDE DEF u
<1>3. /\ y \in Nat /\ t.nxt <= y /\ t.una < y
      /\ y = IF L[i].seq = t.nxt THEN L[i].seq + L[i].len ELSE t.nxt
      /\ L[i].seq + L[i].len <= y
      /\ ListOK(SentOnce(L, i), t.una, y, t.end)
      /\ \A q : Bound(L, t.una, t.nxt, q) => Bound(SentOnce(L, i), t.una, y, q)
      /\ Bound(SentOnce(L, i), t.una, y, L[i].seq + L[i].len)
  BY <1>1, SentOnceOK, TcbTypes DEF Sender, Segments
<1>4. /\ t.una <= r.rcv /\ t.nxt <= r.rcv + r.rwnd /\ t.una + t.wnd <= r.rcv + r.rwnd
  BY DEF Good, Link
<1>5. y <= r.rcv + r.rwnd
  BY <1>3, <1>4
<1> HIDE DEF y, L
<1>6. Sender(u)
  <2>1. t.recover <= u.nxt
    <3>1. t.recover <= t.nxt /\ t.recover \in Nat /\ t.nxt \in Nat
      BY <1>1, TcbTypes DEF Sender
    <3> QED  BY <1>2, <1>3, <3>1
  <2>2. Segments(u)
    BY <1>2, <1>3 DEF Segments
  <2>3. u.end <= u.una + SndBuf /\ u.mss > 0
    BY <1>1, <1>2 DEF Sender
  <2>4. u.rto <=> u.una < u.nxt
    BY <1>2, <1>3
  <2> QED  BY <1>2, <2>1, <2>2, <2>3, <2>4 DEF Sender
<1>7. \A q \in Nat : Bounds(t, q) => Bounds(u, q)
  BY <1>2, <1>3 DEF Bounds, L
<1>8. Good(u, r) /\ Grows(t, u)
  BY <1>2, <1>3, <1>4, <1>5, <1>6, <1>7, SenderGood
<1> QED  BY <1>2, <1>3, <1>8 DEF u, L, Bounds

\* What the properties need to know of transmit: segment i goes, or its first part.
LEMMA TransmittedGood ==
  ASSUME NEW t, NEW r, Good(t, r), NEW i \in 1..Len(t.slist), t.slist[i].seq <= t.nxt,
         t.slist[i].seq = t.nxt => t.nxt + t.slist[i].len <= r.rcv + r.rwnd
  PROVE  LET u == Transmitted(t, i)
             n == Min2(t.slist[i].len, FittingMss(t, i))
         IN /\ Good(u, r) /\ Grows(t, u)
            /\ t.slist[i].seq + n <= u.nxt /\ Bounds(u, t.slist[i].seq + n) /\ n > 0 /\ n \in Nat
            /\ u.una = t.una /\ u.end = t.end /\ u.wnd = t.wnd
            /\ u.acked = t.rcv /\ u.tack = FALSE /\ SameReceiver(t, u)
            /\ u.writeable = t.writeable /\ u.state = t.state /\ u.todo = t.todo
<1> DEFINE m == FittingMss(t, i)
           t1 == [t EXCEPT !.mss = m]
           v == SplitAt(t1, i, m)
           n == Min2(t.slist[i].len, m)
<1>1. t \in Tcb /\ t.mss > 0 /\ t.slist \in Seq(Segment) /\ t.slist[i].len \in Nat
      /\ t.slist[i].seq \in Nat /\ t.slist[i].len > 0
  <2>1. t \in Tcb /\ t.mss > 0 /\ t.slist \in Seq(Segment)
    BY TcbTypes DEF Good, Sender
  <2>2. t.slist[i].len > 0
    BY DEF Good, Sender, Segments, ListOK, Elements
  <2> QED  BY <2>1, <2>2, ListTypes
<1>2. m \in Nat /\ m > 0 /\ n <= t.slist[i].len
  BY <1>1, FittingMssIs
<1>3. n \in Nat /\ n > 0
  BY <1>1, <1>2 DEF Min2
<1>4. Transmitted(t, i) = Retired(v, i)
  BY DEF Transmitted, Retired
<1> HIDE DEF m
<1>5. /\ t1 \in Tcb /\ t1.mss = m /\ t1.state = t.state /\ t1.todo = t.todo
      /\ t1.una = t.una /\ t1.nxt = t.nxt /\ t1.wnd = t.wnd /\ t1.rto = t.rto
      /\ t1.recover = t.recover /\ t1.writeable = t.writeable
      /\ t1.slist = t.slist /\ t1.end = t.end /\ SameReceiver(t, t1)
  BY <1>1, <1>2, WithMss DEF SameList
<1> HIDE DEF t1
<1>6. Good(t1, r) /\ Grows(t, t1)
  BY <1>2, <1>5, MssGood DEF SameList
<1>7. /\ Good(v, r) /\ Grows(t1, v) /\ i \in 1..Len(v.slist)
      /\ v.slist[i].seq = t.slist[i].seq /\ v.slist[i].len = n
  BY <1>2, <1>5, <1>6, SplitAtGood
<1>8. /\ v \in Tcb /\ v.nxt = t.nxt /\ SameReceiver(t1, v)
      /\ v.una = t.una /\ v.end = t.end /\ v.wnd = t.wnd /\ v.writeable = t.writeable
      /\ v.state = t.state /\ v.todo = t.todo
  <2>1. v = t1 \/ Relisted(t1, v, SplitList(t1.slist, i, m), t1.end)
    BY <1>2, <1>5, <1>6, SplitAtGood
  <2> QED  BY <1>5, <2>1 DEF Relisted, SameProgress, SameReceiver
<1> HIDE DEF v, n
<1>9. v.slist[i].seq = v.nxt => v.nxt + v.slist[i].len <= r.rcv + r.rwnd
  <2> SUFFICES ASSUME v.slist[i].seq = v.nxt  PROVE v.nxt + v.slist[i].len <= r.rcv + r.rwnd
    OBVIOUS
  <2>1. t.nxt + t.slist[i].len <= r.rcv + r.rwnd
    BY <1>7, <1>8
  <2>2. t.nxt \in Nat /\ r.rcv + r.rwnd \in Int
    BY <1>1, TcbTypes DEF Good
  <2>3. t.nxt + n <= r.rcv + r.rwnd
    <3>1. \A a, b, c \in Nat : \A d \in Int : a + b <= d /\ c <= b => a + c <= d
      OBVIOUS
    <3> QED  BY <1>1, <1>2, <1>3, <2>1, <2>2, <3>1
  <2> QED  BY <1>7, <1>8, <2>3
<1>10. LET u == Retired(v, i)
      IN /\ Good(u, r) /\ Grows(v, u)
         /\ t.slist[i].seq + n <= u.nxt /\ Bounds(u, t.slist[i].seq + n)
  <2>1. v.slist[i].seq <= v.nxt
    BY <1>7, <1>8
  <2> QED  BY <1>7, <1>9, <2>1, RetiredGood
<1> DEFINE u == Retired(v, i)
<1>11. /\ u \in Tcb /\ u.acked = v.rcv /\ u.tack = FALSE
       /\ u.una = v.una /\ u.end = v.end /\ u.wnd = v.wnd /\ u.writeable = v.writeable
       /\ u.state = v.state /\ u.todo = v.todo /\ SameReceiver(v, u)
  BY <1>7, <1>8, RetiredIs
<1> HIDE DEF u
<1>12. SameReceiver(t, u) /\ u.acked = t.rcv
  BY <1>5, <1>8, <1>11 DEF SameReceiver
<1>13. Grows(t, u)
  <2>1. Grows(t, v)
    BY <1>1, <1>5, <1>6, <1>7, <1>8, GrowsTrans
  <2> QED  BY <1>1, <1>8, <1>10, <1>11, <2>1, GrowsTrans DEF u
<1> QED  BY <1>3, <1>4, <1>8, <1>10, <1>11, <1>12, <1>13 DEF u, n, m

\* What an acknowledgement changes, field by field.
LEMMA AckingIs ==
  ASSUME NEW t \in Tcb, NEW p \in Packet,
         Valuable(t, p) => Unacknowledged(t.slist, p.ack - t.una) \in Seq(Segment)
  PROVE  LET u == Acking(t, p)
         IN /\ u \in Tcb
            /\ u.una = IF Valuable(t, p) THEN p.ack ELSE t.una
            /\ u.wnd = IF Valuable(t, p) \/ p.ack = t.una THEN p.wnd ELSE t.wnd
            /\ u.slist = IF Valuable(t, p) THEN Unacknowledged(t.slist, p.ack - t.una)
                         ELSE t.slist
            /\ u.rto = IF Valuable(t, p) THEN p.ack # t.nxt ELSE t.rto
            /\ u.nxt = t.nxt /\ u.end = t.end /\ u.recover = t.recover /\ u.mss = t.mss
            /\ u.writeable = t.writeable /\ u.state = t.state /\ u.todo = t.todo
            /\ SameReceiver(t, u) /\ SameAcks(t, u)
<1> DEFINE V == Unacknowledged(t.slist, p.ack - t.una)
           d == IF t.dup >= 3 /\ p.ack < t.recover THEN t.dup ELSE 0
           c == IF p.len > 0 THEN t.dup ELSE IF t.una # t.nxt THEN Min2(t.dup + 1, 4) ELSE 0
           b == p.ack # t.nxt
           v == [t EXCEPT !.wnd = p.wnd, !.una = p.ack, !.rto = b, !.slist = V, !.dup = d]
           w == [t EXCEPT !.wnd = p.wnd, !.dup = c]
<1>1. p.ack \in Nat /\ p.wnd \in Nat /\ b \in BOOLEAN
  BY DEF Packet
<1>2. d \in 0..4 /\ c \in 0..4
  BY TcbTypes DEF Min2
<1>3. CASE Valuable(t, p)
  <2>1. p.ack # t.una
    BY <1>1, <1>3, TcbTypes DEF Valuable
  <2>2. Acking(t, p) = v
    BY <1>3, <2>1, Zenon DEF Acking
  <2> HIDE DEF V, d, c, b
  <2>3. /\ v \in Tcb /\ v.una = p.ack /\ v.wnd = p.wnd /\ v.slist = V /\ v.rto = b
        /\ v.nxt = t.nxt /\ v.end = t.end /\ v.recover = t.recover /\ v.mss = t.mss
        /\ v.writeable = t.writeable /\ v.state = t.state /\ v.todo = t.todo
        /\ SameReceiver(t, v) /\ SameAcks(t, v)
    <3>1. V \in Seq(Segment)
      BY <1>3 DEF V
    <3> QED  BY <1>1, <1>2, <3>1 DEF Tcb, SameReceiver, SameAcks
  <2> QED  BY <1>3, <2>2, <2>3 DEF V, b
<1>4. CASE ~Valuable(t, p) /\ p.ack = t.una
  <2>1. Acking(t, p) = w
    BY <1>4 DEF Acking, Tcb
  <2> HIDE DEF V, d, c, b
  <2>2. /\ w \in Tcb /\ w.una = t.una /\ w.wnd = p.wnd /\ w.slist = t.slist /\ w.rto = t.rto
        /\ w.nxt = t.nxt /\ w.end = t.end /\ w.recover = t.recover /\ w.mss = t.mss
        /\ w.writeable = t.writeable /\ w.state = t.state /\ w.todo = t.todo
        /\ SameReceiver(t, w) /\ SameAcks(t, w)
    BY <1>1, <1>2 DEF Tcb, SameReceiver, SameAcks
  <2> QED  BY <1>4, <2>1, <2>2
<1>5. CASE ~Valuable(t, p) /\ p.ack # t.una
  <2>1. Acking(t, p) = t
    BY <1>5 DEF Acking
  <2> QED  BY <1>5, <2>1 DEF SameReceiver, SameAcks
<1> QED  BY <1>3, <1>4, <1>5

\* An acknowledgement, late or new, keeps an end good: it takes whole segments, for it is at a
\* boundary, and it never takes the window back beyond what was sent.
LEMMA AckingGood ==
  ASSUME NEW t, NEW r, Good(t, r), NEW p \in Packet, PacketOK(p, r, t)
  PROVE  LET u == Acking(t, p)
         IN /\ Good(u, r) /\ Grows(t, u)
            /\ u.una = IF Valuable(t, p) THEN p.ack ELSE t.una
            /\ u.nxt = t.nxt /\ u.end = t.end /\ u.recover = t.recover
            /\ u.writeable = t.writeable /\ u.state = t.state /\ u.todo = t.todo
            /\ SameReceiver(t, u) /\ SameAcks(t, u)
<1> DEFINE u == Acking(t, p)
           V == Unacknowledged(t.slist, p.ack - t.una)
<1>1. t \in Tcb /\ r \in Tcb /\ Sender(t) /\ Segments(t) /\ p.ack \in Nat /\ p.wnd \in Nat
  BY DEF Good, Sender, Packet
<1>2. /\ p.ack <= r.rcv /\ p.ack + p.wnd <= r.rcv + r.rwnd /\ Bounds(t, p.ack)
  BY DEF PacketOK
<1>3. ASSUME Valuable(t, p)
      PROVE  /\ V \in Seq(Segment) /\ ListOK(V, p.ack, t.nxt, t.end)
             /\ \A q \in Nat : Bounds(t, q) => Bound(V, p.ack, t.nxt, q)
  BY <1>1, <1>2, <1>3, UnacknowledgedOK, TcbTypes DEF Valuable, Segments, Bounds
<1>4. /\ u \in Tcb
      /\ u.una = IF Valuable(t, p) THEN p.ack ELSE t.una
      /\ u.wnd = IF Valuable(t, p) \/ p.ack = t.una THEN p.wnd ELSE t.wnd
      /\ u.slist = IF Valuable(t, p) THEN V ELSE t.slist
      /\ u.rto = IF Valuable(t, p) THEN p.ack # t.nxt ELSE t.rto
      /\ u.nxt = t.nxt /\ u.end = t.end /\ u.recover = t.recover /\ u.mss = t.mss
      /\ u.writeable = t.writeable /\ u.state = t.state /\ u.todo = t.todo
      /\ SameReceiver(t, u) /\ SameAcks(t, u)
  BY <1>1, <1>3, AckingIs
<1> HIDE DEF u, V
<1>5. t.una <= u.una /\ u.una <= u.nxt
  <2>1. t.una <= t.nxt
    BY <1>1 DEF Segments, ListOK
  <2> QED  BY <1>1, <1>4, <2>1, TcbTypes DEF Valuable
<1>6. Sender(u)
  <2>1. Segments(u)
    BY <1>1, <1>3, <1>4 DEF Segments
  <2>2. u.end <= u.una + SndBuf
    <3>1. t.end <= t.una + SndBuf
      BY <1>1 DEF Sender
    <3> QED  BY <1>1, <1>4, <1>5, <3>1, TcbTypes, ConstantsOK, SMTT(30)
  <2>3. u.rto <=> u.una < u.nxt
    <3>1. CASE Valuable(t, p)
      BY <1>1, <1>4, <1>5, <3>1, TcbTypes
    <3>2. CASE ~Valuable(t, p)
      BY <1>1, <1>4, <3>2 DEF Sender
    <3> QED  BY <3>1, <3>2
  <2> QED  BY <1>1, <1>4, <2>1, <2>2, <2>3 DEF Sender
<1>7. \A q \in Nat : Bounds(t, q) => Bounds(u, q)
  BY <1>3, <1>4 DEF Bounds
<1>8. u.una <= r.rcv /\ u.una + u.wnd <= r.rcv + r.rwnd
  <2>1. t.una <= r.rcv /\ t.una + t.wnd <= r.rcv + r.rwnd
    BY DEF Good, Link
  <2> QED  BY <1>2, <1>4, <2>1
<1>9. t.nxt <= u.nxt /\ u.nxt <= r.rcv + r.rwnd
  BY <1>1, <1>4, TcbTypes, SMTT(30) DEF Good, Link
<1>10. Good(u, r) /\ Grows(t, u)
  BY <1>4, <1>6, <1>7, <1>8, <1>9, SenderGood
<1> QED  BY <1>4, <1>10 DEF u

\* The set of the numbers that a segment ends at, and the one that an interval reaches.
EndsOf(S, n) == {n} \cup {s.seq + s.len : s \in S}
Past(S, q) == \A s \in S : s.seq <= q => s.seq + s.len <= q

\* A nonempty set of numbers with a bound has a greatest.
LEMMA BoundedHasGreatest ==
  ASSUME NEW S \in SUBSET Nat, S # {}, NEW b \in Nat, \A x \in S : x <= b
  PROVE  \E m \in S : \A x \in S : x <= m
<1> DEFINE D == {y \in Nat : \E x \in S : x + y = b}
<1>1. D \subseteq Nat
  OBVIOUS
<1>2. D # {}
  <2>1. PICK x \in S : TRUE
    OBVIOUS
  <2>2. x \in Nat /\ x <= b
    BY <2>1
  <2>3. b - x \in Nat /\ x + (b - x) = b
    BY <2>2
  <2> QED  BY <2>1, <2>3
<1> HIDE DEF D
<1>3. PICK d \in D : \A c \in D : <<c, d>> \notin OpToRel(<, Nat)
  BY <1>1, <1>2, WFMin, NatLessThanWellFounded
<1>4. PICK m \in S : m + d = b
  BY DEF D
<1>5. ASSUME NEW x \in S  PROVE x <= m
  <2>1. x \in Nat /\ x <= b /\ m \in Nat /\ d \in Nat
    BY <1>1
  <2>2. b - x \in D
    <3>1. b - x \in Nat /\ x + (b - x) = b
      BY <2>1
    <3> QED  BY <3>1 DEF D
  <2>3. ~(b - x < d)
    BY <1>1, <1>3, <2>2 DEF OpToRel
  <2> QED  BY <1>4, <2>1, <2>3
<1> QED  BY <1>5

\* A nonempty set of numbers has a least.
LEMMA NonemptyHasLeast ==
  ASSUME NEW S \in SUBSET Nat, S # {}
  PROVE  \E m \in S : \A x \in S : m <= x
<1>1. PICK d \in S : \A c \in S : <<c, d>> \notin OpToRel(<, Nat)
  BY WFMin, NatLessThanWellFounded
<1>2. \A x \in S : ~(x < d)
  BY <1>1 DEF OpToRel
<1> QED  BY <1>2

\* Reach is an end of a segment, all that is before it is in a segment, and no segment
\* goes over it.
LEMMA ReachIs ==
  ASSUME NEW S \in SUBSET [seq: Nat, len: Nat], NEW n \in Nat, NEW b \in Nat,
         n <= b, \A s \in S : s.seq + s.len <= b
  PROVE  LET r == Reach(S, n)
         IN /\ r \in EndsOf(S, n) /\ r \in Nat /\ n <= r /\ Past(S, r)
            /\ \A q \in Nat : n <= q /\ q < r =>
                 \E s \in S : s.seq <= q /\ q < s.seq + s.len
<1> DEFINE E == EndsOf(S, n)
           C == {q \in E : n <= q /\ Past(S, q)}
<1>1. \A s \in S : s.seq \in Nat /\ s.len \in Nat /\ s.seq + s.len \in Nat
  OBVIOUS
<1>2. E \subseteq Nat /\ n \in E /\ \A q \in E : q <= b
  BY <1>1 DEF EndsOf
<1>3. \A s \in S : s.seq + s.len \in E
  BY DEF EndsOf
<1> HIDE DEF E
<1>4. C # {}
  <2>1. PICK m \in E : \A x \in E : x <= m
    BY <1>2, BoundedHasGreatest
  <2>2. m \in C
    BY <1>2, <1>3, <2>1 DEF Past
  <2> QED  BY <2>2
<1>5. PICK r \in C : \A x \in C : r <= x
  <2>1. C \in SUBSET Nat
    BY <1>2
  <2> HIDE DEF C
  <2> QED  BY <1>4, <2>1, NonemptyHasLeast
<1>6. Reach(S, n) = CHOOSE q \in E : /\ q >= n /\ Past(S, q)
                                     /\ \A x \in E : x >= n /\ Past(S, x) => q <= x
  BY DEF Reach, EndsOf, Past, E
<1>7. Reach(S, n) \in C
  <2>1. r \in E /\ r >= n /\ Past(S, r) /\ \A x \in E : x >= n /\ Past(S, x) => r <= x
    BY <1>2, <1>5
  <2> DEFINE R(q) == /\ q >= n /\ Past(S, q)
                     /\ \A x \in E : x >= n /\ Past(S, x) => q <= x
  <2>2. R(r) /\ r \in E
    BY <2>1
  <2>3. Reach(S, n) = CHOOSE q \in E : R(q)
    BY <1>6
  <2> HIDE DEF R
  <2>4. Reach(S, n) \in E /\ R(Reach(S, n))
    BY <2>2, <2>3
  <2> QED  BY <1>2, <2>4 DEF R
<1>8. \A x \in C : Reach(S, n) <= x
  <2>1. r \in E /\ r >= n /\ Past(S, r) /\ \A x \in E : x >= n /\ Past(S, x) => r <= x
    BY <1>2, <1>5
  <2> DEFINE R(q) == /\ q >= n /\ Past(S, q)
                     /\ \A x \in E : x >= n /\ Past(S, x) => q <= x
  <2>2. R(r) /\ r \in E
    BY <2>1
  <2>3. Reach(S, n) = CHOOSE q \in E : R(q)
    BY <1>6
  <2> HIDE DEF R
  <2>4. Reach(S, n) \in E /\ R(Reach(S, n))
    BY <2>2, <2>3
  <2> QED  BY <1>2, <2>4 DEF R
<1>9. ASSUME NEW q \in Nat, n <= q, q < Reach(S, n)
      PROVE  \E s \in S : s.seq <= q /\ q < s.seq + s.len
  <2> SUFFICES ASSUME \A s \in S : ~(s.seq <= q /\ q < s.seq + s.len)
               PROVE  FALSE
    OBVIOUS
  <2> DEFINE D == {x \in E : x <= q}
  <2>1. D \subseteq Nat /\ n \in D /\ \A x \in D : x <= q
    BY <1>2, <1>9
  <2>2. PICK c \in D : \A x \in D : x <= c
    <3> HIDE DEF D
    <3> QED  BY <2>1, BoundedHasGreatest
  <2>3. c \in E /\ c \in Nat /\ n <= c /\ c <= q
    BY <2>1, <2>2
  <2>4. ASSUME NEW s \in S, s.seq <= c  PROVE s.seq + s.len <= c
    <3> DEFINE z == s.seq + s.len
    <3>1. z \in Nat /\ z \in E /\ s.seq \in Nat
      BY <1>1, <1>3
    <3>2. s.seq <= q
      BY <2>3, <2>4, <3>1
    <3>3. ~(q < z)
      BY <3>2
    <3> HIDE DEF z
    <3>4. z \in D
      BY <3>1, <3>3
    <3> QED  BY <2>2, <3>4 DEF z
  <2>5. c \in C
    BY <2>3, <2>4 DEF Past
  <2>6. Reach(S, n) <= c
    BY <1>8, <2>5
  <2>7. Reach(S, n) \in Nat
    BY <1>2, <1>7
  <2> QED  BY <1>9, <2>3, <2>6, <2>7
<1> QED  BY <1>2, <1>7, <1>9 DEF E

\* A change of the receiver's part that keeps the right edge of the window.
LEMMA ReceiverGood ==
  ASSUME NEW t, NEW r, NEW u \in Tcb, Good(t, r), SameProgress(t, u), SameList(t, u),
         Receiver(u), t.rcv <= u.rcv, t.rcv + t.rwnd <= u.rcv + u.rwnd,
         u.rcv <= r.nxt, Bounds(r, u.rcv),
         \A g \in u.rlist : g.len > 0 /\ g.seq + g.len <= r.nxt /\ Bounds(r, g.seq + g.len)
  PROVE  Good(u, r) /\ Grows(t, u)
<1>1. t \in Tcb /\ r \in Tcb
  BY DEF Good
<1>2. \A q : Bounds(t, q) <=> Bounds(u, q)
  BY DEF Bounds, SameProgress, SameList
<1>3. Sender(u)
  BY DEF Good, Sender, Segments, SameProgress, SameList
<1>4. Link(u, r)
  BY <1>2 DEF Good, Link, SameProgress
<1>5. Grows(t, u)
  <2>1. t.nxt = u.nxt
    BY DEF SameProgress
  <2> QED  BY <1>1, <1>2, <2>1, TcbTypes DEF Grows
<1>6. Link(r, u)
  <2>1. /\ r.una <= t.rcv /\ r.nxt <= t.rcv + t.rwnd /\ r.una + r.wnd <= t.rcv + t.rwnd
    BY DEF Good, Link
  <2>2. \A a, b, c \in Int : a <= b /\ b <= c => a <= c
    OBVIOUS
  <2>3. /\ r.una \in Int /\ r.nxt \in Int /\ r.una + r.wnd \in Int /\ t.rcv \in Int /\ u.rcv \in Int
        /\ t.rcv + t.rwnd \in Int /\ u.rcv + u.rwnd \in Int
    BY <1>1, TcbTypes
  <2>4. r.una <= u.rcv /\ r.nxt <= u.rcv + u.rwnd /\ r.una + r.wnd <= u.rcv + u.rwnd
    BY <2>1, <2>2, <2>3
  <2> QED  BY <2>4 DEF Link
<1> QED  BY <1>1, <1>3, <1>4, <1>5, <1>6 DEF Good

----------------------------------------------------------------------------
(* The data of a packet.                                                   *)

\* The bytes of a packet that are new and fit m_rbuf: from Lo up to Hi.
Lo(t, p) == Max2(p.seq, t.rcv)
Hi(t, p) == Min2(p.seq + p.len, t.rcv + Room(t))

\* Data that is taken is taken whole: it ends where the packet ends.
LEMMA TakenWhole ==
  ASSUME NEW t, NEW r, Good(t, r), NEW p \in Packet, PacketOK(p, r, t), Lo(t, p) < Hi(t, p)
  PROVE  /\ Hi(t, p) = p.seq + p.len /\ Hi(t, p) \in Nat /\ Lo(t, p) \in Nat
         /\ p.len > 0 /\ p.seq >= 0 /\ t.rcv <= Lo(t, p) /\ p.seq <= Lo(t, p)
         /\ Lo(t, p) = t.rcv \/ Lo(t, p) = p.seq
         /\ Hi(t, p) <= r.nxt /\ Bounds(r, Hi(t, p)) /\ r.nxt <= t.rcv + t.rwnd
         /\ t.rcv + t.rwnd <= t.rcv + Room(t)
<1>1. /\ t.rcv \in Nat /\ t.rwnd \in Int /\ t.dlen \in Nat /\ RcvBuf \in Nat
      /\ r.nxt \in Nat /\ p.seq \in Int /\ p.len \in Nat
  BY TcbTypes, ConstantsOK DEF Good, Packet
<1>2. t.rwnd <= RcvBuf - t.dlen /\ r.nxt <= t.rcv + t.rwnd
  BY DEF Good, Receiver, Link
<1>3. p.len > 0
  BY <1>1 DEF Lo, Hi, Min2, Max2, Room
<1>4. p.seq >= 0 /\ p.seq + p.len <= r.nxt /\ Bounds(r, p.seq + p.len)
  BY <1>3 DEF PacketOK
<1>5. t.rcv + t.rwnd <= t.rcv + Room(t)
  BY <1>1, <1>2 DEF Room
<1>6. Hi(t, p) = p.seq + p.len
  BY <1>1, <1>2, <1>4 DEF Hi, Min2, Room
<1>7. /\ Lo(t, p) \in Nat /\ t.rcv <= Lo(t, p) /\ p.seq <= Lo(t, p)
      /\ Lo(t, p) = t.rcv \/ Lo(t, p) = p.seq
  BY <1>1, <1>4 DEF Lo, Max2
<1> QED  BY <1>1, <1>2, <1>3, <1>4, <1>5, <1>6, <1>7

\* Only the contents of m_rbuf differ.
SameButCell(t, u) ==
  /\ u \in Tcb /\ SameProgress(t, u) /\ SameList(t, u) /\ SameAcks(t, u)
  /\ u.state = t.state /\ u.todo = t.todo /\ u.dup = t.dup
  /\ u.shutdown = t.shutdown /\ u.rcv = t.rcv /\ u.rwnd = t.rwnd /\ u.rlist = t.rlist
  /\ u.rpos = t.rpos /\ u.dlen = t.dlen /\ u.readable = t.readable

\* WriteOffset changes the contents of m_rbuf only, and there the cells of the bytes it writes.
LEMMA StoredIs ==
  ASSUME NEW t \in Tcb, NEW lo \in Nat, NEW hi \in Nat
  PROVE  LET u == Stored(t, lo, hi)
         IN /\ SameButCell(t, u)
            /\ u.cell = [c \in 0..RcvBuf - 1 |->
                 LET at == {s \in lo..hi - 1 : (t.rpos + t.dlen + (s - t.rcv)) % RcvBuf = c}
                 IN IF at = {} THEN t.cell[c] ELSE CHOOSE s \in at : TRUE]
<1> DEFINE At(c) == {s \in lo..hi - 1 : (t.rpos + t.dlen + (s - t.rcv)) % RcvBuf = c}
           C == [c \in 0..RcvBuf - 1 |->
                   IF At(c) = {} THEN t.cell[c] ELSE CHOOSE s \in At(c) : TRUE]
           D == [c \in 0..RcvBuf - 1 |->
                   IF At(c) = {} THEN t.cell[c] ELSE Byte(CHOOSE s \in At(c) : TRUE)]
           u == [t EXCEPT !.cell = C]
<1>1. \A c : At(c) # {} => (CHOOSE s \in At(c) : TRUE) \in Int
  <2>1. \A c : At(c) \subseteq Int
    OBVIOUS
  <2> HIDE DEF At
  <2> QED  BY <2>1
<1>2. \A s \in Int : Byte(s) = s
  BY DEF Byte, CtlLen
<1>3. Stored(t, lo, hi) = [t EXCEPT !.cell = D]
  BY DEF Stored
<1> HIDE DEF At
<1>4. C = D
  BY <1>1, <1>2
<1>5. C \in [0..RcvBuf - 1 -> Int]
  BY <1>1, TcbTypes
<1> HIDE DEF D
<1>6. Stored(t, lo, hi) = u
  BY <1>3, <1>4
<1> HIDE DEF C
<1>7. SameButCell(t, u) /\ u.cell = C
  BY <1>5 DEF Tcb, SameButCell, SameProgress, SameList, SameAcks
<1> QED  BY <1>6, <1>7 DEF C, At

\* The cases of Receiving: nothing is taken, a byte is counted but not kept, bytes come in
\* order, or early.
Skips(t, p) == \/ Lo(t, p) >= Hi(t, p)
               \/ (p.ctl \/ t.shutdown) /\ Lo(t, p) # t.rcv
Counts(t, p) == Lo(t, p) < Hi(t, p) /\ (p.ctl \/ t.shutdown) /\ Lo(t, p) = t.rcv
Keeps(t, p) == Lo(t, p) < Hi(t, p) /\ ~p.ctl /\ ~t.shutdown

\* The object after each of them.
Counted(t, u, hi) ==
  /\ u.rcv = hi /\ u.rwnd = t.rwnd /\ u.rlist = t.rlist
  /\ u.cell = t.cell /\ u.dlen = t.dlen /\ u.readable = t.readable
InOrder(t, u, r, hi) ==
  LET next == Reach(t.rlist, hi)
  IN /\ next \in Nat /\ hi <= next /\ next <= r.nxt /\ Bounds(r, next)
     /\ u.rcv = next /\ u.rwnd = t.rwnd - (next - t.rcv) /\ u.dlen = t.dlen + (next - t.rcv)
     /\ u.rlist = {s \in t.rlist : s.seq > next}
     /\ u.cell = Stored(t, t.rcv, hi).cell /\ u.readable = FALSE
Early(t, u, lo, hi) ==
  /\ u.rcv = t.rcv /\ u.rwnd = t.rwnd /\ u.dlen = t.dlen
  /\ u.rlist = t.rlist \cup {[seq |-> lo, len |-> hi - lo]}
  /\ u.cell = Stored(t, lo, hi).cell /\ u.readable = t.readable

\* Receiving is one of these cases.
LEMMA ReceivingIs ==
  ASSUME NEW t, NEW r, Good(t, r), NEW p \in Packet, PacketOK(p, r, t)
  PROVE  LET u == Receiving(t, p)
             lo == Lo(t, p)
             hi == Hi(t, p)
         IN /\ u \in Tcb /\ SameProgress(t, u) /\ SameList(t, u) /\ SameAcks(t, u)
            /\ u.state = t.state /\ u.todo = t.todo
            /\ u.shutdown = t.shutdown /\ u.rpos = t.rpos
            /\ \/ Skips(t, p) /\ u = t
               \/ Counts(t, p) /\ Counted(t, u, hi)
               \/ Keeps(t, p) /\ lo = t.rcv /\ InOrder(t, u, r, hi)
               \/ Keeps(t, p) /\ lo # t.rcv /\ Early(t, u, lo, hi)
<1> DEFINE lo == Lo(t, p)
           hi == Hi(t, p)
           next == Reach(t.rlist, hi)
           v == Stored(t, lo, hi)
           u == Receiving(t, p)
<1>1. t \in Tcb /\ r \in Tcb /\ t.rcv \in Nat /\ t.rwnd \in Int /\ t.dlen \in Nat /\ r.nxt \in Nat
      /\ RcvBuf \in Nat /\ p.seq \in Int /\ p.len \in Nat /\ t.rlist \in SUBSET [seq: Nat, len: Nat]
  BY TcbTypes, ConstantsOK DEF Good, Packet
<1>2. lo \in Int /\ hi \in Int
  BY <1>1 DEF Lo, Hi, Max2, Min2, Room
<1>3. u = IF lo >= hi THEN t
          ELSE IF p.ctl \/ t.shutdown
          THEN IF lo = t.rcv THEN [t EXCEPT !.rcv = hi] ELSE t
          ELSE IF lo = t.rcv
          THEN [v EXCEPT !.rcv = next, !.rwnd = @ - (next - t.rcv), !.dlen = @ + (next - t.rcv),
                         !.rlist = {s \in @ : s.seq > next}, !.readable = FALSE]
          ELSE [v EXCEPT !.rlist = @ \cup {[seq |-> lo, len |-> hi - lo]}]
  BY DEF Receiving, Lo, Hi
<1> HIDE DEF lo, hi, u
<1>4. CASE Skips(t, p)
  <2>1. u = t
    BY <1>3, <1>4 DEF Skips, lo, hi
  <2> QED  BY <1>1, <1>4, <2>1 DEF SameProgress, SameList, SameAcks, u
<1>5. CASE Counts(t, p)
  <2>1. u = [t EXCEPT !.rcv = hi]
    BY <1>2, <1>3, <1>5 DEF Counts, lo, hi
  <2>2. hi \in Nat
    BY <1>5, TakenWhole DEF Counts, hi
  <2>3. /\ u \in Tcb /\ SameProgress(t, u) /\ SameList(t, u) /\ SameAcks(t, u)
        /\ u.state = t.state /\ u.todo = t.todo
        /\ u.shutdown = t.shutdown /\ u.rpos = t.rpos
        /\ u.rcv = hi /\ u.rwnd = t.rwnd /\ u.rlist = t.rlist
        /\ u.cell = t.cell /\ u.dlen = t.dlen /\ u.readable = t.readable
    BY <1>1, <2>1, <2>2 DEF Tcb, SameProgress, SameList, SameAcks
  <2> QED  BY <1>5, <2>3 DEF u, hi, Counted
<1>6. CASE Keeps(t, p)
  <2>1. lo < hi /\ ~p.ctl /\ ~t.shutdown /\ lo \in Nat /\ hi \in Nat /\ hi <= r.nxt
        /\ Bounds(r, hi)
    BY <1>6, TakenWhole DEF Keeps, lo, hi
  <2>2. /\ v \in Tcb /\ SameProgress(t, v) /\ SameList(t, v) /\ SameAcks(t, v)
        /\ v.state = t.state /\ v.todo = t.todo
        /\ v.shutdown = t.shutdown /\ v.rcv = t.rcv /\ v.rwnd = t.rwnd /\ v.rlist = t.rlist
        /\ v.rpos = t.rpos /\ v.dlen = t.dlen /\ v.readable = t.readable
    <3>1. SameButCell(t, v)
      BY <1>1, <2>1, StoredIs
    <3> HIDE DEF v
    <3> QED  BY <3>1 DEF SameButCell
  <2>3. CASE lo = t.rcv
    <3>1. \A g \in t.rlist : g.seq + g.len <= r.nxt /\ Bounds(r, g.seq + g.len)
      BY DEF Good, Link
    <3>2. next \in EndsOf(t.rlist, hi) /\ next \in Nat /\ hi <= next
      BY <1>1, <2>1, <3>1, ReachIs
    <3>3. next <= r.nxt /\ Bounds(r, next)
      BY <2>1, <3>1, <3>2 DEF EndsOf
    <3> HIDE DEF next
    <3> DEFINE k == next - t.rcv
               S == {s \in t.rlist : s.seq > next}
    <3>4. k \in Nat /\ t.dlen + k \in Nat /\ t.rwnd - k \in Int
      BY <1>1, <2>1, <2>3, <3>2
    <3>5. S \in SUBSET [seq: Nat, len: Nat]
      BY <1>1
    <3>6. u = [v EXCEPT !.rcv = next, !.rwnd = t.rwnd - k, !.dlen = t.dlen + k,
                        !.rlist = S, !.readable = FALSE]
      BY <1>2, <1>3, <2>1, <2>2, <2>3
    <3> HIDE DEF k, S, v
    <3>7. /\ u \in Tcb /\ SameProgress(v, u) /\ SameList(v, u) /\ SameAcks(v, u)
          /\ u.state = v.state /\ u.todo = v.todo
          /\ u.shutdown = v.shutdown /\ u.rpos = v.rpos
          /\ u.rcv = next /\ u.rwnd = t.rwnd - k /\ u.rlist = S
          /\ u.cell = v.cell /\ u.dlen = t.dlen + k /\ u.readable = FALSE
      BY <2>2, <3>2, <3>4, <3>5, <3>6 DEF Tcb, SameProgress, SameList, SameAcks
    <3>8. SameProgress(t, u) /\ SameList(t, u) /\ SameAcks(t, u)
      BY <2>2, <3>7 DEF SameProgress, SameList, SameAcks
    <3>9. InOrder(t, u, r, hi)
      BY <2>3, <3>2, <3>3, <3>7 DEF InOrder, k, S, v, next
    <3> QED  BY <1>6, <2>2, <2>3, <3>7, <3>8, <3>9 DEF u, lo, hi
  <2>4. CASE lo # t.rcv
    <3> DEFINE g == [seq |-> lo, len |-> hi - lo]
               S == t.rlist \cup {g}
    <3>1. S \in SUBSET [seq: Nat, len: Nat]
      <4>1. hi - lo \in Nat
        BY <2>1
      <4> QED  BY <1>1, <2>1, <4>1
    <3>2. u = [v EXCEPT !.rlist = S]
      BY <1>2, <1>3, <2>1, <2>2, <2>4
    <3> HIDE DEF S, v
    <3>3. /\ u \in Tcb /\ SameProgress(v, u) /\ SameList(v, u) /\ SameAcks(v, u)
          /\ u.state = v.state /\ u.todo = v.todo
          /\ u.shutdown = v.shutdown /\ u.rpos = v.rpos
          /\ u.rcv = v.rcv /\ u.rwnd = v.rwnd /\ u.rlist = S
          /\ u.cell = v.cell /\ u.dlen = v.dlen /\ u.readable = v.readable
      BY <2>2, <3>1, <3>2 DEF Tcb, SameProgress, SameList, SameAcks
    <3>4. SameProgress(t, u) /\ SameList(t, u) /\ SameAcks(t, u)
      BY <2>2, <3>3 DEF SameProgress, SameList, SameAcks
    <3>5. Early(t, u, lo, hi)
      BY <2>2, <3>3 DEF Early, S, v
    <3> QED  BY <1>6, <2>2, <2>4, <3>3, <3>4, <3>5 DEF u, lo, hi
  <2> QED  BY <2>3, <2>4
<1>7. Skips(t, p) \/ Counts(t, p) \/ Keeps(t, p)
  <2>1. lo < hi \/ lo >= hi
    BY <1>2
  <2> QED  BY <2>1 DEF Skips, Counts, Keeps, lo, hi
<1> QED  BY <1>4, <1>5, <1>6, <1>7

\* Receiving a packet keeps an end good.
LEMMA ReceivingGood ==
  ASSUME NEW t, NEW r, Good(t, r), NEW p \in Packet, PacketOK(p, r, t)
  PROVE  Good(Receiving(t, p), r) /\ Grows(t, Receiving(t, p))
<1> DEFINE u == Receiving(t, p)
           lo == Lo(t, p)
           hi == Hi(t, p)
<1>1. t \in Tcb /\ r \in Tcb /\ t.rcv \in Nat /\ t.rwnd \in Int /\ t.dlen \in Nat /\ r.nxt \in Nat
      /\ RcvBuf \in Nat
  BY TcbTypes, ConstantsOK DEF Good
<1>2. u \in Tcb /\ SameProgress(t, u) /\ SameList(t, u) /\ u.rpos = t.rpos
  BY ReceivingIs
<1>3. /\ 0 <= t.rwnd /\ t.rwnd <= RcvBuf - t.dlen /\ RcvBuf <= t.rcv + t.rwnd /\ t.rpos < RcvBuf
      /\ t.rcv <= r.nxt /\ Bounds(r, t.rcv) /\ r.nxt <= t.rcv + t.rwnd
      /\ \A g \in t.rlist : g.len > 0 /\ g.seq + g.len <= r.nxt /\ Bounds(r, g.seq + g.len)
  BY DEF Good, Receiver, Link
<1>4. ASSUME u = t  PROVE Good(u, r) /\ Grows(t, u)
  BY <1>1, <1>4, GrowsRefl
<1>5. ASSUME Counts(t, p), Counted(t, u, hi)  PROVE Good(u, r) /\ Grows(t, u)
  <2>1. t.rcv <= hi /\ hi \in Nat /\ hi <= r.nxt /\ Bounds(r, hi)
    BY <1>1, <1>5, TakenWhole DEF Counts
  <2> HIDE DEF u, hi
  <2>2. u.rcv = hi /\ u.rwnd = t.rwnd /\ u.rlist = t.rlist /\ u.dlen = t.dlen
    BY <1>5 DEF Counted
  <2>3. Receiver(u)
    BY <1>1, <1>2, <1>3, <2>1, <2>2 DEF Receiver
  <2>4. t.rcv <= u.rcv /\ t.rcv + t.rwnd <= u.rcv + u.rwnd
    BY <1>1, <2>1, <2>2
  <2> QED  BY <1>2, <1>3, <2>1, <2>2, <2>3, <2>4, ReceiverGood
<1>6. ASSUME Keeps(t, p), lo = t.rcv, InOrder(t, u, r, hi)  PROVE Good(u, r) /\ Grows(t, u)
  <2>1. lo < hi /\ hi \in Nat
    BY <1>6, TakenWhole DEF Keeps
  <2> DEFINE next == Reach(t.rlist, hi)
  <2> HIDE DEF u, hi, lo
  <2>2. /\ next \in Nat /\ hi <= next /\ next <= r.nxt /\ Bounds(r, next)
        /\ u.rcv = next /\ u.rwnd = t.rwnd - (next - t.rcv)
        /\ u.dlen = t.dlen + (next - t.rcv) /\ u.rlist \subseteq t.rlist
    BY <1>6 DEF InOrder
  <2> HIDE DEF next
  <2>3. Receiver(u)
    BY <1>1, <1>2, <1>3, <1>6, <2>1, <2>2 DEF Receiver
  <2>4. t.rcv <= u.rcv /\ t.rcv + t.rwnd <= u.rcv + u.rwnd
    BY <1>1, <1>6, <2>1, <2>2
  <2>5. \A g \in u.rlist : g \in t.rlist
    BY <2>2
  <2> QED  BY <1>2, <1>3, <2>2, <2>3, <2>4, <2>5, ReceiverGood
<1>7. ASSUME Keeps(t, p), Early(t, u, lo, hi)  PROVE Good(u, r) /\ Grows(t, u)
  <2>1. lo < hi /\ lo \in Nat /\ hi \in Nat /\ hi <= r.nxt /\ Bounds(r, hi)
    BY <1>7, TakenWhole DEF Keeps
  <2> DEFINE g0 == [seq |-> lo, len |-> hi - lo]
  <2> HIDE DEF u, hi, lo
  <2>2. u.rcv = t.rcv /\ u.rwnd = t.rwnd /\ u.dlen = t.dlen /\ u.rlist = t.rlist \cup {g0}
    BY <1>7 DEF Early
  <2>3. Receiver(u)
    BY <1>2, <1>3, <2>2 DEF Receiver
  <2>4. t.rcv <= u.rcv /\ t.rcv + t.rwnd <= u.rcv + u.rwnd
    BY <1>1, <2>2
  <2>5. g0.len > 0 /\ g0.seq + g0.len = hi
    BY <2>1
  <2> HIDE DEF g0
  <2>6. \A g \in u.rlist : g \in t.rlist \/ g = g0
    BY <2>2
  <2>7. \A g \in u.rlist : g.len > 0 /\ g.seq + g.len <= r.nxt /\ Bounds(r, g.seq + g.len)
    BY <1>3, <2>1, <2>5, <2>6
  <2> QED  BY <1>2, <1>3, <2>2, <2>3, <2>4, <2>7, ReceiverGood
<1> QED  BY <1>4, <1>5, <1>6, <1>7, ReceivingIs
=============================================================================
