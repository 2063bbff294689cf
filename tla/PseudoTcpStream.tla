-------------------------- MODULE PseudoTcpStream ---------------------------
(***************************************************************************)
(* PseudoTcp implements the byte stream of ByteStream, when only the end   *)
(* that calls Connect writes.                                              *)
(***************************************************************************)
EXTENDS PseudoTcpProofs

----------------------------------------------------------------------------
(* The places of the bytes in m_rbuf.                                      *)

\* Remainders, below the divisor.
LEMMA ModBelow ==
  ASSUME NEW R \in Nat, R > 0, NEW x \in 0..R - 1
  PROVE  x % R = x
OBVIOUS

\* Above the divisor,
LEMMA ModAbove ==
  ASSUME NEW R \in Nat, R > 0, NEW x \in 0..R - 1
  PROVE  (x + R) % R = x
OBVIOUS

\* and in both cases.
LEMMA ModTwice ==
  ASSUME NEW R \in Nat, R > 0, NEW x \in Nat, x < R + R
  PROVE  x % R = IF x < R THEN x ELSE x - R
<1>1. CASE x < R
  BY <1>1, ModBelow
<1>2. CASE ~(x < R)
  <2>1. x - R \in 0..R - 1 /\ (x - R) + R = x
    BY <1>2
  <2>2. ((x - R) + R) % R = x - R
    BY <2>1, ModAbove
  <2> QED  BY <1>2, <2>1, <2>2
<1> QED  BY <1>1, <1>2

\* The place in m_rbuf of the byte that is x bytes after the next one to be read.
Slot(t, x) == (t.rpos + x) % RcvBuf

\* It is a place of the buffer.
LEMMA SlotIs ==
  ASSUME NEW t \in Tcb, t.rpos < RcvBuf, NEW x \in 0..RcvBuf - 1
  PROVE  /\ Slot(t, x) = IF t.rpos + x < RcvBuf THEN t.rpos + x ELSE (t.rpos + x) - RcvBuf
         /\ Slot(t, x) \in 0..RcvBuf - 1
<1>1. t.rpos \in Nat /\ RcvBuf \in Nat /\ RcvBuf > 0 /\ x \in Nat
  BY TcbTypes, ConstantsOK
<1>2. t.rpos + x \in Nat /\ t.rpos + x < RcvBuf + RcvBuf
  BY <1>1
<1> DEFINE y == t.rpos + x
<1>3. y \in Nat /\ y < RcvBuf + RcvBuf
  BY <1>2
<1> HIDE DEF y
<1>4. y % RcvBuf = IF y < RcvBuf THEN y ELSE y - RcvBuf
  BY <1>1, <1>3, ModTwice
<1>5. y % RcvBuf \in 0..RcvBuf - 1
  BY <1>1, <1>3, <1>4
<1>6. Slot(t, x) = y % RcvBuf
  BY DEF Slot, y
<1>7. /\ Slot(t, x) = IF y < RcvBuf THEN y ELSE y - RcvBuf
      /\ Slot(t, x) \in 0..RcvBuf - 1
  BY <1>4, <1>5, <1>6
<1> QED  BY <1>7 DEF y

\* Two bytes within the buffer's length have different places.
LEMMA SlotInjective ==
  ASSUME NEW t \in Tcb, t.rpos < RcvBuf, NEW x \in 0..RcvBuf - 1, NEW y \in 0..RcvBuf - 1,
         Slot(t, x) = Slot(t, y)
  PROVE  x = y
<1>1. t.rpos \in Nat /\ RcvBuf \in Nat /\ RcvBuf > 0 /\ x \in Nat /\ y \in Nat
  BY TcbTypes, ConstantsOK
<1>2. /\ Slot(t, x) = IF t.rpos + x < RcvBuf THEN t.rpos + x ELSE (t.rpos + x) - RcvBuf
      /\ Slot(t, y) = IF t.rpos + y < RcvBuf THEN t.rpos + y ELSE (t.rpos + y) - RcvBuf
  BY SlotIs
<1> DEFINE p == t.rpos
           a == Slot(t, x)
           b == Slot(t, y)
<1>3. p \in Nat /\ a = b /\ p < RcvBuf
  BY <1>1
<1> HIDE DEF p, a, b
<1>4. /\ a = IF p + x < RcvBuf THEN p + x ELSE (p + x) - RcvBuf
      /\ b = IF p + y < RcvBuf THEN p + y ELSE (p + y) - RcvBuf
  BY <1>2 DEF p, a, b
<1>5. (IF p + x < RcvBuf THEN p + x ELSE (p + x) - RcvBuf)
      = (IF p + y < RcvBuf THEN p + y ELSE (p + y) - RcvBuf)
  BY <1>3, <1>4
<1>6. x < RcvBuf /\ y < RcvBuf
  BY <1>1
<1> QED  BY <1>1, <1>3, <1>5, <1>6

\* WriteOffset changes the bytes lo..hi-1, and no others.
LEMMA StoredAt ==
  ASSUME NEW t \in Tcb, t.rpos < RcvBuf, NEW lo \in Nat, NEW hi \in Nat,
         t.rcv <= lo, hi <= t.rcv + (RcvBuf - t.dlen), NEW x \in 0..RcvBuf - 1
  PROVE  LET c == Stored(t, lo, hi).cell[Slot(t, x)]
         IN IF t.dlen + (lo - t.rcv) <= x /\ x < t.dlen + (hi - t.rcv)
            THEN c = x - t.dlen + t.rcv
            ELSE c = t.cell[Slot(t, x)]
<1> DEFINE k == Slot(t, x)
           At(c) == {s \in lo..hi - 1 : (t.rpos + t.dlen + (s - t.rcv)) % RcvBuf = c}
           u == Stored(t, lo, hi)
           y == x - t.dlen + t.rcv
<1>1. /\ t.rpos \in Nat /\ RcvBuf \in Nat /\ RcvBuf > 0 /\ x \in Nat /\ t.dlen \in Nat
      /\ t.rcv \in Nat
  BY TcbTypes, ConstantsOK
<1>2. k \in 0..RcvBuf - 1
  BY SlotIs
<1>3. u.cell[k] = IF At(k) = {} THEN t.cell[k] ELSE CHOOSE s \in At(k) : TRUE
  <2>1. u.cell = [c \in 0..RcvBuf - 1 |->
                   LET at == {s \in lo..hi - 1 : (t.rpos + t.dlen + (s - t.rcv)) % RcvBuf = c}
                   IN IF at = {} THEN t.cell[c] ELSE CHOOSE s \in at : TRUE]
    BY StoredIs, ZenonT(40)
  <2> HIDE DEF u, k
  <2> QED  BY <1>2, <2>1
<1>4. ASSUME NEW s \in lo..hi - 1  PROVE s \in At(k) <=> s = y
  <2> DEFINE z == t.dlen + (s - t.rcv)
  <2>1. z \in 0..RcvBuf - 1 /\ t.rpos + t.dlen + (s - t.rcv) = t.rpos + z /\ (z = x <=> s = y)
    BY <1>1
  <2> HIDE DEF z
  <2>2. Slot(t, z) = k <=> z = x
    BY <2>1, SlotInjective
  <2>3. (t.rpos + t.dlen + (s - t.rcv)) % RcvBuf = Slot(t, z)
    BY <2>1 DEF Slot
  <2>4. s \in At(k) <=> Slot(t, z) = k
    BY <2>3
  <2> QED  BY <2>1, <2>2, <2>4
<1>5. y \in lo..hi - 1 <=> t.dlen + (lo - t.rcv) <= x /\ x < t.dlen + (hi - t.rcv)
  BY <1>1
<1>6. CASE y \in lo..hi - 1
  <2>1. At(k) = {y}
    BY <1>4, <1>6
  <2> HIDE DEF At
  <2>2. u.cell[k] = y
    BY <1>3, <2>1
  <2> QED  BY <1>5, <1>6, <2>2
<1>7. CASE y \notin lo..hi - 1
  <2>1. At(k) = {}
    BY <1>4, <1>7
  <2> HIDE DEF At
  <2>2. u.cell[k] = t.cell[k]
    BY <1>3, <2>1
  <2> QED  BY <1>5, <1>7, <2>2
<1> QED  BY <1>6, <1>7

\* The byte that is held x bytes after the next one to be read.
Held(t, x) == t.cell[Slot(t, x)]

----------------------------------------------------------------------------
(* What is received, and what the user reads.                              *)

\* The bytes read are the first of the stream; those in m_rbuf come next; those that have come
\* early are in their places behind them.
FirstInOrder(g) == \A i \in 1..Len(g) : g[i] = i
HeldInOrder(t, k) == \A x \in 0..t.dlen - 1 : Held(t, x) = k + 1 + x
EarlyInPlace(t) ==
  \A s \in t.rlist : \A q \in Nat :
    t.rcv <= q /\ s.seq <= q /\ q < s.seq + s.len => Held(t, t.dlen + (q - t.rcv)) = q

\* What the user has read, what m_rbuf holds, and what has come early.
Received(t, g) ==
  /\ FirstInOrder(g) /\ HeldInOrder(t, Len(g))
  /\ t.rcv = 0 => t.rlist = {} /\ t.dlen = 0 /\ Len(g) = 0
  /\ t.rcv > 0 => Len(g) + t.dlen + 1 <= t.rcv
  /\ t.rcv > 0 /\ ~t.shutdown => Len(g) + t.dlen + 1 = t.rcv
  /\ ~t.shutdown => EarlyInPlace(t)

SameBytes(t, u) == /\ u.rcv = t.rcv /\ u.rlist = t.rlist /\ u.cell = t.cell
                   /\ u.rpos = t.rpos /\ u.dlen = t.dlen /\ (t.shutdown => u.shutdown)

\* A change that leaves m_rbuf alone.
LEMMA ReceivedSame ==
  ASSUME NEW t, NEW u, NEW g, Received(t, g), SameBytes(t, u)
  PROVE  Received(u, g)
<1>1. \A x : Held(u, x) = Held(t, x)
  BY DEF Held, Slot, SameBytes
<1> QED  BY <1>1 DEF Received, HeldInOrder, EarlyInPlace, SameBytes

\* A byte that has come early lies within the buffer.
LEMMA EarlyFits ==
  ASSUME NEW t, NEW r, Good(t, r), NEW s \in t.rlist, NEW q \in Nat,
         t.rcv <= q, q < s.seq + s.len
  PROVE  t.dlen + (q - t.rcv) \in 0..RcvBuf - 1
<1>1. /\ t.rcv \in Nat /\ t.rwnd \in Int /\ t.dlen \in Nat /\ r.nxt \in Nat /\ RcvBuf \in Nat
      /\ t.rlist \in SUBSET [seq: Nat, len: Nat]
  BY TcbTypes, ConstantsOK DEF Good
<1>2. s.seq \in Nat /\ s.len \in Nat
  BY <1>1
<1> DEFINE z == s.seq + s.len
<1>3. z \in Nat /\ q < z
  BY <1>2
<1>4. z <= r.nxt
  BY DEF Good, Link
<1> HIDE DEF z
<1>5. r.nxt <= t.rcv + t.rwnd /\ t.rwnd <= RcvBuf - t.dlen
  BY DEF Good, Link, Receiver
<1> QED  BY <1>1, <1>3, <1>4, <1>5

\* Reading moves the start of the buffer; the other bytes keep their places.
LEMMA SlotShift ==
  ASSUME NEW t \in Tcb, NEW v \in Tcb, t.rpos < RcvBuf, NEW n \in Nat, NEW x \in Nat,
         n + x < RcvBuf, v.rpos = (t.rpos + n) % RcvBuf
  PROVE  Slot(v, x) = Slot(t, n + x)
<1>1. t.rpos \in Nat /\ RcvBuf \in Nat /\ RcvBuf > 0
  BY TcbTypes, ConstantsOK
<1>2. n \in 0..RcvBuf - 1 /\ x \in 0..RcvBuf - 1 /\ n + x \in 0..RcvBuf - 1
  BY <1>1
<1> DEFINE p == t.rpos
           w == v.rpos
           y == n + x
<1>3. p \in Nat /\ p < RcvBuf /\ y \in 0..RcvBuf - 1
  BY <1>1, <1>2
<1>4. w = IF p + n < RcvBuf THEN p + n ELSE (p + n) - RcvBuf
  BY <1>2, SlotIs DEF Slot
<1>5. Slot(t, y) = IF p + y < RcvBuf THEN p + y ELSE (p + y) - RcvBuf
  BY <1>2, SlotIs
<1>6. w < RcvBuf /\ w \in Nat
  BY <1>1, <1>2, <1>3, <1>4
<1>7. Slot(v, x) = IF w + x < RcvBuf THEN w + x ELSE (w + x) - RcvBuf
  BY <1>2, <1>6, SlotIs
<1>8. p + y = (p + n) + x
  BY <1>2, <1>3
<1> HIDE DEF p, w, y
<1>9. (IF w + x < RcvBuf THEN w + x ELSE (w + x) - RcvBuf)
      = (IF p + y < RcvBuf THEN p + y ELSE (p + y) - RcvBuf)
  BY <1>1, <1>2, <1>3, <1>4, <1>8
<1>10. Slot(v, x) = Slot(t, y)
  BY <1>5, <1>7, <1>9
<1> QED  BY <1>10 DEF y

\* Reading n bytes.
LEMMA ReceivedRead ==
  ASSUME NEW t, NEW r, Good(t, r), NEW g \in Seq(Int), Received(t, g),
         NEW n \in Nat, n > 0, n <= t.dlen, NEW v, Taken(t, v, n), NEW u, Opens(v, u)
  PROVE  LET h == g \o [i \in 1..n |-> t.cell[(t.rpos + i - 1) % RcvBuf]]
         IN /\ Received(u, h) /\ h = [i \in 1..Len(g) + n |-> i] /\ Len(h) = Len(g) + n
            /\ h \in Seq(Int)
<1> DEFINE b == [i \in 1..n |-> t.cell[(t.rpos + i - 1) % RcvBuf]]
           h == g \o b
           k == Len(g)
<1>1. /\ t \in Tcb /\ u \in Tcb /\ t.rpos \in Nat /\ t.dlen \in Nat /\ RcvBuf \in Nat
      /\ RcvBuf > 0 /\ t.rcv \in Nat /\ k \in Nat /\ t.rwnd \in Int
  BY TcbTypes, ConstantsOK, LenProperties DEF Good, Opens
<1>2. /\ t.rpos < RcvBuf /\ t.dlen <= RcvBuf
  <2>1. t.rpos < RcvBuf /\ 0 <= t.rwnd /\ t.rwnd <= RcvBuf - t.dlen
    BY DEF Good, Receiver
  <2> QED  BY <1>1, <2>1
<1>3. /\ u.rpos = (t.rpos + n) % RcvBuf /\ u.dlen = t.dlen - n /\ u.rcv = t.rcv
      /\ u.rlist = t.rlist /\ u.cell = t.cell /\ u.shutdown = t.shutdown
  BY DEF Taken, Opens
<1>4. \A x \in 0..t.dlen - 1 : Held(t, x) = k + 1 + x
  BY DEF Received, HeldInOrder
<1>5. ASSUME NEW i \in 1..n  PROVE b[i] = k + i
  <2>1. i - 1 \in 0..t.dlen - 1 /\ k + 1 + (i - 1) = k + i
    BY <1>1
  <2>2. t.rpos + i - 1 = t.rpos + (i - 1)
    OBVIOUS
  <2>3. b[i] = Held(t, i - 1)
    BY <2>2 DEF Held, Slot
  <2> QED  BY <1>4, <2>1, <2>3
<1>6. b = [i \in 1..n |-> k + i]
  BY <1>5
<1>7. b \in Seq(Int) /\ Len(b) = n
  <2> HIDE DEF b
  <2>1. b \in [1..n -> Int] /\ DOMAIN b = 1..n
    BY <1>1, <1>6
  <2> QED  BY <2>1
<1> HIDE DEF b
<1>8. h \in Seq(Int) /\ Len(h) = k + n
      /\ \A i \in 1..k + n : h[i] = IF i <= k THEN g[i] ELSE b[i - k]
  BY <1>7, ConcatProperties
<1>9. ASSUME NEW i \in 1..k + n  PROVE h[i] = i
  <2>1. CASE i <= k
    <3>1. i \in 1..k
      BY <2>1
    <3> QED  BY <1>8, <2>1, <3>1 DEF Received, FirstInOrder
  <2>2. CASE ~(i <= k)
    <3>1. i - k \in 1..n /\ k + (i - k) = i
      BY <1>1, <2>2
    <3>2. b[i - k] = k + (i - k)
      BY <1>5, <3>1
    <3> QED  BY <1>8, <2>2, <3>1, <3>2
  <2> QED  BY <2>1, <2>2
<1>10. h = [i \in 1..k + n |-> i]
  <2>1. DOMAIN h = 1..k + n /\ h = [i \in 1..k + n |-> h[i]]
    BY <1>8, LenProperties
  <2> QED  BY <1>9, <2>1
<1> HIDE DEF h
<1>11. ASSUME NEW x \in Nat, n + x < RcvBuf  PROVE Held(u, x) = Held(t, n + x)
  BY <1>1, <1>2, <1>3, <1>11, SlotShift DEF Held
<1>12. HeldInOrder(u, Len(h))
  <2> SUFFICES ASSUME NEW x \in 0..t.dlen - n - 1  PROVE Held(u, x) = k + n + 1 + x
    BY <1>1, <1>3, <1>8 DEF HeldInOrder
  <2>1. n + x \in 0..t.dlen - 1 /\ x \in Nat /\ n + x < RcvBuf /\ k + 1 + (n + x) = k + n + 1 + x
    BY <1>1, <1>2
  <2> QED  BY <1>4, <1>11, <2>1
<1>13. ASSUME ~t.shutdown  PROVE EarlyInPlace(u)
  <2> SUFFICES ASSUME NEW s \in t.rlist, NEW q \in Nat,
                      t.rcv <= q, s.seq <= q, q < s.seq + s.len
               PROVE  Held(u, t.dlen - n + (q - t.rcv)) = q
    BY <1>3 DEF EarlyInPlace
  <2> DEFINE x == t.dlen - n + (q - t.rcv)
  <2>1. t.dlen + (q - t.rcv) \in 0..RcvBuf - 1
    BY EarlyFits
  <2>2. x \in Nat /\ n + x = t.dlen + (q - t.rcv) /\ n + x < RcvBuf
    <3> DEFINE d == t.dlen
               c == t.rcv
    <3>1. d \in Nat /\ c \in Nat /\ n <= d /\ c <= q /\ RcvBuf \in Nat
      BY <1>1
    <3>2. d + (q - c) \in 0..RcvBuf - 1
      BY <2>1
    <3> HIDE DEF d, c
    <3>3. d - n + (q - c) \in Nat /\ n + (d - n + (q - c)) = d + (q - c)
      BY <3>1
    <3>4. n + (d - n + (q - c)) < RcvBuf
      BY <3>1, <3>2, <3>3
    <3> QED  BY <3>3, <3>4 DEF d, c
  <2>3. Held(t, t.dlen + (q - t.rcv)) = q
    BY <1>13 DEF Received, EarlyInPlace
  <2> HIDE DEF x
  <2>4. Held(u, x) = q
    BY <1>11, <2>2, <2>3
  <2> QED  BY <2>4 DEF x
<1>14. FirstInOrder(h)
  BY <1>8, <1>9 DEF FirstInOrder
<1>15. /\ t.rcv = 0 => t.dlen = 0
       /\ t.rcv > 0 => k + t.dlen + 1 <= t.rcv
       /\ t.rcv > 0 /\ ~t.shutdown => k + t.dlen + 1 = t.rcv
  BY DEF Received
<1>16. /\ u.rcv > 0
       /\ Len(h) + u.dlen + 1 <= u.rcv
       /\ ~u.shutdown => Len(h) + u.dlen + 1 = u.rcv
  <2> DEFINE d == t.dlen
             c == t.rcv
             m == Len(h)
  <2>1. d \in Nat /\ c \in Nat /\ n <= d /\ m = k + n /\ k \in Nat
    BY <1>1, <1>8
  <2>2. /\ c = 0 => d = 0
        /\ c > 0 => k + d + 1 <= c
        /\ c > 0 /\ ~t.shutdown => k + d + 1 = c
    BY <1>15
  <2>3. u.rcv = c /\ u.dlen = d - n /\ u.shutdown = t.shutdown
    BY <1>3
  <2> HIDE DEF d, c, m, k
  <2>4. c > 0 /\ m + (d - n) + 1 = k + d + 1
    BY <2>1, <2>2
  <2> QED  BY <2>2, <2>3, <2>4 DEF m
<1>17. Received(u, h)
  BY <1>3, <1>12, <1>13, <1>14, <1>16 DEF Received
<1> QED  BY <1>8, <1>10, <1>17 DEF h, b

\* After WriteOffset, in terms of sequence numbers: the byte with number q is in its place
\* when it was just written, and is what it was otherwise.
LEMMA HeldStored ==
  ASSUME NEW t \in Tcb, NEW u \in Tcb, t.rpos < RcvBuf, NEW lo \in Nat, NEW hi \in Nat,
         t.rcv <= lo, hi <= t.rcv + (RcvBuf - t.dlen),
         u.cell = Stored(t, lo, hi).cell, u.rpos = t.rpos,
         NEW x \in 0..RcvBuf - 1
  PROVE  Held(u, x) = IF t.dlen + (lo - t.rcv) <= x /\ x < t.dlen + (hi - t.rcv)
                      THEN x - t.dlen + t.rcv ELSE Held(t, x)
<1> DEFINE c == Stored(t, lo, hi).cell[Slot(t, x)]
<1>1. Held(u, x) = c
  BY DEF Held, Slot
<1>2. IF t.dlen + (lo - t.rcv) <= x /\ x < t.dlen + (hi - t.rcv)
      THEN c = x - t.dlen + t.rcv
      ELSE c = t.cell[Slot(t, x)]
  BY StoredAt
<1> HIDE DEF c
<1> QED  BY <1>1, <1>2 DEF Held

\* What a segment covers of the stream when it connects to what is there.
LEMMA ReceivedInOrder ==
  ASSUME NEW t, NEW r, Good(t, r), NEW g \in Seq(Int), Received(t, g), t.rcv > 0, ~t.shutdown,
         NEW hi \in Nat, t.rcv < hi, hi <= r.nxt, NEW u \in Tcb, InOrder(t, u, r, hi),
         u.rpos = t.rpos, u.shutdown = t.shutdown
  PROVE  Received(u, g)
<1> DEFINE k == Len(g)
           c == t.rcv
           d == t.dlen
           next == Reach(t.rlist, hi)
<1>1. /\ t \in Tcb /\ c \in Nat /\ d \in Nat /\ k \in Nat /\ RcvBuf \in Nat /\ r.nxt \in Nat
      /\ t.rwnd \in Int /\ t.rlist \in SUBSET [seq: Nat, len: Nat]
  BY TcbTypes, ConstantsOK, LenProperties DEF Good
<1>2. /\ t.rpos < RcvBuf /\ r.nxt <= c + t.rwnd /\ t.rwnd <= RcvBuf - d
      /\ \A s \in t.rlist : s.seq + s.len <= r.nxt
  BY DEF Good, Receiver, Link
<1>3. /\ next \in Nat /\ hi <= next /\ next <= r.nxt
      /\ u.rcv = next /\ u.dlen = d + (next - c)
      /\ u.rlist = {s \in t.rlist : s.seq > next}
      /\ u.cell = Stored(t, c, hi).cell
  BY DEF InOrder
<1>4. \A q \in Nat : hi <= q /\ q < next => \E s \in t.rlist : s.seq <= q /\ q < s.seq + s.len
  BY <1>1, <1>2, ReachIs
<1>5. /\ FirstInOrder(g) /\ (\A x \in 0..d - 1 : Held(t, x) = k + 1 + x) /\ k + d + 1 = c
      /\ \A s \in t.rlist : \A q \in Nat :
           c <= q /\ s.seq <= q /\ q < s.seq + s.len => Held(t, d + (q - c)) = q
  BY DEF Received, HeldInOrder, EarlyInPlace
<1> HIDE DEF next
<1>6. hi <= c + (RcvBuf - d) /\ next <= c + (RcvBuf - d) /\ d + (c - c) = d
  BY <1>1, <1>2, <1>3, SMTT(30)
<1>7. c < hi /\ c <= c /\ k + d + 1 = c
  BY <1>1, <1>5
<1>8. ASSUME NEW x \in 0..RcvBuf - 1
      PROVE  Held(u, x) = IF d <= x /\ x < d + (hi - c) THEN x - d + c ELSE Held(t, x)
  <2> DEFINE l == t.rcv
  <2>1. l \in Nat /\ t.rcv <= l /\ u.cell = Stored(t, l, hi).cell
        /\ hi <= t.rcv + (RcvBuf - t.dlen) /\ d + (l - c) = d
    BY <1>1, <1>3, <1>6
  <2> HIDE DEF l
  <2>2. Held(u, x) = IF t.dlen + (l - t.rcv) <= x /\ x < t.dlen + (hi - t.rcv)
                     THEN x - t.dlen + t.rcv ELSE Held(t, x)
    <3>1. t \in Tcb /\ t.rpos < RcvBuf
      BY <1>1, <1>2
    <3> QED  BY <2>1, <3>1, HeldStored
  <2> QED  BY <2>1, <2>2
<1> HIDE DEF c, d, k
<1>9. ASSUME NEW x \in 0..u.dlen - 1  PROVE Held(u, x) = k + 1 + x
  <2>1. x \in Nat /\ x < d + (next - c) /\ x \in 0..RcvBuf - 1
    BY <1>1, <1>3, <1>6
  <2>2. CASE x < d
    <3>1. x \in 0..d - 1
      BY <1>1, <2>1, <2>2
    <3>2. ~(d <= x)
      BY <1>1, <2>1, <2>2
    <3> QED  BY <1>5, <1>8, <2>1, <3>1, <3>2
  <2>3. CASE d <= x /\ x < d + (hi - c)
    <3>1. x - d + c = k + 1 + x
      BY <1>1, <1>7, <2>1
    <3> QED  BY <1>8, <2>1, <2>3, <3>1
  <2>4. CASE d <= x /\ ~(x < d + (hi - c))
    <3> DEFINE q == x - d + c
    <3>1. q \in Nat /\ hi <= q /\ q < next /\ c <= q /\ d + (q - c) = x /\ q = k + 1 + x
      BY <1>1, <1>3, <1>7, <2>1, <2>4
    <3> HIDE DEF q
    <3>2. PICK s \in t.rlist : s.seq <= q /\ q < s.seq + s.len
      BY <1>4, <3>1
    <3>3. Held(t, d + (q - c)) = q
      BY <1>5, <3>1, <3>2
    <3> QED  BY <1>8, <2>1, <2>4, <3>1, <3>3
  <2> QED  BY <1>1, <2>1, <2>2, <2>3, <2>4
<1>10. ASSUME NEW s \in u.rlist, NEW q \in Nat, u.rcv <= q, s.seq <= q, q < s.seq + s.len
      PROVE  Held(u, u.dlen + (q - u.rcv)) = q
  <2>1. s \in t.rlist /\ c <= q
    BY <1>1, <1>3, <1>7, <1>10
  <2>2. d + (q - c) \in 0..RcvBuf - 1
    BY <1>10, <2>1, EarlyFits DEF c, d
  <2>3. u.dlen + (q - u.rcv) = d + (q - c) /\ ~(d + (q - c) < d + (hi - c))
    BY <1>1, <1>3, <1>10
  <2>4. Held(t, d + (q - c)) = q
    BY <1>5, <1>10, <2>1
  <2> QED  BY <1>8, <2>2, <2>3, <2>4
<1>11. u.rcv > 0 /\ k + u.dlen + 1 = u.rcv
  BY <1>1, <1>3, <1>7
<1>12. EarlyInPlace(u)
  BY <1>10 DEF EarlyInPlace
<1>13. HeldInOrder(u, k)
  BY <1>9 DEF HeldInOrder
<1>14. u.rcv # 0 /\ k + u.dlen + 1 <= u.rcv
  BY <1>1, <1>3, <1>11
<1> QED  BY <1>5, <1>11, <1>12, <1>13, <1>14 DEF Received, k

\* Bytes that do not connect are put in their places behind a gap.
LEMMA ReceivedEarly ==
  ASSUME NEW t, NEW r, Good(t, r), NEW g \in Seq(Int), Received(t, g), t.rcv > 0, ~t.shutdown,
         NEW lo \in Nat, NEW hi \in Nat, t.rcv <= lo, lo < hi, hi <= r.nxt,
         NEW u \in Tcb, Early(t, u, lo, hi), u.rpos = t.rpos, u.shutdown = t.shutdown,
         t.rcv # lo
  PROVE  Received(u, g)
<1> DEFINE k == Len(g)
           c == t.rcv
           d == t.dlen
<1>1. /\ t \in Tcb /\ c \in Nat /\ d \in Nat /\ k \in Nat /\ RcvBuf \in Nat /\ r.nxt \in Nat
      /\ t.rwnd \in Int /\ t.rlist \in SUBSET [seq: Nat, len: Nat]
  BY TcbTypes, ConstantsOK, LenProperties DEF Good
<1>2. /\ t.rpos < RcvBuf /\ r.nxt <= c + t.rwnd /\ t.rwnd <= RcvBuf - d /\ 0 <= t.rwnd
  BY DEF Good, Receiver, Link
<1>3. /\ u.rcv = c /\ u.dlen = d
      /\ u.rlist = t.rlist \cup {[seq |-> lo, len |-> hi - lo]}
      /\ u.cell = Stored(t, lo, hi).cell
  BY DEF Early
<1>4. /\ FirstInOrder(g) /\ (\A x \in 0..d - 1 : Held(t, x) = k + 1 + x) /\ k + d + 1 = c
      /\ \A s \in t.rlist : \A q \in Nat :
           c <= q /\ s.seq <= q /\ q < s.seq + s.len => Held(t, d + (q - c)) = q
  BY DEF Received, HeldInOrder, EarlyInPlace
<1>5. hi <= c + (RcvBuf - d)
  BY <1>1, <1>2
<1>6. ASSUME NEW x \in 0..RcvBuf - 1
      PROVE  Held(u, x) = IF d + (lo - c) <= x /\ x < d + (hi - c) THEN x - d + c ELSE Held(t, x)
  BY <1>1, <1>2, <1>3, <1>5, HeldStored
<1> HIDE DEF c, d, k
<1>7. ASSUME NEW x \in 0..d - 1  PROVE Held(u, x) = k + 1 + x
  <2>1. x \in 0..RcvBuf - 1 /\ ~(d + (lo - c) <= x)
    BY <1>1, <1>2 DEF c
  <2> QED  BY <1>4, <1>6, <2>1
<1>8. ASSUME NEW s \in u.rlist, NEW q \in Nat, c <= q, s.seq <= q, q < s.seq + s.len
      PROVE  Held(u, d + (q - c)) = q
  <2> DEFINE x == d + (q - c)
  <2>1. CASE lo <= q /\ q < hi
    <3>1. x \in 0..RcvBuf - 1 /\ d + (lo - c) <= x /\ x < d + (hi - c) /\ x - d + c = q
      BY <1>1, <1>5, <1>8, <2>1
    <3> QED  BY <1>6, <3>1
  <2>2. CASE ~(lo <= q /\ q < hi)
    <3>1. s \in t.rlist
      <4>1. CASE s = [seq |-> lo, len |-> hi - lo]
        <5>1. lo <= q /\ q < hi
          BY <1>8, <4>1
        <5> QED  BY <2>2, <5>1
      <4> QED  BY <1>3, <4>1
    <3>2. x \in 0..RcvBuf - 1
      BY <1>8, <3>1, EarlyFits DEF c, d
    <3>3. ~(d + (lo - c) <= x /\ x < d + (hi - c))
      BY <1>1, <2>2
    <3>4. Held(t, x) = q
      BY <1>4, <1>8, <3>1
    <3> QED  BY <1>6, <3>2, <3>3, <3>4
  <2> QED  BY <2>1, <2>2
<1>9. HeldInOrder(u, k) /\ EarlyInPlace(u)
  BY <1>3, <1>7, <1>8 DEF HeldInOrder, EarlyInPlace
<1>10. u.rcv # 0 /\ k + u.dlen + 1 = u.rcv /\ k + u.dlen + 1 <= u.rcv
  BY <1>1, <1>3, <1>4 DEF c
<1> QED  BY <1>4, <1>9, <1>10 DEF Received, k

\* Receiving keeps the stream in order; a connect message is counted as byte 0.
LEMMA ReceivedData ==
  ASSUME NEW t, NEW r, Good(t, r), NEW g \in Seq(Int), Received(t, g), NEW p \in Packet,
         PacketOK(p, r, t), p.len > 0 /\ ~p.ctl => t.rcv > 0
  PROVE  /\ Received(Receiving(t, p), g)
         /\ p.ctl => Receiving(t, p).rcv > 0
<1> DEFINE u == Receiving(t, p)
           lo == Lo(t, p)
           hi == Hi(t, p)
<1>1. /\ t \in Tcb /\ r \in Tcb /\ t.rcv \in Nat /\ t.dlen \in Nat /\ RcvBuf \in Nat /\ RcvBuf > 0
      /\ p.seq \in Int /\ p.len \in Nat /\ t.rwnd \in Int /\ Len(g) \in Nat
  BY TcbTypes, ConstantsOK, LenProperties DEF Good, Packet
<1>2. /\ u \in Tcb /\ u.shutdown = t.shutdown /\ u.rpos = t.rpos
      /\ \/ Skips(t, p) /\ u = t
         \/ Counts(t, p) /\ Counted(t, u, hi)
         \/ Keeps(t, p) /\ lo = t.rcv /\ InOrder(t, u, r, hi)
         \/ Keeps(t, p) /\ lo # t.rcv /\ Early(t, u, lo, hi)
  BY ReceivingIs
<1>3. lo < hi => /\ hi = p.seq + p.len /\ hi \in Nat /\ lo \in Nat /\ p.len > 0 /\ t.rcv <= lo
                 /\ hi <= r.nxt
  BY TakenWhole
<1>4. p.ctl => p.seq = 0 /\ p.len = 1
  BY <1>1 DEF PacketOK
<1>5. p.ctl => lo = t.rcv /\ (t.rcv = 0 => lo < hi)
  <2>1. t.rwnd <= RcvBuf - t.dlen /\ RcvBuf <= t.rcv + t.rwnd
    BY DEF Good, Receiver
  <2> SUFFICES ASSUME p.ctl  PROVE lo = t.rcv /\ (t.rcv = 0 => lo < hi)
    OBVIOUS
  <2>2. p.seq = 0 /\ p.len = 1
    BY <1>4
  <2>3. lo = t.rcv
    BY <1>1, <2>2 DEF Lo, Max2
  <2>4. t.rcv = 0 => hi = 1
    BY <1>1, <2>1, <2>2 DEF Hi, Min2, Room
  <2> QED  BY <2>3, <2>4
<1>6. lo \in Int /\ hi \in Int
  BY <1>1 DEF Lo, Hi, Min2, Max2, Room
<1> HIDE DEF u, lo, hi
<1>7. CASE Skips(t, p) /\ u = t
  <2>1. lo >= hi \/ ((p.ctl \/ t.shutdown) /\ lo # t.rcv)
    BY <1>7 DEF Skips, lo, hi
  <2>2. p.ctl => t.rcv > 0
    BY <1>1, <1>5, <1>6, <2>1
  <2> QED  BY <1>7, <2>2 DEF u
<1>8. CASE Counts(t, p) /\ Counted(t, u, hi)
  <2>1. lo < hi /\ lo = t.rcv /\ (p.ctl \/ t.shutdown)
    BY <1>8 DEF Counts, lo, hi
  <2>2. /\ u.rcv = hi /\ u.rlist = t.rlist /\ u.cell = t.cell /\ u.dlen = t.dlen
    BY <1>8 DEF Counted
  <2>3. \A x : Held(u, x) = Held(t, x)
    BY <1>2, <2>2 DEF Held, Slot
  <2>4. FirstInOrder(g) /\ HeldInOrder(u, Len(g))
    BY <2>2, <2>3 DEF Received, HeldInOrder
  <2>5. /\ t.rcv = 0 => t.rlist = {} /\ t.dlen = 0 /\ Len(g) = 0
        /\ t.rcv > 0 => Len(g) + t.dlen + 1 <= t.rcv
    BY DEF Received
  <2>6. hi > t.rcv /\ hi > 0 /\ hi # 0 /\ hi \in Nat
    BY <1>1, <1>3, <2>1
  <2>7. Len(g) + t.dlen + 1 <= hi
    BY <1>1, <2>5, <2>6
  <2>8. ~t.shutdown => t.rcv = 0 /\ hi = 1
    <3> SUFFICES ASSUME ~t.shutdown  PROVE t.rcv = 0 /\ hi = 1
      OBVIOUS
    <3>1. p.ctl /\ p.seq = 0 /\ p.len = 1 /\ hi = p.seq + p.len
      BY <1>3, <1>4, <2>1
    <3> QED  BY <1>1, <2>6, <3>1
  <2>9. ~t.shutdown => Len(g) + t.dlen + 1 = hi /\ EarlyInPlace(u)
    BY <2>2, <2>5, <2>8 DEF EarlyInPlace
  <2>10. Received(u, g)
    BY <1>2, <2>2, <2>4, <2>6, <2>7, <2>9 DEF Received
  <2> QED  BY <2>2, <2>6, <2>10 DEF u
<1>9. CASE Keeps(t, p) /\ lo = t.rcv /\ InOrder(t, u, r, hi)
  <2>1. lo < hi /\ ~p.ctl /\ ~t.shutdown
    BY <1>9 DEF Keeps, lo, hi
  <2>2. hi \in Nat /\ t.rcv < hi /\ hi <= r.nxt /\ t.rcv > 0
    BY <1>3, <1>9, <2>1
  <2>3. Received(u, g)
    BY <1>2, <1>9, <2>1, <2>2, ReceivedInOrder
  <2> QED  BY <2>1, <2>3 DEF u
<1>10. CASE Keeps(t, p) /\ lo # t.rcv /\ Early(t, u, lo, hi)
  <2>1. lo < hi /\ ~p.ctl /\ ~t.shutdown
    BY <1>10 DEF Keeps, lo, hi
  <2>2. hi \in Nat /\ lo \in Nat /\ t.rcv <= lo /\ hi <= r.nxt /\ t.rcv > 0
    BY <1>3, <2>1
  <2>3. Received(u, g)
    BY <1>2, <1>10, <2>1, <2>2, ReceivedEarly
  <2> QED  BY <2>1, <2>3 DEF u
<1> QED  BY <1>2, <1>7, <1>8, <1>9, <1>10

----------------------------------------------------------------------------
(* The stream as the two users see it.                                     *)

\* Only the end that calls Connect writes, to one that does not call it.
ActiveWrites == \A e \in End : Writes[e] > 0 => e \in Active /\ Peer[e] \notin Active

\* End e with the object t, the other one with r: w bytes were written, and g read, at e.
Flow(e, t, r, w, g) ==
  /\ Received(t, g)
  /\ t.end = (IF t.end = 0 THEN 0 ELSE 1) + w
  /\ e \notin Active /\ t.end > 0 => t.rcv > 0
  /\ e \in Active /\ Peer[e] \notin Active /\ Joined(t) => r.rcv > 0
  /\ w > 0 => r.rcv > 0
FlowInv == \A e \in End : Flow(e, tcb[e], tcb[Peer[e]], written[e], got[e])

\* What an end knows of its peer stays when the peer has received more.
LEMMA FlowPeer ==
  ASSUME NEW e, NEW t, NEW r, NEW v, NEW w, NEW g, Flow(e, t, r, w, g),
         r.rcv \in Nat, v.rcv \in Nat, r.rcv <= v.rcv
  PROVE  Flow(e, t, v, w, g)
BY DEF Flow

\* One end changes, and with it its user's part of the stream.
LEMMA OneFlow ==
  ASSUME TcpInv, UsersOK, FlowInv, NEW e \in End, NEW u \in Tcb, NEW w, NEW g,
         tcb[e].rcv <= u.rcv, Flow(e, u, tcb[Peer[e]], w, g),
         tcb' = [tcb EXCEPT ![e] = u], written' = [written EXCEPT ![e] = w],
         got' = [got EXCEPT ![e] = g]
  PROVE  FlowInv'
<1>1. /\ Peer \in [End -> End] /\ \A x \in End : Peer[x] # x /\ Peer[Peer[x]] = x
  BY ConstantsOK
<1>2. /\ tcb \in [End -> Tcb] /\ written \in [End -> Nat] /\ got \in [End -> Seq(Int)]
  BY DEF TcpInv, EndsOK, UsersOK
<1>3. \A x \in End : Flow(x, tcb[x], tcb[Peer[x]], written[x], got[x])
  BY DEF FlowInv
<1>4. /\ tcb'[e] = u /\ written'[e] = w /\ got'[e] = g
      /\ \A x \in End : x # e => tcb'[x] = tcb[x] /\ written'[x] = written[x] /\ got'[x] = got[x]
  BY <1>2
<1>5. ASSUME NEW x \in End  PROVE Flow(x, tcb'[x], tcb'[Peer[x]], written'[x], got'[x])
  <2>1. CASE x = e
    <3>1. tcb'[Peer[e]] = tcb[Peer[e]]
      BY <1>1, <1>4
    <3> QED  BY <1>4, <2>1, <3>1
  <2>2. CASE x = Peer[e]
    <3>1. x # e /\ Peer[x] = e
      BY <1>1, <2>2
    <3>2. tcb'[x] = tcb[x] /\ tcb'[Peer[x]] = u /\ written'[x] = written[x] /\ got'[x] = got[x]
      BY <1>4, <3>1
    <3>3. Flow(x, tcb[x], tcb[e], written[x], got[x]) /\ tcb[e].rcv \in Nat /\ u.rcv \in Nat
      BY <1>2, <1>3, <3>1, TcbTypes
    <3>4. Flow(x, tcb[x], u, written[x], got[x])
      BY <3>3, FlowPeer
    <3> QED  BY <3>2, <3>4
  <2>3. CASE x # e /\ x # Peer[e]
    <3>1. Peer[x] \in End /\ Peer[x] # e
      BY <1>1, <2>3
    <3> QED  BY <1>3, <1>4, <2>3, <3>1
  <2> QED  BY <2>1, <2>2, <2>3
<1> QED  BY <1>5 DEF FlowInv

\* What the invariant says of an end and its peer.
LEMMA FlowFacts ==
  ASSUME TcpInv, UsersOK, FlowInv, NEW e \in End
  PROVE  /\ Flow(e, tcb[e], tcb[Peer[e]], written[e], got[e])
         /\ Flow(Peer[e], tcb[Peer[e]], tcb[e], written[Peer[e]], got[Peer[e]])
         /\ written[e] \in Nat /\ written[Peer[e]] \in Nat /\ got[e] \in Seq(Int)
         /\ tcb[e].rcv \in Nat /\ tcb[Peer[e]].rcv \in Nat
         /\ tcb[e].end \in Nat /\ tcb[Peer[e]].end \in Nat
<1>1. Peer[e] \in End /\ Peer[Peer[e]] = e /\ tcb[e] \in Tcb /\ tcb[Peer[e]] \in Tcb
  BY ConstantsOK, EndFacts
<1> QED  BY <1>1, TcbTypes DEF FlowInv, UsersOK

\* A call that leaves the stream alone.
LEMMA QuietFlow ==
  ASSUME TcpInv, UsersOK, FlowInv, NEW e \in End, Quieted(e), UNCHANGED users
  PROVE  FlowInv'
<1> DEFINE t == tcb[e]
           r == tcb[Peer[e]]
           w == written[e]
           g == got[e]
<1>1. PICK u \in Tcb : Quiet(t, u) /\ tcb' = [tcb EXCEPT ![e] = u]
  BY DEF Quieted
<1>2. written' = [written EXCEPT ![e] = w] /\ got' = [got EXCEPT ![e] = g]
  BY DEF users, UsersOK
<1>3. Flow(e, t, r, w, g) /\ t.rcv \in Nat
  BY FlowFacts
<1> HIDE DEF t, r, w, g
<1>4. Received(u, g)
  BY <1>1, <1>3, ReceivedSame DEF Quiet, SameBytes, Flow
<1>5. Flow(e, u, r, w, g)
  BY <1>1, <1>3, <1>4 DEF Flow, Quiet, Joined
<1>6. t.rcv <= u.rcv
  BY <1>1, <1>3 DEF Quiet
<1> QED  BY <1>1, <1>2, <1>5, <1>6, OneFlow DEF t, r

\* The steps: Connect,
LEMMA ConnectFlow ==
  ASSUME TcpInv, LiveInv, UsersOK, FlowInv, NEW e \in End, Connect(e)
  PROVE  FlowInv'
<1> DEFINE t == tcb[e]
           r == tcb[Peer[e]]
           w == written[e]
           g == got[e]
<1>1. PICK u \in Tcb : /\ SameReceiver(t, u) /\ t.end = 0 /\ u.end = 1
                       /\ u.state = "SynSent" /\ tcb' = [tcb EXCEPT ![e] = u]
  BY ConnectStep
<1>2. written' = [written EXCEPT ![e] = w] /\ got' = [got EXCEPT ![e] = g]
  BY DEF users, UsersOK, Connect
<1>3. Flow(e, t, r, w, g) /\ t.rcv \in Nat /\ e \in Active /\ w \in Nat
  BY FlowFacts DEF Connect
<1> HIDE DEF t, r, w, g
<1>4. Received(u, g)
  BY <1>1, <1>3, ReceivedSame DEF SameReceiver, SameBytes, Flow
<1>5. Flow(e, u, r, w, g)
  BY <1>1, <1>3, <1>4 DEF Flow, Joined
<1>6. t.rcv <= u.rcv
  BY <1>1, <1>3 DEF SameReceiver
<1> QED  BY <1>1, <1>2, <1>5, <1>6, OneFlow DEF t, r

\* Send,
LEMMA WriteFlow ==
  ASSUME TcpInv, LiveInv, UsersOK, FlowInv, ActiveWrites, NEW e \in End, Write(e)
  PROVE  FlowInv'
<1> DEFINE t == tcb[e]
           r == tcb[Peer[e]]
           w == written[e]
           g == got[e]
<1>1. CASE Quieted(e) /\ written' = written
  BY <1>1, QuietFlow DEF Write, users
<1>2. CASE \E n \in Nat, u \in Tcb :
             /\ n > 0 /\ written' = [written EXCEPT ![e] = @ + n]
             /\ SameReceiver(tcb[e], u) /\ tcb[e].end > 0 /\ u.end = tcb[e].end + n
             /\ u.state = tcb[e].state /\ tcb' = [tcb EXCEPT ![e] = u]
  <2>1. PICK n \in Nat, u \in Tcb :
             /\ n > 0 /\ written' = [written EXCEPT ![e] = w + n]
             /\ SameReceiver(t, u) /\ t.end > 0 /\ u.end = t.end + n
             /\ u.state = t.state /\ tcb' = [tcb EXCEPT ![e] = u]
    BY <1>2
  <2>2. got' = [got EXCEPT ![e] = g]
    BY DEF UsersOK, Write
  <2>3. Flow(e, t, r, w, g) /\ t.rcv \in Nat /\ w \in Nat /\ t.end \in Nat
    BY FlowFacts
  <2>4. e \in Active /\ Peer[e] \notin Active
    <3>1. w < Writes[e] /\ Writes[e] \in Nat
      BY ConstantsOK DEF Write
    <3>2. Writes[e] > 0
      BY <2>3, <3>1
    <3> QED  BY <3>2 DEF ActiveWrites
  <2>5. Joined(t)
    BY DEF Write, Joined
  <2> HIDE DEF t, r, w, g
  <2>6. Received(u, g)
    BY <2>1, <2>3, ReceivedSame DEF SameReceiver, SameBytes, Flow
  <2>7. r.rcv > 0
    BY <2>3, <2>4, <2>5 DEF Flow
  <2>8. t.end = 1 + w
    BY <2>1, <2>3 DEF Flow
  <2>9. u.end = 1 + (w + n) /\ u.end # 0
    BY <2>1, <2>3, <2>8
  <2>10. Flow(e, u, r, w + n, g)
    BY <2>4, <2>6, <2>7, <2>9 DEF Flow
  <2>11. t.rcv <= u.rcv
    BY <2>1, <2>3 DEF SameReceiver
  <2> QED  BY <2>1, <2>2, <2>10, <2>11, OneFlow DEF t, r
<1> QED  BY <1>1, <1>2, WriteStep DEF UsersOK

\* Reading: the user gets the next bytes of the stream.
LEMMA ReadFlow ==
  ASSUME TcpInv, LiveInv, UsersOK, FlowInv, NEW e \in End, NEW len \in ReadSizes, Read(e, len)
  PROVE  /\ FlowInv' /\ written' = written
         /\ \/ got' = got
            \/ \E h \in Seq(Int) : /\ Len(h) > Len(got[e]) /\ h = [i \in 1..Len(h) |-> i]
                                  /\ got' = [got EXCEPT ![e] = h]
<1> DEFINE t == tcb[e]
           r == tcb[Peer[e]]
           w == written[e]
           g == got[e]
           n == Min2(len, t.dlen)
           h == g \o [i \in 1..n |-> t.cell[(t.rpos + i - 1) % RcvBuf]]
<1>1. t \in Tcb /\ t.dlen \in Nat /\ len \in Nat /\ written' = written /\ Good(t, r)
  BY EndFacts, TcbTypes, ConstantsOK DEF Read
<1>2. n \in Nat /\ n <= t.dlen
  BY <1>1 DEF Min2
<1>3. CASE n = 0
  <2>1. Quieted(e) /\ got' = got
    BY <1>3, ReadStep DEF Read
  <2> QED  BY <1>1, <2>1, QuietFlow DEF users
<1>4. CASE n # 0
  <2>1. PICK v, u : Taken(t, v, n) /\ v.rpos < RcvBuf /\ Opens(v, u) /\ tcb' = [tcb EXCEPT ![e] = u]
    BY <1>4, ReadStep
  <2>2. got' = [got EXCEPT ![e] = h] /\ written' = [written EXCEPT ![e] = w]
    BY <1>1, <1>4 DEF Read, UsersOK
  <2>3. Flow(e, t, r, w, g) /\ t.rcv \in Nat /\ g \in Seq(Int)
    BY FlowFacts
  <2> HIDE DEF t, r, w, g, n
  <2>4. Received(t, g)
    BY <2>3 DEF Flow
  <2>5. n > 0
    BY <1>2, <1>4
  <2>6. /\ Received(u, h) /\ h = [i \in 1..Len(g) + n |-> i] /\ Len(h) = Len(g) + n
        /\ h \in Seq(Int)
    BY <1>1, <1>2, <2>1, <2>3, <2>4, <2>5, ReceivedRead
  <2> HIDE DEF h
  <2>7. u \in Tcb /\ u.rcv = t.rcv /\ u.end = t.end /\ u.state = t.state
    BY <2>1 DEF Taken, Opens, SameList
  <2>8. Flow(e, u, r, w, h)
    BY <2>3, <2>6, <2>7 DEF Flow, Joined
  <2>9. t.rcv <= u.rcv
    BY <2>3, <2>7
  <2>10. FlowInv'
    BY <2>1, <2>2, <2>7, <2>8, <2>9, OneFlow DEF t, r
  <2>11. Len(g) \in Nat
    BY <2>3, LenProperties
  <2>12. Len(h) > Len(g) /\ h = [i \in 1..Len(h) |-> i]
    BY <1>2, <2>5, <2>6, <2>11
  <2> QED  BY <1>1, <2>2, <2>6, <2>10, <2>12 DEF g
<1> QED  BY <1>3, <1>4

\* A packet with data comes after the connect message has arrived, for the peer wrote it.
LEMMA DataAfterConnect ==
  ASSUME NEW e, NEW t, NEW r, NEW w, NEW g, Flow(e, r, t, w, g), Good(t, r), StateOK(r),
         NEW p \in Packet, PacketOK(p, r, t), r.nxt <= r.end, w \in Nat
  PROVE  /\ p.len > 0 /\ ~p.ctl => t.rcv > 0
         /\ p.ctl => r.end > 0
<1>1. /\ p.seq \in Int /\ p.len \in Nat /\ r.nxt \in Nat /\ r.end \in Nat
  BY TcbTypes DEF Good, Packet
<1>2. p.len > 0 => p.seq >= 0 /\ p.seq + p.len <= r.nxt /\ (p.ctl <=> p.seq = 0)
  BY DEF PacketOK
<1>3. p.ctl => p.len > 0
  BY DEF PacketOK
<1>4. p.len > 0 => r.end > 0
  BY <1>1, <1>2
<1>5. p.len > 0 /\ ~p.ctl => r.end > 1
  BY <1>1, <1>2
<1>6. r.end > 1 => w > 0
  BY <1>1 DEF Flow
<1> QED  BY <1>3, <1>4, <1>5, <1>6 DEF Flow

\* NotifyPacket: the data of a packet gets to its place in the stream.
LEMMA NotifyFlow ==
  ASSUME TcpInv, LiveInv, UsersOK, FlowInv, NEW e \in End, NEW p \in net, NotifyPacket(e, p)
  PROVE  FlowInv'
<1> DEFINE t == tcb[e]
           r == tcb[Peer[e]]
           w == written[e]
           g == got[e]
           f == Peer[e]
<1>1. written' = [written EXCEPT ![e] = w] /\ got' = [got EXCEPT ![e] = g]
  BY DEF NotifyPacket, users, UsersOK
<1>2. /\ Flow(e, t, r, w, g) /\ Flow(f, r, t, written[f], got[f]) /\ written[f] \in Nat
      /\ t.rcv \in Nat /\ g \in Seq(Int) /\ w \in Nat /\ t.end \in Nat
  BY FlowFacts
<1>3. /\ t \in Tcb /\ r \in Tcb /\ Good(t, r) /\ StateOK(r) /\ Good(r, tcb[Peer[f]])
  BY EndFacts
<1>4. p \in Packet /\ PacketOK(p, r, t)
  BY DEF NotifyPacket, TcpInv, PacketsOK
<1>5. r.nxt <= r.end
  BY <1>3 DEF Good, Sender, Segments, ListOK
<1>6. PICK u : \/ tcb' = tcb
               \/ /\ Turned(t, u, r, p)
                  /\ \/ tcb' = [tcb EXCEPT ![e] = Arrived(u, p)]
                     \/ t.end > 0 /\ tcb' = [tcb EXCEPT ![e] = Closed(u)]
  BY NotifyPacketStep DEF Notified
<1>7. CASE tcb' = tcb
  <2>1. written' = written /\ got' = got
    BY DEF NotifyPacket, users
  <2> QED  BY <1>7, <2>1 DEF FlowInv
<1> HIDE DEF t, r, w, g, f
<1>8. /\ p.len > 0 /\ ~p.ctl => t.rcv > 0
      /\ p.ctl => r.end > 0
  BY <1>2, <1>3, <1>4, <1>5, DataAfterConnect
<1>9. f \notin Active /\ p.ctl => r.rcv > 0
  BY <1>2, <1>8 DEF Flow
<1>10. ASSUME Turned(t, u, r, p)
       PROVE  /\ u \in Tcb /\ Good(u, r) /\ u.rcv = t.rcv /\ Received(u, g) /\ PacketOK(p, r, u)
              /\ u.end = t.end \/ (p.ctl /\ t.end = 0 /\ u.end = 1)
              /\ Joined(u) => Joined(t) \/ p.ctl
  <2>1. /\ Good(u, r) /\ Grows(t, u) /\ u \in Tcb /\ SameReceiver(t, u)
        /\ u.end = t.end \/ (p.ctl /\ t.end = 0 /\ u.end = 1)
        /\ Joined(u) => Joined(t) \/ p.ctl
    BY <1>10 DEF Turned, KeepsGood, Good
  <2>2. Received(u, g)
    BY <1>2, <2>1, ReceivedSame DEF SameReceiver, SameBytes, Flow
  <2>3. PacketOK(p, r, u)
    BY <1>3, <1>4, <2>1, PacketTo
  <2> QED  BY <2>1, <2>2, <2>3 DEF SameReceiver
<1>11. CASE Turned(t, u, r, p) /\ tcb' = [tcb EXCEPT ![e] = Arrived(u, p)]
  <2> DEFINE v == Receiving(u, p)
             x == Arrived(u, p)
             d == AckFor(u, p)
  <2>1. /\ u \in Tcb /\ Good(u, r) /\ u.rcv = t.rcv /\ Received(u, g) /\ PacketOK(p, r, u)
        /\ u.end = t.end \/ (p.ctl /\ t.end = 0 /\ u.end = 1)
        /\ Joined(u) => Joined(t) \/ p.ctl
    BY <1>10, <1>11
  <2>2. Received(v, g) /\ (p.ctl => v.rcv > 0)
    BY <1>2, <1>4, <1>8, <2>1, ReceivedData
  <2>3. v \in Tcb /\ v.end = u.end /\ v.state = u.state
    BY <1>4, <2>1, ReceivingIs DEF SameList
  <2>4. u.rcv <= v.rcv
    BY <1>4, <2>1, ReceivingGood DEF Grows
  <2>5. d \in Todos
    BY AckForIs
  <2>6. x = [v EXCEPT !.todo = d]
    BY DEF Arrived
  <2> HIDE DEF v, x, d
  <2>7. x \in Tcb /\ x.end = v.end /\ x.state = v.state /\ x.rcv = v.rcv /\ SameBytes(v, x)
    BY <2>3, <2>5, <2>6, TodoIs DEF SameCore, SameReceiver, SameBytes
  <2>8. Received(x, g)
    BY <2>2, <2>7, ReceivedSame
  <2>9. t.rcv <= x.rcv /\ x.rcv \in Nat
    BY <2>1, <2>4, <2>7, TcbTypes
  <2>10. x.end = u.end /\ (Joined(x) => Joined(t) \/ p.ctl) /\ (p.ctl => x.rcv > 0)
    BY <2>1, <2>2, <2>3, <2>7 DEF Joined
  <2>11. x.end = (IF x.end = 0 THEN 0 ELSE 1) + w
    BY <1>2, <2>1, <2>10 DEF Flow
  <2>12. e \notin Active /\ x.end > 0 => x.rcv > 0
    <3>1. e \notin Active /\ t.end > 0 => t.rcv > 0
      BY <1>2 DEF Flow
    <3>2. x.end > 0 => t.end > 0 \/ p.ctl
      BY <2>1, <2>10
    <3> QED  BY <1>2, <2>9, <2>10, <3>1, <3>2
  <2>13. e \in Active /\ f \notin Active /\ Joined(x) => r.rcv > 0
    BY <1>2, <1>9, <2>10 DEF Flow, f
  <2>14. Flow(e, x, r, w, g)
    BY <1>2, <2>8, <2>11, <2>12, <2>13 DEF Flow, f
  <2>15. tcb' = [tcb EXCEPT ![e] = x]
    BY <1>11 DEF x
  <2> QED  BY <1>1, <2>7, <2>9, <2>14, <2>15, OneFlow DEF t, r
<1>12. CASE /\ Turned(t, u, r, p) /\ t.end > 0
            /\ tcb' = [tcb EXCEPT ![e] = Closed(u)]
  <2> DEFINE x == Closed(u)
  <2>1. u \in Tcb /\ u.rcv = t.rcv /\ Received(u, g) /\ u.end = t.end
    BY <1>10, <1>12
  <2>2. x \in Tcb /\ x.end = u.end /\ x.state = "Closed" /\ x.rcv = u.rcv /\ SameBytes(u, x)
    BY <2>1, ClosedCore DEF SameCore, SameReceiver, SameBytes
  <2> HIDE DEF x
  <2>3. Received(x, g)
    BY <2>1, <2>2, ReceivedSame
  <2>4. Flow(e, x, r, w, g)
    BY <1>2, <2>1, <2>2, <2>3 DEF Flow, Joined
  <2>5. t.rcv <= x.rcv
    BY <1>2, <2>1, <2>2
  <2>6. tcb' = [tcb EXCEPT ![e] = x]
    BY <1>12 DEF x
  <2> QED  BY <1>1, <2>2, <2>4, <2>5, <2>6, OneFlow DEF t, r
<1> QED  BY <1>6, <1>7, <1>11, <1>12

\* The invariant holds at the start,
LEMMA FlowInit ==
  ASSUME Init
  PROVE  FlowInv
<1>1. Peer \in [End -> End]
  BY ConstantsOK
<1>2. \A e : Flow(e, Fresh, Fresh, 0, << >>)
  BY DEF Flow, Joined, Received, FirstInOrder, HeldInOrder, EarlyInPlace, Fresh
<1>3. /\ \A e \in End : tcb[e] = Fresh /\ written[e] = 0 /\ got[e] = << >>
  BY DEF Init
<1> QED  BY <1>1, <1>2, <1>3 DEF FlowInv

\* every step keeps it when only the end that calls Connect writes,
LEMMA FlowStep ==
  ASSUME IInv, FlowInv, ActiveWrites, [Next]_vars
  PROVE  FlowInv'
<1>1. TcpInv /\ LiveInv /\ UsersOK
  BY DEF IInv
<1>2. ASSUME NEW e \in End, Step(e)
      PROVE  FlowInv'
  <2>1. CASE Connect(e)
    BY <1>1, <2>1, ConnectFlow
  <2>2. CASE Write(e)
    BY <1>1, <2>2, WriteFlow
  <2>3. CASE \E n \in ReadSizes : Read(e, n)
    BY <1>1, <2>3, ReadFlow
  <2>4. CASE Close(e)
    BY <1>1, <2>4, CloseStep, QuietFlow DEF Close
  <2>5. CASE \E p \in net : NotifyPacket(e, p)
    BY <1>1, <2>5, NotifyFlow
  <2>6. CASE RetransmitTimeout(e)
    BY <1>1, <2>6, RetransmitTimeoutStep, QuietFlow DEF RetransmitTimeout
  <2>7. CASE Probe(e)
    BY <1>1, <2>7, ProbeStep, QuietFlow DEF Probe
  <2>8. CASE DelayedAck(e)
    BY <1>1, <2>8, DelayedAckStep, QuietFlow DEF DelayedAck
  <2>9. CASE SendAck(e)
    BY <1>1, <2>9, SendAckStep, QuietFlow DEF SendAck
  <2>10. CASE SendNothing(e)
    BY <1>1, <2>10, SendNothingStep, QuietFlow DEF SendNothing
  <2>11. CASE SendSegment(e)
    BY <1>1, <2>11, SendSegmentStep, QuietFlow DEF SendSegment
  <2> QED  BY <1>2, <2>1, <2>2, <2>3, <2>4, <2>5, <2>6, <2>7, <2>8, <2>9, <2>10, <2>11
           DEF Step, NotifyClock, AttemptSend
<1>3. CASE UNCHANGED vars
  BY <1>3 DEF vars, FlowInv
<1> QED  BY <1>2, <1>3 DEF Next

\* and so it always holds.
LEMMA FlowAlways ==
  ASSUME ActiveWrites
  PROVE  Spec => [](IInv /\ FlowInv)
<1>1. Init => IInv /\ FlowInv
  BY InitIInv, FlowInit
<1>2. IInv /\ FlowInv /\ [Next]_vars => (IInv /\ FlowInv)'
  BY StepIInv, FlowStep
<1> QED  BY <1>1, <1>2, PTL DEF Spec

\* Nobody has more of a stream than was written.
LEMMA GotIsWritten ==
  ASSUME IInv, FlowInv, NEW e \in End
  PROVE  /\ Len(got[e]) + tcb[e].dlen <= written[Peer[e]]
         /\ FirstInOrder(got[e]) /\ Len(got[e]) \in Nat /\ tcb[e].dlen \in Nat
<1> DEFINE t == tcb[e]
           r == tcb[Peer[e]]
           w == written[Peer[e]]
           k == Len(got[e])
<1>1. TcpInv /\ UsersOK /\ Good(t, r)
  BY EndFacts DEF IInv
<1>2. /\ Received(t, got[e]) /\ r.end = (IF r.end = 0 THEN 0 ELSE 1) + w
      /\ w \in Nat /\ got[e] \in Seq(Int)
  BY <1>1, FlowFacts DEF Flow
<1>3. t.rcv \in Nat /\ t.dlen \in Nat /\ r.nxt \in Nat /\ r.end \in Nat /\ k \in Nat
  BY <1>1, <1>2, TcbTypes, LenProperties DEF Good
<1>4. t.rcv <= r.nxt /\ r.nxt <= r.end
  <2>1. Good(r, tcb[Peer[Peer[e]]])
    BY <1>1, EndFacts
  <2> QED  BY <1>1, <2>1 DEF Good, Link, Sender, Segments, ListOK
<1>5. /\ FirstInOrder(got[e])
      /\ t.rcv = 0 => t.dlen = 0 /\ k = 0
      /\ t.rcv > 0 => k + t.dlen + 1 <= t.rcv
  BY <1>2 DEF Received
<1> HIDE DEF t, r, w, k
<1>6. k + t.dlen <= w
  BY <1>2, <1>3, <1>4, <1>5
<1> QED  BY <1>3, <1>5, <1>6 DEF t, w, k

\* What an end has read is the start of what its peer has written.
HasRead == \A e \in End : Len(got[e]) <= written[Peer[e]] /\ FirstInOrder(got[e])

\* It follows from the invariant.
LEMMA HasReadAlways ==
  ASSUME IInv, FlowInv
  PROVE  HasRead
<1> SUFFICES ASSUME NEW e \in End
             PROVE  Len(got[e]) <= written[Peer[e]] /\ FirstInOrder(got[e])
  BY DEF HasRead
<1>1. /\ Len(got[e]) + tcb[e].dlen <= written[Peer[e]]
      /\ FirstInOrder(got[e]) /\ Len(got[e]) \in Nat /\ tcb[e].dlen \in Nat
  BY GotIsWritten
<1>2. written[Peer[e]] \in Nat
  BY FlowFacts DEF IInv
<1> QED  BY <1>1, <1>2

\* The bytes read are the first of those written, in order, though the network loses, repeats
\* and reorders packets (process, WriteOffset, Recv).
THEOREM StreamIsIntact ==
  ASSUME ActiveWrites
  PROVE  Spec => []StreamIntact
<1>1. IInv /\ FlowInv => StreamIntact
  BY HasReadAlways DEF HasRead, FirstInOrder, StreamIntact
<1> QED  BY <1>1, FlowAlways, PTL

\* Close(false) loses nothing: when clock_check says that the object may go, the other end has
\* all that was written.
THEOREM FlushedBeforeDone ==
  ASSUME ActiveWrites
  PROVE  Spec => []FlushedWhenDone
<1>1. IInv /\ FlowInv => FlushedWhenDone
  <2> SUFFICES ASSUME IInv, FlowInv, NEW e \in End, MayGo(tcb[e]), Idle(e),
                      tcb[e].state = "Established", ~tcb[Peer[e]].shutdown
               PROVE  Len(got[Peer[e]]) + tcb[Peer[e]].dlen = written[e]
    BY DEF FlushedWhenDone
  <2> DEFINE t == tcb[e]
             r == tcb[Peer[e]]
             w == written[e]
             k == Len(got[Peer[e]])
  <2>1. TcpInv /\ UsersOK /\ Good(t, r) /\ StateOK(t)
    BY EndFacts DEF IInv
  <2>2. /\ t.end = (IF t.end = 0 THEN 0 ELSE 1) + w /\ w \in Nat
        /\ Received(r, got[Peer[e]]) /\ got[Peer[e]] \in Seq(Int)
    BY <2>1, FlowFacts, EndFacts DEF Flow, UsersOK
  <2>3. /\ t.una \in Nat /\ t.nxt \in Nat /\ t.end \in Nat /\ r.rcv \in Nat /\ r.dlen \in Nat
        /\ k \in Nat
    BY <2>1, <2>2, TcbTypes, LenProperties DEF Good
  <2>4. /\ t.una <= r.rcv /\ r.rcv <= t.nxt /\ t.nxt <= t.end
    BY <2>1 DEF Good, Link, Sender, Segments, ListOK
  <2>5. t.end - t.una = 0
    BY DEF MayGo, Buffered
  <2>6. t.end > 0
    BY <2>1 DEF StateOK, Opened
  <2>7. r.rcv > 0 => k + r.dlen + 1 = r.rcv
    BY <2>2 DEF Received
  <2> HIDE DEF t, r, w, k
  <2>8. r.rcv = t.end
    BY <2>3, <2>4, <2>5
  <2>9. t.end = 1 + w /\ w \in Nat
    BY <2>2, <2>6
  <2>10. k + r.dlen + 1 = 1 + w
    BY <2>6, <2>7, <2>8, <2>9
  <2>11. k + r.dlen = w
    BY <2>3, <2>9, <2>10
  <2> QED  BY <2>11 DEF k, r, w
<1> QED  BY <1>1, FlowAlways, PTL

\* Every step of the protocol is a step of the byte stream, or leaves it alone.
LEMMA StreamStep ==
  ASSUME IInv, FlowInv, HasRead', ActiveWrites, [Next]_vars
  PROVE  [Stream!Next]_Stream!vars
<1>1. TcpInv /\ LiveInv /\ UsersOK
  BY DEF IInv
<1>2. ASSUME NEW e \in End, Write(e)
      PROVE  [Stream!Next]_Stream!vars
  <2>1. \/ written' = written
        \/ \E n \in Nat : n > 0 /\ written' = [written EXCEPT ![e] = @ + n]
    BY <1>1, <1>2, WriteStep DEF UsersOK
  <2>2. got' = got /\ written \in [End -> Nat]
    BY <1>1, <1>2 DEF Write, UsersOK
  <2>3. CASE written' = written
    BY <2>2, <2>3 DEF Stream!vars
  <2>4. CASE \E n \in Nat : n > 0 /\ written' = [written EXCEPT ![e] = @ + n]
    <3>1. PICK n \in Nat : n > 0 /\ written' = [written EXCEPT ![e] = written[e] + n]
      BY <2>4
    <3>2. written'[e] = written[e] + n /\ written[e] \in Nat
      BY <2>2, <3>1
    <3>3. Stream!Write(e)
      BY <2>2, <3>1, <3>2 DEF Stream!Write
    <3> QED  BY <1>2, <3>3 DEF Stream!Next
  <2> QED  BY <2>1, <2>3, <2>4
<1>3. ASSUME NEW e \in End, NEW len \in ReadSizes, Read(e, len)
      PROVE  [Stream!Next]_Stream!vars
  <2>1. /\ written' = written
        /\ \/ got' = got
           \/ \E h \in Seq(Int) : /\ Len(h) > Len(got[e]) /\ h = [i \in 1..Len(h) |-> i]
                                 /\ got' = [got EXCEPT ![e] = h]
    BY <1>1, <1>3, ReadFlow
  <2>2. CASE got' = got
    BY <2>1, <2>2 DEF Stream!vars
  <2>3. CASE \E h \in Seq(Int) : /\ Len(h) > Len(got[e]) /\ h = [i \in 1..Len(h) |-> i]
                                 /\ got' = [got EXCEPT ![e] = h]
    <3>1. PICK h \in Seq(Int) : /\ Len(h) > Len(got[e]) /\ h = [i \in 1..Len(h) |-> i]
                                /\ got' = [got EXCEPT ![e] = h]
      BY <2>3
    <3>2. got'[e] = h
      BY <1>1, <3>1 DEF UsersOK
    <3>3. Len(got'[e]) <= written'[Peer[e]]
      BY DEF HasRead
    <3>4. Len(h) \in Nat /\ Len(got[e]) \in Nat /\ written[Peer[e]] \in Nat
      BY <1>1, ConstantsOK, LenProperties DEF UsersOK
    <3>5. Len(h) \in Len(got[e]) + 1 .. written[Peer[e]]
      BY <2>1, <3>1, <3>2, <3>3, <3>4
    <3>6. got' = [got EXCEPT ![e] = Stream!FirstBytes(Len(h))]
      BY <3>1 DEF Stream!FirstBytes
    <3>7. Stream!Read(e)
      BY <2>1, <3>5, <3>6 DEF Stream!Read
    <3> QED  BY <1>3, <3>7 DEF Stream!Next
  <2> QED  BY <2>1, <2>2, <2>3
<1>4. ASSUME NEW e \in End, Step(e), ~Write(e), ~(\E n \in ReadSizes : Read(e, n))
      PROVE  [Stream!Next]_Stream!vars
  <2>1. UNCHANGED users
    BY <1>4 DEF Step, Connect, Close, NotifyPacket, NotifyClock, RetransmitTimeout, Probe,
                DelayedAck, AttemptSend, SendAck, SendNothing, SendSegment
  <2> QED  BY <2>1 DEF users, Stream!vars
<1>5. CASE UNCHANGED vars
  BY <1>5 DEF vars, Stream!vars
<1> QED  BY <1>2, <1>3, <1>4, <1>5 DEF Next

\* The protocol implements the byte stream it promises: every step is a Send or a Recv of the
\* stream, or leaves it alone.
THEOREM ImplementsStream ==
  ASSUME ActiveWrites
  PROVE  Spec => StreamSpec
<1>1. Init => Stream!Init
  BY DEF Init, Stream!Init
<1>2. IInv /\ FlowInv /\ HasRead' /\ [Next]_vars => [Stream!Next]_Stream!vars
  BY StreamStep
<1>3. IInv /\ FlowInv => HasRead
  BY HasReadAlways
<1> QED  BY <1>1, <1>2, <1>3, FlowAlways, PTL DEF Spec, StreamSpec, Stream!Spec
=============================================================================
