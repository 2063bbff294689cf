---------------------------- MODULE TransportProofs ----------------------------
(* Theorems about Transport, for every set of components and every bound.     *)
EXTENDS Transport, FiniteSetTheorems, SequenceTheorems, TLAPS

----------------------------------------------------------------------------
(* What is among the messages of a sequence.                               *)

Has(s, m) == \E i \in 1..Len(s) : s[i] = m

LEMMA HasNow == \A m : Pending(m) <=> Has(sig, m)
  BY DEF Pending, Has

LEMMA HasConcat ==
  ASSUME NEW S, NEW s \in Seq(S), NEW t \in Seq(S), NEW m
  PROVE  s \o t \in Seq(S) /\ (Has(s \o t, m) <=> Has(s, m) \/ Has(t, m))
<1>1. /\ s \o t \in Seq(S) /\ Len(s \o t) = Len(s) + Len(t)
      /\ \A i \in 1..Len(s) + Len(t) : (s \o t)[i] = IF i <= Len(s) THEN s[i] ELSE t[i - Len(s)]
      /\ Len(s) \in Nat /\ Len(t) \in Nat
  BY ConcatProperties, LenProperties
<1>2. Has(s \o t, m) => Has(s, m) \/ Has(t, m)
  <2> SUFFICES ASSUME NEW i \in 1..Len(s) + Len(t), (s \o t)[i] = m
               PROVE  Has(s, m) \/ Has(t, m)
    BY <1>1 DEF Has
  <2>1. CASE i <= Len(s)
    BY <1>1, <2>1 DEF Has
  <2>2. CASE i > Len(s)
    <3>1. i - Len(s) \in 1..Len(t) /\ t[i - Len(s)] = m
      BY <1>1, <2>2
    <3> QED  BY <3>1 DEF Has
  <2> QED  BY <1>1, <2>1, <2>2
<1>3. Has(s, m) => Has(s \o t, m)
  BY <1>1 DEF Has
<1>4. Has(t, m) => Has(s \o t, m)
  <2> SUFFICES ASSUME NEW i \in 1..Len(t), t[i] = m  PROVE Has(s \o t, m)
    BY DEF Has
  <2>1. Len(s) + i \in 1..Len(s) + Len(t) /\ (s \o t)[Len(s) + i] = m
    BY <1>1
  <2> QED  BY <1>1, <2>1 DEF Has
<1> QED  BY <1>1, <1>2, <1>3, <1>4

LEMMA HasTail ==
  ASSUME NEW S, NEW s \in Seq(S), s # <<>>, NEW m
  PROVE  /\ Tail(s) \in Seq(S)
         /\ Has(s, m) <=> Head(s) = m \/ Has(Tail(s), m)
<1>1. /\ Tail(s) \in Seq(S) /\ Len(Tail(s)) = Len(s) - 1 /\ Head(s) = s[1]
      /\ \A i \in 1..Len(Tail(s)) : Tail(s)[i] = s[i + 1]
      /\ Len(s) \in Nat /\ Len(s) # 0
  BY HeadTailProperties, EmptySeq, LenProperties
<1>2. Has(s, m) => Head(s) = m \/ Has(Tail(s), m)
  <2> SUFFICES ASSUME NEW i \in 1..Len(s), s[i] = m, i # 1  PROVE Has(Tail(s), m)
    BY <1>1 DEF Has
  <2>1. i - 1 \in 1..Len(Tail(s)) /\ Tail(s)[i - 1] = m
    BY <1>1
  <2> QED  BY <2>1 DEF Has
<1>3. Head(s) = m => Has(s, m)
  BY <1>1 DEF Has
<1>4. Has(Tail(s), m) => Has(s, m)
  <2> SUFFICES ASSUME NEW i \in 1..Len(Tail(s)), Tail(s)[i] = m  PROVE Has(s, m)
    BY DEF Has
  <2>1. i + 1 \in 1..Len(s) /\ s[i + 1] = m
    BY <1>1
  <2> QED  BY <2>1 DEF Has
<1> QED  BY <1>1, <1>2, <1>3, <1>4

LEMMA HasFew ==
  /\ \A m : ~Has(<<>>, m)
  /\ \A a, m : Has(<<a>>, m) <=> m = a
  /\ \A a, b, m : Has(<<a, b>>, m) <=> m = a \/ m = b
  BY DEF Has

LEMMA MessagesDiffer ==
  /\ \A c : /\ <<"Request", c>> # <<"Connecting">> /\ <<"Request", c>> # <<"Write">>
            /\ <<"Request", c>> # <<"Read">> /\ <<"Request", c>> # <<"Candidates">>
            /\ <<"Request", c>> # <<"Allocated">>
  /\ \A c, d : <<"Request", c>> = <<"Request", d>> <=> c = d
  /\ \A a, b : <<a>> = <<b>> <=> a = b
  OBVIOUS

\* Each message of a set, in whatever order.
LEMMA InOrder ==
  ASSUME NEW ms, IsFiniteSet(ms), NEW s \in InSomeOrder(ms)
  PROVE  s \in Seq(ms) /\ \A m : Has(s, m) <=> m \in ms
<1>1. Cardinality(ms) \in Nat
  BY FS_CardinalityType
<1>2. s \in [1..Cardinality(ms) -> ms] /\ \A m \in ms : \E i \in DOMAIN s : s[i] = m
  BY DEF InSomeOrder
<1>3. s \in Seq(ms) /\ Len(s) = Cardinality(ms) /\ DOMAIN s = 1..Len(s)
  BY <1>1, <1>2
<1> QED  BY <1>2, <1>3 DEF Has

----------------------------------------------------------------------------
(* What an action leaves pending.                                          *)

Kept == \A m : Pending(m) => Pending(m)'

LEMMA MessagesTyped ==
  /\ <<"Connecting">> \in Message /\ <<"Read">> \in Message /\ <<"Write">> \in Message
  /\ <<"Candidates">> \in Message /\ <<"Allocated">> \in Message
  /\ \A c \in Comp : <<"Request", c>> \in Message
  BY DEF Message

LEMMA Posts ==
  ASSUME sig \in Seq(Message), NEW ms \in Seq(Message), Post(ms)
  PROVE  sig' \in Seq(Message) /\ Kept /\ \A m : Has(ms, m) => Pending(m)'
<1>1. sig' = sig \o ms
  BY DEF Post
<1>2. \A m : sig' \in Seq(Message) /\ (Has(sig', m) <=> Has(sig, m) \/ Has(ms, m))
  BY <1>1, HasConcat
<1>3. \A m : (Pending(m) <=> Has(sig, m)) /\ (Pending(m)' <=> Has(sig', m))
  BY DEF Pending, Has
<1> QED  BY <1>2, <1>3 DEF Kept

LEMMA PostsOne ==
  ASSUME sig \in Seq(Message), NEW a \in Message, Post(<<a>>)
  PROVE  sig' \in Seq(Message) /\ Kept /\ Pending(a)'
<1>1. <<a>> \in Seq(Message) /\ Has(<<a>>, a)
  BY HasFew
<1> QED  BY <1>1, Posts

LEMMA PostsTwo ==
  ASSUME sig \in Seq(Message), NEW a \in Message, NEW b \in Message, Post(<<a, b>>)
  PROVE  sig' \in Seq(Message) /\ Kept /\ Pending(a)' /\ Pending(b)'
<1>1. <<a, b>> \in Seq(Message) /\ Has(<<a, b>>, a) /\ Has(<<a, b>>, b)
  BY HasFew
<1> QED  BY <1>1, Posts

LEMMA PostsIf ==
  ASSUME sig \in Seq(Message), NEW a \in Message, NEW cond \in BOOLEAN, PostIf(cond, a)
  PROVE  sig' \in Seq(Message) /\ Kept /\ (cond => Pending(a)')
<1>1. CASE cond
  BY <1>1, PostsOne DEF PostIf
<1>2. CASE ~cond
  <2>1. Post(<<>>) /\ <<>> \in Seq(Message)
    BY <1>2 DEF PostIf
  <2> QED  BY <2>1, <1>2, Posts
<1> QED  BY <1>1, <1>2

LEMMA StaysSame ==
  ASSUME UNCHANGED sig  PROVE Kept
  BY DEF Kept, Pending

LEMMA Takes ==
  ASSUME sig \in Seq(Message), NEW n, Take(n)
  PROVE  sig' \in Seq(Message) /\ \A m : m # n /\ Pending(m) => Pending(m)'
<1>1. sig # <<>> /\ Head(sig) = n /\ sig' = Tail(sig)
  BY DEF Take
<1>2. \A m : sig' \in Seq(Message) /\ (Has(sig, m) <=> n = m \/ Has(sig', m))
  BY <1>1, HasTail
<1>3. \A m : (Pending(m) <=> Has(sig, m)) /\ (Pending(m)' <=> Has(sig', m))
  BY DEF Pending, Has
<1> QED  BY <1>2, <1>3

LEMMA CreateChannelPosts ==
  ASSUME sig \in Seq(Message), NEW c \in Comp, CreateChannel(c)
  PROVE  /\ sig' \in Seq(Message) /\ Kept
         /\ ~HasChannel(c) /\ connect => Pending(<<"Request", c>>)'
         /\ connect /\ ~HasChannels => Pending(<<"Connecting">>)'
<1>1. CASE ~HasChannel(c) /\ connect
  <2>1. CASE HasChannels
    <3>1. Post(<< <<"Request", c>> >>)
      BY <1>1, <2>1 DEF CreateChannel
    <3> QED  BY <3>1, <2>1, PostsOne, MessagesTyped
  <2>2. CASE ~HasChannels
    <3>1. Post(<< <<"Request", c>>, <<"Connecting">> >>)
      BY <1>1, <2>2 DEF CreateChannel
    <3> QED  BY <3>1, PostsTwo, MessagesTyped
  <2> QED  BY <2>1, <2>2
<1>2. CASE ~(~HasChannel(c) /\ connect)
  <2>1. UNCHANGED sig /\ (connect => HasChannels)
    BY <1>2 DEF CreateChannel, HasChannels
  <2> QED  BY <2>1, <1>2, StaysSame
<1> QED  BY <1>1, <1>2

LEMMA DestroyChannelPosts ==
  ASSUME sig \in Seq(Message), NEW c \in Comp, DestroyChannel(c)
  PROVE  /\ sig' \in Seq(Message) /\ Kept
         /\ ~(entry[c].ref > 1) =>
              Pending(<<"Write">>)' /\ (connect /\ ~HasChannels' => Pending(<<"Connecting">>)')
<1>1. CASE entry[c].ref > 1
  <2>1. UNCHANGED sig
    BY <1>1 DEF DestroyChannel
  <2> QED  BY <2>1, <1>1, StaysSame
<1>2. CASE ~(entry[c].ref > 1)
  <2>1. CASE connect /\ ~HasChannels'
    <3>1. Post(<< <<"Connecting">>, <<"Write">> >>)
      BY <1>2, <2>1 DEF DestroyChannel
    <3> QED  BY <3>1, PostsTwo, MessagesTyped
  <2>2. CASE ~(connect /\ ~HasChannels')
    <3>1. Post(<< <<"Write">> >>)
      BY <1>2, <2>2 DEF DestroyChannel
    <3> QED  BY <3>1, <2>2, PostsOne, MessagesTyped
  <2> QED  BY <2>1, <2>2
<1> QED  BY <1>1, <1>2

LEMMA ConnectChannelsPosts ==
  ASSUME sig \in Seq(Message), ConnectChannels
  PROVE  /\ sig' \in Seq(Message) /\ Kept
         /\ Pending(<<"Candidates">>)' /\ Pending(<<"Connecting">>)'
         /\ \A c \in Comp : HasChannel(c) => Pending(<<"Request", c>>)'
<1> DEFINE asks == {<<"Request", c>> : c \in {k \in Comp : HasChannel(k)}}
<1>1. PICK rs \in InSomeOrder(asks) :
        Post(<< <<"Candidates">> >> \o rs \o << <<"Connecting">> >>)
  BY DEF ConnectChannels
<1>2. IsFiniteSet(asks)
  <2>1. IsFiniteSet({k \in Comp : HasChannel(k)})
    BY ConstantsOK, FS_Subset
  <2> DEFINE f == [c \in {k \in Comp : HasChannel(k)} |-> <<"Request", c>>]
  <2>2. f \in Surjection({k \in Comp : HasChannel(k)}, asks)
    BY DEF Surjection
  <2> QED  BY <2>1, <2>2, FS_Surjection
<1>3. asks \subseteq Message
  BY MessagesTyped
<1>4. rs \in Seq(asks) /\ \A m : Has(rs, m) <=> m \in asks
  BY <1>2, InOrder
<1>5. rs \in Seq(Message)
  BY <1>3, <1>4
<1> HIDE DEF asks
<1>6. << <<"Candidates">> >> \in Seq(Message) /\ << <<"Connecting">> >> \in Seq(Message)
  BY MessagesTyped
<1> DEFINE first == << <<"Candidates">> >> \o rs
           all == first \o << <<"Connecting">> >>
<1>7. first \in Seq(Message) /\ \A m : Has(first, m) <=> Has(<< <<"Candidates">> >>, m) \/ Has(rs, m)
  BY <1>5, <1>6, HasConcat
<1> HIDE DEF first
<1>8. all \in Seq(Message) /\ \A m : Has(all, m) <=> Has(first, m) \/ Has(<< <<"Connecting">> >>, m)
  BY <1>6, <1>7, HasConcat
<1>9. Post(all)
  BY <1>1 DEF first
<1> HIDE DEF all
<1>10. sig' \in Seq(Message) /\ Kept /\ \A m : Has(all, m) => Pending(m)'
  BY <1>8, <1>9, Posts
<1>11. \A c \in Comp : HasChannel(c) => <<"Request", c>> \in asks
  BY DEF asks
<1> QED  BY <1>4, <1>7, <1>8, <1>10, <1>11, HasFew

LEMMA ResetChannelsPosts ==
  ASSUME sig \in Seq(Message), ResetChannels
  PROVE  /\ sig' \in Seq(Message) /\ Kept
         /\ (\E c \in Comp : chan[c].writable) => Pending(<<"Write">>)'
<1> DEFINE news == {m \in {<<"Read">>, <<"Write">>} :
                     \E c \in Comp : \/ m = <<"Read">> /\ chan[c].readable
                                     \/ m = <<"Write">> /\ chan[c].writable}
<1>1. PICK ms \in InSomeOrder(news) : Post(ms)
  BY DEF ResetChannels
<1>2. IsFiniteSet(news)
  <2>1. IsFiniteSet({<<"Read">>, <<"Write">>})
    <3>1. IsFiniteSet({<<"Read">>}) /\ IsFiniteSet({<<"Write">>})
      BY FS_Singleton
    <3>2. {<<"Read">>, <<"Write">>} = {<<"Read">>} \cup {<<"Write">>}
      OBVIOUS
    <3> QED  BY <3>1, <3>2, FS_Union
  <2> QED  BY <2>1, FS_Subset
<1>3. ms \in Seq(news) /\ \A m : Has(ms, m) <=> m \in news
  BY <1>2, InOrder
<1>4. news \subseteq Message
  BY MessagesTyped
<1>5. ms \in Seq(Message)
  BY <1>3, <1>4
<1>6. (\E c \in Comp : chan[c].writable) => <<"Write">> \in news
  OBVIOUS
<1> HIDE DEF news
<1> QED  BY <1>1, <1>3, <1>5, <1>6, Posts

----------------------------------------------------------------------------
(* Types, and that a channel does nothing before it is asked to connect.   *)

Idle == \A c \in Comp : ~HasChannel(c) \/ ~connect => chan[c] = Initial

LEMMA InitialTyped == Initial \in Channel /\ NoEntry \in Entry /\ NoEntry.ref = 0
  BY ConstantsOK DEF Initial, Channel, NoEntry, Entry

LEMMA ConnectedTyped ==
  /\ Connected(Initial) \in Channel
  /\ Connected(Initial).gathering = 0 /\ 0 < MaxGather
  /\ Connected(Initial).writable = FALSE /\ Initial.writable = FALSE
<1>1. Initial \in Channel
  BY InitialTyped
<1>2. Connected(Initial) \in Channel
  BY <1>1 DEF Channel, Connected
<1>3. Initial.gathering = 0 /\ Initial.writable = FALSE
  BY DEF Initial
<1>4. /\ Connected(Initial).gathering = Initial.gathering
      /\ Connected(Initial).writable = Initial.writable
  BY <1>1 DEF Connected, Channel
<1>5. 0 < MaxGather
  BY ConstantsOK
<1> QED  BY <1>2, <1>3, <1>4, <1>5

LEMMA SameType ==
  ASSUME TypeOK, Idle, UNCHANGED vars  PROVE TypeOK' /\ Idle'
  BY DEF vars, channels, candidates, TypeOK, Idle, HasChannel

LEMMA CreateChannelType ==
  ASSUME TypeOK, Idle, NEW c \in Comp, CreateChannel(c)  PROVE TypeOK' /\ Idle'
<1>1. sig' \in Seq(Message)
  BY CreateChannelPosts DEF TypeOK
<1>2. /\ entry' = [entry EXCEPT ![c].ref = @ + 1] /\ entry[c].ref < MaxRef
      /\ \/ chan' = [chan EXCEPT ![c] = Connected(@)] /\ chan[c] = Initial /\ connect
         \/ chan' = chan
      /\ UNCHANGED <<connect, candidates, readable, writable, destroyed, work, timer>>
  BY DEF CreateChannel, Idle
<1>3. entry' \in [Comp -> Entry] /\ entry'[c].ref > 0 /\ \A d \in Comp : d # c => entry'[d] = entry[d]
  <2>1. entry \in [Comp -> Entry] /\ entry[c].ref + 1 \in 0..MaxRef /\ entry[c].ref + 1 > 0
    BY <1>2, ConstantsOK DEF TypeOK, Entry
  <2>2. entry' = [entry EXCEPT ![c] = [entry[c] EXCEPT !.ref = entry[c].ref + 1]]
    BY <1>2
  <2>3. [entry[c] EXCEPT !.ref = entry[c].ref + 1] \in Entry
    BY <2>1 DEF Entry
  <2>4. entry[c] \in Entry /\ entry'[c] = [entry[c] EXCEPT !.ref = entry[c].ref + 1]
    BY <2>1, <2>2
  <2>5. entry'[c].ref = entry[c].ref + 1
    BY <2>4 DEF Entry
  <2> QED  BY <2>1, <2>2, <2>3, <2>5
<1>4. /\ chan' \in [Comp -> Channel]
      /\ \A d \in Comp : chan'[d].waiting => chan'[d].gathering < MaxGather
  BY <1>2, ConnectedTyped DEF TypeOK
<1>5. Idle'
  BY <1>2, <1>3 DEF Idle, HasChannel, TypeOK
<1> QED  BY <1>1, <1>2, <1>3, <1>4, <1>5 DEF TypeOK, candidates

LEMMA DestroyChannelType ==
  ASSUME TypeOK, Idle, NEW c \in Comp, DestroyChannel(c)  PROVE TypeOK' /\ Idle'
<1>1. sig' \in Seq(Message)
  BY DestroyChannelPosts DEF TypeOK
<1>2. UNCHANGED <<connect, candidates, readable, writable, destroyed, work, timer>>
  BY DEF DestroyChannel
<1>3. CASE entry[c].ref > 1
  <2>1. entry' = [entry EXCEPT ![c].ref = @ - 1] /\ UNCHANGED chan
    BY <1>3 DEF DestroyChannel
  <2>2. entry' \in [Comp -> Entry] /\ entry'[c].ref > 0 /\ \A d \in Comp : d # c => entry'[d] = entry[d]
    <3>1. entry \in [Comp -> Entry] /\ entry[c].ref - 1 \in 0..MaxRef /\ entry[c].ref - 1 > 0
      BY <1>3, ConstantsOK DEF TypeOK, Entry
    <3>2. entry' = [entry EXCEPT ![c] = [entry[c] EXCEPT !.ref = entry[c].ref - 1]]
      BY <2>1
    <3>3. [entry[c] EXCEPT !.ref = entry[c].ref - 1] \in Entry
      BY <3>1 DEF Entry
    <3>4. entry[c] \in Entry /\ entry'[c] = [entry[c] EXCEPT !.ref = entry[c].ref - 1]
      BY <3>1, <3>2
    <3>5. entry'[c].ref = entry[c].ref - 1
      BY <3>4 DEF Entry
    <3> QED  BY <3>1, <3>2, <3>3, <3>5
  <2>3. Idle'
    BY <1>2, <1>3, <2>1, <2>2 DEF Idle, HasChannel
  <2> QED  BY <1>1, <1>2, <2>1, <2>2, <2>3 DEF TypeOK, candidates
<1>4. CASE ~(entry[c].ref > 1)
  <2>1. entry' = [entry EXCEPT ![c] = NoEntry] /\ chan' = [chan EXCEPT ![c] = Initial]
    BY <1>4 DEF DestroyChannel
  <2>2. entry' \in [Comp -> Entry] /\ chan' \in [Comp -> Channel]
    BY <2>1, InitialTyped DEF TypeOK
  <2>3. \A d \in Comp : chan'[d].waiting => chan'[d].gathering < MaxGather
    BY <2>1 DEF TypeOK, Initial
  <2>4. Idle'
    BY <1>2, <2>1 DEF Idle, HasChannel, TypeOK
  <2> QED  BY <1>1, <1>2, <2>2, <2>3, <2>4 DEF TypeOK, candidates
<1> QED  BY <1>3, <1>4

LEMMA ConnectChannelsType ==
  ASSUME TypeOK, Idle, ConnectChannels  PROVE TypeOK' /\ Idle'
<1>1. sig' \in Seq(Message)
  BY ConnectChannelsPosts DEF TypeOK
<1>2. /\ connect' = TRUE /\ ~connect
      /\ chan' = [c \in Comp |-> IF HasChannel(c) THEN Connected(chan[c]) ELSE chan[c]]
      /\ UNCHANGED <<entry, candidates, readable, writable, destroyed, work, timer>>
  BY DEF ConnectChannels
<1>3. \A c \in Comp : chan[c] = Initial
  BY <1>2 DEF Idle
<1>4. chan' \in [Comp -> Channel]
  BY <1>2, <1>3, ConnectedTyped, InitialTyped
<1>5. \A d \in Comp : chan'[d].waiting => chan'[d].gathering < MaxGather
  BY <1>2, <1>3, ConnectedTyped DEF Initial
<1>6. Idle'
  BY <1>2, <1>3 DEF Idle, HasChannel
<1> QED  BY <1>1, <1>2, <1>4, <1>5, <1>6 DEF TypeOK, candidates

LEMMA ResetChannelsType ==
  ASSUME TypeOK, Idle, ResetChannels  PROVE TypeOK' /\ Idle'
<1>1. sig' \in Seq(Message)
  BY ResetChannelsPosts DEF TypeOK
<1>2. /\ connect' = FALSE /\ ready' = {} /\ chan' = [c \in Comp |-> Initial]
      /\ UNCHANGED <<entry, made, told, readable, writable, destroyed, work, timer>>
  BY DEF ResetChannels
<1>3. chan' \in [Comp -> Channel] /\ \A d \in Comp : chan'[d].waiting => chan'[d].gathering < MaxGather
  BY <1>2, InitialTyped DEF Initial
<1>4. Idle'
  BY <1>2 DEF Idle
<1> QED  BY <1>1, <1>2, <1>3, <1>4 DEF TypeOK

LEMMA DestroyAllChannelsType ==
  ASSUME TypeOK, Idle, DestroyAllChannels  PROVE TypeOK' /\ Idle'
<1>1. /\ entry' = [c \in Comp |-> NoEntry] /\ chan' = [c \in Comp |-> Initial]
      /\ destroyed' = TRUE /\ sig' = <<>> /\ work' = 0
      /\ UNCHANGED <<connect, candidates, readable, writable, timer>>
  BY DEF DestroyAllChannels
<1>2. entry' \in [Comp -> Entry] /\ chan' \in [Comp -> Channel]
  BY <1>1, InitialTyped
<1>3. \A d \in Comp : chan'[d].waiting => chan'[d].gathering < MaxGather
  BY <1>1 DEF Initial
<1>4. Idle'
  BY <1>1 DEF Idle
<1>5. sig' \in Seq(Message) /\ work' \in Nat
  BY <1>1
<1> QED  BY <1>1, <1>2, <1>3, <1>4, <1>5 DEF TypeOK, candidates

LEMMA AggregateTyped ==
  ASSUME NEW flag  PROVE GetTransportState(flag) \in Aggregate
  BY DEF GetTransportState, Aggregate

LEMMA SignallingType ==
  ASSUME TypeOK, Idle, Signalling  PROVE TypeOK' /\ Idle'
<1>1. CASE OnConnecting_s
  <2>1. /\ timer' \in BOOLEAN
        /\ UNCHANGED <<channels, connect, candidates, readable, writable, destroyed, work>>
    BY <1>1 DEF OnConnecting_s, OnTransportWritable
  <2>2. sig' \in Seq(Message)
    BY <1>1, Takes DEF OnConnecting_s, TypeOK
  <2> QED  BY <2>1, <2>2 DEF TypeOK, Idle, HasChannel, channels, candidates
<1>2. CASE OnChannelReadableState_s
  <2>1. /\ readable' \in Aggregate
        /\ UNCHANGED <<channels, connect, candidates, writable, destroyed, work, timer>>
    BY <1>2, AggregateTyped DEF OnChannelReadableState_s
  <2>2. sig' \in Seq(Message)
    BY <1>2, Takes DEF OnChannelReadableState_s, TypeOK
  <2> QED  BY <2>1, <2>2 DEF TypeOK, Idle, HasChannel, channels, candidates
<1>3. CASE OnChannelWritableState_s
  <2>1. /\ writable' \in Aggregate /\ timer' \in BOOLEAN
        /\ UNCHANGED <<channels, connect, candidates, readable, destroyed, work>>
    BY <1>3, AggregateTyped DEF OnChannelWritableState_s, OnTransportWritable, TypeOK
  <2>2. sig' \in Seq(Message)
    BY <1>3, Takes DEF OnChannelWritableState_s, TypeOK
  <2> QED  BY <2>1, <2>2 DEF TypeOK, Idle, HasChannel, channels, candidates
<1>4. ASSUME NEW c \in Comp, OnChannelRequestSignaling_s(c)  PROVE TypeOK' /\ Idle'
  <2>1. /\ entry' = IF HasChannel(c) THEN [entry EXCEPT ![c].allocated = FALSE] ELSE entry
        /\ work' = work + 1
        /\ UNCHANGED <<chan, connect, candidates, readable, writable, destroyed, timer>>
    BY <1>4 DEF OnChannelRequestSignaling_s
  <2>2. entry' \in [Comp -> Entry] /\ \A d \in Comp : entry'[d].ref = entry[d].ref
    BY <2>1 DEF TypeOK, Entry
  <2>3. sig' \in Seq(Message)
    BY <1>4, Takes DEF OnChannelRequestSignaling_s, TypeOK
  <2>4. Idle'
    BY <2>1, <2>2 DEF Idle, HasChannel
  <2> QED  BY <2>1, <2>2, <2>3, <2>4 DEF TypeOK, candidates
<1>5. CASE OnChannelCandidateReady_s
  <2>1. /\ told' = [k \in Cand |-> IF k \in ready THEN told[k] + 1 ELSE told[k]] /\ ready' = {}
        /\ UNCHANGED <<channels, connect, made, readable, writable, destroyed, work, timer>>
    BY <1>5 DEF OnChannelCandidateReady_s
  <2>2. sig' \in Seq(Message)
    BY <1>5, Takes DEF OnChannelCandidateReady_s, TypeOK
  <2>3. told' \in [Cand -> Nat]
    BY <2>1 DEF TypeOK
  <2> QED  BY <2>1, <2>2, <2>3 DEF TypeOK, Idle, HasChannel, channels
<1>6. CASE OnChannelCandidatesAllocationDone_s
  <2>1. UNCHANGED <<channels, connect, candidates, readable, writable, destroyed, work, timer>>
    BY <1>6 DEF OnChannelCandidatesAllocationDone_s
  <2>2. sig' \in Seq(Message)
    BY <1>6, Takes DEF OnChannelCandidatesAllocationDone_s, TypeOK
  <2> QED  BY <2>1, <2>2 DEF TypeOK, Idle, HasChannel, channels, candidates
<1> QED  BY <1>1, <1>2, <1>3, <1>4, <1>5, <1>6 DEF Signalling

LEMMA OnSignalingReadyType ==
  ASSUME TypeOK, Idle, OnSignalingReady  PROVE TypeOK' /\ Idle'
<1>1. /\ work > 0 /\ work' = work - 1
      /\ UNCHANGED <<entry, connect, candidates, readable, writable, destroyed, sig, timer>>
  BY DEF OnSignalingReady
<1> DEFINE Asked(c) == HasChannel(c) /\ chan[c].waiting
           Begun(ch) == [ch EXCEPT !.waiting = FALSE, !.started = TRUE, !.gathering = ch.gathering + 1]
<1>2. chan' = [c \in Comp |-> IF Asked(c) THEN Begun(chan[c]) ELSE chan[c]]
  BY DEF OnSignalingReady
<1>3. \A c \in Comp : Asked(c) => Begun(chan[c]) \in Channel /\ ~Begun(chan[c]).waiting
  <2> SUFFICES ASSUME NEW c \in Comp, Asked(c)
               PROVE  Begun(chan[c]) \in Channel /\ ~Begun(chan[c]).waiting
    OBVIOUS
  <2>1. chan[c] \in Channel
    BY DEF TypeOK
  <2>2. chan[c].gathering + 1 \in 0..MaxGather
    BY <2>1, ConstantsOK DEF TypeOK, Channel
  <2> QED  BY <2>1, <2>2 DEF Channel
<1> HIDE DEF Begun
<1>4. /\ chan' \in [Comp -> Channel]
      /\ \A d \in Comp : chan'[d].waiting => chan'[d].gathering < MaxGather
  BY <1>2, <1>3 DEF TypeOK
<1>5. Idle'
  <2> SUFFICES ASSUME NEW c \in Comp, ~HasChannel(c) \/ ~connect  PROVE chan'[c] = Initial
    BY <1>1 DEF Idle, HasChannel
  <2>1. chan[c] = Initial
    BY DEF Idle
  <2>2. ~Asked(c)
    BY <2>1 DEF Initial
  <2> QED  BY <1>2, <2>1, <2>2
<1>6. work' \in Nat
  BY <1>1 DEF TypeOK
<1> QED  BY <1>1, <1>4, <1>5, <1>6 DEF TypeOK, candidates

\* A step of a channel that is there: what it may change.
LEMMA ChannelStepType ==
  ASSUME TypeOK, Idle, NEW c \in Comp, HasChannel(c), connect, NEW ch \in Channel,
         ch.waiting => ch.gathering < MaxGather,
         chan' = [chan EXCEPT ![c] = ch], sig' \in Seq(Message),
         UNCHANGED <<connect, candidates, readable, writable, destroyed, work, timer>>,
         entry' \in [Comp -> Entry], \A d \in Comp : entry'[d].ref = entry[d].ref
  PROVE  TypeOK' /\ Idle'
<1>1. /\ chan' \in [Comp -> Channel]
      /\ \A d \in Comp : chan'[d].waiting => chan'[d].gathering < MaxGather
  BY DEF TypeOK
<1>2. Idle'
  BY DEF Idle, HasChannel, TypeOK
<1> QED  BY <1>1, <1>2 DEF TypeOK, candidates

\* A channel that does anything was asked to connect.
LEMMA BusyConnects ==
  ASSUME TypeOK, Idle, NEW c \in Comp,
         chan[c].started \/ chan[c].gathering > 0 \/ chan[c].writable
  PROVE  connect
  BY DEF Idle, Initial

LEMMA CandidateReadyPosts ==
  ASSUME TypeOK, NEW c \in Comp, OnChannelCandidateReady(c)
  PROVE  sig' \in Seq(Message) /\ Kept /\ (connect => Pending(<<"Candidates">>)')
<1>1. PostIf(connect, <<"Candidates">>)
  BY DEF OnChannelCandidateReady
<1>2. sig \in Seq(Message) /\ connect \in BOOLEAN
  BY DEF TypeOK
<1> QED  BY <1>1, <1>2, MessagesTyped, PostsIf

LEMMA AllocationDonePosts ==
  ASSUME TypeOK, NEW c \in Comp, OnChannelCandidatesAllocationDone(c)
  PROVE  sig' \in Seq(Message) /\ Kept
<1> DEFINE every == \A k \in Comp : HasChannel(k) => entry'[k].allocated
<1>1. PostIf(every, <<"Allocated">>) /\ every \in BOOLEAN
  BY DEF OnChannelCandidatesAllocationDone
<1> HIDE DEF every
<1> QED  BY <1>1, MessagesTyped, PostsIf DEF TypeOK

LEMMA ReadablePosts ==
  ASSUME TypeOK, NEW c \in Comp, OnChannelReadableState(c)
  PROVE  sig' \in Seq(Message) /\ Kept
<1>1. Post(<< <<"Read">> >>)
  BY DEF OnChannelReadableState
<1> QED  BY <1>1, MessagesTyped, PostsOne DEF TypeOK

LEMMA WritablePosts ==
  ASSUME TypeOK, NEW c \in Comp, OnChannelWritable(c)
  PROVE  sig' \in Seq(Message) /\ Kept /\ Pending(<<"Write">>)'
<1>1. Post(<< <<"Write">> >>)
  BY DEF OnChannelWritable
<1> QED  BY <1>1, MessagesTyped, PostsOne DEF TypeOK

LEMMA NotWritablePosts ==
  ASSUME TypeOK, NEW c \in Comp, OnChannelNotWritable(c)
  PROVE  /\ sig' \in Seq(Message) /\ Kept
         /\ Pending(<<"Write">>)' /\ Pending(<<"Request", c>>)'
<1>1. Post(<< <<"Request", c>>, <<"Write">> >>)
  BY DEF OnChannelNotWritable
<1> QED  BY <1>1, MessagesTyped, PostsTwo DEF TypeOK

LEMMA ChannelsType ==
  ASSUME TypeOK, Idle, Channels  PROVE TypeOK' /\ Idle'
<1>1. ASSUME NEW c \in Comp, OnChannelCandidateReady(c)  PROVE TypeOK' /\ Idle'
  <2>1. /\ made < MaxCand /\ made' = made + 1 /\ ready' = ready \cup {made + 1}
        /\ UNCHANGED <<channels, connect, told, readable, writable, destroyed, work, timer>>
    BY <1>1 DEF OnChannelCandidateReady
  <2>2. sig' \in Seq(Message)
    BY <1>1, CandidateReadyPosts
  <2>3. made + 1 \in 0..MaxCand /\ made + 1 \in Cand
    BY <2>1, ConstantsOK DEF TypeOK, Cand
  <2>4. ready' \subseteq Cand /\ made' \in 0..MaxCand
    BY <2>1, <2>3 DEF TypeOK
  <2> QED  BY <2>1, <2>2, <2>4 DEF TypeOK, Idle, HasChannel, channels
<1>2. ASSUME NEW c \in Comp, OnChannelCandidatesAllocationDone(c)  PROVE TypeOK' /\ Idle'
  <2>1. /\ HasChannel(c) /\ chan[c].gathering > 0
        /\ chan' = [chan EXCEPT ![c].gathering = @ - 1]
        /\ entry' = [entry EXCEPT ![c].allocated = TRUE]
        /\ UNCHANGED <<connect, candidates, readable, writable, destroyed, work, timer>>
    BY <1>2 DEF OnChannelCandidatesAllocationDone, Runs
  <2> DEFINE ch == [chan[c] EXCEPT !.gathering = chan[c].gathering - 1]
  <2>2. chan[c] \in Channel /\ chan[c].gathering - 1 \in 0..MaxGather
    BY <2>1, ConstantsOK DEF TypeOK, Channel
  <2>3. ch \in Channel /\ ch.gathering = chan[c].gathering - 1 /\ ch.waiting = chan[c].waiting
    BY <2>2 DEF Channel
  <2>4. ch.waiting => ch.gathering < MaxGather
    <3>1. CASE chan[c].waiting
      <4>1. chan[c].gathering < MaxGather
        BY <3>1 DEF TypeOK
      <4>2. chan[c].gathering - 1 < MaxGather
        BY <2>2, <4>1, ConstantsOK DEF Channel
      <4> QED  BY <2>3, <4>2
    <3> QED  BY <2>3, <3>1
  <2>5. chan' = [chan EXCEPT ![c] = ch]
    BY <2>1
  <2>6. entry' \in [Comp -> Entry] /\ \A d \in Comp : entry'[d].ref = entry[d].ref
    BY <2>1 DEF TypeOK, Entry
  <2> HIDE DEF ch
  <2> QED  BY <1>2, <2>1, <2>3, <2>4, <2>5, <2>6, AllocationDonePosts, BusyConnects, ChannelStepType
<1>3. ASSUME NEW c \in Comp, OnChannelReadableState(c)  PROVE TypeOK' /\ Idle'
  <2>1. /\ HasChannel(c) /\ chan[c].started /\ chan' = [chan EXCEPT ![c].readable = ~@]
        /\ UNCHANGED <<entry, connect, candidates, readable, writable, destroyed, work, timer>>
    BY <1>3 DEF OnChannelReadableState, Runs
  <2> DEFINE ch == [chan[c] EXCEPT !.readable = ~chan[c].readable]
  <2>2. ch \in Channel /\ ch.waiting = chan[c].waiting /\ ch.gathering = chan[c].gathering
    BY DEF TypeOK, Channel
  <2>3. chan' = [chan EXCEPT ![c] = ch]
    BY <2>1
  <2> HIDE DEF ch
  <2>4. ch.waiting => ch.gathering < MaxGather
    BY <2>2 DEF TypeOK
  <2>5. entry' \in [Comp -> Entry]
    BY <2>1 DEF TypeOK
  <2> QED  BY <1>3, <2>1, <2>2, <2>3, <2>4, <2>5, ReadablePosts, BusyConnects, ChannelStepType
<1>4. ASSUME NEW c \in Comp, OnChannelWritable(c)  PROVE TypeOK' /\ Idle'
  <2>1. /\ HasChannel(c) /\ chan[c].started /\ chan' = [chan EXCEPT ![c].writable = TRUE]
        /\ UNCHANGED <<entry, connect, candidates, readable, writable, destroyed, work, timer>>
    BY <1>4 DEF OnChannelWritable, Runs
  <2> DEFINE ch == [chan[c] EXCEPT !.writable = TRUE]
  <2>2. ch \in Channel /\ ch.waiting = chan[c].waiting /\ ch.gathering = chan[c].gathering
    BY DEF TypeOK, Channel
  <2>3. chan' = [chan EXCEPT ![c] = ch]
    BY <2>1
  <2> HIDE DEF ch
  <2>4. ch.waiting => ch.gathering < MaxGather
    BY <2>2 DEF TypeOK
  <2>5. entry' \in [Comp -> Entry]
    BY <2>1 DEF TypeOK
  <2> QED  BY <1>4, <2>1, <2>2, <2>3, <2>4, <2>5, WritablePosts, BusyConnects, ChannelStepType
<1>5. ASSUME NEW c \in Comp, OnChannelNotWritable(c)  PROVE TypeOK' /\ Idle'
  <2>1. /\ HasChannel(c) /\ chan[c].writable /\ chan[c].gathering < MaxGather
        /\ chan' = [chan EXCEPT ![c].writable = FALSE, ![c].waiting = TRUE]
        /\ UNCHANGED <<entry, connect, candidates, readable, writable, destroyed, work, timer>>
    BY <1>5 DEF OnChannelNotWritable, Runs
  <2> DEFINE ch == [chan[c] EXCEPT !.writable = FALSE, !.waiting = TRUE]
  <2>2. ch \in Channel /\ ch.gathering = chan[c].gathering
    BY DEF TypeOK, Channel
  <2>3. chan' = [chan EXCEPT ![c] = ch]
    BY <2>1 DEF TypeOK
  <2> HIDE DEF ch
  <2>4. entry' \in [Comp -> Entry]
    BY <2>1 DEF TypeOK
  <2> QED  BY <1>5, <2>1, <2>2, <2>3, <2>4, NotWritablePosts, BusyConnects, ChannelStepType
<1> QED  BY <1>1, <1>2, <1>3, <1>4, <1>5 DEF Channels

LEMMA TypeStep ==
  ASSUME TypeOK, Idle, [Next]_vars  PROVE TypeOK' /\ Idle'
<1>1. CASE UNCHANGED vars
  BY <1>1, SameType
<1>2. CASE Users
  BY <1>2, CreateChannelType, DestroyChannelType, ConnectChannelsType, ResetChannelsType,
     DestroyAllChannelsType DEF Users
<1>3. CASE Signalling \/ OnSignalingReady \/ Channels
  BY <1>3, SignallingType, OnSignalingReadyType, ChannelsType
<1> QED  BY <1>1, <1>2, <1>3 DEF Next

----------------------------------------------------------------------------
(* The aggregated state and the timer.                                     *)

Writes == \E c \in Comp : HasChannel(c) /\ chan[c].writable

\* What the timer is set by is the aggregated state that the Session was told.
TimerFollows ==
  ~destroyed /\ connect /\ ~Pending(<<"Connecting">>) =>
    (timer <=> HasChannels /\ ~SomeOf(writable))

LEMMA AggregateIsOr ==
  SomeOf(GetTransportState(WritableFlags)) <=> Writes
<1> DEFINE is == {c \in Comp : HasChannel(c)}
           on == {c \in is : WritableFlags[c]}
<1>1. on # {} <=> Writes
  BY DEF WritableFlags, Writes
<1>2. GetTransportState(WritableFlags) = IF on = {} THEN "NONE" ELSE IF on = is THEN "ALL" ELSE "SOME"
  BY DEF GetTransportState
<1> HIDE DEF is, on
<1> QED  BY <1>1, <1>2 DEF SomeOf

\* A step that keeps the channels that write, or posts a message about it.
LEMMA WritableKept ==
  ASSUME WritableFollows, Kept, UNCHANGED <<writable, destroyed>>,
         (Writes' <=> Writes) \/ Pending(<<"Write">>)'
  PROVE  WritableFollows'
  BY DEF WritableFollows, Kept, Writes, SomeOf

LEMMA TimerKept ==
  ASSUME TimerFollows, Kept, UNCHANGED <<writable, destroyed, timer>>,
         ~connect' \/ (connect /\ (HasChannels' <=> HasChannels)) \/ Pending(<<"Connecting">>)'
  PROVE  TimerFollows'
  BY DEF TimerFollows, Kept, SomeOf

LEMMA WritableUsers ==
  ASSUME TypeOK, Idle, WritableFollows, TimerFollows, Users
  PROVE  WritableFollows' /\ TimerFollows'
<1>1. ASSUME NEW c \in Comp, CreateChannel(c)  PROVE WritableFollows' /\ TimerFollows'
  <2>1. /\ entry' = [entry EXCEPT ![c].ref = @ + 1] /\ entry[c].ref < MaxRef
        /\ \/ chan' = [chan EXCEPT ![c] = Connected(@)] /\ chan[c] = Initial
           \/ chan' = chan
        /\ ~HasChannel(c) => chan[c] = Initial
        /\ UNCHANGED <<connect, candidates, readable, writable, destroyed, work, timer>>
    BY <1>1 DEF CreateChannel, Idle
  <2>2. \A d \in Comp : HasChannel(d)' <=> d = c \/ HasChannel(d)
    BY <2>1, CreateChannelType, <1>1 DEF TypeOK, Entry, HasChannel
  <2>3. \A d \in Comp : chan'[d].writable = chan[d].writable
    BY <2>1, ConnectedTyped DEF TypeOK
  <2>4. Writes' <=> Writes
    BY <2>1, <2>2, <2>3 DEF Writes, Initial
  <2>5. HasChannels' /\ (connect /\ ~HasChannels => Pending(<<"Connecting">>)')
    BY <1>1, <2>2, CreateChannelPosts DEF HasChannels, TypeOK
  <2>6. Kept
    BY <1>1, CreateChannelPosts DEF TypeOK
  <2> QED  BY <2>1, <2>4, <2>5, <2>6, WritableKept, TimerKept DEF TypeOK
<1>2. ASSUME NEW c \in Comp, DestroyChannel(c)  PROVE WritableFollows' /\ TimerFollows'
  <2>1. Kept /\ UNCHANGED <<connect, candidates, readable, writable, destroyed, work, timer>>
    BY <1>2, DestroyChannelPosts DEF DestroyChannel, TypeOK
  <2>2. CASE entry[c].ref > 1
    <3>1. entry' = [entry EXCEPT ![c].ref = @ - 1] /\ UNCHANGED chan
      BY <1>2, <2>2 DEF DestroyChannel
    <3>2. \A d \in Comp : HasChannel(d)' <=> HasChannel(d)
      BY <2>2, <3>1, DestroyChannelType, <1>2 DEF TypeOK, Entry, HasChannel
    <3>3. (Writes' <=> Writes) /\ (HasChannels' <=> HasChannels)
      BY <3>1, <3>2 DEF Writes, HasChannels
    <3> QED  BY <2>1, <3>3, WritableKept, TimerKept DEF TypeOK
  <2>3. CASE ~(entry[c].ref > 1)
    <3>1. Pending(<<"Write">>)' /\ (connect /\ ~HasChannels' => Pending(<<"Connecting">>)')
      <4>1. sig \in Seq(Message)
        BY DEF TypeOK
      <4> QED  BY <1>2, <2>3, <4>1, DestroyChannelPosts
    <3>2. HasChannels
      BY <1>2 DEF DestroyChannel, HasChannels
    <3> QED  BY <2>1, <3>1, <3>2, WritableKept, TimerKept DEF TypeOK
  <2> QED  BY <2>2, <2>3
<1>3. CASE ConnectChannels
  <2>1. /\ ~connect /\ UNCHANGED <<entry, candidates, readable, writable, destroyed, work, timer>>
        /\ chan' = [c \in Comp |-> IF HasChannel(c) THEN Connected(chan[c]) ELSE chan[c]]
    BY <1>3 DEF ConnectChannels
  <2>2. \A d \in Comp : chan'[d].writable = chan[d].writable
    BY <2>1, ConnectedTyped DEF Idle
  <2>3. Writes' <=> Writes
    BY <2>1, <2>2 DEF Writes, HasChannel
  <2> QED  BY <1>3, <2>1, <2>3, ConnectChannelsPosts, WritableKept, TimerKept DEF TypeOK
<1>4. CASE ResetChannels
  <2>1. /\ connect' = FALSE /\ chan' = [c \in Comp |-> Initial]
        /\ UNCHANGED <<entry, made, told, readable, writable, destroyed, work, timer>>
    BY <1>4 DEF ResetChannels
  <2>2. Writes' <=> FALSE
    BY <2>1 DEF Writes, Initial
  <2>3. Writes => Pending(<<"Write">>)'
    BY <1>4, ResetChannelsPosts DEF Writes, TypeOK
  <2> QED  BY <1>4, <2>1, <2>2, <2>3, ResetChannelsPosts, WritableKept, TimerKept DEF TypeOK
<1>5. CASE DestroyAllChannels
  BY <1>5 DEF DestroyAllChannels, WritableFollows, TimerFollows
<1> QED  BY <1>1, <1>2, <1>3, <1>4, <1>5 DEF Users

LEMMA WritableSignalling ==
  ASSUME TypeOK, WritableFollows, TimerFollows, Signalling
  PROVE  WritableFollows' /\ TimerFollows'
<1> DEFINE Follows(m) == \A n : n # m /\ Pending(n) => Pending(n)'
<1>1. CASE OnConnecting_s
  <2>1. /\ timer' = (HasChannels /\ ~SomeOf(writable)) /\ Take(<<"Connecting">>)
        /\ UNCHANGED <<channels, connect, candidates, readable, writable, destroyed, work>>
    BY <1>1 DEF OnConnecting_s, OnTransportWritable
  <2>2. Pending(<<"Write">>) => Pending(<<"Write">>)'
    BY <2>1, Takes, MessagesDiffer DEF TypeOK
  <2>3. HasChannels' = HasChannels /\ (Writes' <=> Writes)
    BY <2>1 DEF HasChannels, HasChannel, Writes, channels
  <2>4. WritableFollows'
    BY <2>1, <2>2, <2>3 DEF WritableFollows, Writes, SomeOf
  <2>5. TimerFollows'
    BY <2>1, <2>3 DEF TimerFollows, SomeOf
  <2> QED  BY <2>4, <2>5
<1>2. CASE OnChannelWritableState_s
  <2>1. /\ writable' = GetTransportState(WritableFlags) /\ Take(<<"Write">>)
        /\ IF writable' # writable THEN timer' = (HasChannels /\ ~SomeOf(writable')) ELSE UNCHANGED timer
        /\ UNCHANGED <<channels, connect, candidates, readable, destroyed, work>>
    BY <1>2 DEF OnChannelWritableState_s, OnTransportWritable
  <2>2. Pending(<<"Connecting">>) => Pending(<<"Connecting">>)'
    BY <2>1, Takes, MessagesDiffer DEF TypeOK
  <2>3. HasChannels' = HasChannels /\ (Writes' <=> Writes)
    BY <2>1 DEF HasChannels, HasChannel, Writes, channels
  <2>4. SomeOf(writable)' <=> Writes'
    BY <2>1, <2>3, AggregateIsOr DEF SomeOf
  <2>5. WritableFollows'
    BY <2>4 DEF WritableFollows, Writes
  <2>6. TimerFollows'
    BY <2>1, <2>2, <2>3 DEF TimerFollows, SomeOf
  <2> QED  BY <2>5, <2>6
<1>3. CASE ~OnConnecting_s /\ ~OnChannelWritableState_s
  <2>1. /\ UNCHANGED <<writable, destroyed, timer, connect, chan>>
        /\ HasChannels' <=> HasChannels
        /\ Writes' <=> Writes
    <3>1. CASE \E c \in Comp : OnChannelRequestSignaling_s(c)
      <4>1. PICK c \in Comp : OnChannelRequestSignaling_s(c)
        BY <3>1
      <4>2. /\ entry' = IF HasChannel(c) THEN [entry EXCEPT ![c].allocated = FALSE] ELSE entry
            /\ UNCHANGED <<chan, connect, candidates, readable, writable, destroyed, timer>>
        BY <4>1 DEF OnChannelRequestSignaling_s
      <4>3. \A d \in Comp : entry'[d].ref = entry[d].ref
        BY <4>2 DEF TypeOK, Entry
      <4> QED  BY <4>2, <4>3 DEF HasChannels, HasChannel, Writes
    <3>2. CASE OnChannelReadableState_s \/ OnChannelCandidateReady_s
                 \/ OnChannelCandidatesAllocationDone_s
      <4>1. UNCHANGED <<entry, chan, writable, destroyed, timer, connect>>
        BY <3>2 DEF OnChannelReadableState_s, OnChannelCandidateReady_s,
                    OnChannelCandidatesAllocationDone_s, channels
      <4> QED  BY <4>1 DEF HasChannels, HasChannel, Writes
    <3> QED  BY <1>3, <3>1, <3>2 DEF Signalling
  <2>2. /\ Pending(<<"Write">>) => Pending(<<"Write">>)'
        /\ Pending(<<"Connecting">>) => Pending(<<"Connecting">>)'
    <3>1. PICK n : n # <<"Write">> /\ n # <<"Connecting">> /\ Take(n)
      BY <1>3, MessagesDiffer
      DEF Signalling, OnChannelReadableState_s, OnChannelCandidateReady_s,
          OnChannelCandidatesAllocationDone_s, OnChannelRequestSignaling_s
    <3> QED  BY <3>1, Takes DEF TypeOK
  <2>3. WritableFollows'
    BY <2>1, <2>2 DEF WritableFollows, Writes, SomeOf
  <2>4. TimerFollows'
    BY <2>1, <2>2 DEF TimerFollows, SomeOf
  <2> QED  BY <2>3, <2>4
<1> QED  BY <1>1, <1>2, <1>3

LEMMA WritableWorker ==
  ASSUME TypeOK, Idle, WritableFollows, TimerFollows, OnSignalingReady \/ Channels
  PROVE  WritableFollows' /\ TimerFollows'
<1>1. /\ UNCHANGED <<connect, writable, destroyed, timer>>
      /\ \A c \in Comp : entry'[c].ref = entry[c].ref
  <2>1. ASSUME NEW c \in Comp, OnChannelCandidatesAllocationDone(c)
        PROVE  /\ UNCHANGED <<connect, writable, destroyed, timer>>
               /\ \A d \in Comp : entry'[d].ref = entry[d].ref
    <3>1. entry' = [entry EXCEPT ![c].allocated = TRUE] /\ UNCHANGED <<connect, writable, destroyed, timer>>
      BY <2>1 DEF OnChannelCandidatesAllocationDone
    <3> QED  BY <3>1 DEF TypeOK, Entry
  <2>2. CASE OnSignalingReady
    BY <2>2 DEF OnSignalingReady
  <2>3. ASSUME NEW c \in Comp, \/ OnChannelCandidateReady(c) \/ OnChannelReadableState(c)
                              \/ OnChannelWritable(c) \/ OnChannelNotWritable(c)
        PROVE  UNCHANGED <<entry, connect, writable, destroyed, timer>>
    BY <2>3 DEF OnChannelCandidateReady, OnChannelReadableState, OnChannelWritable,
                OnChannelNotWritable, channels
  <2> QED  BY <2>1, <2>2, <2>3 DEF Channels
<1>2. HasChannels' <=> HasChannels
  BY <1>1 DEF HasChannels, HasChannel
<1>3. Kept
  BY StaysSame, CandidateReadyPosts, AllocationDonePosts, ReadablePosts, WritablePosts,
     NotWritablePosts DEF OnSignalingReady, Channels
<1>4. (Writes' <=> Writes) \/ Pending(<<"Write">>)'
  <2>1. CASE \E c \in Comp : OnChannelWritable(c) \/ OnChannelNotWritable(c)
    BY <2>1, WritablePosts, NotWritablePosts
  <2>2. CASE \/ OnSignalingReady
             \/ \E c \in Comp : \/ OnChannelCandidateReady(c)
                               \/ OnChannelCandidatesAllocationDone(c)
                               \/ OnChannelReadableState(c)
    <3>1. \A d \in Comp : chan'[d].writable = chan[d].writable
      <4>1. CASE OnSignalingReady
        <5> SUFFICES ASSUME NEW d \in Comp  PROVE chan'[d].writable = chan[d].writable
          OBVIOUS
        <5>1. /\ chan[d] \in Channel
              /\ \/ chan'[d] = chan[d]
                 \/ chan'[d] = [chan[d] EXCEPT !.waiting = FALSE, !.started = TRUE,
                                             !.gathering = chan[d].gathering + 1]
          BY <4>1 DEF OnSignalingReady, TypeOK
        <5> QED  BY <5>1 DEF Channel
      <4>2. ASSUME NEW c \in Comp, OnChannelCandidateReady(c)
            PROVE  \A d \in Comp : chan'[d].writable = chan[d].writable
        BY <4>2 DEF OnChannelCandidateReady, channels
      <4>3. ASSUME NEW c \in Comp, OnChannelCandidatesAllocationDone(c)
            PROVE  \A d \in Comp : chan'[d].writable = chan[d].writable
        <5>1. chan' = [chan EXCEPT ![c].gathering = @ - 1]
          BY <4>3 DEF OnChannelCandidatesAllocationDone
        <5> QED  BY <5>1 DEF TypeOK, Channel
      <4>4. ASSUME NEW c \in Comp, OnChannelReadableState(c)
            PROVE  \A d \in Comp : chan'[d].writable = chan[d].writable
        <5>1. chan' = [chan EXCEPT ![c].readable = ~@]
          BY <4>4 DEF OnChannelReadableState
        <5> QED  BY <5>1 DEF TypeOK, Channel
      <4> QED  BY <2>2, <4>1, <4>2, <4>3, <4>4
    <3> QED  BY <1>1, <3>1 DEF Writes, HasChannel
  <2> QED  BY <2>1, <2>2 DEF Channels
<1> QED  BY <1>1, <1>2, <1>3, <1>4, WritableKept, TimerKept DEF TypeOK

LEMMA WritableStep ==
  ASSUME TypeOK, Idle, WritableFollows, TimerFollows, [Next]_vars
  PROVE  WritableFollows' /\ TimerFollows'
<1>1. CASE UNCHANGED vars
  <2>1. UNCHANGED <<entry, chan, connect, writable, destroyed, sig, timer>>
    BY <1>1 DEF vars, channels
  <2> QED  BY <2>1 DEF WritableFollows, TimerFollows, Pending, SomeOf, HasChannels, HasChannel
<1> QED  BY <1>1, WritableUsers, WritableSignalling, WritableWorker DEF Next

----------------------------------------------------------------------------
(* Candidates and requests.                                                *)

Counted(k) == told[k] + (IF k \in ready THEN 1 ELSE 0) <= (IF k <= made THEN 1 ELSE 0)
ReadyPends == ~destroyed /\ ready # {} => connect /\ Pending(<<"Candidates">>)

LEMMA CandidatesStay ==
  ASSUME CandidatesReach, Kept, UNCHANGED <<candidates, destroyed>>, connect => connect'
  PROVE  CandidatesReach'
  BY DEF CandidatesReach, Kept, candidates

LEMMA CandidatesStep ==
  ASSUME TypeOK, Idle, CandidatesReach, [Next]_vars  PROVE CandidatesReach'
<1>1. CASE UNCHANGED vars
  <2>1. UNCHANGED <<connect, candidates, destroyed, sig>>
    BY <1>1 DEF vars
  <2> QED  BY <2>1 DEF CandidatesReach, candidates, Pending
<1>2. ASSUME NEW c \in Comp, CreateChannel(c) \/ DestroyChannel(c)  PROVE CandidatesReach'
  <2>1. UNCHANGED <<connect, candidates, destroyed>>
    BY <1>2 DEF CreateChannel, DestroyChannel
  <2>2. Kept
    BY <1>2, CreateChannelPosts, DestroyChannelPosts DEF TypeOK
  <2> QED  BY <2>1, <2>2, CandidatesStay
<1>3. CASE ConnectChannels
  <2>1. connect' = TRUE /\ UNCHANGED <<candidates, destroyed>>
    BY <1>3 DEF ConnectChannels
  <2>2. Kept
    BY <1>3, ConnectChannelsPosts DEF TypeOK
  <2> QED  BY <2>1, <2>2, CandidatesStay
<1>4. CASE ResetChannels
  <2>1. ready' = {} /\ UNCHANGED <<made, told>>
    BY <1>4 DEF ResetChannels
  <2>2. \A k \in Cand : told[k] \in Nat
    BY DEF TypeOK
  <2> QED  BY <2>1, <2>2 DEF CandidatesReach
<1>5. CASE DestroyAllChannels
  <2>1. destroyed' = TRUE /\ UNCHANGED candidates
    BY <1>5 DEF DestroyAllChannels
  <2> QED  BY <2>1 DEF CandidatesReach, candidates
<1>6. CASE OnChannelCandidateReady_s
  <2>1. /\ told' = [k \in Cand |-> IF k \in ready THEN told[k] + 1 ELSE told[k]]
        /\ ready' = {} /\ UNCHANGED made
    BY <1>6 DEF OnChannelCandidateReady_s
  <2>2. \A k \in Cand : told[k] \in Nat
    BY DEF TypeOK
  <2> QED  BY <2>1, <2>2 DEF CandidatesReach
<1>7. CASE Signalling /\ ~OnChannelCandidateReady_s
  <2>1. UNCHANGED <<connect, candidates, destroyed>>
    BY <1>7 DEF Signalling, OnConnecting_s, OnChannelReadableState_s, OnChannelWritableState_s,
                OnChannelRequestSignaling_s, OnChannelCandidatesAllocationDone_s
  <2>2. PICK n : n # <<"Candidates">> /\ Take(n)
    BY <1>7, MessagesDiffer
    DEF Signalling, OnConnecting_s, OnChannelReadableState_s, OnChannelWritableState_s,
        OnChannelRequestSignaling_s, OnChannelCandidatesAllocationDone_s
  <2>3. Pending(<<"Candidates">>) => Pending(<<"Candidates">>)'
    BY <2>2, Takes DEF TypeOK
  <2> QED  BY <2>1, <2>3 DEF CandidatesReach, candidates
<1>8. CASE OnSignalingReady
  <2>1. UNCHANGED <<connect, candidates, destroyed, sig>>
    BY <1>8 DEF OnSignalingReady
  <2> QED  BY <2>1, StaysSame, CandidatesStay
<1>9. ASSUME NEW c \in Comp, OnChannelCandidateReady(c)  PROVE CandidatesReach'
  <2>1. /\ chan[c].gathering > 0 /\ made' = made + 1 /\ ready' = ready \cup {made + 1}
        /\ UNCHANGED <<told, connect, destroyed>>
    BY <1>9 DEF OnChannelCandidateReady
  <2>2. connect /\ Pending(<<"Candidates">>)'
    BY <1>9, <2>1, BusyConnects, CandidateReadyPosts
  <2>3. \A k \in Cand : Counted(k)'
    <3> SUFFICES ASSUME NEW k \in Cand  PROVE Counted(k)'
      OBVIOUS
    <3>1. Counted(k) /\ k \in Nat /\ made \in Nat /\ told[k] \in Nat
      BY ConstantsOK DEF CandidatesReach, Counted, Cand, TypeOK
    <3>2. Counted(k) <=> told[k] + (IF k \in ready THEN 1 ELSE 0) <= (IF k <= made THEN 1 ELSE 0)
      BY DEF Counted
    <3>3. CASE k = made + 1
      <4>1. told[k] = 0
        BY <3>1, <3>2, <3>3
      <4> QED  BY <2>1, <3>1, <3>3, <4>1 DEF Counted
    <3>4. CASE k # made + 1
      <4>1. (k \in ready' <=> k \in ready) /\ (k <= made' <=> k <= made)
        BY <2>1, <3>1, <3>4
      <4> QED  BY <2>1, <3>1, <4>1 DEF Counted
    <3> QED  BY <3>3, <3>4
  <2> QED  BY <2>1, <2>2, <2>3 DEF CandidatesReach, Counted
<1>10. ASSUME NEW c \in Comp, \/ OnChannelCandidatesAllocationDone(c) \/ OnChannelReadableState(c)
                             \/ OnChannelWritable(c) \/ OnChannelNotWritable(c)
       PROVE  CandidatesReach'
  <2>1. UNCHANGED <<connect, candidates, destroyed>>
    BY <1>10 DEF OnChannelCandidatesAllocationDone, OnChannelReadableState, OnChannelWritable,
                 OnChannelNotWritable
  <2>2. Kept
    BY <1>10, AllocationDonePosts, ReadablePosts, WritablePosts, NotWritablePosts
  <2> QED  BY <2>1, <2>2, CandidatesStay
<1> QED  BY <1>1, <1>2, <1>3, <1>4, <1>5, <1>6, <1>7, <1>8, <1>9, <1>10 DEF Next, Users, Channels

Asks(c) == HasChannel(c) /\ chan[c].waiting

LEMMA RequestsStay ==
  ASSUME RequestPends, Kept, UNCHANGED work,
         \A c \in Comp : Asks(c)' => Asks(c) \/ Pending(<<"Request", c>>)'
  PROVE  RequestPends'
  BY DEF RequestPends, Kept, Asks

LEMMA RequestsStep ==
  ASSUME TypeOK, Idle, RequestPends, [Next]_vars  PROVE RequestPends'
<1>1. CASE UNCHANGED vars
  <2>1. UNCHANGED <<entry, chan, sig, work>>
    BY <1>1 DEF vars, channels
  <2> QED  BY <2>1 DEF RequestPends, HasChannel, Pending
<1>2. ASSUME NEW c \in Comp, CreateChannel(c)  PROVE RequestPends'
  <2>1. /\ entry' = [entry EXCEPT ![c].ref = @ + 1] /\ UNCHANGED work
        /\ IF ~HasChannel(c) /\ connect THEN chan' = [chan EXCEPT ![c] = Connected(@)] ELSE chan' = chan
    BY <1>2 DEF CreateChannel
  <2>2. \A d \in Comp : Asks(d)' => Asks(d) \/ Pending(<<"Request", d>>)'
    <3> SUFFICES ASSUME NEW d \in Comp, Asks(d)'  PROVE Asks(d) \/ Pending(<<"Request", d>>)'
      OBVIOUS
    <3>1. CASE d = c /\ ~HasChannel(c)
      <4>1. connect
        BY <2>1, <3>1 DEF Asks, Idle, Initial
      <4> QED  BY <1>2, <3>1, <4>1, CreateChannelPosts DEF TypeOK
    <3>2. CASE d # c \/ HasChannel(c)
      <4>1. chan'[d] = chan[d] /\ (d # c => entry'[d] = entry[d])
        BY <2>1, <3>2 DEF TypeOK
      <4> QED  BY <3>2, <4>1 DEF Asks, HasChannel
    <3> QED  BY <3>1, <3>2
  <2>3. Kept
    BY <1>2, CreateChannelPosts DEF TypeOK
  <2> QED  BY <2>1, <2>2, <2>3, RequestsStay
<1>3. ASSUME NEW c \in Comp, DestroyChannel(c)  PROVE RequestPends'
  <2>1. UNCHANGED work /\ Kept
    BY <1>3, DestroyChannelPosts DEF DestroyChannel, TypeOK
  <2>2. \A d \in Comp : Asks(d)' => Asks(d)
    <3>1. CASE entry[c].ref > 1
      <4>1. entry' = [entry EXCEPT ![c].ref = @ - 1] /\ UNCHANGED chan /\ HasChannel(c)
        BY <1>3, <3>1 DEF DestroyChannel
      <4> QED  BY <4>1 DEF Asks, HasChannel, TypeOK
    <3>2. CASE ~(entry[c].ref > 1)
      <4>1. entry' = [entry EXCEPT ![c] = NoEntry] /\ chan' = [chan EXCEPT ![c] = Initial]
        BY <1>3, <3>2 DEF DestroyChannel
      <4> QED  BY <4>1 DEF Asks, HasChannel, TypeOK, Initial
    <3> QED  BY <3>1, <3>2
  <2> QED  BY <2>1, <2>2, RequestsStay
<1>4. CASE ConnectChannels
  <2>1. UNCHANGED <<entry, work>>
    BY <1>4 DEF ConnectChannels
  <2>2. Kept /\ \A c \in Comp : HasChannel(c) => Pending(<<"Request", c>>)'
    BY <1>4, ConnectChannelsPosts DEF TypeOK
  <2> QED  BY <2>1, <2>2, RequestsStay DEF Asks, HasChannel
<1>5. CASE ResetChannels \/ DestroyAllChannels
  <2>1. chan' = [c \in Comp |-> Initial]
    BY <1>5 DEF ResetChannels, DestroyAllChannels
  <2> QED  BY <2>1 DEF RequestPends, Initial
<1>6. ASSUME NEW c \in Comp, OnChannelRequestSignaling_s(c)  PROVE RequestPends'
  <2>1. work' = work + 1 /\ work \in Nat
    BY <1>6 DEF OnChannelRequestSignaling_s, TypeOK
  <2> QED  BY <2>1 DEF RequestPends
<1>7. CASE Signalling /\ ~\E c \in Comp : OnChannelRequestSignaling_s(c)
  <2>1. UNCHANGED <<entry, chan, work>>
    BY <1>7 DEF Signalling, OnConnecting_s, OnChannelReadableState_s, OnChannelWritableState_s,
                OnChannelCandidateReady_s, OnChannelCandidatesAllocationDone_s, channels
  <2>2. PICK n : Take(n) /\ \A c : n # <<"Request", c>>
    BY <1>7, MessagesDiffer
    DEF Signalling, OnConnecting_s, OnChannelReadableState_s, OnChannelWritableState_s,
        OnChannelCandidateReady_s, OnChannelCandidatesAllocationDone_s
  <2>3. \A c : Pending(<<"Request", c>>) => Pending(<<"Request", c>>)'
    BY <2>2, Takes DEF TypeOK
  <2> QED  BY <2>1, <2>3 DEF RequestPends, HasChannel
<1>8. CASE OnSignalingReady
  <2>1. /\ UNCHANGED entry
        /\ \A c \in Comp : HasChannel(c) => ~chan'[c].waiting
    <3>1. UNCHANGED entry
      BY <1>8 DEF OnSignalingReady
    <3>2. ASSUME NEW c \in Comp, HasChannel(c)  PROVE ~chan'[c].waiting
      <4>1. /\ chan[c] \in Channel
            /\ chan'[c] = IF chan[c].waiting
                          THEN [chan[c] EXCEPT !.waiting = FALSE, !.started = TRUE,
                                               !.gathering = chan[c].gathering + 1]
                          ELSE chan[c]
        BY <1>8, <3>2 DEF OnSignalingReady, TypeOK
      <4> QED  BY <4>1 DEF Channel
    <3> QED  BY <3>1, <3>2
  <2> QED  BY <2>1 DEF RequestPends, HasChannel
<1>9. ASSUME NEW c \in Comp, \/ OnChannelCandidateReady(c) \/ OnChannelCandidatesAllocationDone(c)
                            \/ OnChannelReadableState(c) \/ OnChannelWritable(c)
      PROVE  RequestPends'
  <2>1. Kept
    BY <1>9, CandidateReadyPosts, AllocationDonePosts, ReadablePosts, WritablePosts
  <2>2. UNCHANGED work
    BY <1>9 DEF OnChannelCandidateReady, OnChannelCandidatesAllocationDone,
                OnChannelReadableState, OnChannelWritable
  <2>3. CASE OnChannelCandidateReady(c)
    <3>1. UNCHANGED <<entry, chan>>
      BY <2>3 DEF OnChannelCandidateReady, channels
    <3> QED  BY <2>1, <2>2, <3>1, RequestsStay DEF Asks, HasChannel
  <2>4. CASE OnChannelCandidatesAllocationDone(c)
    <3>1. chan' = [chan EXCEPT ![c].gathering = @ - 1] /\ entry' = [entry EXCEPT ![c].allocated = TRUE]
      BY <2>4 DEF OnChannelCandidatesAllocationDone
    <3>2. \A d \in Comp : chan'[d].waiting = chan[d].waiting /\ entry'[d].ref = entry[d].ref
      BY <3>1 DEF TypeOK, Channel, Entry
    <3> QED  BY <2>1, <2>2, <3>2, RequestsStay DEF Asks, HasChannel
  <2>5. CASE OnChannelReadableState(c)
    <3>1. UNCHANGED entry /\ chan' = [chan EXCEPT ![c].readable = ~@]
      BY <2>5 DEF OnChannelReadableState
    <3>2. \A d \in Comp : chan'[d].waiting = chan[d].waiting
      BY <3>1 DEF TypeOK, Channel
    <3> QED  BY <2>1, <2>2, <3>1, <3>2, RequestsStay DEF Asks, HasChannel
  <2>6. CASE OnChannelWritable(c)
    <3>1. UNCHANGED entry /\ chan' = [chan EXCEPT ![c].writable = TRUE]
      BY <2>6 DEF OnChannelWritable
    <3>2. \A d \in Comp : chan'[d].waiting = chan[d].waiting
      BY <3>1 DEF TypeOK, Channel
    <3> QED  BY <2>1, <2>2, <3>1, <3>2, RequestsStay DEF Asks, HasChannel
  <2> QED  BY <1>9, <2>3, <2>4, <2>5, <2>6
<1>10. ASSUME NEW c \in Comp, OnChannelNotWritable(c)  PROVE RequestPends'
  <2>1. Kept /\ Pending(<<"Request", c>>)'
    BY <1>10, NotWritablePosts
  <2>2. /\ UNCHANGED <<entry, work>>
        /\ chan' = [chan EXCEPT ![c].writable = FALSE, ![c].waiting = TRUE]
    BY <1>10 DEF OnChannelNotWritable
  <2>3. \A d \in Comp : d # c => chan'[d] = chan[d]
    BY <2>2 DEF TypeOK
  <2> QED  BY <2>1, <2>2, <2>3, RequestsStay DEF Asks, HasChannel
<1> QED  BY <1>1, <1>2, <1>3, <1>4, <1>5, <1>6, <1>7, <1>8, <1>9, <1>10 DEF Next, Users, Channels

----------------------------------------------------------------------------
(* The theorems.                                                           *)

\* What holds together in every state, and is kept by every step.
IInv == TypeOK /\ Idle /\ WritableFollows /\ TimerFollows /\ CandidatesReach /\ RequestPends

LEMMA InitIInv == Init => IInv
<1> SUFFICES ASSUME Init  PROVE IInv
  OBVIOUS
<1>1. /\ entry = [c \in Comp |-> NoEntry] /\ chan = [c \in Comp |-> Initial]
      /\ connect = FALSE /\ ready = {} /\ made = 0 /\ told = [k \in Cand |-> 0]
      /\ readable = "NONE" /\ writable = "NONE" /\ destroyed = FALSE
      /\ sig = <<>> /\ work = 0 /\ timer = FALSE
  BY DEF Init
<1>2. /\ entry \in [Comp -> Entry] /\ chan \in [Comp -> Channel]
      /\ \A c \in Comp : chan[c].waiting => chan[c].gathering < MaxGather
  BY <1>1, InitialTyped DEF Initial
<1>3. TypeOK
  <2>1. 0 \in 0..MaxCand /\ told \in [Cand -> Nat]
    BY <1>1, ConstantsOK
  <2>2. sig \in Seq(Message) /\ work \in Nat
    BY <1>1
  <2>3. readable \in Aggregate /\ writable \in Aggregate
    BY <1>1 DEF Aggregate
  <2> QED  BY <1>1, <1>2, <2>1, <2>2, <2>3 DEF TypeOK
<1>4. \A c \in Comp : ~HasChannel(c)
  BY <1>1, InitialTyped DEF HasChannel
<1>5. Idle /\ TimerFollows /\ RequestPends /\ CandidatesReach
  BY <1>1, <1>4 DEF Idle, TimerFollows, RequestPends, CandidatesReach, Cand
<1>6. WritableFollows
  BY <1>1, <1>4 DEF WritableFollows, SomeOf
<1> QED  BY <1>3, <1>5, <1>6 DEF IInv

LEMMA StepIInv == IInv /\ [Next]_vars => IInv'
  BY TypeStep, WritableStep, CandidatesStep, RequestsStep DEF IInv

LEMMA AlwaysIInv == Spec => []IInv
  BY InitIInv, StepIInv, PTL DEF Spec

\* Types: in particular a channel that waits for signalling has an allocator session to spare
\* (OnSignalingReady starts no more than were asked for).
THEOREM TypeCorrect == Spec => []TypeOK
  BY AlwaysIInv, PTL DEF IInv

\* writable() is the OR of the channels' bits once the messages about it have run, for any
\* number of channels and users of each (Transport::OnChannelWritableState_s, DestroyChannel_w).
THEOREM WritableIsOr == Spec => []WritableFollows
  BY AlwaysIInv, PTL DEF IInv

\* A connecting transport that cannot send is watched by the Session's timer, once the messages
\* on their way have run (Transport::OnConnecting_s, Session::OnTransportWritable).
THEOREM TimerCorrect == Spec => []TimerWatches
<1>1. IInv => TimerWatches
  BY DEF IInv, TimerFollows, WritableFollows, TimerWatches, HasChannels
<1> QED  BY AlwaysIInv, <1>1, PTL

\* No candidate gathered while connecting is lost or told twice (OnChannelCandidateReady,
\* OnChannelCandidateReady_s, ResetChannels_w).
THEOREM CandidatesCorrect == Spec => []CandidatesReach
  BY AlwaysIInv, PTL DEF IInv

\* No request for signalling is lost (OnChannelRequestSignaling_s, OnSignalingReady).
THEOREM RequestsCorrect == Spec => []RequestPends
  BY AlwaysIInv, PTL DEF IInv
================================================================================
