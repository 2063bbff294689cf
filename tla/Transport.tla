------------------------------- MODULE Transport -------------------------------
(* p2p/base/transport.cc: one Transport between the signalling thread, where  *)
(* its users are, and the worker thread, where its channels live.  A call of  *)
(* the users is a Send to the worker, and nothing else happens on the         *)
(* signalling thread meanwhile: it is one step.  What the channels do is a    *)
(* step of the worker, and reaches the users by messages in order (sig).  The *)
(* timer of a Session with this transport (session.cc) is the user modelled.  *)
EXTENDS Integers, Sequences, FiniteSets

CONSTANTS
  Comp,        \* components
  MaxRef,      \* users of one channel: proxies muxed onto it
  MaxCand,     \* candidates that are ever gathered
  MaxGather,   \* allocator sessions of a channel that run at a time
  MaxSig       \* messages pending when something new happens

ASSUME ConstantsOK ==
  /\ IsFiniteSet(Comp)
  /\ MaxRef \in Nat \ {0} /\ MaxCand \in Nat /\ MaxGather \in Nat \ {0} /\ MaxSig \in Nat

VARIABLES
  entry,       \* channels_: reference count and candidates_allocated_
  chan,        \* the channels themselves
  connect,     \* connect_requested_
  ready,       \* ready_candidates_
  made,        \* number of candidates gathered so far
  told,        \* how often each candidate was given to SignalCandidatesReady
  readable,    \* readable_
  writable,    \* writable_
  destroyed,   \* destroyed_
  sig,         \* messages to the signalling thread
  work,        \* number of MSG_ONSIGNALINGREADY pending on the worker
  timer        \* Session: MSG_TIMEOUT is pending

channels == <<entry, chan>>
candidates == <<ready, made, told>>
vars == <<channels, connect, candidates, readable, writable, destroyed, sig, work, timer>>

Cand == 1..MaxCand
Aggregate == {"NONE", "SOME", "ALL"}
Message == {<<k>> : k \in {"Connecting", "Read", "Write", "Candidates", "Allocated"}}
             \cup {<<"Request", c>> : c \in Comp}

\* ref: 0 when channels_ has no such component.
Entry == [ref: 0..MaxRef, allocated: BOOLEAN]
\* started: an allocator session was created since the channel was or was reset.
Channel == [waiting: BOOLEAN, started: BOOLEAN, gathering: 0..MaxGather,
            readable: BOOLEAN, writable: BOOLEAN]

NoEntry == [ref |-> 0, allocated |-> FALSE]
Initial == [waiting |-> FALSE, started |-> FALSE, gathering |-> 0,
            readable |-> FALSE, writable |-> FALSE]

HasChannel(c) == entry[c].ref > 0
HasChannels == \E c \in Comp : HasChannel(c)

Init ==
  /\ entry = [c \in Comp |-> NoEntry]
  /\ chan = [c \in Comp |-> Initial]
  /\ connect = FALSE
  /\ ready = {} /\ made = 0 /\ told = [k \in Cand |-> 0]
  /\ readable = "NONE" /\ writable = "NONE"
  /\ destroyed = FALSE
  /\ sig = <<>> /\ work = 0 /\ timer = FALSE

\* Something new happens only while few messages are pending.
Room == Len(sig) + work < MaxSig
Post(ms) == sig' = sig \o ms
PostIf(cond, m) == Post(IF cond THEN <<m>> ELSE <<>>)
Pending(m) == \E i \in 1..Len(sig) : sig[i] = m
\* The messages of ms once each; which channel comes first is left open.
InSomeOrder(ms) ==
  {s \in [1..Cardinality(ms) -> ms] : \A m \in ms : \E i \in DOMAIN s : s[i] = m}

----------------------------------------------------------------------------
(* Calls of the users.  Nobody calls after DestroyAllChannels, which only  *)
(* the destructors do, when the proxies muxed onto a channel have let go.   *)

User == ~destroyed /\ Room

\* P2PTransportChannel::Connect: Allocate, which requests signalling.
Connected(ch) == [ch EXCEPT !.waiting = TRUE]

\* A fault: nobody is told that the first channel of a connecting transport is there.
CreateChannelQuietly(c) ==
  /\ User /\ entry[c].ref < MaxRef
  /\ entry' = [entry EXCEPT ![c].ref = @ + 1]
  /\ IF ~HasChannel(c) /\ connect
     THEN chan' = [chan EXCEPT ![c] = Connected(@)] /\ Post(<< <<"Request", c>> >>)
     ELSE UNCHANGED <<chan, sig>>
  /\ UNCHANGED <<connect, candidates, readable, writable, destroyed, work, timer>>

CreateChannel(c) ==
  /\ User /\ entry[c].ref < MaxRef
  /\ entry' = [entry EXCEPT ![c].ref = @ + 1]
  /\ IF ~HasChannel(c) /\ connect
     THEN /\ chan' = [chan EXCEPT ![c] = Connected(@)]
          /\ Post(IF HasChannels THEN << <<"Request", c>> >>
                  ELSE << <<"Request", c>>, <<"Connecting">> >>)
     ELSE UNCHANGED <<chan, sig>>
  /\ UNCHANGED <<connect, candidates, readable, writable, destroyed, work, timer>>

\* A fault: the last user's channel goes and the writable state is not looked at again.
DestroyChannelQuietly(c) ==
  /\ User /\ HasChannel(c)
  /\ IF entry[c].ref > 1
     THEN /\ entry' = [entry EXCEPT ![c].ref = @ - 1]
          /\ UNCHANGED <<chan, sig>>
     ELSE /\ entry' = [entry EXCEPT ![c] = NoEntry]
          /\ chan' = [chan EXCEPT ![c] = Initial]
          /\ PostIf(connect /\ ~HasChannels', <<"Connecting">>)
  /\ UNCHANGED <<connect, candidates, readable, writable, destroyed, work, timer>>

DestroyChannel(c) ==
  /\ User /\ HasChannel(c)
  /\ IF entry[c].ref > 1
     THEN /\ entry' = [entry EXCEPT ![c].ref = @ - 1]
          /\ UNCHANGED <<chan, sig>>
     ELSE /\ entry' = [entry EXCEPT ![c] = NoEntry]
          /\ chan' = [chan EXCEPT ![c] = Initial]
          /\ Post(IF connect /\ ~HasChannels' THEN << <<"Connecting">>, <<"Write">> >>
                  ELSE << <<"Write">> >>)
  /\ UNCHANGED <<connect, candidates, readable, writable, destroyed, work, timer>>

ConnectChannels ==
  /\ User /\ ~connect /\ HasChannels
  /\ connect' = TRUE
  /\ chan' = [c \in Comp |-> IF HasChannel(c) THEN Connected(chan[c]) ELSE chan[c]]
  /\ \E rs \in InSomeOrder({<<"Request", c>> : c \in {k \in Comp : HasChannel(k)}}) :
       Post(<< <<"Candidates">> >> \o rs \o << <<"Connecting">> >>)
  /\ UNCHANGED <<entry, candidates, readable, writable, destroyed, work, timer>>

\* A fault: the candidates of the channels that were reset stay.
ResetChannelsKeeps ==
  /\ User
  /\ connect' = FALSE
  /\ chan' = [c \in Comp |-> Initial]
  /\ \E ms \in InSomeOrder({m \in {<<"Read">>, <<"Write">>} :
                              \E c \in Comp : \/ m = <<"Read">> /\ chan[c].readable
                                              \/ m = <<"Write">> /\ chan[c].writable}) :
       Post(ms)
  /\ UNCHANGED <<entry, candidates, readable, writable, destroyed, work, timer>>

\* P2PTransportChannel::Reset signals the states that it changes.
ResetChannels ==
  /\ User
  /\ connect' = FALSE
  /\ ready' = {}
  /\ chan' = [c \in Comp |-> Initial]
  /\ \E ms \in InSomeOrder({m \in {<<"Read">>, <<"Write">>} :
                              \E c \in Comp : \/ m = <<"Read">> /\ chan[c].readable
                                              \/ m = <<"Write">> /\ chan[c].writable}) :
       Post(ms)
  /\ UNCHANGED <<entry, made, told, readable, writable, destroyed, work, timer>>

\* With the messages of both threads cleared.
DestroyAllChannels ==
  /\ ~destroyed /\ \A c \in Comp : entry[c].ref <= 1
  /\ destroyed' = TRUE
  /\ entry' = [c \in Comp |-> NoEntry]
  /\ chan' = [c \in Comp |-> Initial]
  /\ sig' = <<>> /\ work' = 0
  /\ UNCHANGED <<connect, candidates, readable, writable, timer>>

----------------------------------------------------------------------------
(* Messages on the signalling thread.                                      *)

Take(m) == sig # <<>> /\ Head(sig) = m /\ sig' = Tail(sig)

\* GetTransportState_s, of one of the two flags of the channels.
GetTransportState(flag) ==
  LET is == {c \in Comp : HasChannel(c)}
      on == {c \in is : flag[c]}
  IN IF on = {} THEN "NONE" ELSE IF on = is THEN "ALL" ELSE "SOME"
SomeOf(state) == state \in {"SOME", "ALL"}
WritableFlags == [c \in Comp |-> chan[c].writable]
ReadableFlags == [c \in Comp |-> chan[c].readable]

\* Session::OnTransportWritable: Clear(MSG_TIMEOUT), and PostDelayed.
OnTransportWritable(state) == timer' = (HasChannels /\ ~SomeOf(state))

OnConnecting_s ==
  /\ Take(<<"Connecting">>)
  /\ OnTransportWritable(writable)
  /\ UNCHANGED <<channels, connect, candidates, readable, writable, destroyed, work>>

OnChannelReadableState_s ==
  /\ Take(<<"Read">>)
  /\ readable' = GetTransportState(ReadableFlags)
  /\ UNCHANGED <<channels, connect, candidates, writable, destroyed, work, timer>>

OnChannelWritableState_s ==
  /\ Take(<<"Write">>)
  /\ writable' = GetTransportState(WritableFlags)
  /\ IF writable' # writable THEN OnTransportWritable(writable') ELSE UNCHANGED timer
  /\ UNCHANGED <<channels, connect, candidates, readable, destroyed, work>>

\* SignalRequestSignaling; its users answer with OnSignalingReady.
OnChannelRequestSignaling_s(c) ==
  /\ Take(<<"Request", c>>)
  /\ entry' = IF HasChannel(c) THEN [entry EXCEPT ![c].allocated = FALSE] ELSE entry
  /\ work' = work + 1
  /\ UNCHANGED <<chan, connect, candidates, readable, writable, destroyed, timer>>

OnChannelCandidateReady_s ==
  /\ Take(<<"Candidates">>)
  /\ told' = [k \in Cand |-> IF k \in ready THEN told[k] + 1 ELSE told[k]]
  /\ ready' = {}
  /\ UNCHANGED <<channels, connect, made, readable, writable, destroyed, work, timer>>

OnChannelCandidatesAllocationDone_s ==
  /\ Take(<<"Allocated">>)
  /\ UNCHANGED <<channels, connect, candidates, readable, writable, destroyed, work, timer>>

----------------------------------------------------------------------------
(* The worker: MSG_ONSIGNALINGREADY, and what a channel does.              *)

\* A fault: a channel that did not ask starts an allocator session too.
OnSignalingReadyAll ==
  /\ work > 0 /\ work' = work - 1
  /\ chan' = [c \in Comp |->
       IF HasChannel(c)
       THEN [chan[c] EXCEPT !.waiting = FALSE, !.started = TRUE, !.gathering = @ + 1]
       ELSE chan[c]]
  /\ UNCHANGED <<entry, connect, candidates, readable, writable, destroyed, sig, timer>>

\* P2PTransportChannel::OnSignalingReady of every channel.
OnSignalingReady ==
  /\ work > 0 /\ work' = work - 1
  /\ chan' = [c \in Comp |->
       IF HasChannel(c) /\ chan[c].waiting
       THEN [chan[c] EXCEPT !.waiting = FALSE, !.started = TRUE, !.gathering = @ + 1]
       ELSE chan[c]]
  /\ UNCHANGED <<entry, connect, candidates, readable, writable, destroyed, sig, timer>>

Runs(c) == HasChannel(c) /\ Room

OnChannelCandidateReady(c) ==
  /\ Runs(c) /\ chan[c].gathering > 0 /\ made < MaxCand
  /\ made' = made + 1
  /\ ready' = ready \cup {made + 1}
  /\ PostIf(connect, <<"Candidates">>)
  /\ UNCHANGED <<channels, connect, told, readable, writable, destroyed, work, timer>>

OnChannelCandidatesAllocationDone(c) ==
  /\ Runs(c) /\ chan[c].gathering > 0
  /\ chan' = [chan EXCEPT ![c].gathering = @ - 1]
  /\ entry' = [entry EXCEPT ![c].allocated = TRUE]
  /\ PostIf(\A k \in Comp : HasChannel(k) => entry'[k].allocated, <<"Allocated">>)
  /\ UNCHANGED <<connect, candidates, readable, writable, destroyed, work, timer>>

OnChannelReadableState(c) ==
  /\ Runs(c) /\ chan[c].started
  /\ chan' = [chan EXCEPT ![c].readable = ~@]
  /\ Post(<< <<"Read">> >>)
  /\ UNCHANGED <<entry, connect, candidates, readable, writable, destroyed, work, timer>>

\* P2PTransportChannel::HandleWritable.
OnChannelWritable(c) ==
  /\ Runs(c) /\ chan[c].started /\ ~chan[c].writable
  /\ chan' = [chan EXCEPT ![c].writable = TRUE]
  /\ Post(<< <<"Write">> >>)
  /\ UNCHANGED <<entry, connect, candidates, readable, writable, destroyed, work, timer>>

\* A fault: no request while a session is still gathering.
OnChannelNotWritableOnce(c) ==
  /\ Runs(c) /\ chan[c].writable /\ chan[c].gathering < MaxGather
  /\ chan' = [chan EXCEPT ![c].writable = FALSE, ![c].waiting = TRUE]
  /\ Post(IF chan[c].gathering = 0 THEN << <<"Request", c>>, <<"Write">> >>
          ELSE << <<"Write">> >>)
  /\ UNCHANGED <<entry, connect, candidates, readable, writable, destroyed, work, timer>>

\* P2PTransportChannel::HandleNotWritable: a new allocator session first.
OnChannelNotWritable(c) ==
  /\ Runs(c) /\ chan[c].writable /\ chan[c].gathering < MaxGather
  /\ chan' = [chan EXCEPT ![c].writable = FALSE, ![c].waiting = TRUE]
  /\ Post(<< <<"Request", c>>, <<"Write">> >>)
  /\ UNCHANGED <<entry, connect, candidates, readable, writable, destroyed, work, timer>>

Users ==
  \/ \E c \in Comp : CreateChannel(c) \/ DestroyChannel(c)
  \/ ConnectChannels \/ ResetChannels \/ DestroyAllChannels
Signalling ==
  \/ OnConnecting_s \/ OnChannelReadableState_s \/ OnChannelWritableState_s
  \/ \E c \in Comp : OnChannelRequestSignaling_s(c)
  \/ OnChannelCandidateReady_s \/ OnChannelCandidatesAllocationDone_s
Channels ==
  \E c \in Comp : \/ OnChannelCandidateReady(c) \/ OnChannelCandidatesAllocationDone(c)
                  \/ OnChannelReadableState(c) \/ OnChannelWritable(c)
                  \/ OnChannelNotWritable(c)

Next == Users \/ Signalling \/ OnSignalingReady \/ Channels

Spec == Init /\ [][Next]_vars

----------------------------------------------------------------------------
(* Properties                                                              *)

TypeOK ==
  /\ entry \in [Comp -> Entry] /\ chan \in [Comp -> Channel]
  /\ connect \in BOOLEAN /\ destroyed \in BOOLEAN /\ timer \in BOOLEAN
  /\ ready \subseteq Cand /\ made \in 0..MaxCand /\ told \in [Cand -> Nat]
  /\ readable \in Aggregate /\ writable \in Aggregate
  /\ sig \in Seq(Message) /\ work \in Nat
  /\ \A c \in Comp : chan[c].waiting => chan[c].gathering < MaxGather

\* transport.h: "These bits are the ORs of the corresponding bits on the managed channels":
\* once the messages about it have run, writable() is.  A channel that goes, alone or with
\* others, changes it too.
WritableFollows ==
  ~destroyed /\ ~Pending(<<"Write">>) =>
    (SomeOf(writable) <=> \E c \in Comp : HasChannel(c) /\ chan[c].writable)

\* A Session is never left waiting for ever: while the transport connects and none of its
\* channels can send, MSG_TIMEOUT is pending, once the messages on their way have run; and
\* while one can, it is not.
TimerWatches ==
  ~destroyed /\ connect /\ ~Pending(<<"Connecting">>) /\ ~Pending(<<"Write">>) =>
    (timer <=> HasChannels /\ \A c \in Comp : HasChannel(c) => ~chan[c].writable)

\* Every candidate gathered while connecting reaches the session, once: it was told, or a
\* message is pending that will tell it, or ResetChannels took it back.
CandidatesReach ==
  /\ ~destroyed /\ ready # {} => connect /\ Pending(<<"Candidates">>)
  /\ \A k \in Cand : told[k] + (IF k \in ready THEN 1 ELSE 0) <= (IF k <= made THEN 1 ELSE 0)

\* A channel that asked for signalling will get it: no request is lost while channels come,
\* go and are reset, although OnSignalingReady answers all of them together.
RequestPends ==
  \A c \in Comp : HasChannel(c) /\ chan[c].waiting => work > 0 \/ Pending(<<"Request", c>>)
=============================================================================
