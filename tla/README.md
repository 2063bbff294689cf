# A TLA+ development for libjingle's talk

libjingle (`src/`) is a C++ library for voice, video and tunnelled sessions
between two peers: threads and message queues (`src/base`), connectivity
establishment (`src/p2p/base`, `src/p2p/client`), sessions and media on top of
it (`src/session`, `src/app`, `src/media`), and an XMPP client to carry the
signalling (`src/xmpp`). This directory holds TLA+ modules of the parts where
concurrency, ordering, failure and long histories decide whether the program is
correct, the TLC configurations that check small instances of them, and
theorems about them whose proofs TLAPS checks.

Names in the modules are the names of the source wherever TLA+ allows it.
`PROJECT.json` maps every definition to the lines it models.

- [1. The system](#1-the-system)
- [2. The modules and what is left](#2-the-modules-and-what-is-left)
- [3. ThreadQueue](#3-threadqueue-threads-and-message-queues)
- [4. P2PChannel](#4-p2pchannel-choosing-among-connections)
- [5. Transport](#5-transport-between-two-threads)
- [6. Session](#6-session-two-peers)
- [7. PseudoTcp](#7-pseudotcp-a-byte-stream-over-datagrams)
- [8. The runs](#8-the-runs)
- [9. What the code does otherwise than it says](#9-what-the-code-does-otherwise-than-it-says)
- [10. The proofs](#10-the-proofs)
- [11. What is not modelled](#11-what-is-not-modelled)

## 1. The system

### Parts and their state

**Threads and message queues** (`base/messagequeue.cc`, `base/thread.cc`,
`base/messagehandler.cc`). A `Thread` is a `MessageQueue`: `msgq_`, the heap
`dmsgq_` of delayed messages, the list `sendlist_` of synchronous messages with
a pointer to each sender's local `ready`, and the unlocked flags `has_sends_`
and `fStop_`. Operations: `Post`, `PostDelayed`, `Send`, `Get` (the loop),
`Quit`, `Clear`, the destructors of threads and handlers. Every other part runs
on these threads and talks to other threads only through them. Hard: flags read
without a lock, one wake-up signal shared by the loop and all nested `Send`s, a
reply in two steps, destruction from another thread. Correct when: no wake-up
is lost, `Send` is synchronous and returns, nothing calls a destroyed handler
or follows a pointer to a finished `Send`, delayed messages run in order and
not early.

**PhysicalSocketServer** (`base/physicalsocketserver.cc`). A signal that
`WakeUp` raises and that `Wait` consumes; the rest is operating system I/O.

**P2PTransportChannel, Connection, Port** (`p2p/base/p2ptransportchannel.cc`,
`port.cc`), on the worker thread. A channel has allocator sessions, ports,
remote candidates, a list of connections (port × remote address) and one best
connection. A connection has a read state, a write state, `pruned_` and its
outstanding pings. A port has a map of its connections and a minimum lifetime.
Operations: new ports and candidates, STUN pings, responses and errors, data,
`MSG_SORT` (sort, switch, prune, allocate), `MSG_PING`, `MSG_DELETE`,
`MSG_CHECKTIMEOUT`, `Reset`. Components interact by signals, which are calls
made in the middle of another call, and by messages to themselves, which run
later on a state that has moved on. Hard: decisions taken on a state and
executed on a later one, raw pointers between three lists of connections,
objects that delete themselves inside a signal, flags that suppress requests.
Correct when: no pointer dangles, nothing dead is forgotten and nothing without
purpose kept, every change that matters leads to a sort, the sorts end, and
the channel uses and reports the best connection.

**StunRequest and its manager** (`p2p/base/stunrequest.cc`). A map of requests
by transaction id, each with its count, delay and `timeout_`. Hard: callbacks
that delete requests or the manager, a late response against the timeout.
Correct when: each request ends exactly once, in a response, an error or a
timeout.

**ICE roles** (`port.cc` `MaybeIceRoleConflict`, `session.cc`
`OnRoleConflict`, `transport.cc`). Role, tie-breaker, `role_switch_`. Hard: the
two peers decide on messages that cross. Correct when: they end with opposite
roles and stay there.

**Transport** (`p2p/base/transport.cc`). Channels by component with reference
counts, aggregated readable and writable states, ready candidates. Two threads:
`Foo()` on the signalling thread calls `Foo_w()` on the worker by `Send`, and
signals come back by `Post` under `crit_`. Hard: states computed from objects
that move on, messages that arrive after the object they are about was reset.
Correct when: the aggregate is that of the channels unless a message is about to
correct it, each candidate is signalled once, no request is lost, and the user
of a transport that cannot send has a timer.

**Session** (`p2p/base/session.cc`). `Session::State`, initiate / accept /
reject / terminate, candidates held back until the peer knows the session,
`MSG_TIMEOUT`, proxies of transports. Hard: two peers, messages that cross or
fail, errors that come back later, a timer that every transport clears and
sets. Correct when: both peers end in compatible states and every candidate is
sent once.

**SignalThread** (`base/signalthread.cc`). A worker with a reference count, a
state and a reply message. Correct when: it is deleted exactly once, never while
the worker runs, and `SignalWorkDone` comes once or, after Destroy, never.

**DtlsTransportChannelWrapper** (`p2p/base/dtlstransportchannel.cc`). State of
the handshake over a channel, and the flags it reports upward. Correct when: it
is writable only when both are, and becomes so when both are.

**SrtpFilter, RtcpMuxFilter** (`session/media/`). Offer / answer states, and
the sessions or the flag they end with. Correct when: the two peers agree
after each completed exchange, and active filters can protect packets.

**PseudoTcp** (`p2p/base/pseudotcp.cc`). A TCP over datagrams: a send buffer and
its list of segments, a receive buffer with bytes ahead of their turn, windows,
three timers, two callbacks. Operations: `Connect`, `Send`, `Recv`, `Close`,
`NotifyPacket`, `NotifyClock`. Hard: any order and loss of packets, segments
split in the middle, a window that closes, callbacks that come once. Correct
when: each user reads a prefix of what the other wrote, the window is honoured
and nobody waits for an event that will not come.

**Port kinds and allocators** (`turnport.cc`, `relayport.cc`, `stunport.cc`,
`tcpport.cc`, `p2p/client/basicportallocator.cc`). Requests to servers, with
refresh and retries; sequences of ports for each network with one completion
signal. Correct when: completion is signalled once and after all ports ended.

**Task, TaskRunner** (`base/task.cc`, `taskrunner.cc`). Cooperative tasks with
timeouts, abort and deferred deletion.

**SharedExclusiveLock, FifoBuffer** (`base/`). A readers-writer lock, and a
bounded byte buffer with two users.

**Media, PeerConnection, tunnels, XMPP, HTTP, SSL, sound, tests' simulated
networks.** See section 11.

### How they interact

    signalling thread                      worker thread
      Session --(Send: Foo -> Foo_w)-->      Transport_w
      Session <--(Post: MSG_...)-------      Transport_w
                                             Transport <-- signals -- channel
                                             (Dtls wrapper around) P2PTransportChannel
                                             channel <-- signals -- Connection <-- Port
                                             channel, Connection, Port --(Post)--> themselves
                                             Port <-- packets -- SocketServer::Wait

All arrows of the left column are those of ThreadQueue; P2PChannel is the
innermost part of the right one, Transport the boundary between the columns, and
Session the top of the left one, for both peers. PseudoTcp runs on the worker,
over a channel, for tunnels.

### Hazards

`PROJECT.json` lists, under "hazards", each place where this code can go wrong
in a way a test would hardly reach, with the properties that would catch it, or
with the reason why none covers it.

## 2. The modules and what is left

| module | what it is about | checked | proved |
|---|---|---|---|
| ThreadQueue | threads, queues, Send, Quit, deletion | safety, liveness | all its safety properties |
| P2PChannel | connections, ports, sorting | safety, liveness | all its safety properties |
| Transport | aggregation of channels between two threads, with its user's timer | safety | all of it |
| Session | the two sides of a session over a signalling service with faults | safety | all of it |
| PseudoTcp | a connection over a network with faults | safety | all of it |
| ByteStream | what PseudoTcp promises | PseudoTcp implements it | PseudoTcp implements it |

The `MC` modules give the constants their values for TLC, and the `Proofs`
modules hold the theorems. Those of PseudoTcp take three modules:
PseudoTcpOperators (what each operator does to an end), PseudoTcpProofs (the
invariant of the two ends and the packets) and PseudoTcpStream (the bytes, and
the implementation of ByteStream); those of Session two: SessionProofs (what each
action does, the types and the ends) and SessionAgreement (what the two sides know
of each other).

Each module takes from the one below only what that promises: Transport has
channels whose flags change at any time once they were started, which is
P2PChannel's StatesReported seen from above, and the in-order delivery of
posted messages that ThreadQueue shows; Session has transports that connect,
gather and gain or lose writability at any time, and its one timer appears in
Transport too, where it is proved to watch a single transport.

Left, in the order of their worth: roles and their conflicts
(`MaybeIceRoleConflict`, `OnRoleConflict`), `StunRequestManager`, the wrapper of
DTLS, the filters of SRTP and RTCP multiplexing, `SignalThread`,
`BasicPortAllocator` and `TurnPort`, `TaskRunner`, `SharedExclusiveLock`. Every
safety property of a passing run is proved; what is left to prove is at the end of
section 10.

## 3. ThreadQueue: threads and message queues

One action is one stretch of code between two accesses to data shared with
other threads: what a thread does inside `crit_` is one step, and each unlocked
read or write of a flag (`fStop_`, `has_sends_`, `ready`) and each `WakeUp` or
`Wait` is one of its own. The C++ stack of a thread is `stack[t]`, a sequence of
frames: a handler runs on top of the `Get` or the `ReceiveSends` that called it,
and may itself `Send`, which waits in the same socket server and receives
other threads' sends meanwhile. Handlers are arbitrary: `Client(t)` posts,
sends, quits or destroys a handler, `CodeReturn(t)` returns.

| code | actions |
|---|---|
| `Post`, `PostDelayed` | Post (the fStop_ test), PostPush |
| `Send` | SendHere, Send, SendPush, SendWake, SendLoop, SendReceiveSends, SendWait, SendReturn |
| `ReceiveSends` | GetReceiveSends / SendReceiveSends, ReceiveFirst, ReplyReady, ReplyWake (which takes the next send) |
| `Get`, `ProcessMessages` | GetReceiveSends, GetMessage (with Dispatch), GetNothing, GetStop, GetWait, CodeReturn |
| `Quit` | Quit, QuitWake |
| `Clear`, `~MessageHandler`, `~Thread` | Clear, DestroyHandler, StopWake, Join, DeleteClear |

The wake-up flag `wake[t]` is the pipe of `PhysicalSocketServer`: `WakeUp` sets
it, `Wait` returns when it is set or the time is over, and resets it. `clock[t]`
keeps the readings of the clock that `Get` uses although time has gone on.

Rules of the library's users that the model takes as given: a handler is
destroyed on the thread that runs its messages (`HomeOf`), only the main thread
deletes workers, and it deletes one when no `Post` or `Send` on it has still to
push its message (DeleteClear); in thread_delete also in a given order (`Before`).
A `Send` whose message is queued may be waiting all the while: `Clear` in the
destructor of its receiver has to answer it.

What could be wrong, and is checked: NoLostWakeup (a thread is never asleep
with something to do and no wake-up on its way), ReadyPointsToWaitingSend (the
raw pointer in `sendlist_`), SendIsSynchronous, NoCallAfterDestroy,
DelayedNotEarly, DelayedInOrder, NothingStays and SendReturns (liveness).
SendReturns is claimed where a worker stops because it is deleted (thread_mutual).
A client may also call `Quit` and never delete the thread; a `Send` that passed
the test of `fStop_` before then waits for ever, in the code as in the model.

Simplifications: `MessageQueueManager::Clear`, which takes each queue's lock in
turn, is one step; message payloads are left out; `Peek`, `Restart`,
`MQID_DISPOSE` and `process_io` are left out.

## 4. P2PChannel: choosing among connections

The whole of it runs on the worker thread, so one action is one message of
that thread or one packet, with every signal it causes: SortConnections is the
whole of `SortConnections` with `UpdateConnectionStates`, the sort,
`SwitchBestConnectionTo`, the pruning, `HandleWritable` / `HandleNotWritable` /
`HandleAllTimedOut` and `UpdateChannelState`; OnDelete is `Connection::OnMessage`
with what `SignalDestroyed` makes the port and the channel do.

| code | actions and operators |
|---|---|
| `Connection`: states, `UpdateState`, `Prune`, `Ping`, responses | UpdateState, Prune, SendPing, Responded, Failed; SetStates for the setters with their signals and `CheckTimeout` |
| `P2PTransportChannel::SortConnections` | SortConnections, with Better, Tops, Switch, Primier, ToPrune, Allocates |
| `OnPortReady`, `OnCandidate`, `OnUnknownAddress` | OnPortReady, OnCandidate, RecvUnknown |
| `OnSort`, `OnPing`, `MSG_DELETE`, `MSG_CHECKTIMEOUT`, request timeouts | OnSort, OnPing, OnDelete, OnPortTimeout, OnRequestTimeout |
| `Connect`, `Reset`, `OnSignalingReady` | Connect, Reset, OnSignalingReady |
| `Connection::OnReadPacket` | RecvPing, RecvResponse, RecvError, RecvData |
| `Wait` delivering packets | round, EndWait |

Two choices make the model smaller without hiding what the properties see:

- *Time is a choice.* Whenever the code compares a connection's times with the
  clock, `Lapses` says which of the three conditions (quiet, failing, silent)
  may hold, and any of them does or does not. This allows every schedule of the
  clock, and some that no clock has. A connection that was never pinged is
  neither failing nor silent, and one that was pinged in this step is not quiet.
- *The queue is what it holds.* `sorts`, `deletes` and `pings` say what is
  pending (a ping posts the next, so one stands for all) and any of it may run
  next, so the model has every order of the thread's queue and more. What matters
  of the order is kept: packets come only when `Wait` was entered with no message
  ready, and several of them may come before the messages they post run (`round`).

Remote candidates are of one generation and one ufrag, all pairs are
compatible, UDP only (`connected()` is TRUE); round-trip times break ties in
any way. `Port::Start`'s two lifetimes before and after the minimum are "Young"
and "Old". The allocator session's `StopGetAllPorts` is outside.

What could be wrong, and is checked: NothingDangles, PortsGoAway,
DeadIsDoomed, DirtyMeansPending, BestIsTop, StatesReported, AllocatesOnLoss,
SortsEnd (liveness). StatesReported claims one direction only for
readable(): a connection that a packet revives while its `MSG_DELETE` is pending
is deleted all the same, and readable() stays TRUE until the next sort.

## 5. Transport: between two threads

A call of the users (`CreateChannel`, `ConnectChannels`, ...) is a `Send` to the
worker: the signalling thread waits, and the messages posted to it stay in their
queue. One such call with its `_w` half is therefore one action. What a channel
does by itself is an action of the worker that posts to `sig`, the queue of the
signalling thread, and each message taken from it is an action with everything
its slots do. `sig` keeps its order, since `Post` does.

| code | actions |
|---|---|
| `CreateChannel_w`, `DestroyChannel_w`, `ConnectChannels_w`, `ResetChannels_w`, `DestroyAllChannels` | the same names |
| `OnConnecting_s`, `OnChannelReadableState_s`, `OnChannelWritableState_s`, `OnChannelRequestSignaling_s`, `OnChannelCandidateReady_s`, `OnChannelCandidatesAllocationDone_s` | the same names |
| `OnSignalingReady`, with `CallChannels_w` | OnSignalingReady (a message to the worker) |
| signals of the channels | OnChannelCandidateReady, OnChannelCandidatesAllocationDone, OnChannelReadableState, OnChannelWritable, OnChannelNotWritable |

A channel is what P2PTransportChannel shows of itself: it waits for signalling,
it was started, it gathers, it is readable, it is writable. The user is a
Session, of which `timer` is `MSG_TIMEOUT` as `Session::OnTransportWritable`
sets it, and which answers each `SignalRequestSignaling` with
`OnSignalingReady`, as `SessionManager::OnRequestSignaling` and its clients do.

What could be wrong, and is checked and proved: WritableFollows (the last change
of the channels, also the end of one, has its message), TimerWatches (creation,
connection and destruction in any order leave the timer as it should be),
CandidatesReach (held before the connection, not twice, not left behind),
RequestPends (`OnSignalingReady` answers all channels together while requests
come one by one).

Three things seen while modelling are noted here and not claimed.
`OnChannelCandidateReady_s` asserts `connect_requested_` (486), which
`ResetChannels` may have cleared since the Post. `candidates_allocated_` of a
channel may be cleared after its allocation has completed, because the request
of a second channel is answered for both (466, 523); completion then waits for
another allocation, so nothing is said of the completion signal. And
DestroyAllChannels is modelled when no channel is shared: `DestroyAllChannels_w`
lowers each count once and destroys only what reaches zero (288-303), which is
right if the users of a muxed channel have let go of theirs before.
`readable_` is not recomputed when a channel is destroyed (232-234), so there is
no counterpart of WritableFollows for it.

Left out: remote candidates, route changes, roles, transport descriptions, the
allocation that `HandleAllTimedOut` asks for.

## 6. Session: two peers

Two sides, each with its Session, its SessionManager and a TransportProxy for
each content; every action is one message or stanza of the signalling thread of
one side. `net` is a set of stanzas, `back` a set of answers: the service
delivers them in any order, may lose a stanza or an answer, which its sender
then hears of as "Recipient did not respond" (`SessionSendTask::OnTimeout`,
`SessionManager::OnFailedSend`; a result or an error that comes goes the way of
`SessionSendTask::ProcessResponse`), and redirects the first initiate when the responder has moved (`Moved`).
`posted` is the queue of the session's own messages, in order; MSG_TIMEOUT, a
delayed one, is apart.

| code | actions |
|---|---|
| `Initiate`, `Accept`, `Reject`, `TerminateWithReason` | Initiate, Accept, Reject, Terminate |
| `OnTransportConnecting`, `OnTransportWritable`, `OnTransportProxyCandidatesReady` | OnTransportConnecting, OnTransportWritable, OnCandidatesReady |
| `SessionManager::OnIncomingMessage`, `Session::OnIncomingMessage` and its handlers | Redirect, UnknownSession, OnInitiateMessage (in which the user may reject at once), OnAcceptMessage, OnRejectMessage, OnTerminateMessage, OnTransportInfoMessage, OnUnexpectedMessage |
| `OnIncomingResponse`, `OnFailedSend`, `OnRedirectError` | OnInitiateResponse, OnFailedSend, OnRedirectError, OnLateRedirect, OnOldAnswer |
| `Session::OnMessage`, `DestroySession` | OnState, OnError, OnTimeout |

A transport becomes writable only when both sides connect it and one has got
candidates of the other; it may lose that at any time.

What could be wrong, and is checked: CandidatesReach (held back until the
initiate is acknowledged or accepted, whichever comes first, in any order of
stanzas and through a redirect), QuietAgrees (both sides end in the same way when
nothing was lost), NobodyLeftAlone (when something was, a side whose other side is
gone has the timer running, or what will set it: a transport about to connect, or
one that will find itself unwritable), EndIsFinal.

Noted and not claimed: a transport-info that arrives before the initiate is
refused, which is an error that changes nothing; description-info is refused
between accept and its MSG_STATE (1279) and is left out. A stanza that opens a
session and then cannot be parsed leaves it in STATE_INIT
(sessionmanager.cc:185). `TerminateAll` (sessionmanager.cc:127-132) loops until
its map is empty, but `Terminate` removes a session only through a message that
the same thread would have to run.

Left out: session-info, description-info, provisional accept, modify, stanzas
that do not parse, errors of type "continue" and "wait", bundling of contents
(`SetupMux`), roles.

## 7. PseudoTcp: a byte stream over datagrams

Two ends, one object and one thread each. A call (`Connect`, `Send`, `Recv`,
`Close`, `NotifyPacket`, `NotifyClock`) is one action up to the loop of
`attemptSend` that ends most of them; each round of the loop is an action, which
the end takes before any other (`todo`). That splits at the one place where the
outside is called in the middle, TcpWritePacket, and keeps the other end and the
network moving between two packets, which they may.

| code | actions and operators |
|---|---|
| `Connect`, `Send`, `Recv`, `Close` | Connect, Write, Read (with OpenWindow), Close |
| `queue`, `transmit` | Queue, Transmitted, SplitAt, FittingMss, MayTransmit |
| `attemptSend` | SendAck, SendNothing, SendSegment, over Available, HeldBack, AckNow |
| `process` | NotifyPacket: Opening, Acking, Retransmits, Established, Writeable, Receiving, AckFor |
| `NotifyClock`, `clock_check` | RetransmitTimeout, Probe, DelayedAck; MayGo |
| `FifoBuffer` (stream.cc) | Stored, Read, Room, on the ring `cell`, `rpos`, `dlen` |

A byte carries its number in the stream, so that the receive buffer shows what
it holds; the send buffer is the interval from `una` to `end`. Two things are
choices: when a timer runs out, and how far above `m_mss` the congestion window
is.

`ByteStream` is the specification of what a connection promises: each end reads
the next bytes that the other has written. `StreamSpec`, with the same variables
`written` and `got`, is that PseudoTcp implements it: every step of PseudoTcp is a
Write, a Read or a stutter of it. Around it: SegmentsCover (the list of segments
and the buffer agree through splits, partial acknowledgements and
retransmissions), WindowHonoured (what is on its way fits the receiver, even late
or again), AckComes, NothingStalls (every wait has a timer or an event that
will end it), FlushedWhenDone (`Close(false)` loses nothing).

Left out: resets and forced close, window scaling, the wrap of sequence numbers
(instances transfer a few bytes) and of the 8-bit count of duplicates,
`NotifyMTU` on an open connection, calls from inside a callback.

Two early returns of `attemptSend` make a sender wait, and AckComes and
NothingStalls say how. Nagle's algorithm holds data back and the acknowledgement
with it (1108): then a retransmission timer or a probe is running, which sets both
going again. After a failed TcpWritePacket (1127, "TODO: consider closing socket")
the segment stays with no timer: at an end in MayFail an acknowledgement may wait
with such data, and NothingStalls claims no timer there, though it still claims
that its users wait for something that comes.

## 8. The runs

| run | instance | what it shows |
|---|---|---|
| thread_mutual | 2 workers that send to each other, main posts and sends to one and deletes either at any time; 4 messages; fair | NoLostWakeup; every Send returns, also to a thread being deleted (SendReturns) |
| thread_timers | 1 worker, main and the worker post, delays 1-2, 3 messages, clock to 3; fair | TypeOK, DelayedNotEarly, DelayedInOrder, NothingStays |
| thread_delete | a sends to b, main too; b may quit, a is deleted before b, b's handler is destroyed; 3 messages | NoLostWakeup, ReadyPointsToWaitingSend, SendIsSynchronous, NoCallAfterDestroy |
| p2p_controlling | 1 port, 2 remotes, nothing new comes while a sort pends; fair | DeadIsDoomed, BestIsTop, StatesReported, SortsEnd |
| p2p_controlled | 2 ports on two networks, 1 remote, Reset, overlapping pings, nothing new comes while a sort pends | TypeOK, NothingDangles, PortsGoAway, DirtyMeansPending, AllocatesOnLoss |
| transport_calls | rtp and rtcp, 2 users each, 1 candidate, 2 allocator sessions, 2 messages pending when something new comes | TypeOK, WritableFollows, TimerWatches, CandidatesReach, RequestPends |
| session_peers | 1 content, 1 candidate a side, a redirect, 1 loss | TypeOK, CandidatesReach, QuietAgrees, NobodyLeftAlone, EndIsFinal |
| tcp_stream | 4 bytes one way, buffers of 3, MSS 2 over a path of 1, 2 transmissions, 2 packets on their way, Nagle off, write failures of the receiver, graceful close of the sender | TypeOK, SegmentsCover, WindowHonoured, AckComes, NothingStalls, FlushedWhenDone, StreamSpec |
| thread_auto, p2p_nominated, session_timer, tcp_handshake | | violations: section 9 |

*Bounds.* MaxMsgs bounds the messages that are ever created, which bounds the
depth of nested sends. Four is what a swallowed wake-up takes (a posted message
whose handler sends, a message sent meanwhile by a third thread whose handler
sends too, and the two replies to one signal): without Send's last WakeUp,
thread_mutual fails with four messages and holds with three, so it takes four and
limits who posts and sends (CanPost, CanSend). Deletion starts with the main
thread's own calls over, so what it finds is the workers' Sends to each other: a
message in the list of the thread deleted first, its sender waiting, is the case
that the fault in Clear breaks. Three delayed messages are what it takes
for one to be run, one released and one left behind. MaxTime is the last instant,
which stands for all later ones.

MaxSorts bounds the `MSG_SORT`s: packets, ports, candidates and pings come while
fewer than MaxSorts pend. At 1, nothing new comes until the pending sort has run
(deletions, timeouts and Reset may come between), and the sort's own changes may
leave another; at 2, in p2p_nominated, packets also come between a change and its
sort. The theorems hold for every MaxSorts. The allocator's sessions are counted
as none or some (`sessions`), so a channel that loses its connections again and
again allocates each time (AllocatesOnLoss), with no bound on how often. Two
connections are enough to switch, to prune one for the other, and to delete one
while the other lives; on one network and on two, because pruning and preference
work by network. `p2p_controlling` takes its two connections on one port, and a
ping there is answered before the next is sent; `p2p_controlled` takes them on
two, with pings that overlap (Overlap). The theorems hold for either. The
channel's runs check deadlock. The others do not: their messages, candidates and
bytes are bounded and a worker that has quit stops, so these systems may really
stop.

MaxSig bounds what is pending when something new happens, not how long the
queue gets: one action posts up to four messages. Two pending
messages with two channels cover a change that comes between the message of an
earlier change and its execution; the theorems cover every bound. MaxRef 2 is one
channel shared, MaxGather 2 an allocation on top of one that still runs.

MaxFails 1 gives a lost stanza or a lost answer at every place; two losses would
need a second independent fault and multiply the states. MaxPosted 0 says that
the timer, which is set to many seconds, fires when the messages already posted
have run. One content is enough except for session_timer, which has two. `net`
and `back` are sets and need no bound: each side sends few stanzas.

In tcp_stream the window is smaller than what is written, so it closes and opens;
the path takes smaller packets than the MSS says, so segments are split by
WR_TOO_LARGE as well as by the window; two packets on their way and any loss give
every reordering of neighbours, and retransmission gives the duplicates (Again
would add the network's own). The end that receives is the one whose packets may
fail, so what AckComes says of acknowledgements of data, of gaps and of what fills
them is about that end too. With these sizes Nagle's algorithm could not hold
anything back: for that an end needs a full segment in flight and a shorter one
behind it, and bytes to receive besides, and with the gaps this takes many millions
of states. Smaller instances with Nagle on, in which both ends write, were
explored without a violation, and the theorem AcknowledgementComes covers them all. MaxXmit 2 allows one retransmission of each segment
before the connection gives up. The buffers are equal: the constructor asserts
that the default send buffer is larger than the receive buffer (243), but
SetOption may then give the two any sizes.

*Fairness.* Threads: weak fairness of each thread's own steps (the operating
system schedules every thread; a handler returns) and of the clock. Client
code is under no fairness: it need not post or send anything. A lock that
`ReceiveSends` holds is taken at a single step, so weak fairness of its waiters
needs no more of the mutex than that it is free in the end. Channel: weak
fairness of OnSort and OnDelete, since the thread runs its messages, and of
EndWait, since Wait returns; packets, pings, ports and candidates need not come,
but may come for ever: SortsEnd says that sorting gets to its end again and
again all the same. Transport, Session and PseudoTcp are stated without fairness:
what must eventually happen there appears as an invariant that names the event
still pending (RequestPends, NobodyLeftAlone, NothingStalls), which says more
than that it happens in the end, and is in the prover's reach.

*Mutants.* Each property of a passing run has in its module a mutated operator
beside the one it replaces (marked "A fault"), a plausible slip in that code,
with which TLC finds the property violated.

## 9. What the code does otherwise than it says

| run | the code | what it says |
|---|---|---|
| thread_auto | The reply wakes the socket server of a sender that may have returned already; if that was an AutoThread, it no longer exists. | thread.cc:440-441: "thread sending exits: We don't allow this" |
| p2p_nominated | USE-CANDIDATE switches to a connection that is no longer writable, with no sort. | p2ptransportchannel.cc:843: `ASSERT(writable == this->writable())` |
| session_timer | One transport that becomes writable clears the timer of another that is not. | session.cc:987-989: "start a timer to make sure that it becomes writable within a reasonable amount of time" |
| tcp_handshake | The connect message moves `m_rcv_nxt` and not the buffer: data that came before it is read shifted. | pseudotcp_unittest.cc:254: the received stream equals the sent one |

## 10. The proofs

**ThreadQueueProofs** proves every safety property that the three passing thread
runs check, for any sets of threads and handlers, any number of messages and
delays, and whatever the clients call, from `ConstantsOK`:

| theorem | property |
|---|---|
| ThreadTypes | TypeOK |
| WakeupsKept | NoLostWakeup |
| FlagsFindTheirSend | ReadyPointsToWaitingSend |
| SendSynchronous | SendIsSynchronous |
| NoCallOnDestroyed | NoCallAfterDestroy |
| NotEarly | DelayedNotEarly |
| InOrder | DelayedInOrder |

None of the last six is inductive. The invariant (FullInv) has eight parts, each of
which uses parts before it and has one lemma per kind of step:

- TypeInv: the types, and that the bottom frame of a stack is a Get or client
  code, so that no call pops the last frame.
- Shape: which frame lies on which (Below). A handler runs on the Get or the
  ReceiveSends that called it or on the code that sent to its own thread,
  ReceiveSends on Get or on a Send that waits, every other call on client code,
  and Get on nothing. Every step but a handler's destruction and a tick moves one
  thread's top frame (Moves, Pushes, Pops, Serves); the proofs below are about
  these four, and about what an action adds to them.
- Life is about messages: Homed (each is in the queues of, or runs on, the thread
  it was posted or sent to, and its sender's frame is on its sender's stack), Once
  (it is in one place at a time), Replied (a flag is set only for a message that
  nobody will run) and Awaited, which is half of ReadyPointsToWaitingSend.
  FlagsFindTheirSend and SendSynchronous follow (LifeMeans).
- Timed: no Get has read a time that has not come, and the two properties of
  delayed messages. Get's scan keeps DelayedInOrder because what it leaves has a later
  time than all it takes, and a PostDelayed because a new arrival has the last number.
- Gone, Outside: a worker that was deleted has left Get for ever; a thread without a
  Thread object has at most one call on its stack, and nothing is ever sent to it.
- Alive: a message that is queued, or that a call is about to queue, has a handler
  that exists. ~MessageHandler clears only the queues of threads that exist; the
  messages of the handler are in its own thread's (Homed), which is running the
  destructor, so that it has not been deleted (Gone).
- Woken is what NoLostWakeup needs. Seen: `has_sends_` is set while `sendlist_` is
  not empty. Dozes: from the moment Get or Send has looked at its lists until it
  sleeps, what has come since has raised its signal, or the frame of another thread
  is about to. Answered: so has the reply of a Send, unless a Send further up the
  same stack has waited: it may have taken that signal, and gives it back when it
  returns (`waited`, the last WakeUp of Thread::Send). An action may take a signal
  only where it then looks at the lists again; Leaves and Replies say what a step
  owes the other threads, and Stays what it owes its own Sends. SendPush gives a
  foreign thread a new socket server, whose signal is not raised: Outside says
  that nothing waited for the old one.

**P2PChannelProofs** proves every safety property that the passing channel runs
check, for any sets of ports and addresses, any networks and preferences, any
number of pending sorts:

| theorem | property |
|---|---|
| ChannelTypes | TypeOK |
| NoDanglingPointer | NothingDangles |
| DeadConnectionsGo | DeadIsDoomed |
| PortsLiveForConnections | PortsGoAway |
| SortRequestsPend | DirtyMeansPending |
| BestIsUsed, ReportsBest (with `~Controlled`) | BestIsTop, StatesReported |
| LossAllocates | AllocatesOnLoss |

The inductive invariant is SafeInv: TypeOK, the four properties that follow it in
the table, and three facts of the implementation they rest on. FreshOutside (a
connection that does not exist is as its constructor leaves it) is why a new
connection is not dead at birth without a `MSG_DELETE`. FlagsAgree
(`was_writable_` is `writable_`, and not `was_timed_out_` with it) is why
Allocates cannot miss a loss. Disconnected (while it is not connected there is no session
and no connection, and `was_timed_out_` is set) is why a channel that waits for
its allocator has been connected, which TypeOK says. Nearly every step either changes the states of some
connections (SetsStates) or sorts (Sorts), so two lemmas carry the argument:
SetStatesKeeps, about the setters, and SortKeeps, about SortConnections. SortKeeps
rests on CompareConnections being a weak order (NotBetterTransitive): what the
sort puts first, and what ShouldSwitch keeps instead, is beaten by nothing.
Reported (BestIsTop and StatesReported) is then inductive under SafeInv: a change
that asks for no new sort while none is pending changes no state (StatesReport),
and the deletion of the best connection asks for one (DeleteReports, which needs
DirtyMeansPending). In a controlled channel USE-CANDIDATE breaks it, as
`p2p_nominated` shows, hence the assumption.

**TransportProofs** proves all five properties of transport_calls for any finite
set of components and any bounds, from `ConstantsOK`:

| theorem | property |
|---|---|
| TypeCorrect | TypeOK |
| WritableIsOr | WritableFollows |
| TimerCorrect | TimerWatches |
| CandidatesCorrect | CandidatesReach |
| RequestsCorrect | RequestPends |

The inductive invariant is IInv: TypeOK, WritableFollows, CandidatesReach,
RequestPends, Idle and TimerFollows. Idle says that a channel that does not exist,
or was not asked to connect, is as its constructor leaves it, which is why
creating one cannot make the transport writable. TimerFollows is what TimerWatches says with the transport's
own `writable_` in the place of the channels': it needs no more than that the
last MSG_CONNECTING or the last change of `writable_` set the timer, and together
with WritableFollows it gives TimerWatches. The first lemmas are about the queue
(HasConcat, HasTail, Posts, Takes: what is pending after messages are appended or
one is taken); each action then has a lemma that says what it posts, and each
conjunct a lemma for the users' calls, the messages and the worker.

**SessionProofs** and **SessionAgreement** prove every property of session_peers,
for any contents, candidates and candidate sets, any number of losses, repetitions
and transport errors:

| theorem | property | needs, besides ConstantsOK |
|---|---|---|
| SessionTyped | TypeOK | |
| EndCorrect | EndIsFinal | |
| EveryCandidateReaches | CandidatesReach | |
| NobodyIsLeftAlone | NobodyLeftAlone | Content # {} |
| TheTwoSidesAgree | QuietAgrees | |

SessionProofs says first, one lemma per action, what the action does to its side's
state (Ends, Goes, Takes, Fails), to what is posted there (Keeps: nothing pending
is forgotten) and to the transports. The types and EndIsFinal follow from these.
SessionAgreement adds four invariants, each with its lemma per action:

- Named: which states a side may be in by its role (RoleOK), and who knows which
  name. A redirection gives the responder a new place, and the initiator the
  name of that place; names only go up (Forward). Once the responder has the
  session, the initiator's name for it is the right one (Met), whatever old
  redirections are still on their way; this is why Misdirected stanzas are those
  that cannot matter.
- HeldBack: until the initiate is acknowledged the initiator holds back every
  candidate it has gathered, and a side without the session has gathered none.
  CandidatesReach is inductive with it and Named: what leaves a side leaves it
  under the name the other has by then.
- Alerts: a side in a state that OnMessage must act on (Busy) has `MSG_STATE`
  posted, every transport of a session that has not ended was asked to connect,
  and once one of them has begun, the timer runs, `MSG_ERROR` is posted, or a
  transport is writable. NobodyLeftAlone is Alerts where nothing is
  left to happen (Quiet). A session without contents has no transport, hence no
  timer, and would wait for ever: hence the assumption.
- Agree: what one side has decided and the other does not know of. Decided holds
  whatever fails: a responder that accepted has not rejected, and who sent an end
  has ended. Heard
  says, as long as nothing was lost, that what a side did and the other has not
  taken is on its way (OnWay), or still asked for (Asked), or its refusal is
  (Refused). At rest none of these is left, and QuietAgrees is what remains
  (QuietIs).

**PseudoTcpProofs** and **PseudoTcpStream** prove every property of tcp_stream, for
any set of pairs of ends, any buffer sizes, MSS and path, any number of
transmissions and of packets in the network, with and without Nagle's algorithm,
delayed acknowledgements and failing calls:

| theorem | property | needs, besides ConstantsOK |
|---|---|---|
| TypeCorrect | TypeOK | |
| SegmentsCoverQueue | SegmentsCover | |
| WindowIsHonoured | WindowHonoured | |
| NobodyStalls | NothingStalls | |
| AcknowledgementComes | AckComes | |
| StreamIsIntact | StreamIntact | ActiveWrites |
| FlushedBeforeDone | FlushedWhenDone | ActiveWrites |
| ImplementsStream | StreamSpec | ActiveWrites |

The argument: whatever a packet says stays true, however late it comes and however
often, because an end only ever *grows*. PacketOK is what a packet says, against
the state of both ends now: its data was sent and ends at a segment boundary of
its sender, it acknowledges no more than its sender has received and offers no
more room than its sender's right edge, and what it acknowledges is a boundary of
its receiver. Grows is what no step may take back: a boundary (a segment may be
split, which adds one), `m_snd_nxt`, `m_rcv_nxt`, and the right edge
`m_rcv_nxt + m_rcv_wnd`. Between the two ends there is Link: what is acknowledged
<= what is received <= what is sent <= the right edge, all of them at boundaries,
and the same for what was received early. Boundaries matter because `process`
frees whole segments or the front of one, and an acknowledgement in the middle of
a segment not yet split would break SegmentsCover. Sender, Receiver and Link of
both directions make Good; PseudoTcpOperators shows for each operator (Queue,
SplitAt, TransmitPacket, Acking, Receiving, ...) what it does to them, and
PseudoTcpProofs has one lemma per action that it keeps Good and that the packets it
sends are PacketOK. How far `m_rlist` continues what was received (Reach) is a
least number, which exists because `<` on Nat is well-founded (WFMin); no
induction is needed.

Live is the second part of IInv: an acknowledgement is Due, and what an end Waits
for will come, or, where the end MayHold data (Nagle's algorithm, a failed call), goes
with that data. NothingStalls and AckComes are Live where the loop of attemptSend
is over (Idle).

The bytes are a second invariant, Flow, in PseudoTcpStream. Received says where
the byte with each number is: read, in the ring `m_rbuf` at the slot that its
number gives (the ring wraps: Slot, StoredAt), or early, in the part of the ring
that an entry of `m_rlist` covers. With it every Read returns the next bytes, so
each step is a Write or a Read of ByteStream or changes neither of its
variables. ActiveWrites says that only the end that calls Connect writes, and
its peer does not call it, as in tcp_stream. Without it the theorem is false, as
tcp_handshake shows: the data of the passive end may overtake its connect
message, which then moves `m_rcv_nxt` under the bytes already stored (section
9). FlushedWhenDone compares the numbers of bytes and has the same limit.

Not proved, and model-checked only:

- all liveness properties (SendReturns, NothingStays, SortsEnd), since they rest
  on fairness and ENABLED, which the prover does not handle;
- of PseudoTcp, the byte stream when the passive end writes too: it holds only as
  long as no connect message is late, and what it takes to say that is not stated.

## 11. What is not modelled

- In the modelled parts: Peek, Restart, MQID_DISPOSE, process_io, the sockets
  of the socket server (ThreadQueue); generations and ufrags of candidates, TCP
  connections, socket options, port types, the destruction of a connection by
  its user (`Connection::Destroy`, of which only basicportallocator.cc's SHAKER
  logging code and the tests make use) (P2PChannel); and what sections 5 to 7 say
  of Transport, Session and PseudoTcp.
- Of the signalling service: a stanza that its sender was told is lost does not
  arrive afterwards (of the two orders, a stanza that arrives and whose answer is
  then lost is modelled). Its handlers are those of any late stanza, but the two
  sides' agreement is then not claimed.
- Not yet, though it could be: ICE roles, STUN requests, DTLS, SRTP and RTCP
  negotiation, SignalThread, port allocators and TURN, tasks,
  SharedExclusiveLock.
- Session messages, STUN bytes, XML and URL parsing, descriptions of media:
  conversions, sequential and unit-tested.
- Media engines, devices, sound, SSL and operating system sockets: adapters to
  external libraries and drivers.
- Simulated networks and servers (VirtualSocketServer, RelayServer, TurnServer):
  test equipment.
- HTTP, XMPP, proxies, examples: not part of the calling core.
- PeerConnection, MediaSessionClient, Call, channel.cc: API layers over Session.
