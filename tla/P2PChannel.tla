----------------------------- MODULE P2PChannel -----------------------------
(***************************************************************************)
(* cricket::P2PTransportChannel with the Connections it chooses among and  *)
(* the lifetime of the Ports they live on (p2p/base/p2ptransportchannel.cc *)
(* and port.cc).  All of it runs on the worker thread: a step is one       *)
(* message of that thread or one packet that a socket delivers.            *)
(*                                                                         *)
(* A connection is a pair of a local port and a remote address.  Time is   *)
(* left out: whenever the code compares the times of a connection with the *)
(* clock, they say any of what they can say.  A connection may be quiet    *)
(* (30 s without a ping or data), failing (5 pings and 5 s without a       *)
(* response) and silent (15 s since the first ping without a response).    *)
(***************************************************************************)
EXTENDS Integers, FiniteSets

CONSTANTS
  Port,        \* the ports that allocator sessions can offer
  Remote,      \* the addresses of remote candidates, of one generation and one ufrag
  NetOf,       \* the network of each port
  Pref,        \* CompareConnectionCandidates: the static preference of each pair
  Controlled,  \* the role of the channel: ROLE_CONTROLLED, or else ROLE_CONTROLLING
  Overlap,     \* a connection's ping may be sent while earlier ones are outstanding
  MayReset,    \* the transport calls Reset
  None,        \* a null Connection pointer
  MaxSorts     \* bound: packets, ports, candidates and pings come while fewer MSG_SORTs pend

Pair == Port \X Remote

ASSUME ConstantsOK ==
  /\ Pref \in [Pair -> Nat]
  /\ None \notin Pair
  /\ Controlled \in BOOLEAN /\ MayReset \in BOOLEAN /\ Overlap \in BOOLEAN
  /\ MaxSorts \in Nat

Reads == {"Init", "Readable", "Timeout"}
Writes == {"Writable", "Unreliable", "Init", "Timeout"}

\* inflight: requests_ holds a ping; pinged: pings_since_last_response_ is not empty;
\* succeeded: state_ is STATE_SUCCEEDED, which only a controlled channel reads.
Connection == [read: Reads, write: Writes, pruned: BOOLEAN, succeeded: BOOLEAN,
               pinged: BOOLEAN, inflight: BOOLEAN]

Fresh == [read |-> "Init", write |-> "Init", pruned |-> FALSE, succeeded |-> FALSE,
          pinged |-> FALSE, inflight |-> FALSE]

VARIABLES
  round,       \* Wait is delivering packets, and messages are pending
  life,        \* lifetime_ of each port: before and after its minimum lifetime, "None"
               \* when it does not exist
  ports,       \* ports_: the ports of the last session
  remotes,     \* remote_candidates_
  sessions,    \* allocator_sessions_ is not empty; the code reads no more of it
  conns,       \* connections_ (and those of the ports)
  conn,        \* the state of each connection
  best,        \* best_connection_
  sorts,       \* MSG_SORT messages pending
  sortDirty,   \* sort_dirty_
  deletes,     \* connections with a MSG_DELETE pending
  pings,       \* a MSG_PING is pending or delayed: OnPing posts the next
  readable,    \* readable_
  writable,    \* writable_
  wasWritable, \* was_writable_
  wasTimedOut, \* was_timed_out_
  waiting,     \* waiting_for_signaling_
  connected    \* connect_requested_ of the transport

lists == <<life, ports, remotes, sessions>>
sorting == <<sorts, sortDirty, deletes>>
flags == <<readable, writable, wasWritable, wasTimedOut, waiting>>
vars == <<round, lists, conns, conn, best, sorting, pings, flags, connected>>

Alive == {p \in Port : life[p] # "None"}
On(p) == {c \in conns : c[1] = p}

----------------------------------------------------------------------------
(* One connection.                                                         *)

\* CheckTimeout: neither direction has anything to contribute.
Dead(r) == r.read # "Readable" /\ r.write = "Timeout"

ReceivedPing(r) == [r EXCEPT !.read = "Readable"]

\* "If timed out sending writability checks, start up again".
StartAgain(r) == IF ~r.pruned /\ r.write = "Timeout" THEN [r EXCEPT !.write = "Init"] ELSE r

\* What the times of a connection can say that matters to UpdateState: nothing of pings
\* that were not sent.
Lapses(r) == (IF r.read = "Readable" THEN {"quiet"} ELSE {})
               \cup (IF r.pinged /\ r.write = "Writable" THEN {"failing"} ELSE {})
               \cup (IF r.pinged /\ r.write # "Timeout" THEN {"silent"} ELSE {})

UpdateState(r, lapsed) ==
  LET weak == IF r.write = "Writable" /\ "failing" \in lapsed THEN "Unreliable" ELSE r.write
  IN [r EXCEPT
        !.read = IF @ = "Readable" /\ "quiet" \in lapsed THEN "Timeout" ELSE @,
        !.write = IF weak \in {"Unreliable", "Init"} /\ "silent" \in lapsed THEN "Timeout"
                  ELSE weak]

\* What UpdateState can make of a connection; a ping may have just come on it.
Updated(r, just) ==
  {UpdateState(r, lapsed) : lapsed \in SUBSET (Lapses(r) \ (IF just THEN {"quiet"} ELSE {}))}

\* What UpdateConnectionStates can make of the connections C among k.
Updates(C, k, just) ==
  LET after == [c \in C |-> Updated(k[c], c \in just)]
  IN {[c \in Pair |-> IF c \in C THEN w[c] ELSE k[c]] :
        w \in {w \in [C -> UNION {after[c] : c \in C}] : \A c \in C : w[c] \in after[c]}}

Prune(r) == IF r.pruned THEN r
            ELSE [r EXCEPT !.pruned = TRUE, !.inflight = FALSE, !.write = "Timeout"]

SendPing(r) == [r EXCEPT !.pinged = TRUE, !.inflight = TRUE, !.succeeded = FALSE]

\* OnConnectionRequestResponse; more requests may be outstanding.
Responded(r, more) ==
  [r EXCEPT !.write = "Writable", !.succeeded = Controlled, !.pinged = FALSE,
            !.inflight = more]

\* OnConnectionRequestErrorResponse with a code that is not recoverable.
Failed(r) == [r EXCEPT !.write = "Timeout", !.succeeded = FALSE]

----------------------------------------------------------------------------
(* set_read_state, set_write_state: a change asks for a sort, and for the  *)
(* deletion of a connection that is dead.                                  *)

\* A fault: the setters signal a change also when the state is the same as before.
ChangedOrSet(old, new) ==
  {c \in Pair : new[c].read # "Init" \/ new[c].write # "Init"}

Changed(old, new) ==
  {c \in Pair : new[c].read # old[c].read \/ new[c].write # old[c].write}

\* A fault: only set_read_state calls CheckTimeout.
DoomedByRead(old, new) == {c \in Pair : new[c].read # old[c].read /\ Dead(new[c])}

Doomed(old, new) == {c \in Changed(old, new) : Dead(new[c])}

RequestSort(asked) ==
  IF asked /\ ~sortDirty THEN sorts' = sorts + 1 /\ sortDirty' = TRUE
  ELSE UNCHANGED <<sorts, sortDirty>>

\* A fault: only a connection that gets worse asks for a sort.
SetStatesSortOnLoss(new) ==
  /\ conn' = new
  /\ deletes' = deletes \cup Doomed(conn, new)
  /\ RequestSort(\E c \in Changed(conn, new) : new[c].write \in {"Unreliable", "Timeout"})

SetStates(new) ==
  /\ conn' = new
  /\ deletes' = deletes \cup Doomed(conn, new)
  /\ RequestSort(Changed(conn, new) # {})

----------------------------------------------------------------------------
(* SortConnections.                                                        *)

Rank(write) == CASE write = "Writable" -> 0 [] write = "Unreliable" -> 1
                 [] write = "Init" -> 2 [] write = "Timeout" -> 3

\* CompareConnections(a, b) > 0: by write state, then by preference.
Better(a, b, k) == \/ Rank(k[a].write) < Rank(k[b].write)
                   \/ k[a].write = k[b].write /\ Pref[a] > Pref[b]

\* The connections the sort can put first: round-trip times break the other ties.
Tops(S, k) == {c \in S : \A d \in S : ~Better(d, c, k)}

\* ShouldSwitch from the old best connection to the new one.
Switch(old, top, k) ==
  IF old = None \/ top = None THEN {top}
  ELSE {c \in {old, top} : ~Better(old, c, k) /\ ~Better(top, c, k)}

Networks(C) == {NetOf[c[1]] : c \in C}
OnNet(C, n) == {c \in C : NetOf[c[1]] = n}

\* The first connection in the sorted list on each network.
Firsts(C, k) ==
  LET tops == [n \in Networks(C) |-> Tops(OnNet(C, n), k)]
  IN {f \in [Networks(C) -> C] : \A n \in Networks(C) : f[n] \in tops[n]}

\* GetBestConnectionOnNetwork
Primier(n, b, f) == IF b # None /\ NetOf[b[1]] = n THEN b ELSE f[n]

ToPrune(C, k, b, f) ==
  {c \in C : LET p == Primier(NetOf[c[1]], b, f)
             IN p # c /\ k[p].write = "Writable" /\ Pref[p] >= Pref[c]}

\* A fault: HandleWritable leaves was_timed_out_ as it is.
TimedOutUntilNotWritable(anyWritable, anyTrying) ==
  IF anyWritable THEN wasTimedOut ELSE ~anyTrying

\* was_timed_out_, after HandleWritable, HandleNotWritable or HandleAllTimedOut.
TimedOut(anyWritable, anyTrying) == ~anyWritable /\ ~anyTrying

\* HandleNotWritable and HandleAllTimedOut allocate only on the first of these calls.
Allocates(anyWritable, anyTrying) ==
  ~anyWritable /\ (IF anyTrying THEN wasWritable ELSE ~wasTimedOut)

PruneRest(C, k, b, f) ==
  LET pruned == ToPrune(C, k, b, f)
  IN [c \in Pair |-> IF c \in pruned THEN Prune(k[c]) ELSE k[c]]

\* The connections' states went from conn to u when they were updated, and to v when they
\* were pruned.  Requests made before the second line of SortConnections are forgotten
\* with sort_dirty_, but their messages stay, after those still pending.
Settle(C, u, v, pending) ==
  LET asked == Changed(conn, u) # {} /\ ~sortDirty
      again == Changed(u, v) # {}
      anyWritable == \E c \in C : v[c].write = "Writable"
      anyTrying == \E c \in C : v[c].write \in {"Unreliable", "Init"}
  IN /\ conn' = v
     /\ deletes' = deletes \cup Doomed(conn, v)
     /\ sorts' = pending + (IF asked THEN 1 ELSE 0) + (IF again THEN 1 ELSE 0)
     /\ sortDirty' = again
     /\ writable' = anyWritable
     /\ wasWritable' = anyWritable
     /\ wasTimedOut' = TimedOut(anyWritable, anyTrying)
     /\ waiting' = (waiting \/ Allocates(anyWritable, anyTrying))
     /\ readable' = \E c \in C : v[c].read = "Readable"

\* From the connections C in the states k, of which "just" were just pinged.
SortConnections(C, k, just, pending) ==
  /\ conns' = C
  /\ \E u \in Updates(C, k, just) :
     \E f \in Firsts(C, u), top \in (IF C = {} THEN {None} ELSE Tops(C, u)) :
        /\ top # None => f[NetOf[top[1]]] = top
        /\ \E b \in Switch(best, top, u) :
             best' = b /\ Settle(C, u, PruneRest(C, u, b, f), pending)

----------------------------------------------------------------------------
Init ==
  /\ round = FALSE
  /\ life = [p \in Port |-> "None"]
  /\ ports = {} /\ remotes = {} /\ sessions = FALSE
  /\ conns = {} /\ conn = [c \in Pair |-> Fresh] /\ best = None
  /\ sorts = 0 /\ sortDirty = FALSE /\ deletes = {} /\ pings = FALSE
  /\ readable = FALSE /\ writable = FALSE
  /\ wasWritable = FALSE /\ wasTimedOut = TRUE
  /\ waiting = FALSE /\ connected = FALSE

----------------------------------------------------------------------------
(* What the transport and the allocator ask, in messages of the thread.    *)

\* Connect: Allocate, and the first MSG_PING.
Connect ==
  /\ ~round /\ ~connected
  /\ connected' = TRUE
  /\ waiting' = TRUE
  /\ pings' = TRUE
  /\ UNCHANGED <<round, lists, conns, conn, best, sorting, readable, writable,
                 wasWritable, wasTimedOut>>

\* Faults: Reset forgets sort_dirty_; it forgets was_timed_out_.
ResetStaysDirty ==
  /\ ~round /\ MayReset /\ connected
  /\ connected' = FALSE
  /\ life' = [p \in Port |-> "None"]
  /\ ports' = {} /\ remotes' = {} /\ sessions' = FALSE
  /\ conns' = {} /\ conn' = [c \in Pair |-> Fresh] /\ best' = None
  /\ sorts' = 0 /\ sortDirty' = sortDirty /\ deletes' = {} /\ pings' = TRUE
  /\ readable' = FALSE /\ writable' = FALSE
  /\ wasWritable' = FALSE /\ wasTimedOut' = TRUE /\ waiting' = FALSE
  /\ UNCHANGED round

ResetStaysTried ==
  /\ ~round /\ MayReset /\ connected
  /\ connected' = FALSE
  /\ life' = [p \in Port |-> "None"]
  /\ ports' = {} /\ remotes' = {} /\ sessions' = FALSE
  /\ conns' = {} /\ conn' = [c \in Pair |-> Fresh] /\ best' = None
  /\ sorts' = 0 /\ sortDirty' = FALSE /\ deletes' = {} /\ pings' = TRUE
  /\ readable' = FALSE /\ writable' = FALSE
  /\ wasWritable' = FALSE /\ wasTimedOut' = wasTimedOut /\ waiting' = FALSE
  /\ UNCHANGED round

\* Transport::ResetChannels: it forgets connect_requested_ before it calls Reset,
\* which deletes the sessions, their ports and the ports' connections.
Reset ==
  /\ ~round /\ MayReset /\ connected
  /\ connected' = FALSE
  /\ life' = [p \in Port |-> "None"]
  /\ ports' = {} /\ remotes' = {} /\ sessions' = FALSE
  /\ conns' = {} /\ conn' = [c \in Pair |-> Fresh] /\ best' = None
  /\ sorts' = 0 /\ sortDirty' = FALSE /\ deletes' = {} /\ pings' = TRUE
  /\ readable' = FALSE /\ writable' = FALSE
  /\ wasWritable' = FALSE /\ wasTimedOut' = TRUE /\ waiting' = FALSE
  /\ UNCHANGED round

\* AddAllocatorSession: candidates to come are for the ports of the new session.
OnSignalingReady ==
  /\ ~round /\ waiting
  /\ waiting' = FALSE
  /\ sessions' = TRUE
  /\ ports' = {}
  /\ UNCHANGED <<round, life, remotes, conns, conn, best, sorting, pings, readable, writable,
                 wasWritable, wasTimedOut, connected>>

\* A port that comes after StopGetAllPorts is never started: it stays young.
OnPortReady(p) ==
  /\ ~round /\ sorts < MaxSorts /\ sessions /\ p \notin Alive
  /\ life' = [life EXCEPT ![p] = "Young"]
  /\ ports' = ports \cup {p}
  /\ SortConnections(conns \cup {p} \X remotes, conn, {}, sorts)
  /\ UNCHANGED <<round, remotes, sessions, pings, connected>>

OnCandidate(r) ==
  /\ ~round /\ sorts < MaxSorts
  /\ remotes' = remotes \cup {r}
  /\ SortConnections(conns \cup ports \X {r}, conn, {}, sorts)
  /\ UNCHANGED <<round, life, ports, sessions, pings, connected>>

----------------------------------------------------------------------------
(* The messages that the channel, the connections and the ports post to    *)
(* themselves.                                                             *)

OnSort ==
  /\ ~round /\ sorts > 0
  /\ UNCHANGED <<round, lists, pings, connected>>
  /\ SortConnections(conns, conn, {}, sorts - 1)

IsPingable(r) == r.write # "Timeout" \/ (~writable /\ r.read # "Timeout")

\* FindNextPingableConnection takes the best connection or the one that has waited
\* longest; the pings' times are left out.
OnPing ==
  /\ ~round /\ pings /\ sorts < MaxSorts
  /\ \E u \in Updates(conns, conn, {}) :
     LET pingable == {c \in conns : IsPingable(u[c])}
     IN \/ pingable = {} /\ SetStates(u)
        \/ \E c \in pingable : SetStates([u EXCEPT ![c] = SendPing(@)])
  /\ UNCHANGED <<round, lists, conns, best, pings, flags, connected>>

\* Faults: the channel keeps its best connection; it does not ask for a sort; the port
\* does not look whether it has a connection left.
OnDeleteKeepsBest(c) ==
  /\ ~round /\ c \in deletes
  /\ conns' = conns \ {c}
  /\ conn' = [conn EXCEPT ![c] = Fresh]
  /\ deletes' = deletes \ {c}
  /\ IF life[c[1]] = "Old" /\ On(c[1]) = {c}
     THEN life' = [life EXCEPT ![c[1]] = "None"] /\ ports' = ports \ {c[1]}
     ELSE UNCHANGED <<life, ports>>
  /\ best' = best
  /\ RequestSort(best = c)
  /\ UNCHANGED <<round, remotes, sessions, pings, flags, connected>>

OnDeleteQuietly(c) ==
  /\ ~round /\ c \in deletes
  /\ conns' = conns \ {c}
  /\ conn' = [conn EXCEPT ![c] = Fresh]
  /\ deletes' = deletes \ {c}
  /\ IF life[c[1]] = "Old" /\ On(c[1]) = {c}
     THEN life' = [life EXCEPT ![c[1]] = "None"] /\ ports' = ports \ {c[1]}
     ELSE UNCHANGED <<life, ports>>
  /\ best' = IF best = c THEN None ELSE best
  /\ RequestSort(FALSE)
  /\ UNCHANGED <<round, remotes, sessions, pings, flags, connected>>

OnDeleteLeavesPort(c) ==
  /\ ~round /\ c \in deletes
  /\ conns' = conns \ {c}
  /\ conn' = [conn EXCEPT ![c] = Fresh]
  /\ deletes' = deletes \ {c}
  /\ UNCHANGED <<life, ports>>
  /\ best' = IF best = c THEN None ELSE best
  /\ RequestSort(best = c)
  /\ UNCHANGED <<round, remotes, sessions, pings, flags, connected>>

\* The port goes first, when this was its last connection; then the channel looks
\* whether this was its best one.
OnDelete(c) ==
  /\ ~round /\ c \in deletes
  /\ conns' = conns \ {c}
  /\ conn' = [conn EXCEPT ![c] = Fresh]
  /\ deletes' = deletes \ {c}
  /\ IF life[c[1]] = "Old" /\ On(c[1]) = {c}
     THEN life' = [life EXCEPT ![c[1]] = "None"] /\ ports' = ports \ {c[1]}
     ELSE UNCHANGED <<life, ports>>
  /\ best' = IF best = c THEN None ELSE best
  /\ RequestSort(best = c)
  /\ UNCHANGED <<round, remotes, sessions, pings, flags, connected>>

\* MSG_CHECKTIMEOUT, 30 s after Start.
OnPortTimeout(p) ==
  /\ ~round /\ life[p] = "Young"
  /\ IF On(p) = {}
     THEN life' = [life EXCEPT ![p] = "None"] /\ ports' = ports \ {p}
     ELSE life' = [life EXCEPT ![p] = "Old"] /\ UNCHANGED ports
  /\ UNCHANGED <<round, remotes, sessions, conns, conn, best, sorting, pings, flags, connected>>

\* A request has had its one delay: OnTimeout only logs.
OnRequestTimeout(c) ==
  /\ ~round /\ c \in conns /\ conn[c].inflight
  /\ conn' = [conn EXCEPT ![c].inflight = FALSE]
  /\ UNCHANGED <<round, lists, conns, best, sorting, pings, flags, connected>>

----------------------------------------------------------------------------
(* Packets.  Wait begins when no message is ready and delivers one packet  *)
(* of each socket before it returns: the messages that the handler of a    *)
(* packet posts run after the other packets of the round.                  *)

Idle == sorts = 0 /\ deletes = {}

Packet == (round \/ Idle) /\ sorts < MaxSorts

\* Its handler may have posted messages.
StayInRound == round' = (sorts' # 0 \/ deletes' # {})

EndWait ==
  /\ round
  /\ round' = FALSE
  /\ UNCHANGED <<lists, conns, conn, best, sorting, pings, flags, connected>>

\* A ping from the peer: the response makes the connection readable.
RecvPing(c, useCandidate) ==
  LET r == StartAgain(ReceivedPing(conn[c]))
  IN /\ Packet /\ c \in conns
     /\ SetStates([conn EXCEPT ![c] = r])
     /\ best' = IF useCandidate /\ Controlled /\ r.succeeded THEN c ELSE best
     /\ StayInRound
     /\ UNCHANGED <<lists, conns, pings, flags, connected>>

\* A ping from an address for which the port has no connection.  Every port of the
\* list gets one, and each of them takes the ping for its own.  Without a candidate
\* the username is not known, and the answer is an error.
RecvUnknown(c) ==
  LET new == {c} \cup ports \X {c[2]}
      k == [d \in Pair |-> IF d \in new THEN ReceivedPing(conn[d]) ELSE conn[d]]
  IN /\ Packet /\ c[1] \in Alive /\ c \notin conns /\ remotes # {}
     /\ remotes' = remotes \cup {c[2]}
     /\ SortConnections(conns \cup new, k, new, sorts)
     /\ StayInRound
     /\ UNCHANGED <<life, ports, sessions, pings, connected>>

RecvResponse(c) ==
  /\ Packet /\ c \in conns /\ conn[c].inflight
  /\ \E more \in {FALSE, Overlap} : SetStates([conn EXCEPT ![c] = Responded(@, more)])
  /\ StayInRound
  /\ UNCHANGED <<lists, conns, best, pings, flags, connected>>

\* A recoverable error changes nothing; any other kills the connection.
RecvError(c) ==
  /\ Packet /\ c \in conns /\ conn[c].inflight
  /\ \E more \in {FALSE, Overlap}, r \in {conn[c], Failed(conn[c])} :
       SetStates([conn EXCEPT ![c] = [r EXCEPT !.inflight = more]])
  /\ StayInRound
  /\ UNCHANGED <<lists, conns, best, pings, flags, connected>>

\* Data, or a binding indication, on a readable connection.
RecvData(c) ==
  /\ Packet /\ c \in conns /\ conn[c].read = "Readable"
  /\ \E r \in {conn[c], StartAgain(conn[c])} : SetStates([conn EXCEPT ![c] = r])
  /\ StayInRound
  /\ UNCHANGED <<lists, conns, best, pings, flags, connected>>

----------------------------------------------------------------------------
Environment ==
  \/ Connect \/ Reset \/ OnSignalingReady
  \/ \E p \in Port : OnPortReady(p) \/ OnPortTimeout(p)
  \/ \E r \in Remote : OnCandidate(r)
  \/ \E c \in Pair : \/ RecvPing(c, TRUE) \/ RecvPing(c, FALSE)
                     \/ RecvUnknown(c) \/ RecvResponse(c) \/ RecvError(c) \/ RecvData(c)
                     \/ OnRequestTimeout(c)

Queue == OnSort \/ OnPing \/ \E c \in Pair : OnDelete(c)

Next == Environment \/ Queue \/ EndWait

Spec == Init /\ [][Next]_vars

\* The worker thread runs its messages and Wait returns; packets need not come.
Fairness == /\ WF_vars(OnSort) /\ WF_vars(EndWait)
            /\ \A c \in Pair : WF_vars(OnDelete(c))

FairSpec == Spec /\ Fairness
----------------------------------------------------------------------------
(* Properties.                                                             *)

\* Every variable keeps its type, and a channel asks for signaling only while its
\* transport wants it connected: what Reset leaves behind asks for nothing.
TypeOK ==
  /\ round \in BOOLEAN
  /\ life \in [Port -> {"None", "Young", "Old"}]
  /\ ports \in SUBSET Port /\ remotes \in SUBSET Remote /\ sessions \in BOOLEAN
  /\ conns \in SUBSET Pair /\ conn \in [Pair -> Connection] /\ best \in Pair \cup {None}
  /\ sorts \in Nat /\ sortDirty \in BOOLEAN /\ deletes \in SUBSET Pair /\ pings \in BOOLEAN
  /\ readable \in BOOLEAN /\ writable \in BOOLEAN
  /\ wasWritable \in BOOLEAN /\ wasTimedOut \in BOOLEAN
  /\ waiting \in BOOLEAN /\ connected \in BOOLEAN
  /\ waiting => connected

\* The three lists of connections agree: what the channel uses as its best connection and
\* what waits for deletion is alive, on a port that is alive, although a port may delete
\* itself in the middle of the signal that removes its last connection.
NothingDangles ==
  /\ best \in conns \cup {None}
  /\ deletes \subseteq conns
  /\ \A c \in conns : c[1] \in Alive
  /\ ports \subseteq Alive

\* No dead connection is forgotten: whichever of the ways made it so, in a timeout, an
\* error or a prune, its MSG_DELETE is pending (CheckTimeout).
DeadIsDoomed == \A c \in conns : Dead(conn[c]) => c \in deletes

\* A port past its minimum lifetime has a connection to live for (Port::CheckTimeout).
PortsGoAway == \A p \in Port : life[p] = "Old" => On(p) # {}

\* A request for a sort is not lost: sort_dirty_ is set only while a MSG_SORT is pending.
DirtyMeansPending == sortDirty => sorts > 0

\* Once no sort is pending, no connection is better than the one in use: every change that
\* could make one better asked for a sort.
BestIsTop ==
  sorts = 0 => /\ best = None <=> conns = {}
               /\ \A c \in conns : ~Better(c, best, conn)

\* Once no sort is pending, the channel says it is writable exactly when the connection
\* that SendPacket uses is (the assertion of UpdateChannelState, which the code evaluates
\* only at the end of a sort), and that it is readable when a connection is.
StatesReported ==
  sorts = 0 => /\ writable <=> best # None /\ conn[best].write = "Writable"
               /\ (\E c \in conns : conn[c].read = "Readable") => readable

\* A channel that was writable and no longer is asks for a new allocator session in the
\* same step, whatever was_writable_ and was_timed_out_ went through.
AllocatesOnLoss == [][writable /\ ~writable' => waiting' \/ ~connected']_vars

\* The sorts that sorting asks for, by pruning and by timing out, come to an end: between
\* packets the thread gets rid of its MSG_SORTs.
SortsEnd == []<>(sorts = 0)

\* UpdateChannelState: ASSERT(writable == this->writable()).
WritableIsBests ==
  sorts = 0 => (writable <=> best # None /\ conn[best].write = "Writable")
=============================================================================
