-------------------------------- MODULE Session --------------------------------
(* p2p/base/session.cc, sessionmanager.cc: the two sides of one session, with *)
(* their managers, over a signalling service that reorders stanzas, fails to  *)
(* deliver them or their answers, and may redirect the first.  Every action   *)
(* is on the signalling thread of its side; posted is the order of the        *)
(* messages that the session has posted to itself.                            *)
EXTENDS Integers, Sequences

CONSTANTS
  Initiator, Responder,
  Content,     \* contents, each with its TransportProxy
  MaxCand,     \* candidates each side gathers for a content
  MaxFails,    \* stanzas or answers that are lost
  MaxPosted,   \* posted messages when the timer may fire
  Moved        \* the responder is at another name, to which it is redirected

ASSUME ConstantsOK ==
  /\ Initiator # Responder /\ Moved \in BOOLEAN
  /\ MaxCand \in Nat /\ MaxFails \in Nat /\ MaxPosted \in Nat

VARIABLES
  session,     \* the Session of each side
  proxy,       \* its TransportProxies
  net,         \* stanzas on their way
  back,        \* answers on their way
  fails        \* how much was lost so far

vars == <<session, proxy, net, back, fails>>

Peer == {Initiator, Responder}
Other(p) == IF p = Initiator THEN Responder ELSE Initiator
Cand == 1..MaxCand

\* None: no session yet; Gone: DestroySession was called.
State == {"None", "SENTINITIATE", "RECEIVEDINITIATE", "SENTACCEPT", "RECEIVEDACCEPT",
          "INPROGRESS", "SENTREJECT", "RECEIVEDREJECT", "SENTTERMINATE",
          "RECEIVEDTERMINATE", "Gone"}
Ending == {"SENTREJECT", "RECEIVEDREJECT", "SENTTERMINATE", "RECEIVEDTERMINATE", "Gone"}

\* name: what it takes for the other's name; timer: MSG_TIMEOUT is pending.
SessionRecord ==
  [state: State, posted: Seq({"State", "Error"}),
   acked: BOOLEAN, name: 0..1, timer: BOOLEAN]

\* phase: "Connecting" while SignalConnecting is on its way; got: remote candidates passed on.
Proxy == [phase: {"Idle", "Connecting", "On"}, negotiated: BOOLEAN, writable: BOOLEAN,
          made: 0..MaxCand, unsent: SUBSET Cand, sent: SUBSET Cand, got: SUBSET Cand]

Stanza == [type: {"initiate", "accept", "reject", "terminate"}, from: Peer, name: 0..1]
            \cup [type: {"info"}, from: Peer, name: 0..1, content: Content, cands: SUBSET Cand]
Answer == [kind: {"result", "error", "redirect"}, of: Stanza]

NoSession == [state |-> "None", posted |-> <<>>, acked |-> FALSE,
              name |-> 0, timer |-> FALSE]
Unconnected == [phase |-> "Idle", negotiated |-> FALSE, writable |-> FALSE, made |-> 0,
                unsent |-> {}, sent |-> {}, got |-> {}]

Exists(p) == session[p].state \notin {"None", "Gone"}

Init ==
  /\ session = [p \in Peer |-> NoSession]
  /\ proxy = [p \in Peer |-> [t \in Content |-> Unconnected]]
  /\ net = {} /\ back = {} /\ fails = 0

----------------------------------------------------------------------------
(* What the actions are made of.                                           *)

\* BaseSession::SetState, Session::SetError.
Post(s, m) == [s EXCEPT !.posted = Append(@, m)]
SetState(s, st) == IF s.state = st THEN s ELSE Post([s EXCEPT !.state = st], "State")
SetError(s) == Post(s, "Error")

To(p, type) == [type |-> type, from |-> p, name |-> session[p].name]
Info(p, name, t, ks) == [type |-> "info", from |-> p, name |-> name, content |-> t, cands |-> ks]
Send(ms) == net' = net \cup ms

\* TransportProxy::CompleteNegotiation, ConnectChannels, OnRemoteCandidates.
Negotiated(x) == [x EXCEPT !.negotiated = TRUE]
Connected(x) == [x EXCEPT !.phase = IF @ = "Idle" THEN "Connecting" ELSE @]
Told(x, ks) == [x EXCEPT !.got = @ \cup ks]
ForAll(p, f(_)) == proxy' = [proxy EXCEPT ![p] = [t \in Content |-> f(@[t])]]

\* SendAllUnsentTransportInfoMessages, ResendAllTransportInfoMessages.
InfosOf(p, name, set(_)) ==
  {Info(p, name, t, set(t)) : t \in {u \in Content : set(u) # {}}}

\* TerminateWithReason: what it makes of the session, and what it sends (a fault: only in
\* progress).
Terminated(s) ==
  IF s.state \in {"SENTTERMINATE", "RECEIVEDTERMINATE"} THEN s ELSE SetState(s, "SENTTERMINATE")
TerminateStanzaInProgress(p) ==
  IF session[p].state = "INPROGRESS" THEN {To(p, "terminate")} ELSE {}

TerminateStanza(p) ==
  IF session[p].state \in Ending THEN {} ELSE {To(p, "terminate")}

----------------------------------------------------------------------------
(* The users.                                                              *)

Initiate ==
  LET p == Initiator IN
  /\ session[p].state = "None"
  /\ Send({To(p, "initiate")})
  /\ ForAll(p, Connected)
  /\ session' = [session EXCEPT ![p] = SetState(@, "SENTINITIATE")]
  /\ UNCHANGED <<back, fails>>

Accept(p) ==
  /\ session[p].state = "RECEIVEDINITIATE"
  /\ Send({To(p, "accept")})
  /\ ForAll(p, LAMBDA x : Connected(Negotiated(x)))
  /\ session' = [session EXCEPT ![p] = SetState(@, "SENTACCEPT")]
  /\ UNCHANGED <<back, fails>>

Reject(p) ==
  /\ session[p].state = "RECEIVEDINITIATE"
  /\ Send({To(p, "reject")})
  /\ session' = [session EXCEPT ![p] = SetState(@, "SENTREJECT")]
  /\ UNCHANGED <<proxy, back, fails>>

Terminate(p) ==
  /\ Exists(p)
  /\ Send(TerminateStanza(p))
  /\ session' = [session EXCEPT ![p] = Terminated(@)]
  /\ UNCHANGED <<proxy, back, fails>>

----------------------------------------------------------------------------
(* The transports.                                                         *)

\* OnTransportWritable, also called by OnTransportConnecting: one timer for all transports.
Watch(p, writable) == session' = [session EXCEPT ![p].timer = ~writable]

\* A fault: connecting does not start the timer.
OnTransportConnectingUnwatched(p, t) ==
  /\ Exists(p) /\ proxy[p][t].phase = "Connecting"
  /\ proxy' = [proxy EXCEPT ![p][t].phase = "On"]
  /\ UNCHANGED <<session, net, back, fails>>

OnTransportConnecting(p, t) ==
  /\ Exists(p) /\ proxy[p][t].phase = "Connecting"
  /\ proxy' = [proxy EXCEPT ![p][t].phase = "On"]
  /\ Watch(p, proxy[p][t].writable)
  /\ UNCHANGED <<net, back, fails>>

\* A transport becomes writable only with the other side's help.
OnTransportWritable(p, t) ==
  /\ Exists(p) /\ proxy[p][t].phase = "On"
  /\ ~proxy[p][t].writable =>
       /\ Exists(Other(p)) /\ proxy[Other(p)][t].phase # "Idle"
       /\ proxy[p][t].got # {} \/ proxy[Other(p)][t].got # {}
  /\ proxy' = [proxy EXCEPT ![p][t].writable = ~@]
  /\ Watch(p, ~proxy[p][t].writable)
  /\ UNCHANGED <<net, back, fails>>

\* A fault: the candidates are sent although the initiate may not have arrived.
OnCandidatesReadyAtOnce(p, t) ==
  LET x == proxy[p][t] k == x.made + 1 IN
  /\ Exists(p) /\ x.phase = "On" /\ x.made < MaxCand
  /\ proxy' = [proxy EXCEPT ![p][t].made = k, ![p][t].sent = IF x.negotiated THEN @ ELSE @ \cup {k}]
  /\ Send({Info(p, session[p].name, t, {k})})
  /\ UNCHANGED <<session, back, fails>>

\* OnTransportProxyCandidatesReady, with one candidate.
OnCandidatesReady(p, t) ==
  LET x == proxy[p][t] k == x.made + 1 IN
  /\ Exists(p) /\ x.phase = "On" /\ x.made < MaxCand
  /\ IF p = Initiator /\ ~session[p].acked
     THEN /\ proxy' = [proxy EXCEPT ![p][t].made = k, ![p][t].unsent = @ \cup {k}]
          /\ UNCHANGED net
     ELSE /\ proxy' = [proxy EXCEPT ![p][t].made = k,
                                    ![p][t].sent = IF x.negotiated THEN @ ELSE @ \cup {k}]
          /\ Send({Info(p, session[p].name, t, {k})})
  /\ UNCHANGED <<session, back, fails>>

----------------------------------------------------------------------------
(* Stanzas that arrive: SessionManager::OnIncomingMessage.                 *)

\* The answers that change something: OnIncomingResponse looks at no result but an
\* initiate's, OnFailedSend at no error about a transport-info.
Answers(m, kind) ==
  IF (kind = "result" /\ m.type # "initiate") \/ (kind = "error" /\ m.type = "info")
  THEN {} ELSE {[kind |-> kind, of |-> m]}

\* m arrives, is answered by kind, and ms are sent.  The answer may get lost, and then the
\* sender is told that the recipient did not respond.
Arrive(m, kind, ms) ==
  \E told \in {kind, "error"} :
    /\ fails' = fails + (IF told = kind THEN 0 ELSE 1) /\ fails' <= MaxFails
    /\ net' = (net \ {m}) \cup ms
    /\ back' = back \cup Answers(m, told)

\* FindSession: by the session's id and the name it takes for the other's.
Place(p) == IF p = Responder /\ Moved THEN 1 ELSE 0
Misdirected(m) == m.name # Place(Other(m.from))

\* The name has moved; only an initiate is redirected.
Redirect(m) ==
  /\ Misdirected(m)
  /\ Arrive(m, IF m.type = "initiate" THEN "redirect" ELSE "error", {})
  /\ UNCHANGED <<session, proxy>>

UnknownSession(m) ==
  /\ ~Misdirected(m) /\ ~Exists(Other(m.from)) /\ m.type # "initiate"
  /\ Arrive(m, "error", {})
  /\ UNCHANGED <<session, proxy>>

\* CreateSession, OnInitiateMessage: the user may reject from inside SignalState.
OnInitiateMessage(m) ==
  LET p == Responder IN
  /\ ~Misdirected(m) /\ m.type = "initiate" /\ session[p].state = "None"
  /\ \/ /\ session' = [session EXCEPT ![p] = SetState(@, "RECEIVEDINITIATE")]
        /\ ForAll(p, LAMBDA x : Connected(Negotiated(x)))
        /\ Arrive(m, "result", {})
     \/ /\ session' = [session EXCEPT ![p] = Post(SetState(@, "SENTREJECT"), "State")]
        /\ Arrive(m, "result", {To(p, "reject")})
        /\ UNCHANGED proxy

\* OnInitiateAcked: the candidates held back are sent, once.
Acked(p) ==
  IF session[p].acked THEN {} ELSE InfosOf(p, session[p].name, LAMBDA t : proxy[p][t].unsent)

\* A fault: an accept is taken in any state.
OnAcceptMessageAnyState(m) ==
  LET p == Initiator IN
  /\ m.type = "accept" /\ Exists(p)
  /\ session' = [session EXCEPT ![p] = [SetState(@, "RECEIVEDACCEPT") EXCEPT !.acked = TRUE]]
  /\ ForAll(p, LAMBDA x : [Connected(Negotiated(x)) EXCEPT
                             !.unsent = IF session[p].acked THEN @ ELSE {}])
  /\ Arrive(m, "result", Acked(p))

OnAcceptMessage(m) ==
  LET p == Initiator IN
  /\ m.type = "accept" /\ session[p].state = "SENTINITIATE"
  /\ session' = [session EXCEPT ![p] = [SetState(@, "RECEIVEDACCEPT") EXCEPT !.acked = TRUE]]
  /\ ForAll(p, LAMBDA x : [Connected(Negotiated(x)) EXCEPT
                             !.unsent = IF session[p].acked THEN @ ELSE {}])
  /\ Arrive(m, "result", Acked(p))

OnRejectMessage(m) ==
  LET p == Initiator IN
  /\ m.type = "reject" /\ session[p].state = "SENTINITIATE"
  /\ session' = [session EXCEPT ![p] = SetState(@, "RECEIVEDREJECT")]
  /\ Arrive(m, "result", {})
  /\ UNCHANGED proxy

OnTerminateMessage(m) ==
  LET p == Other(m.from) IN
  /\ ~Misdirected(m) /\ m.type = "terminate" /\ Exists(p)
  /\ session' = [session EXCEPT ![p] = SetState(@, "RECEIVEDTERMINATE")]
  /\ Arrive(m, "result", {})
  /\ UNCHANGED proxy

\* OnTransportInfoMessage, in whatever state: OnRemoteCandidates.
OnTransportInfoMessage(m) ==
  LET p == Other(m.from) IN
  /\ ~Misdirected(m) /\ m.type = "info" /\ Exists(p)
  /\ proxy' = [proxy EXCEPT ![p][m.content] = Told(Connected(Negotiated(@)), m.cands)]
  /\ Arrive(m, "result", {})
  /\ UNCHANGED session

\* CheckState fails: the message is not allowed in the state of the session.
OnUnexpectedMessage(m) ==
  LET p == Other(m.from) IN
  /\ m.type \in {"accept", "reject"} /\ Exists(p) /\ session[p].state # "SENTINITIATE"
  /\ Arrive(m, "error", {})
  /\ UNCHANGED <<session, proxy>>

Deliver(m) ==
  \/ Redirect(m) \/ UnknownSession(m)
  \/ OnInitiateMessage(m) \/ OnAcceptMessage(m) \/ OnRejectMessage(m)
  \/ OnTerminateMessage(m) \/ OnTransportInfoMessage(m) \/ OnUnexpectedMessage(m)

----------------------------------------------------------------------------
(* Answers that arrive: OnIncomingResponse, OnFailedSend.                  *)

\* FindSession: an answer from a name that is no longer the other's is dropped.
Ours(r) == Exists(r.of.from) /\ session[r.of.from].name = r.of.name
TakeAnswer(r) == back' = back \ {r} /\ UNCHANGED fails

OnOldAnswer(r) ==
  /\ ~Ours(r)
  /\ TakeAnswer(r)
  /\ UNCHANGED <<session, proxy, net>>

OnInitiateResponse(r) ==
  LET p == r.of.from IN
  /\ Ours(r) /\ r.kind = "result"
  /\ session' = [session EXCEPT ![p].acked = TRUE]
  /\ ForAll(p, LAMBDA x : [x EXCEPT !.unsent = IF session[p].acked THEN @ ELSE {}])
  /\ Send(Acked(p))
  /\ TakeAnswer(r)

OnFailedSend(r) ==
  /\ Ours(r) /\ r.kind = "error"
  /\ session' = [session EXCEPT ![r.of.from] = SetError(@)]
  /\ TakeAnswer(r)
  /\ UNCHANGED <<proxy, net>>

\* OnRedirectError: the initiate and the candidates sent so far go to the new name.
OnRedirectError(r) ==
  LET p == r.of.from IN
  /\ Ours(r) /\ r.kind = "redirect" /\ session[p].state = "SENTINITIATE"
  /\ session' = [session EXCEPT ![p].name = 1]
  /\ Send({[To(p, "initiate") EXCEPT !.name = 1]} \cup InfosOf(p, 1, LAMBDA t : proxy[p][t].sent))
  /\ ForAll(p, LAMBDA x : [x EXCEPT !.sent = {}])
  /\ TakeAnswer(r)

OnLateRedirect(r) ==
  LET p == r.of.from IN
  /\ Ours(r) /\ r.kind = "redirect" /\ session[p].state # "SENTINITIATE"
  /\ session' = [session EXCEPT ![p] = SetError(@)]
  /\ TakeAnswer(r)
  /\ UNCHANGED <<proxy, net>>

Answered(r) ==
  \/ OnOldAnswer(r) \/ OnInitiateResponse(r) \/ OnFailedSend(r)
  \/ OnRedirectError(r) \/ OnLateRedirect(r)

\* A stanza is lost, and the sender is told so (SessionSendTask::OnTimeout).
LoseStanza(m) ==
  /\ fails < MaxFails /\ fails' = fails + 1
  /\ net' = net \ {m} /\ back' = back \cup Answers(m, "error")
  /\ UNCHANGED <<session, proxy>>

----------------------------------------------------------------------------
(* The session's own messages: Session::OnMessage.                         *)

Posted(p, m) == Exists(p) /\ session[p].posted # <<>> /\ Head(session[p].posted) = m
Popped(s) == [s EXCEPT !.posted = Tail(@)]

\* MSG_STATE: BaseSession::OnMessage, and the state before it.
OnState(p) ==
  LET s == Popped(session[p]) IN
  /\ Posted(p, "State")
  /\ session' = [session EXCEPT ![p] =
       CASE s.state \in {"SENTACCEPT", "RECEIVEDACCEPT"} -> SetState(s, "INPROGRESS")
         [] s.state \in {"SENTREJECT", "RECEIVEDREJECT"} -> Terminated(s)
         [] s.state \in {"SENTTERMINATE", "RECEIVEDTERMINATE"} ->
              [NoSession EXCEPT !.state = "Gone"]
         [] OTHER -> s]
  /\ proxy' = IF Exists(p)' THEN proxy ELSE [proxy EXCEPT ![p] = [t \in Content |-> Unconnected]]
  /\ UNCHANGED <<net, back, fails>>

OnError(p) ==
  /\ Posted(p, "Error")
  /\ Send(TerminateStanza(p))
  /\ session' = [session EXCEPT ![p] = Terminated(Popped(@))]
  /\ UNCHANGED <<proxy, back, fails>>

\* A fault: the timer posts itself.
OnTimeoutAgain(p) ==
  /\ Exists(p) /\ session[p].timer /\ Len(session[p].posted) <= MaxPosted
  /\ session' = [session EXCEPT ![p] = Post(@, "Timeout")]
  /\ UNCHANGED <<proxy, net, back, fails>>

OnTimeout(p) ==
  /\ Exists(p) /\ session[p].timer /\ Len(session[p].posted) <= MaxPosted
  /\ session' = [session EXCEPT ![p] = [SetError(@) EXCEPT !.timer = FALSE]]
  /\ UNCHANGED <<proxy, net, back, fails>>

----------------------------------------------------------------------------

Users == Initiate \/ \E p \in Peer : Accept(p) \/ Reject(p) \/ Terminate(p)
Transports ==
  \E p \in Peer, t \in Content :
    OnTransportConnecting(p, t) \/ OnTransportWritable(p, t) \/ OnCandidatesReady(p, t)
Network == (\E m \in net : Deliver(m)) \/ (\E r \in back : Answered(r))
Faults == \E m \in net : LoseStanza(m)
Own(p) == OnState(p) \/ OnError(p)

Next ==
  \/ Users \/ Transports \/ Network \/ Faults
  \/ \E p \in Peer : Own(p) \/ OnTimeout(p)

Spec == Init /\ [][Next]_vars

----------------------------------------------------------------------------
(* Properties                                                              *)

TypeOK ==
  /\ session \in [Peer -> SessionRecord]
  /\ proxy \in [Peer -> [Content -> Proxy]]
  /\ net \subseteq Stanza /\ back \subseteq Answer /\ fails \in 0..MaxFails

\* "This is to work around server re-ordering messages": while both sides have the session and
\* nothing failed, every candidate is held back, on its way, or with the other side.
CandidatesReach ==
  fails = 0 /\ (\A p \in Peer : Exists(p)) =>
    \A p \in Peer, t \in Content : \A k \in 1..proxy[p][t].made :
      \/ k \in proxy[p][t].unsent \cup proxy[Other(p)][t].got
      \/ \E m \in net : m.type = "info" /\ m.from = p /\ m.content = t /\ k \in m.cands

\* A side that rejected, was rejected or terminated does not come back to life, whatever
\* MSG_STATE, MSG_ERROR or stanza is still on its way to it.
EndIsFinal ==
  [][\A p \in Peer : session[p].state \in Ending => session'[p].state \in Ending]_vars

Quiet == net = {} /\ back = {} /\ \A p \in Peer : session[p].posted = <<>>

\* When everything sent and posted has arrived and nothing failed, the two sides agree: both
\* in progress, both gone, or the responder's user has still to answer, to a session that a
\* terminate may have ended before its initiate arrived.
QuietAgrees ==
  Quiet /\ fails = 0 =>
    <<session[Initiator].state, session[Responder].state>> \in
      {<<"None", "None">>, <<"SENTINITIATE", "RECEIVEDINITIATE">>, <<"INPROGRESS", "INPROGRESS">>,
       <<"Gone", "RECEIVEDINITIATE">>, <<"Gone", "Gone">>, <<"Gone", "None">>}

\* Whatever was lost or came in another order, nobody is left in a session whose other side has
\* gone, unless something will still end it: the timer, or what sets it, a transport that
\* connects or that has connections to lose.
NobodyLeftAlone ==
  Quiet => \A p \in Peer : session[Other(p)].state = "Gone" /\ Exists(p) =>
    \/ session[p].timer
    \/ \E t \in Content : proxy[p][t].phase = "Connecting" \/ proxy[p][t].writable

\* OnTransportWritable: "If the transport is not writable, start a timer to make sure that it
\* becomes writable within a reasonable amount of time".
UnwritableIsWatched ==
  \A p \in Peer, t \in Content :
    session[p].state = "INPROGRESS" /\ session[p].posted = <<>>
      /\ proxy[p][t].phase = "On" /\ ~proxy[p][t].writable => session[p].timer
=============================================================================
