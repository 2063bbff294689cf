---------------------------- MODULE SessionAgreement ----------------------------
(* The two sides of a session agree: who knows whose name, which candidates    *)
(* are still to come, what will move a session that waits, and what one side   *)
(* did and the other does not know yet.                                        *)
EXTENDS SessionProofs

----------------------------------------------------------------------------
(* Who sends what, to which name.                                          *)

Begun(p) == session[p].state # "None"

\* The states of a side that begins a session, and of one that is asked to.
RoleOK(p, st) == IF p = Initiator
                 THEN st \notin {"RECEIVEDINITIATE", "SENTACCEPT", "SENTREJECT"}
                 ELSE st \notin {"SENTINITIATE", "RECEIVEDACCEPT", "RECEIVEDREJECT"}
Roles == \A p \in Peer : RoleOK(p, session[p].state) /\ session[p].name <= Place(Other(p))

\* A stanza comes from a side that has begun, under a name that it has known since, and
\* candidates only under the last one.
StanzaOK(m) == /\ Begun(m.from) /\ m.name <= Place(Other(m.from))
               /\ Exists(m.from) => m.name <= session[m.from].name
               /\ m.type = "initiate" => m.from = Initiator
               /\ m.type \in {"accept", "reject"} => m.from = Responder
               /\ m.type = "info" => ~Misdirected(m)

\* An initiate was acknowledged by the responder, or redirected from its first name.
AnswerOK(r) == /\ r.kind = "result" => r.of.from = Initiator /\ Begun(Responder)
               /\ r.kind = "redirect" => /\ r.of.from = Initiator /\ r.of.name = 0
                                         /\ Place(Responder) = 1

\* Once the responder has the session, the initiator knows its name.
Met == Begun(Responder) =>
  /\ Begun(Initiator)
  /\ Exists(Initiator) => session[Initiator].name = Place(Responder)
Acknowledged == session[Initiator].acked => Begun(Responder)

Named == /\ Roles /\ Met /\ Acknowledged
         /\ \A m \in net : StanzaOK(m)
         /\ \A r \in back : AnswerOK(r)

\* Nobody forgets having begun, comes back, or goes back to an earlier name.
Forward == \A q \in Peer : /\ Begun(q) => Begun(q)'
                           /\ Begun(q) /\ Exists(q)' => /\ Exists(q)
                                                        /\ session[q].name <= session'[q].name

\* Names are 0 and 1; the initiator does not move.
LEMMA Names ==
  ASSUME SessionsTyped
  PROVE  /\ \A p \in Peer : session[p].name \in 0..1 /\ session[p].state \in State
         /\ Place(Initiator) = 0 /\ Place(Responder) \in 0..1
BY ConstantsOK, Sides DEF SessionsTyped, SessionRecord, Place

\* Stanzas and answers stay as they should be while their senders go forward.
LEMMA StanzaStays ==
  ASSUME Typed, Forward, SessionsTyped', NEW m \in net, StanzaOK(m)  PROVE StanzaOK(m)'
<1>1. m.from \in Peer /\ m.name \in 0..1
  BY DEF Typed, RestTyped, Stanza
<1>2. session[m.from].name \in 0..1 /\ session'[m.from].name \in 0..1
  BY <1>1 DEF Typed, SessionsTyped, SessionRecord
<1> QED  BY <1>1, <1>2 DEF StanzaOK, Forward, Begun, Exists, Misdirected

LEMMA AnswerStays ==
  ASSUME Typed, Forward, NEW r \in back, AnswerOK(r)  PROVE AnswerOK(r)'
BY Sides DEF AnswerOK, Forward, Begun

\* What a step has to show.
LEMMA NamedKeeps ==
  ASSUME Typed, Named, Forward, SessionsTyped', Roles', Met', Acknowledged',
         \A m \in net' : m \in net \/ StanzaOK(m)', \A r \in back' : r \in back \/ AnswerOK(r)'
  PROVE  Named'
<1>1. \A m \in net : StanzaOK(m)'
  BY StanzaStays DEF Named
<1>2. \A r \in back : AnswerOK(r)'
  BY AnswerStays DEF Named
<1> QED  BY <1>1, <1>2 DEF Named

\* A side that has begun goes on, under the same name.
Carries(p) == /\ Alone(p) /\ Exists(p) /\ session'[p].state # "None"
              /\ \/ session'[p].name = session[p].name
                 \/ session'[p].state = "Gone" /\ session'[p].name = 0
              /\ session'[p].acked => session[p].acked

LEMMA GoesOn ==
  ASSUME Typed, Named, NEW p \in Peer, Carries(p), RoleOK(p, session'[p].state)
  PROVE  Forward /\ SessionsTyped' /\ Roles' /\ Met' /\ Acknowledged'
<1>1. SessionsTyped' /\ \A q \in Peer : q # p => session'[q] = session[q]
  BY DEF Carries, Alone
<1>2. \A q \in Peer : session[q].name \in 0..1 /\ session'[q].name \in 0..1
  BY <1>1 DEF Typed, SessionsTyped, SessionRecord
<1>3. Forward
  <2> SUFFICES ASSUME NEW q \in Peer
               PROVE  /\ Begun(q) => Begun(q)'
                      /\ Begun(q) /\ Exists(q)' => /\ Exists(q)
                                                   /\ session[q].name <= session'[q].name
    BY DEF Forward
  <2>1. CASE q = p
    BY <1>2, <2>1 DEF Carries, Begun, Exists
  <2>2. CASE q # p
    BY <1>1, <1>2, <2>2 DEF Begun, Exists
  <2> QED  BY <2>1, <2>2
<1>4. Roles'
  <2> SUFFICES ASSUME NEW q \in Peer
               PROVE  RoleOK(q, session'[q].state) /\ session'[q].name <= Place(Other(q))
    BY DEF Roles, RoleOK, Place, Other
  <2>1. CASE q = p
    <3>1. session[p].name <= Place(Other(p)) /\ Place(Other(p)) \in 0..1
      BY Sides, Names DEF Named, Roles, Typed
    <3> QED  BY <2>1, <3>1 DEF Carries
  <2>2. CASE q # p
    BY <1>1, <2>2 DEF Named, Roles
  <2> QED  BY <2>1, <2>2
<1>5. Met'
  BY <1>1, Sides DEF Named, Met, Carries, Begun, Exists
<1>6. Acknowledged'
  BY <1>1, Sides DEF Named, Acknowledged, Carries, Begun, Exists
<1> QED  BY <1>1, <1>3, <1>4, <1>5, <1>6

\* A step that changes no session.
LEMMA NobodyGoes ==
  ASSUME Typed, Named, Nobody
  PROVE  Forward /\ SessionsTyped' /\ Roles' /\ Met' /\ Acknowledged'
<1>1. SessionsTyped' /\ \A q \in Peer : session'[q] = session[q]
  BY DEF Nobody
<1>2. \A q \in Peer : session[q].name \in 0..1
  BY DEF Typed, SessionsTyped, SessionRecord
<1> QED  BY <1>1, <1>2, Sides DEF Named, Forward, Roles, Met, Acknowledged, Begun, Exists

\* A stanza that a side sends about its session.
LEMMA ToIs ==
  ASSUME Typed, NEW p \in Peer, NEW type \in {"initiate", "accept", "reject", "terminate"}
  PROVE  /\ To(p, type) \in Stanza /\ To(p, type).type = type /\ To(p, type).from = p
         /\ To(p, type).name = session[p].name
BY StanzaTyped DEF Typed

\* It is as it should be, when its sender goes on under the same name.
LEMMA ToOK ==
  ASSUME Typed, Named, NEW p \in Peer, NEW type \in {"initiate", "accept", "reject", "terminate"},
         SessionsTyped', Roles', session'[p].name = session[p].name, session'[p].state # "None",
         type = "initiate" => p = Initiator, type \in {"accept", "reject"} => p = Responder
  PROVE  \A m : m = To(p, type) => StanzaOK(m)'
<1> TAKE m
<1> HAVE m = To(p, type)
<1>1. m.type = type /\ m.from = p /\ m.name = session[p].name
  BY ToIs
<1>2. session'[p].name <= Place(Other(p)) /\ session'[p].name \in 0..1
  BY DEF Roles, SessionsTyped, SessionRecord
<1> QED  BY <1>1, <1>2 DEF StanzaOK, Begun, Exists, Misdirected

\* An answer to a stanza that arrived.
LEMMA AnswersArrive ==
  ASSUME Typed, Named, NEW m \in net, NEW kind \in {"result", "error", "redirect"}, NEW ms,
         Arrived(m, kind, ms), kind = "result" /\ m.type = "initiate" => Begun(Responder)',
         kind = "redirect" => m.type = "initiate" /\ Misdirected(m)
  PROVE  \A r \in back' : r \in back \/ AnswerOK(r)'
<1> SUFFICES ASSUME NEW r \in back', r \notin back  PROVE AnswerOK(r)'
  OBVIOUS
<1>1. r.of = m /\ r.kind \in {kind, "error"} /\ (r.kind = "result" => m.type = "initiate")
  BY DEF Arrived
<1>2. StanzaOK(m) /\ m \in Stanza
  BY DEF Named, Typed, RestTyped
<1>3. CASE r.kind = "result"
  BY <1>1, <1>2, <1>3 DEF AnswerOK, StanzaOK
<1>4. CASE r.kind = "redirect"
  <2>1. m.type = "initiate" /\ Misdirected(m) /\ m.from = Initiator
    BY <1>1, <1>2, <1>4 DEF StanzaOK
  <2>2. m.name <= Place(Responder) /\ m.name # Place(Responder) /\ m.name \in 0..1
    BY <1>2, <2>1, Sides DEF StanzaOK, Misdirected, Stanza
  <2>3. Place(Responder) \in 0..1
    BY Names DEF Typed
  <2>4. m.name = 0 /\ Place(Responder) = 1
    BY <2>2, <2>3
  <2> QED  BY <1>1, <1>4, <2>1, <2>4 DEF AnswerOK, Place
<1> QED  BY <1>1, <1>3, <1>4 DEF AnswerOK

\* A side that ends.
LEMMA EndsNamed ==
  ASSUME Typed, Named, NEW p \in Peer, Exists(p), Ends(p)  PROVE Named'
<1>1. /\ session'[p].state \in Ending /\ session'[p].state \in {session[p].state, "SENTTERMINATE"}
      /\ session'[p].name = session[p].name /\ session'[p].acked = session[p].acked
      /\ Alone(p) /\ UNCHANGED back
      /\ \A m \in net' : m \in net \/ m = To(p, "terminate")
  BY DEF Ends
<1>2. session'[p].state # "None" /\ RoleOK(p, session'[p].state)
  BY <1>1 DEF Ending, RoleOK, Named, Roles
<1>3. Forward /\ SessionsTyped' /\ Roles' /\ Met' /\ Acknowledged'
  BY <1>1, <1>2, GoesOn DEF Carries
<1>4. \A m : m = To(p, "terminate") => StanzaOK(m)'
  BY <1>1, <1>2, <1>3, ToOK
<1>5. \A m \in net' : m \in net \/ StanzaOK(m)'
  BY <1>1, <1>4
<1> QED  BY <1>1, <1>3, <1>5, NamedKeeps

\* The steps of the users,
LEMMA UsersNamed ==
  ASSUME Typed, Named, Users  PROVE Named'
<1>1. CASE Initiate
  <2> DEFINE p == Initiator
  <2>1. /\ session[p].state = "None" /\ session'[p].state = "SENTINITIATE" /\ Alone(p)
        /\ Keeps(session[p], session'[p]) /\ net' = net \cup {To(p, "initiate")}
        /\ UNCHANGED back
    BY <1>1, InitiateIs
  <2>2. ~Begun(Responder) /\ p \in Peer /\ Responder \in Peer /\ Responder # p
    BY <2>1, Sides DEF Named, Met, Begun
  <2>3. /\ SessionsTyped' /\ \A q \in Peer : q # p => session'[q] = session[q]
        /\ session'[p].name = session[p].name /\ session'[p].acked = session[p].acked
    BY <2>1 DEF Alone, Keeps
  <2>4. \A q \in Peer : session[q].name \in 0..1
    BY DEF Typed, SessionsTyped, SessionRecord
  <2>5. Forward
    <3> SUFFICES ASSUME NEW q \in Peer
                 PROVE  /\ Begun(q) => Begun(q)'
                        /\ Begun(q) /\ Exists(q)' => /\ Exists(q)
                                                     /\ session[q].name <= session'[q].name
      BY DEF Forward
    <3>1. CASE q = p
      BY <2>1, <3>1 DEF Begun
    <3>2. CASE q # p
      BY <2>3, <2>4, <3>2 DEF Begun, Exists
    <3> QED  BY <3>1, <3>2
  <2>6. Roles'
    <3> SUFFICES ASSUME NEW q \in Peer
                 PROVE  RoleOK(q, session'[q].state) /\ session'[q].name <= Place(Other(q))
      BY DEF Roles, RoleOK, Place, Other
    <3>1. CASE q = p
      BY <2>1, <2>3, <3>1 DEF Named, Roles, RoleOK
    <3>2. CASE q # p
      BY <2>3, <3>2 DEF Named, Roles
    <3> QED  BY <3>1, <3>2
  <2>7. Met' /\ Acknowledged'
    BY <2>2, <2>3 DEF Named, Met, Acknowledged, Begun
  <2>8. \A m : m = To(p, "initiate") => StanzaOK(m)'
    BY <2>1, <2>2, <2>3, <2>6, ToOK
  <2>9. \A m \in net' : m \in net \/ StanzaOK(m)'
    BY <2>1, <2>8
  <2> QED  BY <2>1, <2>3, <2>5, <2>6, <2>7, <2>9, NamedKeeps
<1>2. ASSUME NEW p \in Peer, NEW type \in {"accept", "reject"},
             NEW st \in {"SENTACCEPT", "SENTREJECT"},
             session[p].state = "RECEIVEDINITIATE", session'[p].state = st, Alone(p),
             Keeps(session[p], session'[p]), net' = net \cup {To(p, type)}, UNCHANGED back
      PROVE  Named'
  <2>1. p = Responder /\ p # Initiator
    BY <1>2, Sides DEF Named, Roles, RoleOK
  <2>2. Carries(p) /\ RoleOK(p, session'[p].state)
    BY <1>2, <2>1 DEF Carries, Exists, Keeps, RoleOK
  <2>3. Forward /\ SessionsTyped' /\ Roles' /\ Met' /\ Acknowledged'
    BY <2>2, GoesOn
  <2>4. \A m : m = To(p, type) => StanzaOK(m)'
    BY <1>2, <2>1, <2>3, ToOK DEF Keeps
  <2>5. \A m \in net' : m \in net \/ StanzaOK(m)'
    BY <1>2, <2>4
  <2> QED  BY <1>2, <2>3, <2>5, NamedKeeps
<1>3. ASSUME NEW p \in Peer, Accept(p)  PROVE Named'
  BY <1>2, <1>3, AcceptIs
<1>4. ASSUME NEW p \in Peer, Reject(p)  PROVE Named'
  BY <1>2, <1>4, RejectIs
<1>5. ASSUME NEW p \in Peer, Terminate(p)  PROVE Named'
  BY <1>5, TerminateIs, EndsNamed
<1> QED  BY <1>1, <1>3, <1>4, <1>5 DEF Users

\* of the transports,
LEMMA TransportsNamed ==
  ASSUME Typed, Named, NEW p \in Peer, NEW t \in Content,
         OnTransportConnecting(p, t) \/ OnTransportWritable(p, t) \/ OnCandidatesReady(p, t)
  PROVE  Named'
<1>1. CASE Watches(p, t)
  <2>1. /\ Alone(p) /\ session'[p].state = session[p].state /\ Exists(p)
        /\ session'[p].name = session[p].name /\ session'[p].acked = session[p].acked
        /\ UNCHANGED <<net, back>>
    BY <1>1 DEF Watches
  <2>2. Carries(p) /\ RoleOK(p, session'[p].state)
    BY <2>1 DEF Carries, Exists, Named, Roles
  <2> QED  BY <2>1, <2>2, GoesOn, NamedKeeps
<1>2. CASE OnCandidatesReady(p, t)
  <2>1. /\ Exists(p) /\ UNCHANGED <<session, back>> /\ Nobody
        /\ proxy[p][t].made + 1 \in Cand
        /\ \/ UNCHANGED net
           \/ /\ p # Initiator \/ session[p].acked
              /\ net' = net \cup {Info(p, session[p].name, t, {proxy[p][t].made + 1})}
    BY <1>2, CandidateIs
  <2>2. Forward /\ SessionsTyped' /\ Roles' /\ Met' /\ Acknowledged'
    BY <2>1, NobodyGoes
  <2>3. ASSUME p # Initiator \/ session[p].acked, NEW m,
               m = Info(p, session[p].name, t, {proxy[p][t].made + 1})
        PROVE  StanzaOK(m)'
    <3>1. session[p].name \in 0..1 /\ {proxy[p][t].made + 1} \in SUBSET Cand
      BY <2>1, Names DEF Typed
    <3>2. m.type = "info" /\ m.from = p /\ m.name = session[p].name
      BY <2>3, <3>1, StanzaTyped DEF Typed
    <3>3. session[p].name = Place(Other(p))
      <4>1. CASE p = Initiator
        BY <2>1, <2>3, <4>1, Sides DEF Named, Acknowledged, Met
      <4>2. CASE p = Responder
        <5>1. session[p].name <= 0 /\ Place(Other(p)) = 0
          BY <4>2, Sides, Names DEF Named, Roles, Typed
        <5> QED  BY <3>1, <5>1
      <4> QED  BY <4>1, <4>2, Sides
    <3>4. Place(Other(p)) <= Place(Other(p))
      BY <3>1, <3>3
    <3> QED  BY <2>1, <3>2, <3>3, <3>4 DEF StanzaOK, Begun, Exists, Misdirected
  <2>4. \A x \in net' : x \in net \/ StanzaOK(x)'
    BY <2>1, <2>3
  <2> QED  BY <2>1, <2>2, <2>4, NamedKeeps
<1> QED  BY <1>1, <1>2, ConnectingIs, WritableIs

\* The candidates that go when the responder has acknowledged the initiate find it.
LEMMA ReleasesOK ==
  ASSUME Typed, Named, NEW ms, Releases(Initiator, ms), Begun(Responder), Exists(Initiator),
         SessionsTyped', session'[Initiator].name = session[Initiator].name,
         session'[Initiator].state # "None"
  PROVE  \A m \in ms : StanzaOK(m)'
<1> TAKE m \in ms
<1>1. m.type = "info" /\ m.from = Initiator /\ m.name = session[Initiator].name
  BY DEF Releases
<1>2. session[Initiator].name = Place(Responder) /\ Other(Initiator) = Responder
  BY Sides DEF Named, Met
<1>3. Place(Responder) \in 0..1
  BY Names DEF Typed
<1> QED  BY <1>1, <1>2, <1>3 DEF StanzaOK, Begun, Exists, Misdirected

\* The stanzas that arrive,
LEMMA DeliverNamed ==
  ASSUME Typed, Named, NEW m \in net, Deliver(m)  PROVE Named'
<1>1. /\ StanzaOK(m) /\ m \in Stanza /\ m.from \in Peer
      /\ Initiator \in Peer /\ Responder \in Peer /\ Initiator # Responder
  BY Sides DEF Named, Typed, RestTyped, Stanza
<1>2. CASE Redirect(m) \/ UnknownSession(m) \/ OnUnexpectedMessage(m)
  <2>1. /\ Nobody
        /\ \/ Misdirected(m) /\ m.type = "initiate" /\ Arrived(m, "redirect", {})
           \/ Arrived(m, "error", {})
    BY <1>2, StrayIs
  <2>2. \A r \in back' : r \in back \/ AnswerOK(r)'
    BY <2>1, AnswersArrive
  <2>3. \A x \in net' : x \in net
    BY <2>1 DEF Arrived
  <2> QED  BY <2>1, <2>2, <2>3, NobodyGoes, NamedKeeps
<1>3. CASE OnInitiateMessage(m)
  <2> DEFINE p == Responder
  <2>1. /\ ~Misdirected(m) /\ m.type = "initiate" /\ session[p].state = "None"
        /\ \E st \in {"RECEIVEDINITIATE", "SENTREJECT"} : Goes(p, st)
        /\ Arrived(m, "result", {}) \/ Arrived(m, "result", {To(p, "reject")})
    BY <1>3, InitiateArrives
  <2>2. PICK st \in {"RECEIVEDINITIATE", "SENTREJECT"} : Goes(p, st)
    BY <2>1
  <2>3. /\ SessionsTyped' /\ \A q \in Peer : q # p => session'[q] = session[q]
        /\ session'[p].name = session[p].name /\ session'[p].acked = session[p].acked
        /\ session'[p].state = st
    BY <2>2 DEF Goes, Alone, Keeps
  <2>4. \A q \in Peer : session[q].name \in 0..1
    BY DEF Typed, SessionsTyped, SessionRecord
  <2>5. Forward
    <3> SUFFICES ASSUME NEW q \in Peer
                 PROVE  /\ Begun(q) => Begun(q)'
                        /\ Begun(q) /\ Exists(q)' => /\ Exists(q)
                                                     /\ session[q].name <= session'[q].name
      BY DEF Forward
    <3>1. CASE q = p
      BY <2>1, <2>3, <3>1 DEF Begun
    <3>2. CASE q # p
      BY <2>3, <2>4, <3>2 DEF Begun, Exists
    <3> QED  BY <3>1, <3>2
  <2>6. Roles'
    <3> SUFFICES ASSUME NEW q \in Peer
                 PROVE  RoleOK(q, session'[q].state) /\ session'[q].name <= Place(Other(q))
      BY DEF Roles, RoleOK, Place, Other
    <3>1. CASE q = p
      BY <1>1, <2>2, <2>3, <3>1 DEF Named, Roles, RoleOK
    <3>2. CASE q # p
      BY <2>3, <3>2 DEF Named, Roles
    <3> QED  BY <3>1, <3>2
  <2>7. Begun(p)'
    BY <2>3 DEF Begun
  <2>8. m.from = Initiator /\ Begun(Initiator) /\ m.name = Place(p)
    BY <1>1, <2>1, Sides DEF StanzaOK, Misdirected
  <2>9. Exists(Initiator) => session[Initiator].name = Place(p)
    <3>1. Exists(Initiator) => m.name <= session[Initiator].name
      BY <1>1, <2>8 DEF StanzaOK
    <3>2. session[Initiator].name <= Place(p) /\ Place(p) \in 0..1
      BY Sides, Names DEF Named, Roles, Typed
    <3> QED  BY <2>4, <2>8, <3>1, <3>2, <1>1
  <2>10. Met' /\ Acknowledged'
    BY <1>1, <2>3, <2>7, <2>8, <2>9 DEF Met, Acknowledged, Begun, Exists, Place
  <2>11. \A x \in net' : x \in net \/ StanzaOK(x)'
    <3>1. \A x \in net' : x \in net \/ x = To(p, "reject")
      BY <2>1 DEF Arrived
    <3>2. \A x : x = To(p, "reject") => StanzaOK(x)'
      BY <1>1, <2>3, <2>6, ToOK
    <3> QED  BY <3>1, <3>2
  <2>12. \A r \in back' : r \in back \/ AnswerOK(r)'
    BY <2>1, <2>7, AnswersArrive
  <2> QED  BY <2>3, <2>5, <2>6, <2>10, <2>11, <2>12, NamedKeeps
<1>4. CASE OnAcceptMessage(m)
  <2> DEFINE p == Initiator
  <2>1. /\ m.type = "accept" /\ session[p].state = "SENTINITIATE" /\ Alone(p)
        /\ session'[p].state = "RECEIVEDACCEPT" /\ session'[p].name = session[p].name
        /\ \E ms \in SUBSET Stanza : Releases(p, ms) /\ Arrived(m, "result", ms)
    BY <1>4, AcceptArrives
  <2>2. PICK ms \in SUBSET Stanza : Releases(p, ms) /\ Arrived(m, "result", ms)
    BY <2>1
  <2>3. Begun(Responder) /\ Exists(p)
    BY <1>1, <2>1 DEF StanzaOK, Exists
  <2>4. /\ SessionsTyped' /\ \A q \in Peer : q # p => session'[q] = session[q]
    BY <2>1 DEF Alone
  <2>5. \A q \in Peer : session[q].name \in 0..1
    BY DEF Typed, SessionsTyped, SessionRecord
  <2>6. Forward
    <3> SUFFICES ASSUME NEW q \in Peer
                 PROVE  /\ Begun(q) => Begun(q)'
                        /\ Begun(q) /\ Exists(q)' => /\ Exists(q)
                                                     /\ session[q].name <= session'[q].name
      BY DEF Forward
    <3>1. CASE q = p
      BY <2>1, <2>3, <2>5, <3>1 DEF Begun, Exists
    <3>2. CASE q # p
      BY <2>4, <2>5, <3>2 DEF Begun, Exists
    <3> QED  BY <3>1, <3>2
  <2>7. Roles'
    <3> SUFFICES ASSUME NEW q \in Peer
                 PROVE  RoleOK(q, session'[q].state) /\ session'[q].name <= Place(Other(q))
      BY DEF Roles, RoleOK, Place, Other
    <3>1. CASE q = p
      BY <2>1, <3>1 DEF Named, Roles, RoleOK
    <3>2. CASE q # p
      BY <2>4, <3>2 DEF Named, Roles
    <3> QED  BY <3>1, <3>2
  <2>8. Met' /\ Acknowledged'
    BY <1>1, <2>1, <2>3, <2>4 DEF Named, Met, Acknowledged, Begun, Exists, Place
  <2>9. \A x \in net' : x \in net \/ StanzaOK(x)'
    <3>1. \A x \in net' : x \in net \/ x \in ms
      BY <2>2 DEF Arrived
    <3>2. \A x \in ms : StanzaOK(x)'
      BY <2>1, <2>2, <2>3, <2>4, ReleasesOK
    <3> QED  BY <3>1, <3>2
  <2>10. \A r \in back' : r \in back \/ AnswerOK(r)'
    BY <2>1, <2>2, AnswersArrive
  <2> QED  BY <2>4, <2>6, <2>7, <2>8, <2>9, <2>10, NamedKeeps
<1>5. ASSUME NEW p \in Peer, NEW st \in {"RECEIVEDREJECT", "RECEIVEDTERMINATE"}, Goes(p, st),
             Exists(p), st = "RECEIVEDREJECT" => p = Initiator, m.type # "initiate",
             Arrived(m, "result", {})
      PROVE  Named'
  <2>1. Carries(p) /\ RoleOK(p, session'[p].state)
    BY <1>1, <1>5 DEF Goes, Carries, Keeps, RoleOK
  <2>2. \A r \in back' : r \in back \/ AnswerOK(r)'
    BY <1>5, AnswersArrive
  <2>3. \A x \in net' : x \in net
    BY <1>5 DEF Arrived
  <2> QED  BY <2>1, <2>2, <2>3, GoesOn, NamedKeeps
<1>6. CASE OnRejectMessage(m)
  <2>1. /\ m.type = "reject" /\ session[Initiator].state = "SENTINITIATE"
        /\ Goes(Initiator, "RECEIVEDREJECT") /\ Arrived(m, "result", {})
    BY <1>6, RejectArrives
  <2> QED  BY <1>1, <1>5, <2>1 DEF Exists
<1>7. CASE OnTerminateMessage(m)
  <2>1. /\ m.type = "terminate" /\ Exists(Other(m.from))
        /\ Goes(Other(m.from), "RECEIVEDTERMINATE") /\ Arrived(m, "result", {})
    BY <1>7, TerminateArrives
  <2> QED  BY <1>1, <1>5, <2>1, Sides
<1>8. CASE OnTransportInfoMessage(m)
  <2>1. m.type = "info" /\ Nobody /\ Arrived(m, "result", {})
    BY <1>8, InfoArrives
  <2>2. \A r \in back' : r \in back \/ AnswerOK(r)'
    BY <2>1, AnswersArrive
  <2>3. \A x \in net' : x \in net
    BY <2>1 DEF Arrived
  <2> QED  BY <2>1, <2>2, <2>3, NobodyGoes, NamedKeeps
<1> QED  BY <1>2, <1>3, <1>4, <1>6, <1>7, <1>8 DEF Deliver

\* the answers that arrive,
LEMMA AnsweredNamed ==
  ASSUME Typed, Named, NEW r \in back, Answered(r)  PROVE Named'
<1> DEFINE p == r.of.from
<1>1. /\ AnswerOK(r) /\ p \in Peer /\ r.of \in Stanza
      /\ Initiator \in Peer /\ Responder \in Peer /\ Initiator # Responder
  BY AnswerTyped, Sides DEF Named
<1>2. CASE OnOldAnswer(r)
  <2>1. Nobody /\ back' = back \ {r} /\ UNCHANGED net
    BY <1>2, OldAnswerIs
  <2> QED  BY <2>1, NobodyGoes, NamedKeeps
<1>3. CASE OnInitiateResponse(r)
  <2>1. /\ Ours(r) /\ r.kind = "result" /\ Alone(p) /\ session'[p].state = session[p].state
        /\ session'[p].name = session[p].name /\ back' = back \ {r}
        /\ \E ms \in SUBSET Stanza : Releases(p, ms) /\ net' = net \cup ms
    BY <1>3, InitiateResponseIs
  <2>2. PICK ms \in SUBSET Stanza : Releases(p, ms) /\ net' = net \cup ms
    BY <2>1
  <2>3. p = Initiator /\ Begun(Responder) /\ Exists(Initiator)
    BY <1>1, <2>1 DEF AnswerOK, Ours
  <2>4. SessionsTyped' /\ \A q \in Peer : q # Initiator => session'[q] = session[q]
    BY <2>1, <2>3 DEF Alone
  <2>5. /\ session'[Initiator].state = session[Initiator].state
        /\ session'[Initiator].name = session[Initiator].name
        /\ Releases(Initiator, ms)
    BY <2>1, <2>2, <2>3
  <2>6. \A q \in Peer : /\ session[q].name \in 0..1 /\ session'[q].state = session[q].state
                        /\ session'[q].name = session[q].name
    <3> TAKE q \in Peer
    <3>1. CASE q = Initiator
      BY <2>5, <3>1 DEF Typed, SessionsTyped, SessionRecord
    <3>2. CASE q # Initiator
      BY <2>4, <3>2 DEF Typed, SessionsTyped, SessionRecord
    <3> QED  BY <3>1, <3>2
  <2>7. Forward
    BY <2>6 DEF Forward, Begun, Exists
  <2>8. Roles'
    BY <2>6 DEF Named, Roles, RoleOK, Place, Other
  <2>9. Met' /\ Acknowledged'
    BY <1>1, <2>3, <2>6 DEF Named, Met, Acknowledged, Begun, Exists, Place
  <2>10. \A x \in net' : x \in net \/ StanzaOK(x)'
    <3>1. \A x \in ms : StanzaOK(x)'
      BY <2>3, <2>4, <2>5, ReleasesOK DEF Exists
    <3> QED  BY <2>2, <3>1
  <2>11. \A x \in back' : x \in back
    BY <2>1
  <2> QED  BY <2>4, <2>7, <2>8, <2>9, <2>10, <2>11, NamedKeeps
<1>4. CASE OnFailedSend(r) \/ OnLateRedirect(r)
  <2>1. Ours(r) /\ Fails(p, r)
    BY <1>4, FailedIs
  <2>2. /\ Alone(p) /\ Keeps(session[p], session'[p]) /\ session'[p].state = session[p].state
        /\ back' = back \ {r} /\ UNCHANGED net /\ Exists(p)
    BY <2>1 DEF Fails, Ours
  <2>3. Carries(p) /\ RoleOK(p, session'[p].state)
    BY <1>1, <2>2 DEF Carries, Keeps, Exists, Named, Roles
  <2> QED  BY <1>1, <2>2, <2>3, GoesOn, NamedKeeps
<1>5. CASE OnRedirectError(r)
  <2>1. /\ Ours(r) /\ r.kind = "redirect" /\ session[p].state = "SENTINITIATE" /\ Alone(p)
        /\ session'[p].state = session[p].state /\ session'[p].name = 1
        /\ session'[p].acked = session[p].acked /\ back' = back \ {r}
        /\ \E ms \in SUBSET Stanza :
             /\ net' = net \cup ms
             /\ \A m \in ms : m.from = p /\ m.name = 1 /\ m.type \in {"initiate", "info"}
    BY <1>5, RedirectErrorIs
  <2>2. PICK ms \in SUBSET Stanza :
             /\ net' = net \cup ms
             /\ \A m \in ms : m.from = p /\ m.name = 1 /\ m.type \in {"initiate", "info"}
    BY <2>1
  <2>3. p = Initiator /\ Place(Responder) = 1 /\ Exists(Initiator) /\ r.of.name = 0
    BY <1>1, <2>1 DEF AnswerOK, Ours
  <2>4. SessionsTyped' /\ \A q \in Peer : q # Initiator => session'[q] = session[q]
    BY <2>1, <2>3 DEF Alone
  <2>5. /\ session'[Initiator].state = "SENTINITIATE" /\ session'[Initiator].name = 1
        /\ session'[Initiator].acked = session[Initiator].acked
        /\ session[Initiator].state = "SENTINITIATE"
        /\ \A m \in ms : m.from = Initiator /\ m.name = 1 /\ m.type \in {"initiate", "info"}
    BY <2>1, <2>2, <2>3
  <2>6. \A q \in Peer : session[q].name \in 0..1
    BY DEF Typed, SessionsTyped, SessionRecord
  <2>7. Forward
    <3> SUFFICES ASSUME NEW q \in Peer
                 PROVE  /\ Begun(q) => Begun(q)'
                        /\ Begun(q) /\ Exists(q)' => /\ Exists(q)
                                                     /\ session[q].name <= session'[q].name
      BY DEF Forward
    <3>1. CASE q = Initiator
      BY <2>3, <2>5, <2>6, <3>1 DEF Begun, Exists
    <3>2. CASE q # Initiator
      BY <2>4, <2>6, <3>2 DEF Begun, Exists
    <3> QED  BY <3>1, <3>2
  <2>8. Roles'
    <3> SUFFICES ASSUME NEW q \in Peer
                 PROVE  RoleOK(q, session'[q].state) /\ session'[q].name <= Place(Other(q))
      BY DEF Roles, RoleOK, Place, Other
    <3>1. CASE q = Initiator
      BY <2>3, <2>5, <3>1, Sides DEF RoleOK
    <3>2. CASE q # Initiator
      BY <2>4, <3>2 DEF Named, Roles
    <3> QED  BY <3>1, <3>2
  <2>9. Met' /\ Acknowledged'
    BY <1>1, <2>3, <2>4, <2>5 DEF Named, Met, Acknowledged, Begun, Exists, Place
  <2>10. \A x \in net' : x \in net \/ StanzaOK(x)'
    <3> SUFFICES ASSUME NEW x \in ms  PROVE StanzaOK(x)'
      BY <2>2
    <3>1. x.from = Initiator /\ x.name = 1 /\ x.type \in {"initiate", "info"}
      BY <2>5
    <3> QED  BY <2>3, <2>5, <3>1, Sides DEF StanzaOK, Begun, Exists, Misdirected, Place
  <2>11. \A x \in back' : x \in back
    BY <2>1
  <2> QED  BY <2>4, <2>7, <2>8, <2>9, <2>10, <2>11, NamedKeeps
<1> QED  BY <1>2, <1>3, <1>4, <1>5 DEF Answered

\* what the session posted to itself, and the timer,
LEMMA OwnNamed ==
  ASSUME Typed, Named, NEW p \in Peer, Own(p) \/ OnTimeout(p)  PROVE Named'
<1>1. ASSUME Exists(p), Alone(p), session'[p].state # "None", RoleOK(p, session'[p].state),
             \/ session'[p].name = session[p].name /\ session'[p].acked = session[p].acked
             \/ session'[p].state = "Gone" /\ session'[p].name = 0 /\ ~session'[p].acked,
             UNCHANGED <<net, back>>
      PROVE  Named'
  <2>1. Carries(p)
    BY <1>1 DEF Carries
  <2> QED  BY <1>1, <2>1, GoesOn, NamedKeeps
<1>2. CASE OnState(p)
  <2>1. /\ Exists(p) /\ UNCHANGED <<net, back>>
        /\ \/ session[p].state \in {"SENTACCEPT", "RECEIVEDACCEPT"} /\ Takes(p, "INPROGRESS")
           \/ Takes(p, "SENTTERMINATE")
           \/ Alone(p) /\ session'[p] = [NoSession EXCEPT !.state = "Gone"]
           \/ Takes(p, session[p].state)
    BY <1>2, StateIs
  <2>2. CASE \E st \in {"INPROGRESS", "SENTTERMINATE", session[p].state} : Takes(p, st)
    <3>1. /\ Alone(p) /\ session'[p].name = session[p].name
          /\ session'[p].acked = session[p].acked
          /\ session'[p].state \in {"INPROGRESS", "SENTTERMINATE", session[p].state}
      BY <2>2 DEF Takes
    <3> QED  BY <1>1, <2>1, <3>1 DEF Named, Roles, RoleOK, Exists
  <2>3. CASE Alone(p) /\ session'[p] = [NoSession EXCEPT !.state = "Gone"]
    <3>1. /\ session'[p].state = "Gone" /\ session'[p].name = 0 /\ session'[p].acked = FALSE
      BY <2>3 DEF NoSession
    <3> QED  BY <1>1, <2>1, <2>3, <3>1 DEF RoleOK
  <2> QED  BY <2>1, <2>2, <2>3
<1>3. CASE OnError(p)
  BY <1>3, ErrorIs, EndsNamed
<1>4. CASE OnTimeout(p)
  <2>1. /\ Exists(p) /\ Alone(p) /\ session'[p].state = session[p].state
        /\ session'[p].name = session[p].name /\ session'[p].acked = session[p].acked
        /\ UNCHANGED <<net, back>>
    BY <1>4, TimeoutIs
  <2> QED  BY <1>1, <2>1 DEF Named, Roles, Exists
<1> QED  BY <1>2, <1>3, <1>4 DEF Own

\* and a loss.
LEMMA FaultNamed ==
  ASSUME Typed, Named, NEW m \in net, LoseStanza(m)  PROVE Named'
<1>1. /\ Nobody /\ net' = net \ {m} /\ \A r \in back' : r \in back \/ r.kind = "error"
  BY LoseIs
<1>2. \A r \in back' : r \in back \/ AnswerOK(r)'
  BY <1>1 DEF AnswerOK
<1> QED  BY <1>1, <1>2, NobodyGoes, NamedKeeps

LEMMA InitNamed == Init => Named
<1> SUFFICES ASSUME Init  PROVE Named
  OBVIOUS
<1>1. \A p \in Peer : session[p].state = "None" /\ session[p].name = 0 /\ ~session[p].acked
  BY DEF Init, NoSession
<1>2. Roles
  BY <1>1 DEF Roles, RoleOK, Place
<1>3. Met /\ Acknowledged
  BY <1>1, Sides DEF Met, Acknowledged, Begun
<1> QED  BY <1>2, <1>3 DEF Named, Init

\* Every step keeps that.
LEMMA NamedStep == ASSUME Typed, Named, Next  PROVE Named'
BY UsersNamed, TransportsNamed, DeliverNamed, AnsweredNamed, FaultNamed, OwnNamed
   DEF Next, Transports, Network, Faults

----------------------------------------------------------------------------
(* Candidates.                                                             *)

\* Candidate k of p is held back, on its way, or with the other side.
Reached(p, t, k) ==
  \/ k \in proxy[p][t].unsent \cup proxy[Other(p)][t].got
  \/ \E m \in net : m.type = "info" /\ m.from = p /\ m.content = t /\ k \in m.cands

\* Until the initiate is acknowledged, the initiator holds all of its candidates back; a side
\* without a session has none.
HeldBack ==
  /\ \A p \in Peer, t \in Content : ~Begun(p) => proxy[p][t].made = 0
  /\ Exists(Initiator) /\ ~session[Initiator].acked =>
       \A t \in Content : \A k \in 1..proxy[Initiator][t].made : k \in proxy[Initiator][t].unsent

CandidatesOK == HeldBack /\ CandidatesReach

LEMMA MadeIs ==
  ASSUME Typed  PROVE \A p \in Peer, t \in Content : proxy[p][t].made \in Nat
BY ConstantsOK DEF Typed, RestTyped, Proxy

\* A step that forgets no candidate of a side that has its session.
LEMMA ReachKeeps ==
  ASSUME CandidatesReach,
         fails' = 0 /\ (\A p \in Peer : Exists(p)') =>
           /\ fails = 0 /\ \A p \in Peer : Exists(p)
           /\ \A p \in Peer, t \in Content : \A k \in 1..proxy'[p][t].made :
                \/ k \in 1..proxy[p][t].made /\ (Reached(p, t, k) => Reached(p, t, k)')
                \/ Reached(p, t, k)'
  PROVE  CandidatesReach'
<1> SUFFICES ASSUME fails' = 0, \A p \in Peer : Exists(p)'
             PROVE  \A p \in Peer, t \in Content : \A k \in 1..proxy'[p][t].made : Reached(p, t, k)'
  BY DEF CandidatesReach, Reached
<1>1. \A p \in Peer, t \in Content : \A k \in 1..proxy[p][t].made : Reached(p, t, k)
  BY DEF CandidatesReach, Reached
<1> QED  BY <1>1

\* Most steps keep the candidates, and those on their way.
Calm == /\ \A p \in Peer, t \in Content : /\ proxy'[p][t].made = proxy[p][t].made
                                          /\ proxy[p][t].unsent = proxy'[p][t].unsent
                                          /\ proxy[p][t].got \subseteq proxy'[p][t].got
        /\ \A m \in net : m.type = "info" => m \in net'
        /\ fails' = 0 => fails = 0

\* None of them begins a session, or acknowledges it.
LEMMA CalmKeeps ==
  ASSUME CandidatesOK, Calm, \A p \in Peer : Exists(p)' => Exists(p),
         \A p \in Peer : Begun(p) => Begun(p)',
         Exists(Initiator)' /\ ~session'[Initiator].acked => ~session[Initiator].acked
  PROVE  CandidatesOK'
<1>1. HeldBack'
  BY Sides DEF CandidatesOK, HeldBack, Calm
<1>2. \A p \in Peer, t \in Content : \A k : Reached(p, t, k) => Reached(p, t, k)'
  BY Sides DEF Reached, Calm
<1>3. CandidatesReach'
  BY <1>2, ReachKeeps DEF CandidatesOK, Calm
<1> QED  BY <1>1, <1>3 DEF CandidatesOK

\* The steps of the users.
LEMMA UsersReach ==
  ASSUME Typed, Named, CandidatesOK, Users  PROVE CandidatesOK'
<1>1. CASE Initiate
  <2>1. /\ session[Initiator].state = "None" /\ session'[Initiator].state = "SENTINITIATE"
        /\ Alone(Initiator) /\ AllConnect(Initiator)
    BY <1>1, InitiateIs
  <2>2. ~Begun(Responder)
    BY <2>1 DEF Named, Met, Begun
  <2>3. ~Exists(Responder)' /\ session'[Responder] = session[Responder]
    BY <2>1, <2>2, Sides DEF Alone, Begun, Exists
  <2>4. \A p \in Peer, t \in Content : proxy'[p][t].made = proxy[p][t].made
    BY <2>1 DEF AllConnect, Connects
  <2>5. \A t \in Content : proxy'[Initiator][t].made = 0 /\ proxy'[Responder][t].made = 0
    BY <2>1, <2>2, <2>4, Sides DEF CandidatesOK, HeldBack, Begun
  <2>6. HeldBack'
    <3>1. \A t \in Content : 1..proxy'[Initiator][t].made = {}
      BY <2>5
    <3> QED  BY <2>5, <3>1, Sides DEF HeldBack
  <2>7. CandidatesReach'
    BY <2>3, Sides, ReachKeeps DEF CandidatesOK
  <2> QED  BY <2>6, <2>7 DEF CandidatesOK
<1>2. ASSUME NEW p \in Peer, Exists(p), Alone(p), session'[p].state # "None",
             session'[p].acked = session[p].acked, net \subseteq net', UNCHANGED fails,
             \A q \in Peer, t \in Content : Connects(q, t)
      PROVE  CandidatesOK'
  <2>1. Calm
    BY <1>2 DEF Calm, Connects
  <2>2. \A q \in Peer : q # p => session'[q] = session[q]
    BY <1>2 DEF Alone
  <2>3. \A q \in Peer : (Exists(q)' => Exists(q)) /\ (Begun(q) => Begun(q)')
    BY <1>2, <2>2 DEF Exists, Begun
  <2>4. session'[Initiator].acked = session[Initiator].acked
    BY <1>2, <2>2, Sides
  <2> QED  BY <2>1, <2>3, <2>4, CalmKeeps
<1>3. ASSUME NEW p \in Peer, Accept(p)  PROVE CandidatesOK'
  BY <1>2, <1>3, AcceptIs DEF Exists, Keeps, AllConnect
<1>4. ASSUME NEW p \in Peer, Reject(p)  PROVE CandidatesOK'
  BY <1>2, <1>4, RejectIs, NoProxy DEF Exists, Keeps
<1>5. ASSUME NEW p \in Peer, Terminate(p)  PROVE CandidatesOK'
  <2>1. /\ Exists(p) /\ Alone(p) /\ session'[p].state \in Ending /\ UNCHANGED <<proxy, fails>>
        /\ session'[p].acked = session[p].acked /\ net \subseteq net'
    BY <1>5, TerminateIs DEF Ends
  <2> QED  BY <1>2, <2>1, NoProxy DEF Ending
<1> QED  BY <1>1, <1>3, <1>4, <1>5 DEF Users

\* The steps of the transports.
LEMMA TransportsReach ==
  ASSUME Typed, Named, CandidatesOK, NEW p \in Peer, NEW t \in Content,
         OnTransportConnecting(p, t) \/ OnTransportWritable(p, t) \/ OnCandidatesReady(p, t)
  PROVE  CandidatesOK'
<1>1. CASE Watches(p, t)
  <2>1. /\ Alone(p) /\ session'[p].state = session[p].state
        /\ session'[p].acked = session[p].acked /\ UNCHANGED <<net, fails>>
        /\ \A q \in Peer, u \in Content :
             /\ proxy'[q][u].made = proxy[q][u].made /\ proxy'[q][u].unsent = proxy[q][u].unsent
             /\ proxy'[q][u].got = proxy[q][u].got
    BY <1>1 DEF Watches
  <2>2. Calm
    BY <2>1 DEF Calm
  <2>3. \A q \in Peer : session'[q].state = session[q].state /\ session'[q].acked = session[q].acked
    BY <2>1 DEF Alone
  <2> QED  BY <2>2, <2>3, Sides, CalmKeeps DEF Exists, Begun
<1>2. CASE OnCandidatesReady(p, t)
  <2>1. PICK k, m : k = proxy[p][t].made + 1 /\ m = Info(p, session[p].name, t, {k})
    OBVIOUS
  <2>2. /\ Exists(p) /\ UNCHANGED <<session, fails>>
        /\ \A q \in Peer, u \in Content :
             /\ q # p \/ u # t => proxy'[q][u] = proxy[q][u]
             /\ proxy'[q][u].got = proxy[q][u].got
        /\ proxy'[p][t].made = k /\ k \in Cand
        /\ \/ /\ p = Initiator /\ ~session[p].acked /\ UNCHANGED net
              /\ proxy'[p][t].unsent = proxy[p][t].unsent \cup {k}
           \/ /\ p # Initiator \/ session[p].acked
              /\ net' = net \cup {m}
              /\ proxy'[p][t].unsent = proxy[p][t].unsent
    <3>1. proxy[p][t].made + 1 = k /\ Info(p, session[p].name, t, {k}) = m
      BY <2>1
    <3> QED  BY <1>2, <3>1, CandidateIs, SMTT(30)
  <2>3. \A j \in 1..k : j \in 1..proxy[p][t].made \/ j = k
    BY <2>1, MadeIs
  <2>4. session[p].name \in 0..1 /\ {k} \in SUBSET Cand
    BY <2>2, Names DEF Typed
  <2>5. m.type = "info" /\ m.from = p /\ m.content = t /\ m.cands = {k}
    BY <2>1, <2>4, StanzaTyped DEF Typed
  <2>6. Reached(p, t, k)'
    <3>1. CASE k \in proxy'[p][t].unsent
      BY <3>1 DEF Reached
    <3>2. CASE m \in net'
      BY <2>5, <3>2 DEF Reached
    <3> QED  BY <2>2, <3>1, <3>2
  <2>7. /\ net \subseteq net' /\ \A q \in Peer, u \in Content :
             /\ proxy[q][u].unsent \subseteq proxy'[q][u].unsent
             /\ proxy'[q][u].got = proxy[q][u].got
    <3>1. net \subseteq net' /\ proxy[p][t].unsent \subseteq proxy'[p][t].unsent
      BY <2>2
    <3>2. \A q \in Peer, u \in Content : q # p \/ u # t => proxy'[q][u] = proxy[q][u]
      BY <2>2
    <3>3. \A q \in Peer, u \in Content : proxy'[q][u].got = proxy[q][u].got
      BY <2>2
    <3>4. ASSUME NEW q \in Peer, NEW u \in Content
          PROVE  proxy[q][u].unsent \subseteq proxy'[q][u].unsent
      BY <3>1, <3>2
    <3> QED  BY <3>1, <3>3, <3>4
  <2>8. \A q \in Peer, u \in Content : \A j : Reached(q, u, j) => Reached(q, u, j)'
    BY <2>7, Sides DEF Reached
  <2>9. \A q \in Peer, u \in Content : \A j \in 1..proxy'[q][u].made :
          j \in 1..proxy[q][u].made \/ (q = p /\ u = t /\ j = k)
    <3> TAKE q \in Peer, u \in Content
    <3>1. CASE q = p /\ u = t
      BY <2>2, <2>3, <3>1
    <3>2. CASE q # p \/ u # t
      BY <2>2, <3>2
    <3> QED  BY <3>1, <3>2
  <2>10. CandidatesReach'
    <3>1. \A q \in Peer, u \in Content : \A j \in 1..proxy'[q][u].made :
            \/ j \in 1..proxy[q][u].made /\ (Reached(q, u, j) => Reached(q, u, j)')
            \/ Reached(q, u, j)'
      BY <2>6, <2>8, <2>9
    <3>2. fails' = fails /\ \A q \in Peer : Exists(q)' = Exists(q)
      BY <2>2 DEF Exists
    <3> QED  BY <3>1, <3>2, ReachKeeps DEF CandidatesOK
  <2>11. HeldBack'
    <3>1. \A q \in Peer, u \in Content : ~Begun(q)' => proxy'[q][u].made = 0
      <4> TAKE q \in Peer, u \in Content
      <4>1. CASE q = p
        BY <2>2, <4>1 DEF Exists, Begun
      <4>2. CASE q # p
        BY <2>2, <4>2 DEF CandidatesOK, HeldBack, Begun
      <4> QED  BY <4>1, <4>2
    <3>2. ASSUME Exists(Initiator)', ~session'[Initiator].acked, NEW u \in Content,
                 NEW j \in 1..proxy'[Initiator][u].made
          PROVE  j \in proxy'[Initiator][u].unsent
      <4>1. Exists(Initiator) /\ ~session[Initiator].acked
        BY <2>2, <3>2 DEF Exists
      <4>2. CASE j \in 1..proxy[Initiator][u].made
        <5>1. j \in proxy[Initiator][u].unsent
          BY <4>1, <4>2 DEF CandidatesOK, HeldBack
        <5> QED  BY <2>7, <5>1, Sides
      <4>3. CASE Initiator = p /\ u = t /\ j = k
        BY <2>2, <4>1, <4>3
      <4> QED  BY <2>9, <4>2, <4>3, Sides
    <3> QED  BY <3>1, <3>2 DEF HeldBack
  <2> QED  BY <2>10, <2>11 DEF CandidatesOK
<1> QED  BY <1>1, <1>2, ConnectingIs, WritableIs

\* The candidates held back are sent when the initiate is acknowledged.
LEMMA ReleaseKeeps ==
  ASSUME CandidatesOK, NEW ms, Opens(Initiator), Releases(Initiator, ms), ms \subseteq net',
         \A m \in net : m.type = "info" => m \in net', fails' = 0 => fails = 0,
         \A p \in Peer : Exists(p)' => Exists(p), \A p \in Peer : Begun(p) => Begun(p)',
         session'[Initiator].acked
  PROVE  CandidatesOK'
<1>1. HeldBack'
  BY Sides DEF CandidatesOK, HeldBack, Opens
<1>2. \A p \in Peer, t \in Content : \A k : Reached(p, t, k) => Reached(p, t, k)'
  <2> SUFFICES ASSUME NEW p \in Peer, NEW t \in Content, NEW k, Reached(p, t, k)
               PROVE  Reached(p, t, k)'
    OBVIOUS
  <2>1. CASE k \in proxy[p][t].unsent
    <3>1. CASE p # Initiator \/ session[Initiator].acked
      BY <2>1, <3>1 DEF Reached, Opens
    <3>2. CASE p = Initiator /\ ~session[Initiator].acked
      <4>1. PICK m \in ms : m.type = "info" /\ m.from = p /\ m.content = t /\ k \in m.cands
        BY <2>1, <3>2 DEF Releases
      <4> QED  BY <4>1 DEF Reached
    <3> QED  BY <3>1, <3>2
  <2>2. CASE k \in proxy[Other(p)][t].got
    BY <2>2, Sides DEF Reached, Opens
  <2>3. CASE \E m \in net : m.type = "info" /\ m.from = p /\ m.content = t /\ k \in m.cands
    BY <2>3 DEF Reached
  <2> QED  BY <2>1, <2>2, <2>3 DEF Reached
<1>3. \A p \in Peer, t \in Content : proxy'[p][t].made = proxy[p][t].made
  BY DEF Opens
<1>4. CandidatesReach'
  BY <1>2, <1>3, ReachKeeps DEF CandidatesOK
<1> QED  BY <1>1, <1>4 DEF CandidatesOK

\* What a stanza leaves on its way.
LEMMA InfosStay ==
  ASSUME NEW m, NEW kind, NEW ms, Arrived(m, kind, ms), m.type # "info"
  PROVE  /\ \A x \in net : x.type = "info" => x \in net'
         /\ ms \subseteq net' /\ (fails' = 0 => fails = 0)
BY DEF Arrived

\* The stanzas that arrive.
LEMMA DeliverReach ==
  ASSUME Typed, Named, CandidatesOK, NEW m \in net, Deliver(m)  PROVE CandidatesOK'
<1>1. CASE Redirect(m) \/ UnknownSession(m) \/ OnUnexpectedMessage(m)
  <2>1. Nobody /\ UNCHANGED proxy
    BY <1>1, StrayIs
  <2>2. \A q \in Peer : session'[q] = session[q]
    BY <2>1 DEF Nobody
  <2>3. CASE m.type # "info"
    <3>1. Calm
      BY <1>1, <2>1, <2>3, StrayIs, InfosStay DEF Calm
    <3> QED  BY <2>2, <3>1, Sides, CalmKeeps DEF Exists, Begun
  <2>4. CASE m.type = "info"
    <3>1. ~Exists(Other(m.from))
      BY <1>1, <2>4, StrayIs DEF Named, StanzaOK
    <3>2. Other(m.from) \in Peer /\ ~Exists(Other(m.from))'
      BY <2>2, <3>1, Sides DEF Exists
    <3>3. CandidatesReach'
      BY <3>2 DEF CandidatesReach
    <3>4. HeldBack'
      BY <2>1, <2>2, Sides DEF CandidatesOK, HeldBack, Begun, Exists
    <3> QED  BY <3>3, <3>4 DEF CandidatesOK
  <2> QED  BY <2>3, <2>4
<1>2. CASE OnInitiateMessage(m)
  <2>1. /\ m.type = "initiate" /\ session[Responder].state = "None" /\ Alone(Responder)
        /\ \A q \in Peer, t \in Content :
             proxy'[q][t].made = proxy[q][t].made /\ proxy'[q][t].unsent = proxy[q][t].unsent
    BY <1>2, InitiateArrives DEF Goes, AllConnect, Connects
  <2>2. ~Begun(Responder) /\ session'[Initiator] = session[Initiator]
    BY <2>1, Sides DEF Alone, Begun
  <2>3. ~session[Initiator].acked
    BY <2>2 DEF Named, Acknowledged
  <2>4. \A t \in Content : proxy'[Responder][t].made = 0
    BY <2>1, <2>2, Sides DEF CandidatesOK, HeldBack
  <2>5. HeldBack'
    BY <2>1, <2>2, <2>4, Sides DEF CandidatesOK, HeldBack, Begun, Exists
  <2>6. CandidatesReach'
    <3> SUFFICES ASSUME Exists(Initiator)'
                 PROVE  \A p \in Peer, t \in Content :
                          \A k \in 1..proxy'[p][t].made : k \in proxy'[p][t].unsent
      BY Sides DEF CandidatesReach
    <3>1. \A t \in Content : \A k \in 1..proxy'[Initiator][t].made : k \in proxy'[Initiator][t].unsent
      BY <2>2, <2>3, <2>5 DEF HeldBack
    <3>2. \A t \in Content : 1..proxy'[Responder][t].made = {}
      BY <2>4
    <3> QED  BY <3>1, <3>2, Sides
  <2> QED  BY <2>5, <2>6 DEF CandidatesOK
<1>3. CASE OnAcceptMessage(m)
  <2>1. /\ m.type = "accept" /\ Alone(Initiator) /\ Opens(Initiator)
        /\ session[Initiator].state = "SENTINITIATE"
        /\ session'[Initiator].state = "RECEIVEDACCEPT" /\ session'[Initiator].acked
        /\ \E ms \in SUBSET Stanza : Releases(Initiator, ms) /\ Arrived(m, "result", ms)
    BY <1>3, AcceptArrives
  <2>2. PICK ms \in SUBSET Stanza : Releases(Initiator, ms) /\ Arrived(m, "result", ms)
    BY <2>1
  <2>3. \A x \in net : x.type = "info" => x \in net'
    BY <2>1, <2>2, InfosStay
  <2>4. ms \subseteq net' /\ (fails' = 0 => fails = 0)
    BY <2>1, <2>2, InfosStay
  <2>5. \A q \in Peer : (Exists(q)' => Exists(q)) /\ (Begun(q) => Begun(q)')
    BY <2>1 DEF Alone, Exists, Begun
  <2> QED  BY <2>1, <2>2, <2>3, <2>4, <2>5, ReleaseKeeps
<1>4. ASSUME NEW p \in Peer, NEW st, Goes(p, st), st # "None", Exists(p), UNCHANGED proxy,
             Arrived(m, "result", {}), m.type # "info"
      PROVE  CandidatesOK'
  <2>1. Calm
    BY <1>4, InfosStay DEF Calm
  <2>2. /\ \A q \in Peer : q # p => session'[q] = session[q]
        /\ session'[p].acked = session[p].acked /\ session'[p].state # "None"
    BY <1>4 DEF Goes, Keeps, Alone
  <2>3. \A q \in Peer : (Exists(q)' => Exists(q)) /\ (Begun(q) => Begun(q)')
    BY <1>4, <2>2 DEF Exists, Begun
  <2>4. session'[Initiator].acked = session[Initiator].acked
    BY <2>2, Sides
  <2> QED  BY <2>1, <2>3, <2>4, CalmKeeps
<1>5. CASE OnRejectMessage(m)
  BY <1>4, <1>5, Sides, RejectArrives DEF Exists
<1>6. CASE OnTerminateMessage(m)
  BY <1>4, <1>6, Sides, TerminateArrives
<1>7. CASE OnTransportInfoMessage(m)
  <2>1. /\ m.type = "info" /\ Nobody /\ Arrived(m, "result", {})
        /\ \A q \in Peer, t \in Content :
              /\ proxy'[q][t].made = proxy[q][t].made
              /\ proxy'[q][t].unsent = proxy[q][t].unsent
              /\ proxy[q][t].got \subseteq proxy'[q][t].got
        /\ m.cands \subseteq proxy'[Other(m.from)][m.content].got
    BY <1>7, InfoArrives
  <2>2. \A q \in Peer : session'[q] = session[q]
    BY <2>1 DEF Nobody
  <2>3. HeldBack'
    BY <2>1, <2>2, Sides DEF CandidatesOK, HeldBack, Exists, Begun
  <2>4. net' = net \ {m} /\ (fails' = 0 => fails = 0)
    BY <2>1 DEF Arrived
  <2>5. \A p \in Peer, t \in Content : \A k : Reached(p, t, k) => Reached(p, t, k)'
    <3> SUFFICES ASSUME NEW p \in Peer, NEW t \in Content, NEW k, Reached(p, t, k)
                 PROVE  Reached(p, t, k)'
      OBVIOUS
    <3>1. CASE k \in proxy[p][t].unsent \cup proxy[Other(p)][t].got
      BY <2>1, <3>1, Sides DEF Reached
    <3>2. CASE \E x \in net : x.type = "info" /\ x.from = p /\ x.content = t /\ k \in x.cands
      <4>1. PICK x \in net : x.type = "info" /\ x.from = p /\ x.content = t /\ k \in x.cands
        BY <3>2
      <4>2. CASE x = m
        BY <2>1, <4>1, <4>2 DEF Reached
      <4>3. CASE x # m
        BY <2>4, <4>1, <4>3 DEF Reached
      <4> QED  BY <4>2, <4>3
    <3> QED  BY <3>1, <3>2 DEF Reached
  <2>6. CandidatesReach'
    BY <2>1, <2>2, <2>4, <2>5, ReachKeeps DEF CandidatesOK, Exists
  <2> QED  BY <2>3, <2>6 DEF CandidatesOK
<1> QED  BY <1>1, <1>2, <1>3, <1>5, <1>6, <1>7 DEF Deliver

\* A step that changes the session of p, which it has, but not its acknowledgement.
LEMMA CalmGoesOn ==
  ASSUME CandidatesOK, Calm, NEW p \in Peer, Exists(p), session'[p].state # "None",
         session'[p].acked = session[p].acked,
         \A q \in Peer : q # p => session'[q] = session[q]
  PROVE  CandidatesOK'
<1>1. \A q \in Peer : (Exists(q)' => Exists(q)) /\ (Begun(q) => Begun(q)')
  BY DEF Exists, Begun
<1>2. session'[Initiator].acked = session[Initiator].acked
  BY Sides
<1> QED  BY <1>1, <1>2, CalmKeeps

\* The answers that arrive.
LEMMA AnsweredReach ==
  ASSUME Typed, Named, CandidatesOK, NEW r \in back, Answered(r)  PROVE CandidatesOK'
<1>1. CASE OnOldAnswer(r)
  <2>1. Nobody /\ UNCHANGED <<proxy, net, fails>>
    BY <1>1, OldAnswerIs
  <2>2. Calm
    BY <2>1 DEF Calm
  <2> QED  BY <2>1, <2>2, Sides, CalmKeeps DEF Nobody, Exists, Begun
<1>2. CASE OnInitiateResponse(r)
  <2>1. LET p == r.of.from
        IN /\ r.kind = "result" /\ Alone(p) /\ session'[p].state = session[p].state
           /\ session'[p].acked /\ Opens(p) /\ UNCHANGED fails
           /\ \E ms \in SUBSET Stanza : Releases(p, ms) /\ net' = net \cup ms
    BY <1>2, InitiateResponseIs
  <2>2. r.of.from = Initiator
    BY <2>1 DEF Named, AnswerOK
  <2>3. /\ Alone(Initiator) /\ session'[Initiator].state = session[Initiator].state
        /\ session'[Initiator].acked /\ Opens(Initiator) /\ fails' = fails
        /\ \E ms \in SUBSET Stanza : Releases(Initiator, ms) /\ net' = net \cup ms
    BY <2>1, <2>2
  <2>4. PICK ms \in SUBSET Stanza : Releases(Initiator, ms) /\ net' = net \cup ms
    BY <2>3
  <2>5. \A q \in Peer : (Exists(q)' => Exists(q)) /\ (Begun(q) => Begun(q)')
    BY <2>3 DEF Alone, Exists, Begun
  <2> QED  BY <2>3, <2>4, <2>5, ReleaseKeeps
<1>3. ASSUME NEW p \in Peer, p = r.of.from, Exists(p), Alone(p), session'[p].state # "None",
             session'[p].acked = session[p].acked, net \subseteq net', UNCHANGED fails,
             \A q \in Peer, t \in Content : Connects(q, t)
      PROVE  CandidatesOK'
  <2>1. Calm
    BY <1>3 DEF Calm, Connects
  <2> QED  BY <1>3, <2>1, CalmGoesOn DEF Alone
<1>4. r.of.from \in Peer
  BY AnswerTyped
<1>5. CASE OnFailedSend(r) \/ OnLateRedirect(r)
  <2>1. Ours(r) /\ Fails(r.of.from, r)
    BY <1>5, FailedIs
  <2> QED  BY <1>3, <1>4, <2>1, NoProxy DEF Fails, Keeps, Ours, Exists
<1>6. CASE OnRedirectError(r)
  <2>1. LET p == r.of.from
        IN /\ Ours(r) /\ Alone(p) /\ session'[p].state = session[p].state
           /\ session'[p].acked = session[p].acked /\ UNCHANGED fails
           /\ \A q \in Peer, t \in Content : Connects(q, t)
           /\ \E ms \in SUBSET Stanza : net' = net \cup ms
    BY <1>6, RedirectErrorIs
  <2> QED  BY <1>3, <1>4, <2>1 DEF Ours, Exists
<1> QED  BY <1>1, <1>2, <1>5, <1>6 DEF Answered

\* The session's own messages, and its timer.
LEMMA OwnReach ==
  ASSUME Typed, Named, CandidatesOK, NEW p \in Peer, Own(p) \/ OnTimeout(p)  PROVE CandidatesOK'
<1>1. ASSUME Exists(p), Alone(p), session'[p].state # "None", UNCHANGED <<proxy, fails>>,
             session'[p].acked = session[p].acked, net \subseteq net'
      PROVE  CandidatesOK'
  <2>1. Calm
    BY <1>1 DEF Calm
  <2> QED  BY <1>1, <2>1, CalmGoesOn DEF Alone
<1>2. CASE OnTimeout(p)
  BY <1>1, <1>2, TimeoutIs DEF Exists
<1>3. CASE OnError(p)
  BY <1>1, <1>3, ErrorIs DEF Ends, Ending
<1>4. ASSUME OnState(p), NEW st, Takes(p, st), st # "None"  PROVE CandidatesOK'
  <2>1. Exists(p) /\ UNCHANGED <<net, fails>>
    BY <1>4, StateIs
  <2> QED  BY <1>1, <1>4, <2>1 DEF Takes
<1>5. CASE /\ Alone(p) /\ session'[p] = [NoSession EXCEPT !.state = "Gone"]
           /\ \A t \in Content : proxy'[p][t] = Unconnected
           /\ \A q \in Peer : q # p => proxy'[q] = proxy[q]
  <2>1. ~Exists(p)' /\ Begun(p)' /\ \A q \in Peer : q # p => session'[q] = session[q]
    BY <1>5 DEF Exists, Begun, Alone, NoSession
  <2>2. CandidatesReach'
    BY <2>1 DEF CandidatesReach
  <2>3. \A t \in Content : proxy'[p][t].made = 0
    BY <1>5 DEF Unconnected
  <2>4. \A q \in Peer, t \in Content : ~Begun(q)' => proxy'[q][t].made = 0
    BY <1>5, <2>1, <2>3 DEF CandidatesOK, HeldBack, Begun
  <2>5. Exists(Initiator)' /\ ~session'[Initiator].acked =>
          \A t \in Content : \A k \in 1..proxy'[Initiator][t].made : k \in proxy'[Initiator][t].unsent
    BY <1>5, <2>1, Sides DEF CandidatesOK, HeldBack, Exists
  <2> QED  BY <2>2, <2>4, <2>5 DEF CandidatesOK, HeldBack
<1>6. CASE OnState(p)
  BY <1>4, <1>5, <1>6, StateIs DEF Exists
<1> QED  BY <1>2, <1>3, <1>6 DEF Own

\* A stanza that is lost.
LEMMA FaultReach ==
  ASSUME Typed, CandidatesOK, NEW m \in net, LoseStanza(m)  PROVE CandidatesOK'
<1>1. Nobody /\ UNCHANGED proxy /\ fails' # 0
  BY LoseIs
<1>2. HeldBack'
  BY <1>1, Sides DEF CandidatesOK, HeldBack, Nobody, Exists, Begun
<1> QED  BY <1>1, <1>2 DEF CandidatesOK, CandidatesReach

LEMMA InitReach == Init => CandidatesOK
<1> SUFFICES ASSUME Init  PROVE CandidatesOK
  OBVIOUS
<1>1. \A p \in Peer, t \in Content : proxy[p][t].made = 0
  BY DEF Init, Unconnected
<1>2. ~Exists(Initiator)
  BY Sides DEF Init, Exists, NoSession
<1> QED  BY <1>1, <1>2, Sides DEF CandidatesOK, HeldBack, CandidatesReach

LEMMA ReachStep == ASSUME Typed, Named, CandidatesOK, Next  PROVE CandidatesOK'
BY UsersReach, TransportsReach, DeliverReach, AnsweredReach, FaultReach, OwnReach
   DEF Next, Transports, Network, Faults

LEMMA NamedStutter ==
  ASSUME UNCHANGED vars  PROVE (Named => Named') /\ (CandidatesOK => CandidatesOK')
BY DEF vars, Named, Roles, RoleOK, Met, Acknowledged, StanzaOK, AnswerOK, Begun, Exists, Misdirected,
       CandidatesOK, HeldBack, CandidatesReach

\* While both sides have the session and nothing was lost, every candidate is held back, on its
\* way to the name the other has, or with the other side: OnTransportProxyCandidatesReady holds
\* them back until the initiate is acknowledged, and a redirection comes before that.
THEOREM EveryCandidateReaches == Spec => []CandidatesReach
<1>1. Init => Typed /\ Named /\ CandidatesOK
  BY InitTyped, InitNamed, InitReach
<1>2. Typed /\ Named /\ CandidatesOK /\ [Next]_vars => (Typed /\ Named /\ CandidatesOK)'
  BY TypedStep, TypedStutter, NamedStep, ReachStep, NamedStutter
<1>3. CandidatesOK => CandidatesReach
  BY DEF CandidatesOK
<1> QED  BY <1>1, <1>2, <1>3, PTL DEF Spec

----------------------------------------------------------------------------
(* What will still move a session.                                         *)

\* In these states MSG_STATE is on its way.
Busy == (Ending \ {"Gone"}) \cup {"SENTACCEPT", "RECEIVEDACCEPT"}

\* Every transport of a session that does not end was connected; once one of them is on its
\* way, the timer runs, unless one is writable or MSG_ERROR is on its way.
Alert(p) ==
  /\ session[p].state \in Busy => Holds(session[p], "State")
  /\ session[p].state \notin Ending /\ Begun(p) => \A t \in Content : proxy[p][t].phase # "Idle"
  /\ session[p].state \notin Ending /\ (\E t \in Content : proxy[p][t].phase = "On") =>
       \/ session[p].timer \/ Holds(session[p], "Error")
       \/ \E t \in Content : proxy[p][t].writable
Alerts == \A p \in Peer : Alert(p)

Steady(q, t) == /\ proxy'[q][t].writable = proxy[q][t].writable
                /\ \/ proxy'[q][t].phase = proxy[q][t].phase
                   \/ proxy'[q][t].phase = "Connecting" /\ proxy[q][t].phase = "Idle"

\* A side whose transports stay as they are, or start to connect.
LEMMA StillAlert ==
  ASSUME NEW p \in Peer, Alert(p), \A t \in Content : Steady(p, t),
         session'[p].timer = session[p].timer,
         session'[p].state \in Busy => Holds(session'[p], "State"),
         session'[p].state \notin Ending =>
           /\ session[p].state \notin Ending
           /\ Holds(session[p], "Error") => Holds(session'[p], "Error"),
         session'[p].state \notin Ending /\ Begun(p)' =>
           Begun(p) \/ \A t \in Content : proxy'[p][t].phase # "Idle"
  PROVE  Alert(p)'
<1>1. session'[p].state \notin Ending /\ Begun(p)' => \A t \in Content : proxy'[p][t].phase # "Idle"
  BY DEF Alert, Steady
<1>2. session'[p].state \notin Ending /\ (\E t \in Content : proxy'[p][t].phase = "On") =>
       \/ session'[p].timer \/ Holds(session'[p], "Error")
       \/ \E t \in Content : proxy'[p][t].writable
  <2> SUFFICES ASSUME session'[p].state \notin Ending, NEW t \in Content, proxy'[p][t].phase = "On"
               PROVE  \/ session'[p].timer \/ Holds(session'[p], "Error")
                      \/ \E u \in Content : proxy'[p][u].writable
    OBVIOUS
  <2>1. proxy[p][t].phase = "On"
    BY DEF Steady
  <2>2. \/ session[p].timer \/ Holds(session[p], "Error")
        \/ \E u \in Content : proxy[p][u].writable
    BY <2>1 DEF Alert
  <2> QED  BY <2>2 DEF Steady
<1> QED  BY <1>1, <1>2 DEF Alert, Holds

\* A step of one side, or of none.
LEMMA AlertsGoOn ==
  ASSUME Alerts, NEW p \in Peer, \A q \in Peer : q # p => session'[q] = session[q],
         \A q \in Peer, t \in Content : Steady(q, t),
         session'[p].timer = session[p].timer,
         session'[p].state \in Busy => Holds(session'[p], "State"),
         session'[p].state \notin Ending =>
           /\ session[p].state \notin Ending
           /\ Holds(session[p], "Error") => Holds(session'[p], "Error"),
         session'[p].state \notin Ending /\ Begun(p)' =>
           Begun(p) \/ \A t \in Content : proxy'[p][t].phase # "Idle"
  PROVE  Alerts'
<1> SUFFICES ASSUME NEW q \in Peer  PROVE Alert(q)'
  BY DEF Alerts
<1>1. CASE q = p
  BY <1>1, StillAlert DEF Alerts
<1>2. CASE q # p
  BY <1>2, StillAlert DEF Alerts, Alert, Begun, Holds
<1> QED  BY <1>1, <1>2

LEMMA NobodyAlert ==
  ASSUME Alerts, Nobody, \A q \in Peer, t \in Content : Steady(q, t)  PROVE Alerts'
<1> SUFFICES ASSUME NEW q \in Peer  PROVE Alert(q)'
  BY DEF Alerts
<1> QED  BY StillAlert DEF Nobody, Alerts, Alert, Begun, Holds

\* What the actions do to a proxy is steady.
LEMMA ConnectsSteady ==
  /\ \A q, t : Connects(q, t) => Steady(q, t)
  /\ UNCHANGED proxy => \A q, t : Steady(q, t)
  /\ \A p, q, t : Opens(p) /\ q \in Peer /\ t \in Content => Steady(q, t)
BY DEF Connects, Steady, Opens

\* The steps of the users.
LEMMA UsersAlert == ASSUME Typed, Alerts, Users  PROVE Alerts'
<1>1. CASE Initiate
  <2>1. /\ session[Initiator].state = "None" /\ session'[Initiator].state = "SENTINITIATE"
        /\ Alone(Initiator) /\ Keeps(session[Initiator], session'[Initiator])
        /\ AllConnect(Initiator)
    BY <1>1, InitiateIs
  <2> QED  BY <2>1, Sides, AlertsGoOn, ConnectsSteady DEF Alone, Keeps, AllConnect, Busy, Ending
<1>2. ASSUME NEW p \in Peer, Accept(p)  PROVE Alerts'
  <2>1. /\ session[p].state = "RECEIVEDINITIATE" /\ session'[p].state = "SENTACCEPT"
        /\ Alone(p) /\ Keeps(session[p], session'[p]) /\ Holds(session'[p], "State")
        /\ AllConnect(p)
    BY <1>2, AcceptIs
  <2> QED  BY <2>1, AlertsGoOn, ConnectsSteady DEF Alone, Keeps, AllConnect, Busy, Ending
<1>3. ASSUME NEW p \in Peer, Reject(p)  PROVE Alerts'
  <2>1. /\ session[p].state = "RECEIVEDINITIATE" /\ session'[p].state = "SENTREJECT"
        /\ Alone(p) /\ Keeps(session[p], session'[p]) /\ Holds(session'[p], "State")
        /\ UNCHANGED proxy
    BY <1>3, RejectIs
  <2> QED  BY <2>1, AlertsGoOn, ConnectsSteady DEF Alone, Keeps, Busy, Ending
<1>4. ASSUME NEW p \in Peer, Terminate(p)  PROVE Alerts'
  <2>1. Ends(p) /\ Keeps(session[p], session'[p])
    BY <1>4, TerminateIs
  <2>2. session'[p].state \in Busy => Holds(session'[p], "State")
    BY <2>1 DEF Ends, Keeps, Alerts, Alert
  <2> QED  BY <2>1, <2>2, AlertsGoOn, ConnectsSteady DEF Ends, Alone
<1> QED  BY <1>1, <1>2, <1>3, <1>4 DEF Users

\* The steps of the transports.
LEMMA TransportsAlert ==
  ASSUME Typed, Alerts, NEW p \in Peer, NEW t \in Content,
         OnTransportConnecting(p, t) \/ OnTransportWritable(p, t) \/ OnCandidatesReady(p, t)
  PROVE  Alerts'
<1>1. CASE Watches(p, t)
  <2>1. /\ \A q \in Peer : q # p => session'[q] = session[q]
        /\ session'[p].state = session[p].state /\ session'[p].posted = session[p].posted
        /\ session'[p].timer <=> ~proxy'[p][t].writable
        /\ \A q \in Peer, u \in Content : q # p \/ u # t => proxy'[q][u] = proxy[q][u]
        /\ proxy'[p][t].phase = "On" /\ Exists(p)
    BY <1>1 DEF Watches, Alone
  <2>2. ASSUME NEW q \in Peer, q # p  PROVE Alert(q)'
    BY <2>1, <2>2 DEF Alerts, Alert, Begun, Holds
  <2>3. session'[p].timer \/ \E u \in Content : proxy'[p][u].writable
    BY <2>1
  <2>4. session'[p].state \in Busy => Holds(session'[p], "State")
    BY <2>1 DEF Alerts, Alert, Holds
  <2>5. session'[p].state \notin Ending => \A u \in Content : proxy'[p][u].phase # "Idle"
    BY <2>1 DEF Alerts, Alert, Begun, Exists
  <2>6. Alert(p)'
    BY <2>3, <2>4, <2>5 DEF Alert, Holds
  <2> QED  BY <2>2, <2>6 DEF Alerts
<1>2. CASE OnCandidatesReady(p, t)
  <2>1. /\ Nobody
        /\ \A q \in Peer, u \in Content : /\ proxy'[q][u].phase = proxy[q][u].phase
                                          /\ proxy'[q][u].writable = proxy[q][u].writable
    <3>1. Nobody
      BY <1>2, CandidateIs
    <3>2. \A q \in Peer, u \in Content : proxy'[q][u].phase = proxy[q][u].phase
      BY <1>2, CandidateIs, ZenonT(40)
    <3>3. \A q \in Peer, u \in Content : proxy'[q][u].writable = proxy[q][u].writable
      BY <1>2, CandidateIs, ZenonT(40)
    <3> QED  BY <3>1, <3>2, <3>3
  <2> QED  BY <2>1, NobodyAlert DEF Steady
<1> QED  BY <1>1, <1>2, ConnectingIs, WritableIs

\* A side that goes on in a state, or that another stanza puts there.
LEMMA GoesAlert ==
  ASSUME Alerts, NEW p \in Peer, NEW st, Goes(p, st), \A q \in Peer, t \in Content : Steady(q, t),
         st \notin Ending => /\ session[p].state \notin Ending
                             /\ \A t \in Content : proxy'[p][t].phase # "Idle"
  PROVE  Alerts'
<1>1. session'[p].state \in Busy => Holds(session'[p], "State")
  BY DEF Goes, Keeps, Alerts, Alert
<1> QED  BY <1>1, AlertsGoOn DEF Goes, Keeps, Alone

\* The stanzas that arrive.
LEMMA DeliverAlert == ASSUME Typed, Alerts, NEW m \in net, Deliver(m)  PROVE Alerts'
<1>1. CASE Redirect(m) \/ UnknownSession(m) \/ OnUnexpectedMessage(m)
  BY <1>1, StrayIs, NobodyAlert, ConnectsSteady
<1>2. CASE OnInitiateMessage(m)
  <2>1. CASE Goes(Responder, "RECEIVEDINITIATE") /\ AllConnect(Responder)
    <3>1. session[Responder].state \notin Ending
      BY <1>2, InitiateArrives DEF Ending
    <3> QED  BY <2>1, <3>1, Sides, GoesAlert, ConnectsSteady DEF AllConnect
  <2>2. CASE Goes(Responder, "SENTREJECT") /\ UNCHANGED proxy
    BY <2>2, Sides, GoesAlert, ConnectsSteady DEF Ending
  <2> QED  BY <1>2, <2>1, <2>2, InitiateArrives
<1>3. CASE OnAcceptMessage(m)
  <2>1. /\ session[Initiator].state = "SENTINITIATE"
        /\ Alone(Initiator) /\ session'[Initiator].state = "RECEIVEDACCEPT"
        /\ session'[Initiator].timer = session[Initiator].timer
        /\ \A x : Holds(session[Initiator], x) => Holds(session'[Initiator], x)
        /\ Holds(session'[Initiator], "State")
        /\ Opens(Initiator) /\ \A t \in Content : proxy'[Initiator][t].phase # "Idle"
    BY <1>3, AcceptArrives
  <2> QED  BY <2>1, Sides, AlertsGoOn, ConnectsSteady DEF Alone, Ending
<1>4. CASE OnRejectMessage(m)
  BY <1>4, Sides, RejectArrives, GoesAlert, ConnectsSteady DEF Ending
<1>5. CASE OnTerminateMessage(m)
  BY <1>5, Sides, TerminateArrives, GoesAlert, ConnectsSteady DEF Ending
<1>6. CASE OnTransportInfoMessage(m)
  BY <1>6, InfoArrives, NobodyAlert DEF Steady
<1> QED  BY <1>1, <1>2, <1>3, <1>4, <1>5, <1>6 DEF Deliver

\* A step that leaves the state and what is posted as they are.
LEMMA SameAlert ==
  ASSUME Alerts, NEW p \in Peer, Alone(p), session'[p].state = session[p].state,
         session'[p].posted = session[p].posted, session'[p].timer = session[p].timer,
         \A q \in Peer, t \in Content : Steady(q, t)
  PROVE  Alerts'
<1>1. session'[p].state \in Busy => Holds(session'[p], "State")
  BY DEF Alerts, Alert, Holds
<1> QED  BY <1>1, AlertsGoOn DEF Alone, Begun, Holds

\* The answers that arrive.
LEMMA AnsweredAlert == ASSUME Typed, Alerts, NEW r \in back, Answered(r)  PROVE Alerts'
<1>1. r.of.from \in Peer
  BY AnswerTyped
<1>2. CASE OnOldAnswer(r)
  BY <1>2, OldAnswerIs, NobodyAlert, ConnectsSteady
<1>3. CASE OnInitiateResponse(r)
  BY <1>1, <1>3, InitiateResponseIs, SameAlert, ConnectsSteady
<1>4. CASE OnFailedSend(r) \/ OnLateRedirect(r)
  <2>1. /\ Alone(r.of.from) /\ Keeps(session[r.of.from], session'[r.of.from])
        /\ session'[r.of.from].state = session[r.of.from].state /\ UNCHANGED proxy
    BY <1>4, FailedIs DEF Fails
  <2>2. session'[r.of.from].state \in Busy => Holds(session'[r.of.from], "State")
    BY <1>1, <2>1 DEF Keeps, Alerts, Alert
  <2> QED  BY <1>1, <2>1, <2>2, AlertsGoOn, ConnectsSteady DEF Alone, Keeps, Begun
<1>5. CASE OnRedirectError(r)
  BY <1>1, <1>5, RedirectErrorIs, SameAlert, ConnectsSteady
<1> QED  BY <1>2, <1>3, <1>4, <1>5 DEF Answered

\* The session's own messages, and its timer.
LEMMA OwnAlert ==
  ASSUME Typed, Alerts, NEW p \in Peer, Own(p) \/ OnTimeout(p)  PROVE Alerts'
<1>1. CASE OnTimeout(p)
  <2>1. /\ Exists(p) /\ Alone(p) /\ session'[p].state = session[p].state
        /\ Holds(session'[p], "Error") /\ proxy' = proxy
        /\ \A x : Holds(session[p], x) => Holds(session'[p], x)
    BY <1>1, TimeoutIs
  <2>2. ASSUME NEW q \in Peer, q # p  PROVE Alert(q)'
    BY <2>1, <2>2 DEF Alone, Alerts, Alert, Begun, Holds
  <2>3. Alert(p)'
    BY <2>1 DEF Alerts, Alert, Begun, Exists, Holds
  <2> QED  BY <2>2, <2>3 DEF Alerts
<1>2. CASE OnError(p)
  <2>1. Ends(p) /\ (Holds(session[p], "State") => Holds(session'[p], "State"))
    BY <1>2, ErrorIs
  <2>2. session'[p].state \in Busy => Holds(session'[p], "State")
    BY <2>1 DEF Ends, Alerts, Alert
  <2> QED  BY <2>1, <2>2, AlertsGoOn, ConnectsSteady DEF Ends, Alone
<1>3. ASSUME NEW st, Takes(p, st), Exists(p), st \in Busy => Holds(session'[p], "State"),
             st \notin Ending => session[p].state \notin Ending
      PROVE  Alerts'
  BY <1>3, AlertsGoOn, ConnectsSteady DEF Takes, Alone, Begun, Exists
<1>4. CASE /\ Alone(p) /\ session'[p] = [NoSession EXCEPT !.state = "Gone"]
           /\ \A q \in Peer : q # p => proxy'[q] = proxy[q]
  <2>1. session'[p].state = "Gone"
    BY <1>4 DEF NoSession
  <2>2. ASSUME NEW q \in Peer, q # p  PROVE Alert(q)'
    BY <1>4, <2>2 DEF Alone, Alerts, Alert, Begun, Holds
  <2>3. Alert(p)'
    BY <2>1 DEF Alert, Busy, Ending
  <2> QED  BY <2>2, <2>3 DEF Alerts
<1>5. CASE OnState(p)
  <2>1. Exists(p)
    BY <1>5, StateIs
  <2>2. CASE session[p].state \in {"SENTACCEPT", "RECEIVEDACCEPT"} /\ Takes(p, "INPROGRESS")
    BY <1>3, <2>1, <2>2 DEF Busy, Ending
  <2>3. CASE Takes(p, "SENTTERMINATE") /\ Holds(session'[p], "State")
    BY <1>3, <2>1, <2>3 DEF Ending
  <2>4. CASE /\ session[p].state \notin {"SENTACCEPT", "RECEIVEDACCEPT", "SENTREJECT",
                     "RECEIVEDREJECT", "SENTTERMINATE", "RECEIVEDTERMINATE"}
             /\ Takes(p, session[p].state)
    <3>1. session[p].state \notin Busy
      BY <2>4 DEF Busy, Ending
    <3> QED  BY <1>3, <2>1, <2>4, <3>1
  <2> QED  BY <1>4, <1>5, <2>2, <2>3, <2>4, StateIs
<1> QED  BY <1>1, <1>2, <1>5 DEF Own

\* Every step keeps the sessions moving.
LEMMA AlertStep == ASSUME Typed, Alerts, Next  PROVE Alerts'
<1>1. ASSUME NEW m \in net, LoseStanza(m)  PROVE Alerts'
  BY <1>1, LoseIs, NobodyAlert, ConnectsSteady
<1> QED  BY <1>1, UsersAlert, TransportsAlert, DeliverAlert, AnsweredAlert, OwnAlert
         DEF Next, Transports, Network, Faults

LEMMA InitAlert == Init => Alerts
BY DEF Init, Alerts, Alert, NoSession, Unconnected, Busy, Ending, Begun

\* Whatever was lost, a side that waits in a session with contents whose other side has gone is
\* not forgotten: its timer runs, or a transport connects or is writable (OnTransportConnecting,
\* OnTransportWritable, the MSG_STATE that every SetState posts).
THEOREM NobodyIsLeftAlone == ASSUME Content # {}  PROVE Spec => []NobodyLeftAlone
<1>1. Init => Typed /\ Alerts
  BY InitTyped, InitAlert
<1>2. Typed /\ Alerts /\ [Next]_vars => (Typed /\ Alerts)'
  <2>1. UNCHANGED vars /\ Alerts => Alerts'
    BY DEF vars, Alerts, Alert, Begun, Holds
  <2> QED  BY <2>1, TypedStep, TypedStutter, AlertStep
<1>3. Typed /\ Alerts => NobodyLeftAlone
  <2> SUFFICES ASSUME Typed, Alerts, NEW p \in Peer, session[p].posted = <<>>, Exists(p)
               PROVE  \/ session[p].timer
                      \/ \E t \in Content : proxy[p][t].phase = "Connecting" \/ proxy[p][t].writable
    BY DEF NobodyLeftAlone, Quiet
  <2>1. \A x : ~Holds(session[p], x)
    BY DEF Holds
  <2>2. session[p].state \notin Ending /\ Begun(p)
    BY <2>1 DEF Alerts, Alert, Busy, Exists, Begun
  <2>3. \A t \in Content : proxy[p][t].phase \in {"Idle", "Connecting", "On"}
    BY DEF Typed, RestTyped, Proxy
  <2> QED  BY <2>1, <2>2, <2>3 DEF Alerts, Alert
<1> QED  BY <1>1, <1>2, <1>3, PTL DEF Spec

----------------------------------------------------------------------------
(* The two sides agree.                                                    *)

\* A stanza of p on its way to where the other side is.
OnWay(p, type) == \E m \in net : m.type = type /\ m.from = p /\ ~Misdirected(m)

\* The initiate, or its redirection, under the name the initiator now uses.
Asked == \/ \E m \in net : m.type = "initiate" /\ m.name = session[Initiator].name
         \/ \E r \in back : r.kind = "redirect" /\ r.of.name = session[Initiator].name

\* The responder hears that its accept failed.
Refused == \/ \E r \in back : r.kind = "error" /\ r.of.type = "accept"
                                /\ r.of.from = Responder /\ r.of.name = 0
           \/ Holds(session[Responder], "Error")

\* While nothing fails, what one side did and the other does not know is on its way.
Heard ==
  /\ session[Initiator].state = "SENTINITIATE" /\ ~Begun(Responder) => Asked
  /\ session[Initiator].state = "SENTINITIATE"
       /\ session[Responder].state \in {"SENTACCEPT", "INPROGRESS"} => OnWay(Responder, "accept")
  /\ session[Initiator].state \in {"SENTINITIATE", "RECEIVEDACCEPT", "INPROGRESS"}
       /\ session[Responder].state \in Ending =>
         \/ OnWay(Responder, "terminate")
         \/ OnWay(Responder, "reject") /\ session[Initiator].state = "SENTINITIATE"
  /\ session[Initiator].state \in Ending
       /\ session[Responder].state \in {"SENTACCEPT", "INPROGRESS"} =>
         OnWay(Initiator, "terminate") \/ OnWay(Responder, "accept") \/ Refused

\* A responder that accepted did not reject, and who sent an end has ended.
Decided ==
  /\ (\E m \in net : m.type = "accept")
       \/ session[Initiator].state \in {"RECEIVEDACCEPT", "INPROGRESS"} =>
         /\ session[Responder].state \notin {"None", "RECEIVEDINITIATE"}
         /\ \A m \in net : m.type # "reject"
  /\ \A m \in net : m.type \in {"terminate", "reject"} => session[m.from].state \in Ending

Agree == Decided /\ (fails = 0 => Heard)

\* A step that changes no state.
LEMMA SameAgrees ==
  ASSUME Typed, Agree, \A q \in Peer : session'[q].state = session[q].state, fails' = 0 => fails = 0,
         \A m \in net' : m \in net \/ m.type \in {"initiate", "info"},
         fails' = 0 =>
           /\ session[Initiator].state = "SENTINITIATE" /\ ~Begun(Responder) /\ Asked => Asked'
           /\ Exists(Initiator) /\ OnWay(Responder, "terminate") => OnWay(Responder, "terminate")'
           /\ Exists(Responder) /\ OnWay(Initiator, "terminate") => OnWay(Initiator, "terminate")'
           /\ session[Initiator].state = "SENTINITIATE" =>
                /\ OnWay(Responder, "accept") => OnWay(Responder, "accept")'
                /\ OnWay(Responder, "reject") => OnWay(Responder, "reject")'
           /\ session[Initiator].state \in Ending /\ Exists(Responder) /\ OnWay(Responder, "accept")
                => OnWay(Responder, "accept")' \/ Refused'
           /\ Exists(Responder) /\ Refused => Refused'
  PROVE  Agree'
<1>1. session'[Initiator].state = session[Initiator].state
      /\ session'[Responder].state = session[Responder].state
  BY Sides
<1>2. Decided'
  <2>1. \A m \in net : m.from \in Peer
    BY DEF Typed, RestTyped, Stanza
  <2> QED  BY <1>1, <2>1 DEF Agree, Decided
<1>3. ASSUME fails' = 0  PROVE Heard'
  BY <1>1, <1>3 DEF Agree, Heard, Begun, Exists, Ending
<1> QED  BY <1>2, <1>3 DEF Agree

\* Stanzas and answers that stay where they are.
LEMMA WayStays ==
  ASSUME NEW m, \A x \in net : x \in net' \/ x = m
  PROVE  \A p, type : OnWay(p, type) /\ (m.type # type \/ m.from # p \/ Misdirected(m))
                        => OnWay(p, type)'
BY DEF OnWay, Misdirected, Place, Other

LEMMA WayAllStays ==
  ASSUME \A x \in net : x.type # "info" => x \in net'
  PROVE  \A p, type : type # "info" /\ OnWay(p, type) => OnWay(p, type)'
BY DEF OnWay, Misdirected, Place, Other

\* A step that takes no stanza but one with candidates, and no answer.
LEMMA QuietStep ==
  ASSUME Typed, Agree, \A q \in Peer : session'[q].state = session[q].state, fails' = 0 => fails = 0,
         session'[Initiator].name = session[Initiator].name,
         Holds(session[Responder], "Error") => Holds(session'[Responder], "Error"),
         \A m \in net : m.type # "info" => m \in net',
         \A m \in net' : m \in net \/ m.type = "info", back \subseteq back'
  PROVE  Agree'
<1>1. /\ OnWay(Responder, "terminate") => OnWay(Responder, "terminate")'
      /\ OnWay(Initiator, "terminate") => OnWay(Initiator, "terminate")'
      /\ OnWay(Responder, "accept") => OnWay(Responder, "accept")'
      /\ OnWay(Responder, "reject") => OnWay(Responder, "reject")'
  BY WayAllStays
<1>2. Asked => Asked'
  BY DEF Asked
<1>3. Refused => Refused'
  BY DEF Refused, Holds
<1> QED  BY <1>1, <1>2, <1>3, SameAgrees

\* The steps of the transports, and the timer's.
LEMMA TransportsAgree ==
  ASSUME Typed, Agree, NEW p \in Peer, NEW t \in Content,
         OnTransportConnecting(p, t) \/ OnTransportWritable(p, t) \/ OnCandidatesReady(p, t)
  PROVE  Agree'
<1>1. CASE Watches(p, t)
  <2>1. /\ \A q \in Peer : session'[q].state = session[q].state /\ session'[q].name = session[q].name
        /\ \A q \in Peer : session'[q].posted = session[q].posted
        /\ net' = net /\ back' = back /\ fails' = fails
    BY <1>1 DEF Watches, Alone
  <2> QED  BY <2>1, Sides, QuietStep DEF Holds
<1>2. CASE OnCandidatesReady(p, t)
  <2>1. PICK m : m = Info(p, session[p].name, t, {proxy[p][t].made + 1})
    OBVIOUS
  <2>2. session' = session /\ back' = back /\ fails' = fails
    BY <1>2, CandidateIs
  <2>3. proxy[p][t].made + 1 \in Cand
    BY <1>2, CandidateIs
  <2>4. net' = net \/ net' = net \cup {m}
    BY <1>2, <2>1, CandidateIs
  <2>5. session[p].name \in 0..1 /\ {proxy[p][t].made + 1} \in SUBSET Cand
    BY <2>3, Names DEF Typed
  <2>6. m.type = "info"
    BY <2>1, <2>5, StanzaTyped DEF Typed
  <2> QED  BY <2>2, <2>4, <2>6, QuietStep DEF Holds
<1> QED  BY <1>1, <1>2, ConnectingIs, WritableIs

LEMMA TimeoutAgrees == ASSUME Typed, Agree, NEW p \in Peer, OnTimeout(p)  PROVE Agree'
<1>1. /\ \A q \in Peer : session'[q].state = session[q].state /\ session'[q].name = session[q].name
      /\ \A q \in Peer : \A x : Holds(session[q], x) => Holds(session'[q], x)
      /\ net' = net /\ back' = back /\ fails' = fails
  BY TimeoutIs DEF Alone
<1> QED  BY <1>1, Sides, QuietStep

\* A loss is a failure.
LEMMA LoseAgrees == ASSUME Typed, Agree, NEW m \in net, LoseStanza(m)  PROVE Agree'
<1>1. /\ \A q \in Peer : session'[q] = session[q]
      /\ net' = net \ {m} /\ fails' # 0
  BY LoseIs DEF Nobody
<1> QED  BY <1>1, SameAgrees

\* Stanzas that change no state.
LEMMA StrayAgrees ==
  ASSUME Typed, Named, Agree, NEW m \in net,
         Redirect(m) \/ UnknownSession(m) \/ OnUnexpectedMessage(m)
  PROVE  Agree'
<1>1. \A q \in Peer : session'[q] = session[q]
  BY StrayIs DEF Nobody
<1>2. m \in Stanza /\ m.from \in Peer /\ Other(m.from) \in Peer /\ StanzaOK(m)
  BY Sides DEF Typed, RestTyped, Stanza, Named
<1>3. PICK kind : Arrived(m, kind, {}) /\ kind \in {"redirect", "error"}
                  /\ (kind = "redirect" <=> Misdirected(m) /\ m.type = "initiate")
  BY StrayIs
<1>4. /\ net' = net \ {m} /\ back \subseteq back' /\ (fails' = 0 => fails = 0)
      /\ fails' = 0 => back' = back \cup Answers(m, kind)
  BY <1>3 DEF Arrived
<1>5. /\ Misdirected(m) \/ ~Exists(Other(m.from))
           \/ (m.type \in {"accept", "reject"} /\ session[Other(m.from)].state # "SENTINITIATE")
      /\ m.type = "initiate" => Misdirected(m)
  BY StrayIs
<1>6. \A p, type : OnWay(p, type) /\ (m.type # type \/ m.from # p \/ Misdirected(m))
                     => OnWay(p, type)'
  BY <1>4, WayStays
<1>7. ASSUME fails' = 0, Asked  PROVE Asked'
  <2>1. CASE \E r \in back : r.kind = "redirect" /\ r.of.name = session[Initiator].name
    BY <1>1, <1>4, <2>1, Sides DEF Asked
  <2>2. CASE \E x \in net : x.type = "initiate" /\ x.name = session[Initiator].name
    <3>1. PICK x \in net : x.type = "initiate" /\ x.name = session[Initiator].name
      BY <2>2
    <3>2. CASE x # m
      BY <1>1, <1>4, <3>1, <3>2, Sides DEF Asked
    <3>3. CASE x = m
      <4>1. kind = "redirect" /\ m.type = "initiate"
        BY <1>3, <1>5, <3>1, <3>3
      <4>2. [kind |-> "redirect", of |-> m] \in back'
        BY <1>4, <1>7, <4>1 DEF Answers
      <4> QED  BY <1>1, <3>1, <3>3, <4>2, Sides DEF Asked
    <3> QED  BY <3>2, <3>3
  <2> QED  BY <1>7, <2>1, <2>2 DEF Asked
<1>8. Refused => Refused'
  BY <1>1, <1>4, Sides DEF Refused
<1>9. Exists(Initiator) /\ OnWay(Responder, "terminate") => OnWay(Responder, "terminate")'
  BY <1>5, <1>6, Sides
<1>10. Exists(Responder) /\ OnWay(Initiator, "terminate") => OnWay(Initiator, "terminate")'
  BY <1>5, <1>6, Sides
<1>11. session[Initiator].state = "SENTINITIATE" =>
         /\ OnWay(Responder, "accept") => OnWay(Responder, "accept")'
         /\ OnWay(Responder, "reject") => OnWay(Responder, "reject")'
  BY <1>5, <1>6, Sides DEF Exists
<1>12. ASSUME fails' = 0, OnWay(Responder, "accept")
       PROVE  OnWay(Responder, "accept")' \/ Refused'
  <2>1. CASE m.type = "accept" /\ m.from = Responder /\ ~Misdirected(m)
    <3>1. kind = "error" /\ m.name = 0
      BY <1>3, <2>1, Sides, Names DEF Misdirected, Typed
    <3>2. [kind |-> "error", of |-> m] \in back'
      BY <1>4, <1>12, <2>1, <3>1 DEF Answers
    <3> QED  BY <2>1, <3>1, <3>2 DEF Refused
  <2> QED  BY <1>6, <1>12, <2>1
<1> QED  BY <1>1, <1>4, <1>7, <1>8, <1>9, <1>10, <1>11, <1>12, SameAgrees

LEMMA InfoAgrees ==
  ASSUME Typed, Agree, NEW m \in net, OnTransportInfoMessage(m)  PROVE Agree'
<1>1. m.type = "info" /\ Nobody /\ Arrived(m, "result", {})
  BY InfoArrives
<1>2. /\ \A q \in Peer : session'[q] = session[q]
      /\ net' = net \ {m} /\ back \subseteq back' /\ (fails' = 0 => fails = 0)
  BY <1>1 DEF Nobody, Arrived
<1> QED  BY <1>1, <1>2, Sides, QuietStep

\* Answers change no state; those that matter are not dropped.
LEMMA AnsweredAgrees ==
  ASSUME Typed, Named, Agree, NEW r \in back, Answered(r)  PROVE Agree'
<1>1. r.of.from \in Peer /\ r.of.name \in 0..1 /\ r.kind \in {"result", "error", "redirect"}
      /\ (r.kind \in {"result", "redirect"} => r.of.from = Initiator)
  <2>1. r.of \in Stanza /\ r.kind \in {"result", "error", "redirect"} /\ r.of.from \in Peer
    BY AnswerTyped
  <2>2. AnswerOK(r)
    BY DEF Named
  <2> QED  BY <2>1, <2>2 DEF Stanza, AnswerOK
<1>2. session[Responder].name = 0
  <2>1. session[Responder].name <= Place(Other(Responder)) /\ session[Responder].name \in 0..1
    BY Sides, Names DEF Named, Roles, Typed
  <2> QED  BY <2>1, Sides, Names DEF Typed
<1>3. ASSUME net \subseteq net', \A m \in net' : m \in net \/ m.type \in {"initiate", "info"},
             \A q \in Peer : session'[q].state = session[q].state, UNCHANGED fails,
             back' = back \ {r},
             session[Initiator].state = "SENTINITIATE" /\ Asked => Asked',
             Exists(Responder) /\ Refused => Refused'
      PROVE  Agree'
  <2>1. /\ OnWay(Responder, "terminate") => OnWay(Responder, "terminate")'
        /\ OnWay(Initiator, "terminate") => OnWay(Initiator, "terminate")'
        /\ OnWay(Responder, "accept") => OnWay(Responder, "accept")'
        /\ OnWay(Responder, "reject") => OnWay(Responder, "reject")'
    BY <1>3, WayAllStays
  <2> QED  BY <1>3, <2>1, SameAgrees
<1>4. CASE OnOldAnswer(r)
  <2>1. ~Ours(r) /\ net' = net /\ back' = back \ {r} /\ fails' = fails
        /\ \A q \in Peer : session'[q] = session[q]
    BY <1>4, OldAnswerIs DEF Nobody
  <2>2. session[Initiator].state = "SENTINITIATE" /\ Asked => Asked'
    BY <1>1, <2>1, Sides DEF Asked, Ours, Exists
  <2>3. Exists(Responder) /\ Refused => Refused'
    BY <1>1, <1>2, <2>1, Sides DEF Refused, Ours
  <2> QED  BY <1>3, <2>1, <2>2, <2>3
<1>5. CASE OnInitiateResponse(r)
  <2>1. /\ r.kind = "result" /\ Alone(r.of.from) /\ back' = back \ {r} /\ fails' = fails
        /\ session'[r.of.from].state = session[r.of.from].state
        /\ session'[r.of.from].name = session[r.of.from].name
        /\ session'[r.of.from].posted = session[r.of.from].posted
        /\ \E ms \in SUBSET Stanza : Releases(r.of.from, ms) /\ net' = net \cup ms
    BY <1>5, InitiateResponseIs
  <2>2. PICK ms : net' = net \cup ms /\ \A m \in ms : m.type = "info"
    BY <2>1 DEF Releases
  <2>3. \A q \in Peer : /\ session'[q].state = session[q].state
                        /\ session'[q].name = session[q].name
                        /\ session'[q].posted = session[q].posted
    BY <2>1 DEF Alone
  <2>4. Asked => Asked'
    BY <2>1, <2>2, <2>3, Sides DEF Asked
  <2>5. Refused => Refused'
    BY <2>1, <2>3, Sides DEF Refused, Holds
  <2> QED  BY <1>3, <2>1, <2>2, <2>3, <2>4, <2>5
<1>6. CASE OnFailedSend(r) \/ OnLateRedirect(r)
  <2>1. /\ Alone(r.of.from) /\ Keeps(session[r.of.from], session'[r.of.from])
        /\ session'[r.of.from].state = session[r.of.from].state
        /\ Holds(session'[r.of.from], "Error")
        /\ net' = net /\ back' = back \ {r} /\ fails' = fails
        /\ r.kind = "redirect" => session[r.of.from].state # "SENTINITIATE"
    BY <1>6, FailedIs DEF Fails
  <2>2. \A q \in Peer : /\ session'[q].state = session[q].state
                        /\ session'[q].name = session[q].name
                        /\ \A x : Holds(session[q], x) => Holds(session'[q], x)
    BY <2>1 DEF Alone, Keeps
  <2>3. session[Initiator].state = "SENTINITIATE" /\ Asked => Asked'
    BY <1>1, <2>1, <2>2, Sides DEF Asked
  <2>4. Refused => Refused'
    BY <2>1, <2>2, Sides DEF Refused
  <2> QED  BY <1>3, <2>1, <2>2, <2>3, <2>4
<1>7. CASE OnRedirectError(r)
  <2>1. /\ r.kind = "redirect" /\ Alone(r.of.from) /\ back' = back \ {r} /\ fails' = fails
        /\ session'[r.of.from].state = session[r.of.from].state
        /\ session'[r.of.from].name = 1
        /\ session'[r.of.from].posted = session[r.of.from].posted
        /\ \E ms \in SUBSET Stanza :
             /\ net' = net \cup ms
             /\ \A m \in ms : m.from = r.of.from /\ m.name = 1 /\ m.type \in {"initiate", "info"}
             /\ \E m \in ms : m = [type |-> "initiate", from |-> r.of.from, name |-> 1]
    BY <1>7, RedirectErrorIs
  <2>2. PICK ms \in SUBSET Stanza :
             /\ net' = net \cup ms
             /\ \A m \in ms : m.from = r.of.from /\ m.name = 1 /\ m.type \in {"initiate", "info"}
             /\ \E m \in ms : m = [type |-> "initiate", from |-> r.of.from, name |-> 1]
    BY <2>1
  <2>3. r.of.from = Initiator
    BY <1>1, <2>1
  <2>4. \A q \in Peer : session'[q].state = session[q].state /\ session'[q].posted = session[q].posted
    BY <2>1 DEF Alone
  <2>5. Asked'
    BY <2>1, <2>2, <2>3 DEF Asked
  <2>6. Refused => Refused'
    BY <2>1, <2>4, Sides DEF Refused, Holds
  <2> QED  BY <1>3, <2>1, <2>2, <2>4, <2>5, <2>6
<1> QED  BY <1>4, <1>5, <1>6, <1>7 DEF Answered

\* The name the two sides have for each other.
LEMMA NamesKnown ==
  ASSUME Typed, Named
  PROVE  /\ session[Responder].name = 0 /\ Place(Initiator) = 0
         /\ Exists(Initiator) /\ Begun(Responder) => session[Initiator].name = Place(Responder)
         /\ \A m \in net : /\ m.from \in Peer
                           /\ m.type \in {"accept", "reject"} => m.from = Responder
<1>1. session[Responder].name <= Place(Other(Responder)) /\ session[Responder].name \in 0..1
  BY Sides, Names DEF Named, Roles, Typed
<1> QED  BY <1>1, Sides, Names DEF Named, Met, StanzaOK, Typed, RestTyped, Stanza

\* A stanza that a side sends is on its way to the other.
LEMMA ToOnWay ==
  ASSUME Typed, NEW p \in Peer, NEW type \in {"initiate", "accept", "reject", "terminate"},
         session[p].name = Place(Other(p)), \E m \in net' : m = To(p, type)
  PROVE  OnWay(p, type)'
<1>1. PICK m \in net' : m = To(p, type)
  OBVIOUS
<1>2. m.type = type /\ m.from = p /\ m.name = Place(Other(p))
  BY <1>1, ToIs
<1> QED  BY <1>2 DEF OnWay, Misdirected, Place, Other

\* The steps of the users, and a side that ends.
LEMMA InitiateAgrees == ASSUME Typed, Named, Agree, Initiate  PROVE Agree'
<1>1. PICK x : x = To(Initiator, "initiate")
  OBVIOUS
<1>2. /\ session[Initiator].state = "None" /\ session'[Initiator].state = "SENTINITIATE"
      /\ session'[Initiator].name = session[Initiator].name
      /\ session'[Responder] = session[Responder] /\ net' = net \cup {x}
  BY <1>1, Sides, InitiateIs DEF Alone, Keeps
<1>3. x.type = "initiate" /\ x.name = session[Initiator].name
  BY <1>1, Sides, ToIs
<1>4. session[Responder].state = "None"
  BY <1>2 DEF Named, Met, Begun
<1>5. Decided'
  BY <1>2, <1>3, <1>4, Sides, NamesKnown DEF Agree, Decided, Ending
<1>6. Asked'
  BY <1>2, <1>3 DEF Asked
<1>7. Heard'
  BY <1>2, <1>4, <1>6 DEF Heard, Ending
<1> QED  BY <1>5, <1>7 DEF Agree

LEMMA AcceptAgrees == ASSUME Typed, Named, Agree, NEW p \in Peer, Accept(p)  PROVE Agree'
<1>1. p = Responder
  BY Sides, AcceptIs DEF Named, Roles, RoleOK
<1>2. PICK x : x = To(Responder, "accept")
  OBVIOUS
<1>3. /\ session[Responder].state = "RECEIVEDINITIATE" /\ session'[Responder].state = "SENTACCEPT"
      /\ session'[Initiator] = session[Initiator] /\ net' = net \cup {x}
  BY <1>1, <1>2, Sides, AcceptIs DEF Alone
<1>4. x.type = "accept" /\ x.from = Responder
  BY <1>2, Sides, ToIs
<1>5. Decided'
  BY <1>3, <1>4, Sides, NamesKnown DEF Agree, Decided, Ending
<1>6. OnWay(Responder, "accept")'
  BY <1>2, <1>3, Sides, NamesKnown, ToOnWay
<1>7. Heard'
  BY <1>3, <1>6 DEF Heard, Ending, Begun
<1> QED  BY <1>5, <1>7 DEF Agree

\* The responder rejects: asked, or from inside SignalState.
LEMMA RejectsAgrees ==
  ASSUME Typed, Named, Agree, session[Responder].state \in {"None", "RECEIVEDINITIATE"},
         session'[Responder].state = "SENTREJECT", session'[Initiator] = session[Initiator],
         NEW ms \in SUBSET net, \A m \in ms : m.type = "initiate",
         NEW x, x = To(Responder, "reject"), net' = (net \ ms) \cup {x}
  PROVE  Agree'
<1>1. x.type = "reject" /\ x.from = Responder
  BY Sides, ToIs
<1>2. /\ \A m \in net : m.type # "accept"
      /\ session[Initiator].state \notin {"RECEIVEDACCEPT", "INPROGRESS"}
  BY DEF Agree, Decided
<1>3. Decided'
  BY <1>1, <1>2, Sides, NamesKnown DEF Agree, Decided, Ending
<1>4. OnWay(Responder, "reject")'
  BY Sides, NamesKnown, ToOnWay
<1>5. Heard'
  BY <1>2, <1>4 DEF Heard, Begun, Ending
<1> QED  BY <1>3, <1>5 DEF Agree

LEMMA RejectAgrees == ASSUME Typed, Named, Agree, NEW p \in Peer, Reject(p)  PROVE Agree'
<1>1. p = Responder
  BY Sides, RejectIs DEF Named, Roles, RoleOK
<1>2. PICK x : x = To(Responder, "reject")
  OBVIOUS
<1>3. /\ session[Responder].state = "RECEIVEDINITIATE" /\ session'[Responder].state = "SENTREJECT"
      /\ session'[Initiator] = session[Initiator] /\ net' = (net \ {}) \cup {x}
  BY <1>1, <1>2, Sides, RejectIs DEF Alone
<1> QED  BY <1>2, <1>3, RejectsAgrees

\* A side that ends tells the other.
LEMMA EndsAgrees ==
  ASSUME Typed, Named, Agree, NEW p \in Peer, Exists(p), Ends(p)  PROVE Agree'
<1>1. PICK x : x = To(p, "terminate")
  OBVIOUS
<1>2. /\ \A q \in Peer : q # p => session'[q] = session[q]
      /\ session'[p].state \in Ending /\ back' = back /\ fails' = fails
      /\ net' = net \cup (IF session[p].state \in Ending THEN {} ELSE {x})
  BY <1>1 DEF Ends, Alone
<1>3. x.type = "terminate" /\ x.from = p
  BY <1>1, ToIs
<1>4. Decided'
  <2>1. \A m \in net' : m \in net \/ m = x
    BY <1>2
  <2>2. \A m \in net' : m.type \in {"terminate", "reject"} => session'[m.from].state \in Ending
    BY <1>2, <1>3, <2>1, NamesKnown DEF Agree, Decided
  <2>3. CASE p = Initiator
    BY <1>2, <1>3, <2>1, <2>2, <2>3, Sides DEF Agree, Decided, Ending
  <2>4. CASE p = Responder
    BY <1>2, <1>3, <2>1, <2>2, <2>4, Sides DEF Agree, Decided, Ending
  <2> QED  BY <2>3, <2>4, Sides
<1>5. \A q, type : type # "info" /\ OnWay(q, type) => OnWay(q, type)'
  BY <1>2, WayAllStays
<1>6. ASSUME fails' = 0  PROVE Heard'
  <2>1. Heard
    BY <1>2, <1>6 DEF Agree
  <2>2. session[p].state \notin Ending /\ session[p].name = Place(Other(p))
          => OnWay(p, "terminate")'
    BY <1>1, <1>2, ToOnWay
  <2>3. CASE p = Initiator
    <3>1. session'[Responder] = session[Responder]
      BY <1>2, <2>3, Sides
    <3>2. Refused => Refused'
      BY <1>2, <3>1 DEF Refused
    <3>3. session[Responder].state \in {"SENTACCEPT", "INPROGRESS"} =>
            OnWay(Initiator, "terminate")' \/ OnWay(Responder, "accept")' \/ Refused'
      BY <1>5, <2>1, <2>2, <2>3, <3>2, Sides, NamesKnown DEF Heard, Begun
    <3> QED  BY <1>2, <2>3, <3>1, <3>3 DEF Heard, Ending
  <2>4. CASE p = Responder
    <3>1. session'[Initiator] = session[Initiator]
      BY <1>2, <2>4, Sides
    <3>2. session[Responder].state \notin Ending => OnWay(Responder, "terminate")'
      BY <2>2, <2>4, Sides, NamesKnown
    <3> QED  BY <1>2, <1>5, <2>1, <2>4, <3>1, <3>2 DEF Heard, Ending, Begun
  <2> QED  BY <2>3, <2>4, Sides
<1> QED  BY <1>4, <1>6 DEF Agree

\* The stanzas that arrive.
LEMMA InitiateArrivesAgrees ==
  ASSUME Typed, Named, Agree, NEW m \in net, OnInitiateMessage(m)  PROVE Agree'
<1>1. m.type = "initiate" /\ session[Responder].state = "None"
  BY InitiateArrives
<1>2. CASE Goes(Responder, "RECEIVEDINITIATE") /\ Arrived(m, "result", {})
  <2>1. /\ session'[Responder].state = "RECEIVEDINITIATE"
        /\ session'[Initiator] = session[Initiator] /\ net' \subseteq net
    BY <1>2, Sides DEF Goes, Alone, Arrived
  <2>2. Decided'
    BY <1>1, <2>1, Sides, NamesKnown DEF Agree, Decided, Ending
  <2>3. Heard'
    BY <2>1 DEF Heard, Begun, Ending
  <2> QED  BY <2>2, <2>3 DEF Agree
<1>3. CASE Goes(Responder, "SENTREJECT") /\ Arrived(m, "result", {To(Responder, "reject")})
  <2>1. PICK x : x = To(Responder, "reject")
    OBVIOUS
  <2>2. PICK ms \in SUBSET net : ms = {m}
    OBVIOUS
  <2>3. /\ session'[Responder].state = "SENTREJECT"
        /\ session'[Initiator] = session[Initiator] /\ net' = (net \ ms) \cup {x}
    BY <1>3, <2>1, <2>2, Sides DEF Goes, Alone, Arrived
  <2>4. \A y \in ms : y.type = "initiate"
    BY <1>1, <2>2
  <2> QED  BY <1>1, <2>1, <2>3, <2>4, RejectsAgrees
<1> QED  BY <1>2, <1>3, InitiateArrives

LEMMA AcceptArrivesAgrees ==
  ASSUME Typed, Named, Agree, NEW m \in net, OnAcceptMessage(m)  PROVE Agree'
<1>1. /\ m.type = "accept" /\ session[Initiator].state = "SENTINITIATE"
      /\ Alone(Initiator) /\ session'[Initiator].state = "RECEIVEDACCEPT"
      /\ \E ms \in SUBSET Stanza : Releases(Initiator, ms) /\ Arrived(m, "result", ms)
  BY AcceptArrives
<1>2. PICK ms : Releases(Initiator, ms) /\ Arrived(m, "result", ms)
  BY <1>1
<1>3. /\ session'[Responder] = session[Responder] /\ (fails' = 0 => fails = 0)
      /\ \A x \in net' : x \in net \/ x.type = "info"
      /\ \A x \in net : x \in net' \/ x = m
  BY <1>1, <1>2, Sides DEF Alone, Arrived, Releases
<1>4. /\ session[Responder].state \notin {"None", "RECEIVEDINITIATE"}
      /\ \A x \in net : x.type # "reject"
  BY <1>1 DEF Agree, Decided
<1>5. Decided'
  BY <1>1, <1>3, <1>4, Sides, NamesKnown DEF Agree, Decided, Ending
<1>6. OnWay(Responder, "terminate") => OnWay(Responder, "terminate")'
  BY <1>1, <1>3, WayStays
<1>7. ~OnWay(Responder, "reject")
  BY <1>4 DEF OnWay
<1>8. ASSUME fails' = 0  PROVE Heard'
  BY <1>1, <1>3, <1>6, <1>7, <1>8 DEF Agree, Heard, Ending
<1> QED  BY <1>5, <1>8 DEF Agree

LEMMA RejectArrivesAgrees ==
  ASSUME Typed, Named, Agree, NEW m \in net, OnRejectMessage(m)  PROVE Agree'
<1>1. /\ m.type = "reject" /\ session'[Initiator].state = "RECEIVEDREJECT"
      /\ session'[Responder] = session[Responder] /\ net' = net \ {m}
  BY Sides, RejectArrives DEF Goes, Alone, Arrived
<1>2. \A x \in net : x.type # "accept"
  BY <1>1 DEF Agree, Decided
<1>3. session[Responder].state \in Ending
  BY <1>1, NamesKnown DEF Agree, Decided
<1>4. Decided'
  BY <1>1, <1>2, <1>3, Sides, NamesKnown DEF Agree, Decided, Ending
<1>5. Heard'
  BY <1>1, <1>3 DEF Heard, Ending
<1> QED  BY <1>4, <1>5 DEF Agree

LEMMA TerminateArrivesAgrees ==
  ASSUME Typed, Named, Agree, NEW m \in net, OnTerminateMessage(m)  PROVE Agree'
<1>1. PICK p \in Peer : p = Other(m.from)
  BY Sides
<1>2. /\ m.type = "terminate" /\ session'[p].state = "RECEIVEDTERMINATE"
      /\ \A q \in Peer : q # p => session'[q] = session[q]
      /\ net' = net \ {m}
  BY <1>1, TerminateArrives DEF Goes, Alone, Arrived
<1>3. m.from \in Peer /\ m.from # p /\ session[m.from].state \in Ending
  BY <1>1, <1>2, Sides, NamesKnown DEF Agree, Decided
<1>4. session'[Initiator].state \in Ending /\ session'[Responder].state \in Ending
  BY <1>2, <1>3, Sides DEF Ending
<1>5. Decided'
  <2>1. \A x \in net' : x.from \in {Initiator, Responder}
    BY <1>2, Sides, NamesKnown
  <2>2. \A x \in net' : session'[x.from].state \in Ending
    BY <1>4, <2>1
  <2>3. (\E x \in net' : x.type = "accept") => \A x \in net' : x.type # "reject"
    BY <1>2 DEF Agree, Decided
  <2> QED  BY <1>4, <2>2, <2>3 DEF Decided, Ending
<1>6. Heard'
  BY <1>4 DEF Heard, Ending
<1> QED  BY <1>5, <1>6 DEF Agree

\* MSG_STATE.
LEMMA StateAgrees == ASSUME Typed, Named, Agree, NEW p \in Peer, OnState(p)  PROVE Agree'
<1>1. net' = net /\ back' = back /\ fails' = fails
  BY StateIs
<1>2. \A q, type : OnWay(q, type) => OnWay(q, type)'
  BY <1>1 DEF OnWay, Misdirected, Place, Other
<1>3. CASE session[p].state \in {"SENTACCEPT", "RECEIVEDACCEPT"} /\ Takes(p, "INPROGRESS")
  <2>1. /\ session'[p].state = "INPROGRESS" /\ \A q \in Peer : q # p => session'[q] = session[q]
        /\ Holds(session[p], "Error") => Holds(session'[p], "Error")
    BY <1>3 DEF Takes, Alone
  <2>2. Refused => Refused'
    BY <1>1, <2>1, Sides DEF Refused
  <2>3. CASE p = Initiator
    <3>1. session[Initiator].state = "RECEIVEDACCEPT" /\ session'[Responder] = session[Responder]
      BY <1>3, <2>1, <2>3, Sides DEF Named, Roles, RoleOK
    <3>2. Decided'
      BY <1>1, <2>1, <2>3, <3>1, Sides, NamesKnown DEF Agree, Decided, Ending
    <3>3. ASSUME fails' = 0  PROVE Heard'
      BY <1>1, <1>2, <2>1, <2>3, <3>1, <3>3 DEF Agree, Heard, Ending
    <3> QED  BY <3>2, <3>3 DEF Agree
  <2>4. CASE p = Responder
    <3>1. session[Responder].state = "SENTACCEPT" /\ session'[Initiator] = session[Initiator]
      BY <1>3, <2>1, <2>4, Sides DEF Named, Roles, RoleOK
    <3>2. Decided'
      BY <1>1, <2>1, <2>4, <3>1, Sides, NamesKnown DEF Agree, Decided, Ending
    <3>3. ASSUME fails' = 0  PROVE Heard'
      BY <1>1, <1>2, <2>1, <2>2, <2>4, <3>1, <3>3 DEF Agree, Heard, Ending, Begun
    <3> QED  BY <3>2, <3>3 DEF Agree
  <2> QED  BY <2>3, <2>4, Sides
<1>4. ASSUME session[p].state \in Ending, session'[p].state \in Ending,
             \A q \in Peer : q # p => session'[q] = session[q]
      PROVE  Agree'
  <2>1. CASE p = Initiator
    <3>1. session'[Responder] = session[Responder]
      BY <1>4, <2>1, Sides
    <3>2. Decided'
      BY <1>1, <1>4, <2>1, <3>1, Sides, NamesKnown DEF Agree, Decided, Ending
    <3>3. Refused => Refused'
      BY <1>1, <3>1 DEF Refused
    <3>4. ASSUME fails' = 0  PROVE Heard'
      BY <1>1, <1>2, <1>4, <2>1, <3>1, <3>3, <3>4 DEF Agree, Heard, Ending
    <3> QED  BY <3>2, <3>4 DEF Agree
  <2>2. CASE p = Responder
    <3>1. session'[Initiator] = session[Initiator]
      BY <1>4, <2>2, Sides
    <3>2. Decided'
      BY <1>1, <1>4, <2>2, <3>1, Sides, NamesKnown DEF Agree, Decided, Ending
    <3>3. ASSUME fails' = 0  PROVE Heard'
      BY <1>1, <1>2, <1>4, <2>2, <3>1, <3>3 DEF Agree, Heard, Ending, Begun
    <3> QED  BY <3>2, <3>3 DEF Agree
  <2> QED  BY <2>1, <2>2, Sides
<1>5. CASE session[p].state \in {"SENTREJECT", "RECEIVEDREJECT"} /\ Takes(p, "SENTTERMINATE")
  BY <1>4, <1>5 DEF Takes, Alone, Ending
<1>6. CASE /\ session[p].state \in {"SENTTERMINATE", "RECEIVEDTERMINATE"}
           /\ Alone(p) /\ session'[p] = [NoSession EXCEPT !.state = "Gone"]
  BY <1>4, <1>6 DEF NoSession, Alone, Ending
<1>7. CASE Takes(p, session[p].state)
  <2>1. /\ \A q \in Peer : session'[q].state = session[q].state /\ session'[q].name = session[q].name
        /\ \A q \in Peer : Holds(session[q], "Error") => Holds(session'[q], "Error")
    BY <1>7 DEF Takes, Alone
  <2> QED  BY <1>1, <2>1, Sides, QuietStep
<1> QED  BY <1>3, <1>5, <1>6, <1>7, StateIs

\* Every step keeps the agreement.
LEMMA AgreeStep == ASSUME Typed, Named, Agree, Next  PROVE Agree'
<1>1. CASE Users
  BY <1>1, InitiateAgrees, AcceptAgrees, RejectAgrees, EndsAgrees, TerminateIs DEF Users
<1>2. ASSUME NEW m \in net, Deliver(m)  PROVE Agree'
  BY <1>2, StrayAgrees, InitiateArrivesAgrees, AcceptArrivesAgrees, RejectArrivesAgrees,
     TerminateArrivesAgrees, InfoAgrees DEF Deliver
<1>3. ASSUME NEW p \in Peer, Own(p) \/ OnTimeout(p)  PROVE Agree'
  BY <1>3, StateAgrees, EndsAgrees, ErrorIs, TimeoutAgrees DEF Own
<1> QED  BY <1>1, <1>2, <1>3, TransportsAgree, AnsweredAgrees, LoseAgrees
         DEF Next, Transports, Network, Faults

LEMMA InitAgree == Init => Agree
BY Sides DEF Init, Agree, Decided, Heard, NoSession, Ending, Begun

\* Once everything has arrived.
LEMMA QuietIs ==
  ASSUME Typed, Named, Alerts, Agree  PROVE QuietAgrees
<1> SUFFICES ASSUME Quiet, fails = 0
             PROVE  <<session[Initiator].state, session[Responder].state>> \in
                      {<<"None", "None">>, <<"SENTINITIATE", "RECEIVEDINITIATE">>,
                       <<"INPROGRESS", "INPROGRESS">>, <<"Gone", "RECEIVEDINITIATE">>,
                       <<"Gone", "Gone">>, <<"Gone", "None">>}
  BY DEF QuietAgrees
<1>1. net = {} /\ back = {} /\ \A p \in Peer, x \in {"State", "Error"} : ~Holds(session[p], x)
  BY DEF Quiet, Holds
<1>2. \A p \in Peer : session[p].state \in
        {"None", "SENTINITIATE", "RECEIVEDINITIATE", "INPROGRESS", "Gone"}
  BY <1>1, Names DEF Alerts, Alert, Busy, Ending, State, Typed
<1>3. /\ session[Initiator].state \in {"None", "SENTINITIATE", "INPROGRESS", "Gone"}
      /\ session[Responder].state \in {"None", "RECEIVEDINITIATE", "INPROGRESS", "Gone"}
  BY <1>2, Sides DEF Named, Roles, RoleOK
<1>4. session[Initiator].state = "None" => session[Responder].state = "None"
  BY DEF Named, Met, Begun
<1>5. \A p, type : ~OnWay(p, type)
  BY <1>1 DEF OnWay
<1>6. ~Asked /\ ~Refused
  BY <1>1, Sides DEF Asked, Refused
<1>7. /\ session[Initiator].state = "SENTINITIATE" =>
           session[Responder].state \notin {"None", "INPROGRESS", "Gone"}
      /\ session[Initiator].state = "INPROGRESS" => session[Responder].state # "Gone"
      /\ session[Initiator].state = "Gone" => session[Responder].state # "INPROGRESS"
  BY <1>5, <1>6 DEF Agree, Heard, Begun, Ending
<1>8. session[Initiator].state = "INPROGRESS" =>
        session[Responder].state \notin {"None", "RECEIVEDINITIATE"}
  BY DEF Agree, Decided
<1> QED  BY <1>3, <1>4, <1>7, <1>8

\* Once everything sent and posted has arrived, and nothing was lost, the two sides agree on the
\* session: the stanzas cross (accept and terminate, terminate and terminate), but none of them
\* leaves one side in progress and the other gone.
THEOREM TheTwoSidesAgree == Spec => []QuietAgrees
<1>1. Init => Typed /\ Named /\ Alerts /\ Agree
  BY InitTyped, InitNamed, InitAlert, InitAgree
<1>2. Typed /\ Named /\ Alerts /\ Agree /\ [Next]_vars => (Typed /\ Named /\ Alerts /\ Agree)'
  <2>1. UNCHANGED vars /\ Alerts => Alerts'
    BY DEF vars, Alerts, Alert, Begun, Holds
  <2>2. UNCHANGED vars /\ Agree => Agree'
    BY DEF vars, Agree, Decided, Heard, Begun, OnWay, Misdirected, Asked, Refused, Holds
  <2> QED  BY <2>1, <2>2, TypedStep, TypedStutter, NamedStep, NamedStutter,
          AlertStep, AgreeStep
<1>3. Typed /\ Named /\ Alerts /\ Agree => QuietAgrees
  BY QuietIs
<1> QED  BY <1>1, <1>2, <1>3, PTL DEF Spec
=================================================================================
