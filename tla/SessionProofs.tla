----------------------------- MODULE SessionProofs -----------------------------
(* What each action of Session does, for every set of contents and every      *)
(* bound: that it keeps the types, and that an end is final.                  *)
EXTENDS Session, TLAPS

\* Every side has a record of the right type.
SessionsTyped == session \in [Peer -> SessionRecord]

\* The states that the actions go to are states.
LEMMA States ==
  /\ {"SENTINITIATE", "RECEIVEDINITIATE", "SENTACCEPT", "RECEIVEDACCEPT", "INPROGRESS",
      "SENTREJECT", "RECEIVEDREJECT", "RECEIVEDTERMINATE"} \subseteq State
  /\ {"SENTREJECT", "RECEIVEDREJECT", "RECEIVEDTERMINATE", "Gone"} \subseteq Ending
  BY DEF State, Ending

----------------------------------------------------------------------------
(* Types.                                                                  *)

\* The rest of the type.
RestTyped == /\ proxy \in [Peer -> [Content -> Proxy]]
             /\ net \subseteq Stanza /\ back \subseteq Answer /\ fails \in 0..MaxFails

\* Connecting and completing the negotiation change nothing of the candidates.
LEMMA ProxyOps ==
  ASSUME NEW x \in Proxy
  PROVE  /\ Negotiated(x) \in Proxy /\ Connected(x) \in Proxy
         /\ Connected(Negotiated(x)) \in Proxy
         /\ \A y \in {Negotiated(x), Connected(x), Connected(Negotiated(x))} :
              /\ y.made = x.made /\ y.unsent = x.unsent /\ y.sent = x.sent /\ y.got = x.got
              /\ y.writable = x.writable
         /\ Negotiated(x).phase = x.phase
         /\ Connected(x).phase = (IF x.phase = "Idle" THEN "Connecting" ELSE x.phase)
         /\ Connected(Negotiated(x)).phase = (IF x.phase = "Idle" THEN "Connecting" ELSE x.phase)
<1> DEFINE c(y) == [y EXCEPT !.phase = IF y.phase = "Idle" THEN "Connecting" ELSE y.phase]
           n == [x EXCEPT !.negotiated = TRUE]
<1>1. /\ n \in Proxy /\ n.made = x.made /\ n.unsent = x.unsent /\ n.sent = x.sent
      /\ n.got = x.got /\ n.writable = x.writable /\ n.phase = x.phase
  BY DEF Proxy
<1>2. ASSUME NEW y \in Proxy
      PROVE /\ c(y) \in Proxy /\ c(y).made = y.made /\ c(y).unsent = y.unsent
            /\ c(y).sent = y.sent /\ c(y).got = y.got /\ c(y).writable = y.writable
            /\ c(y).phase = IF y.phase = "Idle" THEN "Connecting" ELSE y.phase
  BY DEF Proxy
<1>3. Negotiated(x) = n /\ \A y \in Proxy : Connected(y) = c(y)
  BY DEF Negotiated, Connected
<1> HIDE DEF n, c
<1> QED  BY <1>1, <1>2, <1>3

\* A stanza about the session, and one with candidates, of a side that has a session.
LEMMA StanzaTyped ==
  ASSUME SessionsTyped, NEW p \in Peer
  PROVE  /\ \A type \in {"initiate", "accept", "reject", "terminate"} :
              /\ To(p, type) \in Stanza /\ To(p, type).type = type
              /\ To(p, type).from = p /\ To(p, type).name = session[p].name
         /\ \A n \in 0..1, t \in Content, ks \in SUBSET Cand :
              /\ Info(p, n, t, ks) \in Stanza
              /\ Info(p, n, t, ks).type = "info" /\ Info(p, n, t, ks).from = p
              /\ Info(p, n, t, ks).name = n /\ Info(p, n, t, ks).content = t
              /\ Info(p, n, t, ks).cands = ks
<1>1. session[p].name \in 0..1
  BY DEF SessionsTyped, SessionRecord
<1> QED  BY <1>1 DEF To, Info, Stanza

\* A stanza that arrives goes, and what it answers comes; when nothing fails, the answer is the
\* one of the handler.
Arrived(m, kind, ms) ==
  /\ net' = (net \ {m}) \cup ms /\ net' \subseteq Stanza
  /\ back' \subseteq Answer /\ back \subseteq back' /\ fails' \in 0..MaxFails
  /\ \A r \in back' : \/ r \in back
                      \/ /\ r.of = m /\ r.kind \in {kind, "error"}
                         /\ r.kind = "result" => m.type = "initiate"
  /\ fails' = 0 => fails = 0 /\ back' = back \cup Answers(m, kind)

LEMMA ArriveIs ==
  ASSUME RestTyped, NEW m \in Stanza, NEW kind \in {"result", "error", "redirect"},
         NEW ms \in SUBSET Stanza, Arrive(m, kind, ms)
  PROVE  Arrived(m, kind, ms)
<1>1. PICK told \in {kind, "error"} :
        /\ fails' = fails + (IF told = kind THEN 0 ELSE 1) /\ fails' <= MaxFails
        /\ net' = (net \ {m}) \cup ms
        /\ back' = back \cup Answers(m, told)
  BY DEF Arrive
<1>2. fails' \in 0..MaxFails /\ (fails' = 0 => fails = 0 /\ told = kind)
  BY <1>1, ConstantsOK DEF RestTyped
<1>3. \A k \in {"result", "error", "redirect"} : \A r \in Answers(m, k) :
        /\ r \in Answer /\ r.of = m /\ r.kind = k
        /\ r.kind = "result" => m.type = "initiate"
  BY DEF Answers, Answer
<1>4. told \in {"result", "error", "redirect"}
  OBVIOUS
<1> QED  BY <1>1, <1>2, <1>3, <1>4 DEF RestTyped, Arrived

\* The stanzas of a set of candidates for each content.
LEMMA InfosTyped ==
  ASSUME SessionsTyped, NEW p \in Peer, NEW n \in 0..1, NEW f \in [Content -> SUBSET Cand]
  PROVE  /\ {Info(p, n, t, f[t]) : t \in {u \in Content : f[u] # {}}} \subseteq Stanza
         /\ \A m \in {Info(p, n, t, f[t]) : t \in {u \in Content : f[u] # {}}} :
              m.type = "info" /\ m.from = p /\ m.name = n
         /\ \A t \in Content : \A k \in f[t] :
              \E m \in {Info(p, n, u, f[u]) : u \in {v \in Content : f[v] # {}}} :
                m.type = "info" /\ m.from = p /\ m.content = t /\ k \in m.cands
<1>1. \A t \in Content : f[t] \in SUBSET Cand
  OBVIOUS
<1> QED  BY <1>1, StanzaTyped, SMTT(30)

\* Each proxy of a side changes by an operation that keeps its type.
LEMMA AllProxies ==
  ASSUME RestTyped, NEW p \in Peer, NEW g \in [Content -> Proxy],
         proxy' = [proxy EXCEPT ![p] = [t \in Content |-> g[t]]]
  PROVE  proxy' \in [Peer -> [Content -> Proxy]] /\ proxy'[p] = g
         /\ \A q \in Peer : q # p => proxy'[q] = proxy[q]
BY DEF RestTyped

\* One proxy of a side changes.
LEMMA OneProxy ==
  ASSUME RestTyped, NEW p \in Peer, NEW t \in Content, NEW x \in Proxy,
         proxy' = [proxy EXCEPT ![p] = [proxy[p] EXCEPT ![t] = x]]
  PROVE  proxy' \in [Peer -> [Content -> Proxy]] /\ proxy'[p][t] = x
         /\ \A q \in Peer, u \in Content : q # p \/ u # t => proxy'[q][u] = proxy[q][u]
BY DEF RestTyped

\* What the proxies become when an accept arrives.
Opened(p, x) == [Connected(Negotiated(x)) EXCEPT !.unsent = IF session[p].acked THEN @ ELSE {}]

LEMMA OpenedIs ==
  ASSUME NEW p, NEW x \in Proxy
  PROVE  /\ Opened(p, x) \in Proxy /\ Opened(p, x).made = x.made /\ Opened(p, x).got = x.got
         /\ Opened(p, x).unsent = (IF session[p].acked THEN x.unsent ELSE {})
         /\ Opened(p, x).writable = x.writable
         /\ Opened(p, x).phase = (IF x.phase = "Idle" THEN "Connecting" ELSE x.phase)
<1> DEFINE c == Connected(Negotiated(x))
           v == IF session[p].acked THEN c.unsent ELSE {}
<1>1. /\ c \in Proxy /\ c.made = x.made /\ c.got = x.got /\ c.unsent = x.unsent
      /\ c.writable = x.writable
      /\ c.phase = IF x.phase = "Idle" THEN "Connecting" ELSE x.phase
  BY ProxyOps
<1>2. v \in SUBSET Cand
  BY <1>1 DEF Proxy
<1>3. v = IF session[p].acked THEN x.unsent ELSE {}
  BY <1>1
<1>4. Opened(p, x) = [c EXCEPT !.unsent = v]
  BY DEF Opened
<1> HIDE DEF c, v
<1> QED  BY <1>1, <1>2, <1>3, <1>4 DEF Proxy

----------------------------------------------------------------------------
(* What the operations do to a session.                                    *)

\* A message is posted to a session.
Holds(s, x) == \E i \in DOMAIN s.posted : s.posted[i] = x

\* What was posted is still posted, and all but the state stays.
Keeps(s, u) == /\ u \in SessionRecord
               /\ u.name = s.name /\ u.acked = s.acked /\ u.timer = s.timer
               /\ \A x : Holds(s, x) => Holds(u, x)

\* Post appends.
LEMMA PostIs ==
  ASSUME NEW s \in SessionRecord, NEW m \in {"State", "Error"}
  PROVE  Keeps(s, Post(s, m)) /\ Post(s, m).state = s.state /\ Holds(Post(s, m), m)
<1> DEFINE P == Append(s.posted, m)
<1>1. s.posted \in Seq({"State", "Error"})
  BY DEF SessionRecord
<1>2. /\ P \in Seq({"State", "Error"}) /\ Len(P) = Len(s.posted) + 1
      /\ \A i \in 1..Len(s.posted) : P[i] = s.posted[i]
      /\ P[Len(s.posted) + 1] = m
      /\ DOMAIN s.posted = 1..Len(s.posted) /\ DOMAIN P = 1..Len(P) /\ Len(s.posted) \in Nat
  BY <1>1
<1>3. Post(s, m) = [s EXCEPT !.posted = P]
  BY DEF Post
<1> HIDE DEF P
<1>4. /\ Post(s, m) \in SessionRecord /\ Post(s, m).posted = P
      /\ Post(s, m).state = s.state /\ Post(s, m).name = s.name
      /\ Post(s, m).acked = s.acked /\ Post(s, m).timer = s.timer
  BY <1>2, <1>3 DEF SessionRecord
<1>5. Holds(Post(s, m), m)
  BY <1>2, <1>4 DEF Holds
<1>6. ASSUME NEW x, Holds(s, x)  PROVE Holds(Post(s, m), x)
  BY <1>2, <1>4, <1>6 DEF Holds
<1> QED  BY <1>4, <1>5, <1>6 DEF Keeps

\* SetState posts MSG_STATE when the state changes,
LEMMA SetStateIs ==
  ASSUME NEW s \in SessionRecord, NEW st \in State
  PROVE  /\ Keeps(s, SetState(s, st)) /\ SetState(s, st).state = st
         /\ s.state # st => Holds(SetState(s, st), "State")
<1> DEFINE u == [s EXCEPT !.state = st]
<1>1. /\ u \in SessionRecord /\ u.state = st /\ u.posted = s.posted /\ u.name = s.name
      /\ u.acked = s.acked /\ u.timer = s.timer
  BY DEF SessionRecord
<1>2. SetState(s, st) = IF s.state = st THEN s ELSE Post(u, "State")
  BY DEF SetState
<1> HIDE DEF u
<1>3. CASE s.state = st
  BY <1>2, <1>3 DEF Keeps
<1>4. CASE s.state # st
  <2>1. /\ Keeps(u, Post(u, "State")) /\ Post(u, "State").state = st
        /\ Holds(Post(u, "State"), "State")
    BY <1>1, PostIs
  <2>2. \A x : Holds(s, x) => Holds(u, x)
    BY <1>1 DEF Holds
  <2> QED  BY <1>1, <1>2, <1>4, <2>1, <2>2 DEF Keeps
<1> QED  BY <1>3, <1>4

\* SetError posts MSG_ERROR,
LEMMA SetErrorIs ==
  ASSUME NEW s \in SessionRecord
  PROVE  Keeps(s, SetError(s)) /\ SetError(s).state = s.state /\ Holds(SetError(s), "Error")
BY PostIs DEF SetError

\* and TerminateWithReason goes to SENTTERMINATE, unless a terminate was sent or received.
LEMMA TerminatedIs ==
  ASSUME NEW s \in SessionRecord
  PROVE  /\ Keeps(s, Terminated(s)) /\ Terminated(s).state \in Ending \ {"Gone"}
         /\ Terminated(s).state \in {s.state, "SENTTERMINATE"}
         /\ s.state # Terminated(s).state => Holds(Terminated(s), "State")
<1>1. "SENTTERMINATE" \in State
  BY DEF State
<1>2. CASE s.state \in {"SENTTERMINATE", "RECEIVEDTERMINATE"}
  <2>1. Terminated(s) = s
    BY <1>2 DEF Terminated
  <2> QED  BY <1>2, <2>1 DEF Keeps, Ending
<1>3. CASE s.state \notin {"SENTTERMINATE", "RECEIVEDTERMINATE"}
  <2>1. Terminated(s) = SetState(s, "SENTTERMINATE")
    BY <1>3 DEF Terminated
  <2> QED  BY <1>1, <1>3, <2>1, SetStateIs DEF Ending
<1> QED  BY <1>2, <1>3

\* A message is taken; the others stay.
LEMMA PoppedIs ==
  ASSUME NEW s \in SessionRecord, s.posted # <<>>
  PROVE  /\ Popped(s) \in SessionRecord /\ Popped(s).state = s.state
         /\ Popped(s).name = s.name /\ Popped(s).acked = s.acked /\ Popped(s).timer = s.timer
         /\ \A x : Holds(s, x) /\ x # Head(s.posted) => Holds(Popped(s), x)
<1> DEFINE P == Tail(s.posted)
<1>1. s.posted \in Seq({"State", "Error"})
  BY DEF SessionRecord
<1>2. /\ P \in Seq({"State", "Error"}) /\ Len(P) = Len(s.posted) - 1
      /\ \A i \in 1..Len(P) : P[i] = s.posted[i + 1]
      /\ DOMAIN s.posted = 1..Len(s.posted) /\ DOMAIN P = 1..Len(P) /\ Len(s.posted) \in Nat
      /\ Head(s.posted) = s.posted[1] /\ Len(s.posted) > 0
  BY <1>1
<1>3. Popped(s) = [s EXCEPT !.posted = P]
  BY DEF Popped
<1> HIDE DEF P
<1>4. /\ Popped(s) \in SessionRecord /\ Popped(s).posted = P
      /\ Popped(s).state = s.state /\ Popped(s).name = s.name
      /\ Popped(s).acked = s.acked /\ Popped(s).timer = s.timer
  BY <1>2, <1>3 DEF SessionRecord
<1>5. ASSUME NEW x, Holds(s, x), x # Head(s.posted)  PROVE Holds(Popped(s), x)
  <2>1. PICK i \in 1..Len(s.posted) : s.posted[i] = x
    BY <1>2, <1>5 DEF Holds
  <2>2. i # 1
    BY <1>2, <1>5, <2>1
  <2>3. i - 1 \in 1..Len(P) /\ (i - 1) + 1 = i
    BY <1>2, <2>1, <2>2
  <2>4. P[i - 1] = x
    BY <1>2, <2>1, <2>3
  <2> QED  BY <1>2, <1>4, <2>3, <2>4 DEF Holds
<1> QED  BY <1>4, <1>5

\* Only the session of p changes, to s.
LEMMA SessionIs ==
  ASSUME SessionsTyped, NEW p \in Peer, NEW s \in SessionRecord,
         session' = [session EXCEPT ![p] = s]
  PROVE  /\ SessionsTyped' /\ session'[p] = s
         /\ \A q \in Peer : q # p => session'[q] = session[q]
BY DEF SessionsTyped

----------------------------------------------------------------------------
(* What each action does.                                                  *)

Typed == SessionsTyped /\ RestTyped

\* Only the session of p changes.
Alone(p) == SessionsTyped' /\ \A q \in Peer : q # p => session'[q] = session[q]
\* No session changes.
Nobody == SessionsTyped' /\ \A q \in Peer : session'[q] = session[q]

\* A proxy may connect; its candidates stay.
Connects(q, t) ==
  /\ proxy'[q][t].made = proxy[q][t].made /\ proxy'[q][t].unsent = proxy[q][t].unsent
  /\ proxy'[q][t].got = proxy[q][t].got /\ proxy'[q][t].writable = proxy[q][t].writable
  /\ \/ proxy'[q][t].phase = proxy[q][t].phase
     \/ proxy'[q][t].phase = "Connecting" /\ proxy[q][t].phase = "Idle"
\* So do all of them, those of p certainly.
AllConnect(p) == /\ \A q \in Peer, t \in Content : Connects(q, t)
                 /\ \A t \in Content : proxy'[p][t].phase # "Idle"

LEMMA AllConnectIs ==
  ASSUME RestTyped, NEW p \in Peer, NEW g,
         \A t \in Content : g[t] \in {Connected(proxy[p][t]), Connected(Negotiated(proxy[p][t]))},
         proxy' = [proxy EXCEPT ![p] = [t \in Content |-> g[t]]]
  PROVE  proxy' \in [Peer -> [Content -> Proxy]] /\ AllConnect(p)
<1> DEFINE h == [t \in Content |-> g[t]]
<1>1. \A q \in Peer, t \in Content : proxy[q][t] \in Proxy
  BY DEF RestTyped
<1>2. \A t \in Content :
        /\ g[t] \in Proxy /\ g[t].made = proxy[p][t].made /\ g[t].unsent = proxy[p][t].unsent
        /\ g[t].got = proxy[p][t].got /\ g[t].writable = proxy[p][t].writable
        /\ g[t].phase = IF proxy[p][t].phase = "Idle" THEN "Connecting" ELSE proxy[p][t].phase
  <2> TAKE t \in Content
  <2>1. proxy[p][t] \in Proxy
    BY <1>1
  <2>2. CASE g[t] = Connected(proxy[p][t])
    BY <2>1, <2>2, ProxyOps
  <2>3. CASE g[t] = Connected(Negotiated(proxy[p][t]))
    BY <2>1, <2>3, ProxyOps
  <2> QED  BY <2>2, <2>3
<1>3. h \in [Content -> Proxy] /\ \A t \in Content : h[t] = g[t]
  BY <1>2
<1>4. proxy' = [proxy EXCEPT ![p] = [t \in Content |-> h[t]]]
  BY <1>3
<1> HIDE DEF h
<1>5. /\ proxy' \in [Peer -> [Content -> Proxy]] /\ proxy'[p] = h
      /\ \A q \in Peer : q # p => proxy'[q] = proxy[q]
  BY <1>3, <1>4, AllProxies
<1>6. \A t \in Content : Connects(p, t) /\ proxy'[p][t].phase # "Idle"
  BY <1>2, <1>3, <1>5 DEF Connects
<1>7. \A q \in Peer, t \in Content : q # p => Connects(q, t)
  BY <1>5 DEF Connects
<1> QED  BY <1>5, <1>6, <1>7 DEF AllConnect

LEMMA NoProxy ==
  ASSUME UNCHANGED proxy  PROVE \A q \in Peer, t \in Content : Connects(q, t)
BY DEF Connects

LEMMA NoSessionMoves ==
  ASSUME SessionsTyped, UNCHANGED session  PROVE Nobody
BY DEF SessionsTyped, Nobody

\* There are two sides, each the other of the other.
LEMMA Sides == /\ Initiator \in Peer /\ Responder \in Peer /\ Initiator # Responder
               /\ \A p : Other(p) \in Peer
               /\ Other(Initiator) = Responder /\ Other(Responder) = Initiator
               /\ \A p \in Peer : Other(p) # p /\ Other(Other(p)) = p
               /\ \A p \in Peer : p = Initiator \/ p = Responder
BY ConstantsOK DEF Peer, Other

\* A side starts, or answers, a session.
LEMMA InitiateIs ==
  ASSUME Typed, Initiate
  PROVE  /\ session[Initiator].state = "None" /\ session'[Initiator].state = "SENTINITIATE"
         /\ Alone(Initiator) /\ Keeps(session[Initiator], session'[Initiator])
         /\ AllConnect(Initiator) /\ RestTyped'
         /\ net' = net \cup {To(Initiator, "initiate")} /\ UNCHANGED <<back, fails>>
<1> DEFINE p == Initiator
           g == [t \in Content |-> Connected(proxy[p][t])]
<1>1. /\ session[p].state = "None" /\ p \in Peer
      /\ session' = [session EXCEPT ![p] = SetState(session[p], "SENTINITIATE")]
      /\ proxy' = [proxy EXCEPT ![p] = [t \in Content |-> Connected(proxy[p][t])]]
      /\ net' = net \cup {To(p, "initiate")} /\ UNCHANGED <<back, fails>>
  BY Sides DEF Initiate, ForAll, Send
<1>2. proxy' = [proxy EXCEPT ![p] = [t \in Content |-> g[t]]]
  BY <1>1
<1>3. \A t \in Content : g[t] = Connected(proxy[p][t])
  OBVIOUS
<1> HIDE DEF g
<1>4. proxy' \in [Peer -> [Content -> Proxy]] /\ AllConnect(p)
  BY <1>1, <1>2, <1>3, AllConnectIs DEF Typed
<1>5. session[p] \in SessionRecord
  BY <1>1 DEF Typed, SessionsTyped
<1>6. /\ Keeps(session[p], SetState(session[p], "SENTINITIATE"))
      /\ SetState(session[p], "SENTINITIATE").state = "SENTINITIATE"
  BY <1>5, SetStateIs, States
<1>7. Alone(p) /\ session'[p] = SetState(session[p], "SENTINITIATE")
  BY <1>1, <1>6, SessionIs DEF Alone, Keeps, Typed
<1>8. RestTyped'
  BY <1>1, <1>4, StanzaTyped DEF RestTyped, Typed
<1> QED  BY <1>1, <1>4, <1>6, <1>7, <1>8

LEMMA AcceptIs ==
  ASSUME Typed, NEW p \in Peer, Accept(p)
  PROVE  /\ session[p].state = "RECEIVEDINITIATE" /\ session'[p].state = "SENTACCEPT"
         /\ Alone(p) /\ Keeps(session[p], session'[p]) /\ Holds(session'[p], "State")
         /\ AllConnect(p) /\ RestTyped'
         /\ net' = net \cup {To(p, "accept")} /\ UNCHANGED <<back, fails>>
<1> DEFINE g == [t \in Content |-> Connected(Negotiated(proxy[p][t]))]
<1>1. /\ session[p].state = "RECEIVEDINITIATE"
      /\ session' = [session EXCEPT ![p] = SetState(session[p], "SENTACCEPT")]
      /\ proxy' = [proxy EXCEPT ![p] = [t \in Content |-> Connected(Negotiated(proxy[p][t]))]]
      /\ net' = net \cup {To(p, "accept")} /\ UNCHANGED <<back, fails>>
  BY DEF Accept, ForAll, Send
<1>2. proxy' = [proxy EXCEPT ![p] = [t \in Content |-> g[t]]]
  BY <1>1
<1>3. \A t \in Content : g[t] = Connected(Negotiated(proxy[p][t]))
  OBVIOUS
<1> HIDE DEF g
<1>4. proxy' \in [Peer -> [Content -> Proxy]] /\ AllConnect(p)
  BY <1>2, <1>3, AllConnectIs DEF Typed
<1>5. session[p] \in SessionRecord
  BY DEF Typed, SessionsTyped
<1>6. /\ Keeps(session[p], SetState(session[p], "SENTACCEPT"))
      /\ SetState(session[p], "SENTACCEPT").state = "SENTACCEPT"
      /\ Holds(SetState(session[p], "SENTACCEPT"), "State")
  BY <1>1, <1>5, SetStateIs, States
<1>7. Alone(p) /\ session'[p] = SetState(session[p], "SENTACCEPT")
  BY <1>1, <1>6, SessionIs DEF Alone, Keeps, Typed
<1>8. RestTyped'
  BY <1>1, <1>4, StanzaTyped DEF RestTyped, Typed
<1> QED  BY <1>1, <1>4, <1>6, <1>7, <1>8

LEMMA RejectIs ==
  ASSUME Typed, NEW p \in Peer, Reject(p)
  PROVE  /\ session[p].state = "RECEIVEDINITIATE" /\ session'[p].state = "SENTREJECT"
         /\ Alone(p) /\ Keeps(session[p], session'[p]) /\ Holds(session'[p], "State")
         /\ UNCHANGED proxy /\ RestTyped'
         /\ net' = net \cup {To(p, "reject")} /\ UNCHANGED <<back, fails>>
<1>1. /\ session[p].state = "RECEIVEDINITIATE"
      /\ session' = [session EXCEPT ![p] = SetState(session[p], "SENTREJECT")]
      /\ net' = net \cup {To(p, "reject")} /\ UNCHANGED <<proxy, back, fails>>
  BY DEF Reject, Send
<1>2. session[p] \in SessionRecord
  BY DEF Typed, SessionsTyped
<1>3. /\ Keeps(session[p], SetState(session[p], "SENTREJECT"))
      /\ SetState(session[p], "SENTREJECT").state = "SENTREJECT"
      /\ Holds(SetState(session[p], "SENTREJECT"), "State")
  BY <1>1, <1>2, SetStateIs, States
<1>4. Alone(p) /\ session'[p] = SetState(session[p], "SENTREJECT")
  BY <1>1, <1>3, SessionIs DEF Alone, Keeps, Typed
<1>5. RestTyped'
  BY <1>1, StanzaTyped DEF RestTyped, Typed
<1> QED  BY <1>1, <1>3, <1>4, <1>5

\* A side that terminates goes to an ending, and tells the other unless it had ended.
Ends(p) == /\ Alone(p) /\ session'[p].state \in Ending \ {"Gone"}
           /\ session'[p].state \in {session[p].state, "SENTTERMINATE"}
           /\ session'[p].name = session[p].name /\ session'[p].acked = session[p].acked
           /\ session'[p].timer = session[p].timer
           /\ session'[p].state # session[p].state => Holds(session'[p], "State")
           /\ UNCHANGED proxy /\ RestTyped' /\ UNCHANGED <<back, fails>>
           /\ net' = net \cup (IF session[p].state \in Ending THEN {} ELSE {To(p, "terminate")})

LEMMA TerminateIs ==
  ASSUME Typed, NEW p \in Peer, Terminate(p)
  PROVE  Exists(p) /\ Ends(p) /\ Keeps(session[p], session'[p])
<1>1. /\ Exists(p) /\ session' = [session EXCEPT ![p] = Terminated(session[p])]
      /\ net' = net \cup (IF session[p].state \in Ending THEN {} ELSE {To(p, "terminate")})
      /\ UNCHANGED <<proxy, back, fails>>
  BY DEF Terminate, TerminateStanza, Send
<1>2. session[p] \in SessionRecord
  BY DEF Typed, SessionsTyped
<1> DEFINE u == Terminated(session[p])
<1>3. /\ Keeps(session[p], u) /\ u.state \in Ending \ {"Gone"}
      /\ u.state \in {session[p].state, "SENTTERMINATE"}
      /\ session[p].state # u.state => Holds(u, "State")
  BY <1>2, TerminatedIs
<1> HIDE DEF u
<1>4. Alone(p) /\ session'[p] = u
  BY <1>1, <1>3, SessionIs DEF Alone, Keeps, Typed, u
<1>5. RestTyped'
  BY <1>1, StanzaTyped DEF RestTyped, Typed
<1> QED  BY <1>1, <1>3, <1>4, <1>5 DEF Ends, Keeps

\* The timer watches the transport whose state changes.
Watches(p, t) ==
  /\ Alone(p) /\ session'[p].state = session[p].state /\ session'[p].name = session[p].name
  /\ session'[p].acked = session[p].acked /\ session'[p].posted = session[p].posted
  /\ session'[p].timer <=> ~proxy'[p][t].writable
  /\ \A q \in Peer, u \in Content :
       /\ proxy'[q][u].made = proxy[q][u].made /\ proxy'[q][u].unsent = proxy[q][u].unsent
       /\ proxy'[q][u].got = proxy[q][u].got
       /\ q # p \/ u # t => proxy'[q][u] = proxy[q][u]
  /\ proxy'[p][t].phase = "On" /\ Exists(p) /\ proxy[p][t].phase # "Idle"
  /\ RestTyped' /\ UNCHANGED <<net, back, fails>>

LEMMA WatchIs ==
  ASSUME Typed, NEW p \in Peer, NEW w \in BOOLEAN, Watch(p, w)
  PROVE  /\ Alone(p) /\ session'[p].state = session[p].state /\ session'[p].name = session[p].name
         /\ session'[p].acked = session[p].acked /\ session'[p].posted = session[p].posted
         /\ session'[p].timer <=> ~w
<1> DEFINE n == ~w
           s == [session[p] EXCEPT !.timer = n]
<1>1. session' = [session EXCEPT ![p] = s]
  BY DEF Watch
<1>2. n \in BOOLEAN
  OBVIOUS
<1>3. session[p] \in SessionRecord
  BY DEF Typed, SessionsTyped
<1>4. n <=> ~w
  OBVIOUS
<1> HIDE DEF n
<1>5. /\ s \in SessionRecord /\ s.state = session[p].state /\ s.name = session[p].name
      /\ s.acked = session[p].acked /\ s.posted = session[p].posted /\ s.timer = n
  BY <1>2, <1>3 DEF SessionRecord
<1> HIDE DEF s
<1>6. Alone(p) /\ session'[p] = s
  BY <1>1, <1>5, SessionIs DEF Alone, Typed
<1> QED  BY <1>5, <1>6, <1>4

\* A transport connects,
LEMMA ConnectingIs ==
  ASSUME Typed, NEW p \in Peer, NEW t \in Content, OnTransportConnecting(p, t)
  PROVE  Watches(p, t)
<1> DEFINE x == [proxy[p][t] EXCEPT !.phase = "On"]
<1>1. /\ Exists(p) /\ proxy[p][t].phase = "Connecting"
      /\ proxy' = [proxy EXCEPT ![p] = [proxy[p] EXCEPT ![t] = x]]
      /\ Watch(p, proxy[p][t].writable) /\ UNCHANGED <<net, back, fails>>
  BY DEF OnTransportConnecting
<1>2. proxy[p][t] \in Proxy
  BY DEF Typed, RestTyped
<1>3. /\ x \in Proxy /\ x.made = proxy[p][t].made /\ x.unsent = proxy[p][t].unsent
      /\ x.got = proxy[p][t].got /\ x.writable = proxy[p][t].writable /\ x.phase = "On"
      /\ proxy[p][t].writable \in BOOLEAN
  BY <1>2 DEF Proxy
<1> HIDE DEF x
<1>4. /\ proxy' \in [Peer -> [Content -> Proxy]] /\ proxy'[p][t] = x
      /\ \A q \in Peer, u \in Content : q # p \/ u # t => proxy'[q][u] = proxy[q][u]
  <2>1. RestTyped /\ proxy' = [proxy EXCEPT ![p] = [proxy[p] EXCEPT ![t] = x]]
    BY <1>1 DEF Typed
  <2> QED  BY <1>3, <2>1, OneProxy, ZenonT(40)
<1>5. \A q \in Peer, u \in Content :
        /\ proxy'[q][u].made = proxy[q][u].made /\ proxy'[q][u].unsent = proxy[q][u].unsent
        /\ proxy'[q][u].got = proxy[q][u].got
  BY <1>3, <1>4
<1>6. RestTyped'
  BY <1>1, <1>4 DEF Typed, RestTyped
<1> QED  BY <1>1, <1>3, <1>4, <1>5, <1>6, WatchIs DEF Watches

\* or becomes writable, or stops being so.
LEMMA WritableIs ==
  ASSUME Typed, NEW p \in Peer, NEW t \in Content, OnTransportWritable(p, t)
  PROVE  Watches(p, t)
<1> DEFINE w == ~proxy[p][t].writable
           x == [proxy[p][t] EXCEPT !.writable = w]
<1>1. /\ Exists(p) /\ proxy[p][t].phase = "On"
      /\ proxy' = [proxy EXCEPT ![p] = [proxy[p] EXCEPT ![t] = x]]
      /\ Watch(p, w) /\ UNCHANGED <<net, back, fails>>
  BY DEF OnTransportWritable
<1>2. proxy[p][t] \in Proxy /\ w \in BOOLEAN
  BY DEF Typed, RestTyped
<1> HIDE DEF w
<1>3. /\ x \in Proxy /\ x.made = proxy[p][t].made /\ x.unsent = proxy[p][t].unsent
      /\ x.got = proxy[p][t].got /\ x.writable = w /\ x.phase = proxy[p][t].phase
  BY <1>2 DEF Proxy
<1> HIDE DEF x
<1>4. /\ proxy' \in [Peer -> [Content -> Proxy]] /\ proxy'[p][t] = x
      /\ \A q \in Peer, u \in Content : q # p \/ u # t => proxy'[q][u] = proxy[q][u]
  <2>1. RestTyped /\ proxy' = [proxy EXCEPT ![p] = [proxy[p] EXCEPT ![t] = x]]
    BY <1>1 DEF Typed
  <2> QED  BY <1>3, <2>1, OneProxy, ZenonT(40)
<1>5. \A q \in Peer, u \in Content :
        /\ proxy'[q][u].made = proxy[q][u].made /\ proxy'[q][u].unsent = proxy[q][u].unsent
        /\ proxy'[q][u].got = proxy[q][u].got
  BY <1>3, <1>4
<1>6. RestTyped'
  BY <1>1, <1>4 DEF Typed, RestTyped
<1> QED  BY <1>1, <1>2, <1>3, <1>4, <1>5, <1>6, WatchIs DEF Watches

\* A candidate is held back, or sent.
LEMMA CandidateIs ==
  ASSUME Typed, NEW p \in Peer, NEW t \in Content, OnCandidatesReady(p, t)
  PROVE  /\ Exists(p) /\ UNCHANGED <<session, back, fails>> /\ Nobody /\ RestTyped'
         /\ \A q \in Peer, u \in Content :
              /\ q # p \/ u # t => proxy'[q][u] = proxy[q][u]
              /\ proxy'[q][u].got = proxy[q][u].got
              /\ proxy'[q][u].phase = proxy[q][u].phase
              /\ proxy'[q][u].writable = proxy[q][u].writable
         /\ proxy'[p][t].made = proxy[p][t].made + 1
         /\ proxy[p][t].made + 1 \in Cand
         /\ \/ /\ p = Initiator /\ ~session[p].acked /\ UNCHANGED net
               /\ proxy'[p][t].unsent = proxy[p][t].unsent \cup {proxy[p][t].made + 1}
            \/ /\ p # Initiator \/ session[p].acked
               /\ net' = net \cup {Info(p, session[p].name, t, {proxy[p][t].made + 1})}
               /\ proxy'[p][t].unsent = proxy[p][t].unsent
<1> DEFINE x == proxy[p][t]
           k == x.made + 1
           c == IF x.negotiated THEN x.sent ELSE x.sent \cup {k}
           d == x.unsent \cup {k}
           y == [x EXCEPT !.made = k, !.unsent = d]
           z == [x EXCEPT !.made = k, !.sent = c]
<1>1. x \in Proxy /\ Exists(p) /\ x.phase = "On" /\ x.made < MaxCand
      /\ UNCHANGED <<session, back, fails>>
  BY DEF Typed, RestTyped, OnCandidatesReady
<1>2. /\ p = Initiator /\ ~session[p].acked =>
           /\ UNCHANGED net
           /\ proxy' = [proxy EXCEPT ![p] = [proxy[p] EXCEPT ![t] = y]]
      /\ ~(p = Initiator /\ ~session[p].acked) =>
           /\ net' = net \cup {Info(p, session[p].name, t, {k})}
           /\ proxy' = [proxy EXCEPT ![p] = [proxy[p] EXCEPT ![t] = z]]
  <2>1. /\ proxy \in [Peer -> [Content -> Proxy]] /\ proxy[p] \in [Content -> Proxy]
    BY DEF Typed, RestTyped
  <2>2. CASE p = Initiator /\ ~session[p].acked
    <3> DEFINE v == [x EXCEPT !.made = x.made + 1]
               Q == [proxy EXCEPT ![p] = [proxy[p] EXCEPT ![t] = v]]
               w == [v EXCEPT !.unsent = x.unsent \cup {x.made + 1}]
    <3>1. UNCHANGED net
      BY <2>2 DEF OnCandidatesReady
    <3>2. proxy' = [Q EXCEPT ![p] = [Q[p] EXCEPT ![t] =
                      [Q[p][t] EXCEPT !.unsent = x.unsent \cup {x.made + 1}]]]
      BY <2>2 DEF OnCandidatesReady
    <3> HIDE DEF v
    <3>3. Q[p] = [proxy[p] EXCEPT ![t] = v] /\ Q[p][t] = v
      BY <2>1
    <3>4. [Q[p] EXCEPT ![t] = w] = [proxy[p] EXCEPT ![t] = w]
      BY <2>1, <3>3
    <3>5. [Q EXCEPT ![p] = [proxy[p] EXCEPT ![t] = w]] =
            [proxy EXCEPT ![p] = [proxy[p] EXCEPT ![t] = w]]
      BY <2>1
    <3>6. proxy' = [proxy EXCEPT ![p] = [proxy[p] EXCEPT ![t] = w]]
      BY <3>2, <3>3, <3>4, <3>5
    <3>7. w = y
      BY DEF v
    <3> HIDE DEF w, y
    <3>8. proxy' = [proxy EXCEPT ![p] = [proxy[p] EXCEPT ![t] = y]]
      BY <3>6, <3>7
    <3> QED  BY <2>2, <3>1, <3>8
  <2>3. CASE ~(p = Initiator /\ ~session[p].acked)
    <3>1. /\ net' = net \cup {Info(p, session[p].name, t, {x.made + 1})}
          /\ proxy' = [proxy EXCEPT ![p] = [proxy[p] EXCEPT ![t] =
                         [x EXCEPT !.made = x.made + 1,
                                   !.sent = IF x.negotiated THEN x.sent ELSE x.sent \cup {x.made + 1}]]]
      BY <2>1, <2>3 DEF OnCandidatesReady, Send
    <3> QED  BY <2>3, <3>1
  <2> QED  BY <2>2, <2>3
<1>3. /\ x.made \in 0..MaxCand /\ x.unsent \in SUBSET Cand /\ x.sent \in SUBSET Cand
  BY <1>1 DEF Proxy
<1>4. k \in Cand /\ k \in 0..MaxCand
  BY <1>1, <1>3, ConstantsOK DEF Cand
<1>5. c \in SUBSET Cand /\ d \in SUBSET Cand
  BY <1>3, <1>4
<1> HIDE DEF c, d, k
<1>6. /\ y \in Proxy /\ y.made = k /\ y.unsent = d /\ y.got = x.got /\ y.phase = x.phase
      /\ y.writable = x.writable
      /\ z \in Proxy /\ z.made = k /\ z.unsent = x.unsent /\ z.got = x.got /\ z.phase = x.phase
      /\ z.writable = x.writable
  BY <1>1, <1>4, <1>5 DEF Proxy
<1> HIDE DEF y, z
<1> DEFINE F == /\ proxy' \in [Peer -> [Content -> Proxy]]
                /\ \A q \in Peer, u \in Content : q # p \/ u # t => proxy'[q][u] = proxy[q][u]
                /\ \/ /\ p = Initiator /\ ~session[p].acked /\ UNCHANGED net
                      /\ proxy'[p][t] = y
                   \/ /\ p # Initiator \/ session[p].acked
                      /\ net' = net \cup {Info(p, session[p].name, t, {k})}
                      /\ proxy'[p][t] = z
<1>7. ASSUME p = Initiator /\ ~session[p].acked  PROVE F
  <2>1. UNCHANGED net /\ proxy' = [proxy EXCEPT ![p] = [proxy[p] EXCEPT ![t] = y]]
    BY <1>2, <1>7
  <2>2. /\ proxy' \in [Peer -> [Content -> Proxy]] /\ proxy'[p][t] = y
        /\ \A q \in Peer, u \in Content : q # p \/ u # t => proxy'[q][u] = proxy[q][u]
    BY <1>6, <2>1, OneProxy, ZenonT(40) DEF Typed
  <2> QED  BY <1>7, <2>1, <2>2
<1>8. ASSUME ~(p = Initiator /\ ~session[p].acked)  PROVE F
  <2>1. /\ net' = net \cup {Info(p, session[p].name, t, {k})}
        /\ proxy' = [proxy EXCEPT ![p] = [proxy[p] EXCEPT ![t] = z]]
    BY <1>2, <1>8
  <2>2. /\ proxy' \in [Peer -> [Content -> Proxy]] /\ proxy'[p][t] = z
        /\ \A q \in Peer, u \in Content : q # p \/ u # t => proxy'[q][u] = proxy[q][u]
    BY <1>6, <2>1, OneProxy, ZenonT(40) DEF Typed
  <2> QED  BY <1>8, <2>1, <2>2
<1>9. F
  BY <1>7, <1>8
<1>10. session[p].name \in 0..1 /\ {k} \in SUBSET Cand
  BY <1>4 DEF Typed, SessionsTyped, SessionRecord
<1>11. Info(p, session[p].name, t, {k}) \in Stanza
  BY <1>10, StanzaTyped DEF Typed
<1>12. RestTyped'
  BY <1>1, <1>9, <1>11 DEF Typed, RestTyped
<1>13. Nobody
  BY <1>1, NoSessionMoves DEF Typed
<1>14. \A q \in Peer, u \in Content :
              /\ proxy'[q][u].got = proxy[q][u].got
              /\ proxy'[q][u].phase = proxy[q][u].phase
              /\ proxy'[q][u].writable = proxy[q][u].writable
  BY <1>6, <1>9
<1>15. proxy'[p][t].made = k
  BY <1>6, <1>9
<1>16. \/ /\ p = Initiator /\ ~session[p].acked /\ UNCHANGED net /\ proxy'[p][t].unsent = d
       \/ /\ p # Initiator \/ session[p].acked
          /\ net' = net \cup {Info(p, session[p].name, t, {k})}
          /\ proxy'[p][t].unsent = x.unsent
  BY <1>6, <1>9
<1> QED  BY <1>1, <1>4, <1>9, <1>12, <1>13, <1>14, <1>15, <1>16 DEF d, k

\* Nothing but the network changes.
LEMMA NothingIs ==
  ASSUME Typed, NEW m \in net, NEW kind \in {"result", "error", "redirect"},
         UNCHANGED <<session, proxy>>, Arrive(m, kind, {})
  PROVE  Nobody /\ UNCHANGED proxy /\ RestTyped' /\ Arrived(m, kind, {})
<1>1. m \in Stanza
  BY DEF Typed, RestTyped
<1>2. Arrived(m, kind, {})
  BY <1>1, ArriveIs DEF Typed
<1>3. RestTyped'
  BY <1>2 DEF Arrived, Typed, RestTyped
<1> QED  BY <1>2, <1>3, NoSessionMoves DEF Typed

\* A stanza that does not find its session, or not in a state that allows it.
LEMMA StrayIs ==
  ASSUME Typed, NEW m \in net, Redirect(m) \/ UnknownSession(m) \/ OnUnexpectedMessage(m)
  PROVE  /\ Nobody /\ UNCHANGED proxy /\ RestTyped'
         /\ \/ Misdirected(m) /\ m.type = "initiate" /\ Arrived(m, "redirect", {})
            \/ Misdirected(m) /\ m.type # "initiate" /\ Arrived(m, "error", {})
            \/ /\ ~Misdirected(m) /\ ~Exists(Other(m.from)) /\ m.type # "initiate"
               /\ Arrived(m, "error", {})
            \/ /\ m.type \in {"accept", "reject"} /\ Exists(Other(m.from))
               /\ session[Other(m.from)].state # "SENTINITIATE" /\ Arrived(m, "error", {})
<1>1. CASE Redirect(m)
  <2>1. CASE m.type = "initiate"
    <3>1. Misdirected(m) /\ Arrive(m, "redirect", {}) /\ UNCHANGED <<session, proxy>>
      BY <1>1, <2>1 DEF Redirect
    <3> QED  BY <2>1, <3>1, NothingIs
  <2>2. CASE m.type # "initiate"
    <3>1. Misdirected(m) /\ Arrive(m, "error", {}) /\ UNCHANGED <<session, proxy>>
      BY <1>1, <2>2 DEF Redirect
    <3> QED  BY <2>2, <3>1, NothingIs
  <2> QED  BY <2>1, <2>2
<1>2. CASE UnknownSession(m)
  BY <1>2, NothingIs DEF UnknownSession
<1>3. CASE OnUnexpectedMessage(m)
  <2>1. /\ m.type \in {"accept", "reject"} /\ Exists(Other(m.from))
        /\ session[Other(m.from)].state # "SENTINITIATE"
        /\ Arrive(m, "error", {}) /\ UNCHANGED <<session, proxy>>
    BY <1>3 DEF OnUnexpectedMessage
  <2> QED  BY <2>1, NothingIs
<1> QED  BY <1>1, <1>2, <1>3

\* The session of p goes to st, by a message.
Goes(p, st) == /\ Alone(p) /\ session'[p].state = st /\ RestTyped'
               /\ Keeps(session[p], session'[p])
               /\ session[p].state # st => Holds(session'[p], "State")

\* An initiate opens the session of the responder, whose user may reject at once.
LEMMA InitiateArrives ==
  ASSUME Typed, NEW m \in net, OnInitiateMessage(m)
  PROVE  /\ ~Misdirected(m) /\ m.type = "initiate" /\ session[Responder].state = "None"
         /\ \/ /\ Goes(Responder, "RECEIVEDINITIATE") /\ AllConnect(Responder)
               /\ Arrived(m, "result", {})
            \/ /\ Goes(Responder, "SENTREJECT") /\ UNCHANGED proxy
               /\ Arrived(m, "result", {To(Responder, "reject")})
<1> DEFINE p == Responder
           u == SetState(session[p], "RECEIVEDINITIATE")
           v == SetState(session[p], "SENTREJECT")
           w == Post(v, "State")
<1>1. /\ p \in Peer /\ m \in Stanza /\ session[p] \in SessionRecord
      /\ {To(p, "reject")} \subseteq Stanza
  BY Sides, StanzaTyped DEF Typed, RestTyped, SessionsTyped
<1>2. /\ ~Misdirected(m) /\ m.type = "initiate" /\ session[p].state = "None"
      /\ \/ /\ session' = [session EXCEPT ![p] = u]
            /\ proxy' = [proxy EXCEPT ![p] = [t \in Content |-> Connected(Negotiated(proxy[p][t]))]]
            /\ Arrive(m, "result", {})
         \/ /\ session' = [session EXCEPT ![p] = w]
            /\ Arrive(m, "result", {To(p, "reject")})
            /\ UNCHANGED proxy
  BY DEF OnInitiateMessage, ForAll
<1>3. Keeps(session[p], u) /\ u.state = "RECEIVEDINITIATE" /\ Holds(u, "State")
  BY <1>1, <1>2, SetStateIs, States
<1>4. Keeps(session[p], v) /\ v.state = "SENTREJECT" /\ v \in SessionRecord
  BY <1>1, SetStateIs, States DEF Keeps
<1>5. Keeps(session[p], w) /\ w.state = "SENTREJECT" /\ Holds(w, "State")
  BY <1>4, PostIs DEF Keeps
<1> HIDE DEF u, v, w
<1>6. CASE /\ session' = [session EXCEPT ![p] = u]
           /\ proxy' = [proxy EXCEPT ![p] = [t \in Content |-> Connected(Negotiated(proxy[p][t]))]]
           /\ Arrive(m, "result", {})
  <2> DEFINE g == [t \in Content |-> Connected(Negotiated(proxy[p][t]))]
  <2>1. \A t \in Content : g[t] = Connected(Negotiated(proxy[p][t]))
    OBVIOUS
  <2>2. proxy' = [proxy EXCEPT ![p] = [t \in Content |-> g[t]]]
    BY <1>6
  <2> HIDE DEF g
  <2>3. proxy' \in [Peer -> [Content -> Proxy]] /\ AllConnect(p)
    BY <1>1, <2>1, <2>2, AllConnectIs DEF Typed
  <2>4. Arrived(m, "result", {})
    BY <1>1, <1>6, ArriveIs DEF Typed
  <2>5. Alone(p) /\ session'[p] = u
    BY <1>1, <1>3, <1>6, SessionIs DEF Typed, Alone, Keeps
  <2>6. RestTyped'
    BY <2>3, <2>4 DEF RestTyped, Arrived
  <2> QED  BY <1>2, <1>3, <2>3, <2>4, <2>5, <2>6 DEF Goes
<1>7. CASE /\ session' = [session EXCEPT ![p] = w]
           /\ Arrive(m, "result", {To(p, "reject")})
           /\ UNCHANGED proxy
  <2>1. Arrived(m, "result", {To(p, "reject")})
    BY <1>1, <1>7, ArriveIs DEF Typed
  <2>2. Alone(p) /\ session'[p] = w
    BY <1>1, <1>5, <1>7, SessionIs DEF Typed, Alone, Keeps
  <2>3. RestTyped'
    BY <1>7, <2>1 DEF RestTyped, Arrived, Typed
  <2> QED  BY <1>2, <1>5, <1>7, <2>1, <2>2, <2>3 DEF Goes
<1> QED  BY <1>2, <1>6, <1>7

\* A reject is taken by an initiator that waits for an answer,
LEMMA RejectArrives ==
  ASSUME Typed, NEW m \in net, OnRejectMessage(m)
  PROVE  /\ m.type = "reject" /\ session[Initiator].state = "SENTINITIATE"
         /\ Goes(Initiator, "RECEIVEDREJECT") /\ UNCHANGED proxy /\ Arrived(m, "result", {})
<1> DEFINE p == Initiator
           u == SetState(session[p], "RECEIVEDREJECT")
<1>1. p \in Peer /\ m \in Stanza /\ session[p] \in SessionRecord
  BY Sides DEF Typed, RestTyped, SessionsTyped
<1>2. /\ m.type = "reject" /\ session[p].state = "SENTINITIATE"
      /\ session' = [session EXCEPT ![p] = u] /\ Arrive(m, "result", {}) /\ UNCHANGED proxy
  BY DEF OnRejectMessage
<1>3. Keeps(session[p], u) /\ u.state = "RECEIVEDREJECT" /\ Holds(u, "State")
  BY <1>1, <1>2, SetStateIs, States
<1> HIDE DEF u
<1>4. Arrived(m, "result", {})
  BY <1>1, <1>2, ArriveIs DEF Typed
<1>5. Alone(p) /\ session'[p] = u
  BY <1>1, <1>2, <1>3, SessionIs DEF Typed, Alone, Keeps
<1>6. RestTyped'
  BY <1>2, <1>4 DEF RestTyped, Arrived, Typed
<1> QED  BY <1>2, <1>3, <1>4, <1>5, <1>6 DEF Goes

\* and a terminate by whoever has the session.
LEMMA TerminateArrives ==
  ASSUME Typed, NEW m \in net, OnTerminateMessage(m)
  PROVE  /\ ~Misdirected(m) /\ m.type = "terminate" /\ Exists(Other(m.from))
         /\ Goes(Other(m.from), "RECEIVEDTERMINATE") /\ UNCHANGED proxy
         /\ Arrived(m, "result", {})
<1> DEFINE p == Other(m.from)
           u == SetState(session[p], "RECEIVEDTERMINATE")
<1>1. p \in Peer /\ m \in Stanza /\ session[p] \in SessionRecord
  BY Sides DEF Typed, RestTyped, SessionsTyped
<1>2. /\ ~Misdirected(m) /\ m.type = "terminate" /\ Exists(p)
      /\ session' = [session EXCEPT ![p] = u] /\ Arrive(m, "result", {}) /\ UNCHANGED proxy
  BY DEF OnTerminateMessage
<1>3. /\ Keeps(session[p], u) /\ u.state = "RECEIVEDTERMINATE"
      /\ session[p].state # "RECEIVEDTERMINATE" => Holds(u, "State")
  BY <1>1, SetStateIs, States
<1> HIDE DEF u
<1>4. Arrived(m, "result", {})
  BY <1>1, <1>2, ArriveIs DEF Typed
<1>5. Alone(p) /\ session'[p] = u
  BY <1>1, <1>2, <1>3, SessionIs DEF Typed, Alone, Keeps
<1>6. RestTyped'
  BY <1>2, <1>4 DEF RestTyped, Arrived, Typed
<1> QED  BY <1>2, <1>3, <1>4, <1>5, <1>6 DEF Goes

\* The candidates that were held back are sent.
Releases(p, ms) ==
  /\ ms \subseteq Stanza
  /\ \A m \in ms : m.type = "info" /\ m.from = p /\ m.name = session[p].name
  /\ ~session[p].acked =>
       \A t \in Content : \A k \in proxy[p][t].unsent :
         \E m \in ms : m.type = "info" /\ m.from = p /\ m.content = t /\ k \in m.cands

LEMMA AckedIs ==
  ASSUME Typed, NEW p \in Peer  PROVE Releases(p, Acked(p))
<1>1. session[p].name \in 0..1
  BY DEF Typed, SessionsTyped, SessionRecord
<1>2. CASE session[p].acked
  BY <1>2 DEF Acked, Releases
<1>3. CASE ~session[p].acked
  <2> DEFINE f == [t \in Content |-> proxy[p][t].unsent]
  <2>1. f \in [Content -> SUBSET Cand]
    BY DEF Typed, RestTyped, Proxy
  <2>2. Acked(p) = {Info(p, session[p].name, t, f[t]) : t \in {u \in Content : f[u] # {}}}
    <3>1. Acked(p) = {Info(p, session[p].name, t, proxy[p][t].unsent) :
                        t \in {u \in Content : proxy[p][u].unsent # {}}}
      BY <1>3 DEF Acked, InfosOf
    <3> QED  BY <3>1
  <2>3. \A t \in Content : f[t] = proxy[p][t].unsent
    OBVIOUS
  <2> HIDE DEF f
  <2> DEFINE S == {Info(p, session[p].name, t, f[t]) : t \in {u \in Content : f[u] # {}}}
  <2>4. /\ S \subseteq Stanza
        /\ \A m \in S : m.type = "info" /\ m.from = p /\ m.name = session[p].name
        /\ \A t \in Content : \A k \in f[t] :
             \E m \in S : m.type = "info" /\ m.from = p /\ m.content = t /\ k \in m.cands
    BY <1>1, <2>1, InfosTyped DEF Typed
  <2>5. Acked(p) = S
    BY <2>2
  <2> HIDE DEF S
  <2> QED  BY <2>3, <2>4, <2>5 DEF Releases
<1> QED  BY <1>2, <1>3

\* The proxies of p open: they connect, and what they held back goes.
Opens(p) ==
  \A q \in Peer, t \in Content :
    /\ proxy'[q][t].made = proxy[q][t].made /\ proxy'[q][t].got = proxy[q][t].got
    /\ proxy'[q][t].writable = proxy[q][t].writable
    /\ q # p \/ session[p].acked => proxy'[q][t].unsent = proxy[q][t].unsent
    /\ \/ proxy'[q][t].phase = proxy[q][t].phase
       \/ proxy'[q][t].phase = "Connecting" /\ proxy[q][t].phase = "Idle"

\* An accept acknowledges the initiate, too.
LEMMA AcceptArrives ==
  ASSUME Typed, NEW m \in net, OnAcceptMessage(m)
  PROVE  /\ m.type = "accept" /\ session[Initiator].state = "SENTINITIATE"
         /\ Alone(Initiator) /\ session'[Initiator].state = "RECEIVEDACCEPT"
         /\ session'[Initiator].name = session[Initiator].name /\ session'[Initiator].acked
         /\ session'[Initiator].timer = session[Initiator].timer
         /\ \A x : Holds(session[Initiator], x) => Holds(session'[Initiator], x)
         /\ Holds(session'[Initiator], "State")
         /\ Opens(Initiator) /\ \A t \in Content : proxy'[Initiator][t].phase # "Idle"
         /\ RestTyped'
         /\ \E ms \in SUBSET Stanza : Releases(Initiator, ms) /\ Arrived(m, "result", ms)
<1> DEFINE p == Initiator
           u == SetState(session[p], "RECEIVEDACCEPT")
           v == [u EXCEPT !.acked = TRUE]
           g == [t \in Content |-> Opened(p, proxy[p][t])]
<1>1. p \in Peer /\ m \in Stanza /\ session[p] \in SessionRecord
  BY Sides DEF Typed, RestTyped, SessionsTyped
<1>2. /\ m.type = "accept" /\ session[p].state = "SENTINITIATE"
      /\ session' = [session EXCEPT ![p] = v] /\ Arrive(m, "result", Acked(p))
  BY DEF OnAcceptMessage
<1>3. proxy' = [proxy EXCEPT ![p] = g]
  BY DEF OnAcceptMessage, ForAll, Opened
<1>4. \A t \in Content : g[t] = Opened(p, proxy[p][t])
  OBVIOUS
<1>5. /\ u \in SessionRecord /\ u.state = "RECEIVEDACCEPT" /\ u.name = session[p].name
      /\ u.timer = session[p].timer /\ Holds(u, "State")
      /\ \A x : Holds(session[p], x) => Holds(u, x)
  BY <1>1, <1>2, SetStateIs, States DEF Keeps
<1> HIDE DEF u, g
<1>6. /\ v \in SessionRecord /\ v.state = u.state /\ v.name = u.name /\ v.acked
      /\ v.timer = u.timer /\ v.posted = u.posted
  BY <1>5 DEF SessionRecord
<1> HIDE DEF v
<1>7. Alone(p) /\ session'[p] = v
  BY <1>1, <1>2, <1>6, SessionIs DEF Typed, Alone
<1>8. Holds(v, "State") /\ \A x : Holds(session[p], x) => Holds(v, x)
  BY <1>5, <1>6 DEF Holds
<1>9. \A q \in Peer, t \in Content : proxy[q][t] \in Proxy
  BY DEF Typed, RestTyped
<1>10. \A t \in Content :
         /\ g[t] \in Proxy /\ g[t].made = proxy[p][t].made /\ g[t].got = proxy[p][t].got
         /\ g[t].unsent = (IF session[p].acked THEN proxy[p][t].unsent ELSE {})
         /\ g[t].writable = proxy[p][t].writable
         /\ g[t].phase = (IF proxy[p][t].phase = "Idle" THEN "Connecting" ELSE proxy[p][t].phase)
  <2> TAKE t \in Content
  <2>1. proxy[p][t] \in Proxy
    BY <1>1, <1>9
  <2> QED  BY <1>4, <2>1, OpenedIs
<1>11. g \in [Content -> Proxy] /\ g = [t \in Content |-> g[t]]
  BY <1>10 DEF g
<1>12. proxy' = [proxy EXCEPT ![p] = [t \in Content |-> g[t]]]
  BY <1>3, <1>11
<1>13. /\ proxy' \in [Peer -> [Content -> Proxy]] /\ proxy'[p] = g
       /\ \A q \in Peer : q # p => proxy'[q] = proxy[q]
  BY <1>1, <1>11, <1>12, AllProxies DEF Typed
<1>14. Opens(p)
  <2> SUFFICES ASSUME NEW q \in Peer, NEW t \in Content
               PROVE  /\ proxy'[q][t].made = proxy[q][t].made
                      /\ proxy'[q][t].got = proxy[q][t].got
                      /\ proxy'[q][t].writable = proxy[q][t].writable
                      /\ q # p \/ session[p].acked => proxy'[q][t].unsent = proxy[q][t].unsent
                      /\ \/ proxy'[q][t].phase = proxy[q][t].phase
                         \/ proxy'[q][t].phase = "Connecting" /\ proxy[q][t].phase = "Idle"
    BY DEF Opens
  <2>1. CASE q = p
    BY <1>10, <1>13, <2>1
  <2>2. CASE q # p
    BY <1>13, <2>2
  <2> QED  BY <2>1, <2>2
<1>15. \A t \in Content : proxy'[p][t].phase # "Idle"
  BY <1>10, <1>13
<1>16. Releases(p, Acked(p)) /\ Acked(p) \in SUBSET Stanza
  BY <1>1, AckedIs DEF Releases
<1>17. Arrived(m, "result", Acked(p))
  BY <1>1, <1>2, <1>16, ArriveIs DEF Typed
<1>18. RestTyped'
  BY <1>13, <1>17 DEF RestTyped, Arrived
<1>19. /\ session'[p].state = "RECEIVEDACCEPT" /\ session'[p].name = session[p].name
       /\ session'[p].acked /\ session'[p].timer = session[p].timer
  BY <1>5, <1>6, <1>7
<1>20. /\ Holds(session'[p], "State")
       /\ \A x : Holds(session[p], x) => Holds(session'[p], x)
  BY <1>7, <1>8
<1> QED  BY <1>2, <1>7, <1>14, <1>15, <1>16, <1>17, <1>18, <1>19, <1>20

\* Candidates are passed on.
LEMMA InfoArrives ==
  ASSUME Typed, NEW m \in net, OnTransportInfoMessage(m)
  PROVE  /\ ~Misdirected(m) /\ m.type = "info" /\ Exists(Other(m.from)) /\ m.content \in Content
         /\ Nobody /\ RestTyped' /\ Arrived(m, "result", {})
         /\ \A q \in Peer, t \in Content :
              /\ proxy'[q][t].made = proxy[q][t].made
              /\ proxy'[q][t].unsent = proxy[q][t].unsent
              /\ proxy'[q][t].writable = proxy[q][t].writable
              /\ proxy[q][t].got \subseteq proxy'[q][t].got
              /\ \/ proxy'[q][t].phase = proxy[q][t].phase
                 \/ proxy'[q][t].phase = "Connecting" /\ proxy[q][t].phase = "Idle"
         /\ m.cands \subseteq proxy'[Other(m.from)][m.content].got
<1> DEFINE p == Other(m.from)
           t == m.content
           c == Connected(Negotiated(proxy[p][t]))
           d == proxy[p][t].got \cup m.cands
           x == [c EXCEPT !.got = d]
<1>1. /\ ~Misdirected(m) /\ m.type = "info" /\ Exists(p)
      /\ Arrive(m, "result", {}) /\ UNCHANGED session
  BY DEF OnTransportInfoMessage
<1>2. m \in Stanza /\ m.content \in Content /\ m.cands \in SUBSET Cand /\ p \in Peer
  BY <1>1, Sides DEF Typed, RestTyped, Stanza
<1>3. proxy[p][t] \in Proxy
  BY <1>2 DEF Typed, RestTyped
<1>4. /\ c \in Proxy /\ c.made = proxy[p][t].made /\ c.unsent = proxy[p][t].unsent
      /\ c.writable = proxy[p][t].writable /\ c.got = proxy[p][t].got
      /\ c.phase = IF proxy[p][t].phase = "Idle" THEN "Connecting" ELSE proxy[p][t].phase
  BY <1>3, ProxyOps
<1>5. proxy' = [proxy EXCEPT ![p] = [proxy[p] EXCEPT ![t] =
                  [c EXCEPT !.got = c.got \cup m.cands]]]
  BY DEF OnTransportInfoMessage, Told
<1>6. proxy' = [proxy EXCEPT ![p] = [proxy[p] EXCEPT ![t] = x]]
  <2>1. c.got \cup m.cands = d
    BY <1>4
  <2> HIDE DEF c, d
  <2> QED  BY <1>5, <2>1
<1>7. d \in SUBSET Cand /\ proxy[p][t].got \subseteq d /\ m.cands \subseteq d
  BY <1>2, <1>3 DEF Proxy
<1> HIDE DEF c, d
<1>8. /\ x \in Proxy /\ x.made = c.made /\ x.unsent = c.unsent /\ x.writable = c.writable
      /\ x.phase = c.phase /\ x.got = d
  BY <1>4, <1>7 DEF Proxy
<1> HIDE DEF x
<1>9. /\ proxy' \in [Peer -> [Content -> Proxy]] /\ proxy'[p][t] = x
      /\ \A q \in Peer, u \in Content : q # p \/ u # t => proxy'[q][u] = proxy[q][u]
  BY <1>2, <1>6, <1>8, OneProxy, ZenonT(40) DEF Typed
<1>10. Arrived(m, "result", {})
  BY <1>1, <1>2, ArriveIs DEF Typed
<1>11. RestTyped'
  BY <1>9, <1>10 DEF RestTyped, Arrived
<1>12. \A q \in Peer, u \in Content :
              /\ proxy'[q][u].made = proxy[q][u].made
              /\ proxy'[q][u].unsent = proxy[q][u].unsent
              /\ proxy'[q][u].writable = proxy[q][u].writable
              /\ proxy[q][u].got \subseteq proxy'[q][u].got
              /\ \/ proxy'[q][u].phase = proxy[q][u].phase
                 \/ proxy'[q][u].phase = "Connecting" /\ proxy[q][u].phase = "Idle"
  <2> TAKE q \in Peer, u \in Content
  <2>1. CASE q = p /\ u = t
    BY <1>4, <1>7, <1>8, <1>9, <2>1
  <2>2. CASE q # p \/ u # t
    BY <1>9, <2>2
  <2> QED  BY <2>1, <2>2
<1>13. Nobody
  BY <1>1, NoSessionMoves DEF Typed
<1>14. m.cands \subseteq proxy'[p][t].got
  BY <1>7, <1>8, <1>9
<1> QED  BY <1>1, <1>2, <1>10, <1>11, <1>12, <1>13, <1>14

\* The answers that arrive.
LEMMA AnswerTyped ==
  ASSUME Typed, NEW r \in back
  PROVE  r.of.from \in Peer /\ r.of \in Stanza /\ r.kind \in {"result", "error", "redirect"}
BY DEF Typed, RestTyped, Answer, Stanza

\* The answer is not for the session.
LEMMA OldAnswerIs ==
  ASSUME Typed, NEW r \in back, OnOldAnswer(r)
  PROVE  ~Ours(r) /\ Nobody /\ RestTyped' /\ back' = back \ {r} /\ UNCHANGED <<proxy, net, fails>>
<1>1. ~Ours(r) /\ UNCHANGED <<session, proxy, net, fails>> /\ back' = back \ {r}
  BY DEF OnOldAnswer, TakeAnswer
<1> QED  BY <1>1, NoSessionMoves DEF Typed, RestTyped

\* The initiate is acknowledged: the candidates held back are sent.
LEMMA InitiateResponseIs ==
  ASSUME Typed, NEW r \in back, OnInitiateResponse(r)
  PROVE  LET p == r.of.from
         IN /\ Ours(r) /\ r.kind = "result"
            /\ Alone(p) /\ session'[p].state = session[p].state
            /\ session'[p].name = session[p].name /\ session'[p].acked
            /\ session'[p].posted = session[p].posted /\ session'[p].timer = session[p].timer
            /\ Opens(p) /\ \A q \in Peer, t \in Content : proxy'[q][t].phase = proxy[q][t].phase
            /\ RestTyped' /\ back' = back \ {r} /\ UNCHANGED fails
            /\ \E ms \in SUBSET Stanza : Releases(p, ms) /\ net' = net \cup ms
<1> DEFINE p == r.of.from
           s == [session[p] EXCEPT !.acked = TRUE]
           y(t) == [proxy[p][t] EXCEPT !.unsent = IF session[p].acked THEN proxy[p][t].unsent ELSE {}]
           g == [t \in Content |-> y(t)]
<1>1. p \in Peer
  BY AnswerTyped
<1>2. /\ Ours(r) /\ r.kind = "result" /\ session' = [session EXCEPT ![p] = s]
      /\ net' = net \cup Acked(p) /\ back' = back \ {r} /\ UNCHANGED fails
  BY DEF OnInitiateResponse, TakeAnswer, Send
<1>3. proxy' = [proxy EXCEPT ![p] = [t \in Content |->
                  [proxy[p][t] EXCEPT !.unsent = IF session[p].acked THEN proxy[p][t].unsent ELSE {}]]]
  BY DEF OnInitiateResponse, ForAll
<1>4. session[p] \in SessionRecord
  BY <1>1 DEF Typed, SessionsTyped
<1>5. /\ s \in SessionRecord /\ s.state = session[p].state /\ s.name = session[p].name
      /\ s.acked /\ s.posted = session[p].posted /\ s.timer = session[p].timer
  BY <1>4 DEF SessionRecord
<1> HIDE DEF s
<1>6. Alone(p) /\ session'[p] = s
  BY <1>1, <1>2, <1>5, SessionIs DEF Typed, Alone
<1>7. \A t \in Content :
        /\ y(t) \in Proxy /\ y(t).made = proxy[p][t].made /\ y(t).got = proxy[p][t].got
        /\ y(t).writable = proxy[p][t].writable /\ y(t).phase = proxy[p][t].phase
        /\ y(t).unsent = IF session[p].acked THEN proxy[p][t].unsent ELSE {}
  <2> TAKE t \in Content
  <2>1. proxy[p][t] \in Proxy
    BY <1>1 DEF Typed, RestTyped
  <2> DEFINE d == IF session[p].acked THEN proxy[p][t].unsent ELSE {}
  <2>2. d \in SUBSET Cand
    BY <2>1 DEF Proxy
  <2> HIDE DEF d
  <2>3. LET z == [proxy[p][t] EXCEPT !.unsent = d]
        IN /\ z \in Proxy /\ z.made = proxy[p][t].made /\ z.got = proxy[p][t].got
           /\ z.writable = proxy[p][t].writable /\ z.phase = proxy[p][t].phase /\ z.unsent = d
    BY <2>1, <2>2 DEF Proxy
  <2> QED  BY <2>3 DEF d
<1>8. g \in [Content -> Proxy] /\ \A t \in Content : g[t] = y(t)
  BY <1>7
<1>9. proxy' = [proxy EXCEPT ![p] = [t \in Content |-> g[t]]]
  BY <1>3, <1>8
<1> HIDE DEF g, y
<1>10. /\ proxy' \in [Peer -> [Content -> Proxy]] /\ proxy'[p] = g
       /\ \A q \in Peer : q # p => proxy'[q] = proxy[q]
  BY <1>1, <1>8, <1>9, AllProxies DEF Typed
<1>11. Opens(p) /\ \A q \in Peer, t \in Content : proxy'[q][t].phase = proxy[q][t].phase
  <2>1. \A q \in Peer, t \in Content :
           /\ proxy'[q][t].made = proxy[q][t].made /\ proxy'[q][t].got = proxy[q][t].got
           /\ proxy'[q][t].writable = proxy[q][t].writable
           /\ q # p \/ session[p].acked => proxy'[q][t].unsent = proxy[q][t].unsent
           /\ proxy'[q][t].phase = proxy[q][t].phase
    <3> TAKE q \in Peer, t \in Content
    <3>1. CASE q = p
      BY <1>7, <1>8, <1>10, <3>1
    <3>2. CASE q # p
      BY <1>10, <3>2
    <3> QED  BY <3>1, <3>2
  <2> QED  BY <2>1 DEF Opens
<1>12. Releases(p, Acked(p)) /\ Acked(p) \in SUBSET Stanza
  BY <1>1, AckedIs DEF Releases
<1>13. RestTyped'
  BY <1>2, <1>10, <1>12 DEF RestTyped, Typed
<1> QED  BY <1>2, <1>5, <1>6, <1>11, <1>12, <1>13

\* An error is posted to the session.
Fails(p, r) == /\ Alone(p) /\ Keeps(session[p], session'[p]) /\ Holds(session'[p], "Error")
               /\ session'[p].state = session[p].state
               /\ RestTyped' /\ back' = back \ {r} /\ UNCHANGED <<proxy, net, fails>>

LEMMA FailedIs ==
  ASSUME Typed, NEW r \in back, OnFailedSend(r) \/ OnLateRedirect(r)
  PROVE  /\ Ours(r) /\ Fails(r.of.from, r)
         /\ \/ r.kind = "error"
            \/ r.kind = "redirect" /\ session[r.of.from].state # "SENTINITIATE"
<1> DEFINE p == r.of.from
           s == SetError(session[p])
<1>1. /\ Ours(r) /\ session' = [session EXCEPT ![p] = s] /\ back' = back \ {r}
      /\ UNCHANGED <<proxy, net, fails>>
      /\ r.kind = "error" \/ (r.kind = "redirect" /\ session[p].state # "SENTINITIATE")
  BY DEF OnFailedSend, OnLateRedirect, TakeAnswer
<1>2. p \in Peer /\ session[p] \in SessionRecord
  BY AnswerTyped DEF Typed, SessionsTyped
<1>3. Keeps(session[p], s) /\ s.state = session[p].state /\ Holds(s, "Error")
  BY <1>2, SetErrorIs
<1> HIDE DEF s
<1>4. Alone(p) /\ session'[p] = s
  BY <1>1, <1>2, <1>3, SessionIs DEF Typed, Alone, Keeps
<1> QED  BY <1>1, <1>3, <1>4 DEF Fails, Typed, RestTyped

\* The initiate goes to the new name, with the candidates sent so far.
LEMMA RedirectErrorIs ==
  ASSUME Typed, NEW r \in back, OnRedirectError(r)
  PROVE  LET p == r.of.from
         IN /\ Ours(r) /\ r.kind = "redirect" /\ session[p].state = "SENTINITIATE"
            /\ Alone(p) /\ session'[p].state = session[p].state
            /\ session'[p].name = 1 /\ session'[p].acked = session[p].acked
            /\ session'[p].posted = session[p].posted /\ session'[p].timer = session[p].timer
            /\ \A q \in Peer, t \in Content : Connects(q, t)
            /\ \A q \in Peer, t \in Content : proxy'[q][t].phase = proxy[q][t].phase
            /\ RestTyped' /\ back' = back \ {r} /\ UNCHANGED fails
            /\ \E ms \in SUBSET Stanza :
                 /\ net' = net \cup ms
                 /\ \A m \in ms : m.from = p /\ m.name = 1 /\ m.type \in {"initiate", "info"}
                 /\ \E m \in ms : m = [type |-> "initiate", from |-> p, name |-> 1]
<1> DEFINE p == r.of.from
           s == [session[p] EXCEPT !.name = 1]
           y(t) == [proxy[p][t] EXCEPT !.sent = {}]
           g == [t \in Content |-> y(t)]
           i == [To(p, "initiate") EXCEPT !.name = 1]
           J == InfosOf(p, 1, LAMBDA t : proxy[p][t].sent)
           ms == {i} \cup J
<1>1. p \in Peer /\ session[p] \in SessionRecord
  BY AnswerTyped DEF Typed, SessionsTyped
<1>2. /\ Ours(r) /\ r.kind = "redirect" /\ session[p].state = "SENTINITIATE"
      /\ session' = [session EXCEPT ![p] = s]
      /\ net' = net \cup ms /\ back' = back \ {r} /\ UNCHANGED fails
  BY DEF OnRedirectError, TakeAnswer, Send
<1>3. proxy' = [proxy EXCEPT ![p] = [t \in Content |-> [proxy[p][t] EXCEPT !.sent = {}]]]
  BY DEF OnRedirectError, ForAll
<1>4. i = [type |-> "initiate", from |-> p, name |-> 1]
  BY DEF To
<1>5. i \in Stanza
  BY <1>1, <1>4 DEF Stanza
<1>6. /\ J \subseteq Stanza
      /\ \A m \in J :
           m.type = "info" /\ m.from = p /\ m.name = 1
  <2> DEFINE f == [t \in Content |-> proxy[p][t].sent]
             S == {Info(p, 1, t, f[t]) : t \in {u \in Content : f[u] # {}}}
  <2>1. f \in [Content -> SUBSET Cand]
    BY <1>1 DEF Typed, RestTyped, Proxy
  <2>2. InfosOf(p, 1, LAMBDA t : proxy[p][t].sent) = S
    <3>1. InfosOf(p, 1, LAMBDA t : proxy[p][t].sent)
            = {Info(p, 1, t, proxy[p][t].sent) : t \in {u \in Content : proxy[p][u].sent # {}}}
      BY DEF InfosOf
    <3> QED  BY <3>1
  <2> HIDE DEF f
  <2>3. S \subseteq Stanza /\ \A m \in S : m.type = "info" /\ m.from = p /\ m.name = 1
    BY <1>1, <2>1, InfosTyped DEF Typed
  <2> HIDE DEF S
  <2> QED  BY <2>2, <2>3
<1>7. /\ s \in SessionRecord /\ s.state = session[p].state /\ s.name = 1
      /\ s.acked = session[p].acked /\ s.posted = session[p].posted
      /\ s.timer = session[p].timer
  BY <1>1 DEF SessionRecord
<1> HIDE DEF s, i, J
<1>8. Alone(p) /\ session'[p] = s
  BY <1>1, <1>2, <1>7, SessionIs DEF Typed, Alone
<1>9. \A t \in Content :
        /\ y(t) \in Proxy /\ y(t).made = proxy[p][t].made /\ y(t).got = proxy[p][t].got
        /\ y(t).writable = proxy[p][t].writable /\ y(t).phase = proxy[p][t].phase
        /\ y(t).unsent = proxy[p][t].unsent
  <2> TAKE t \in Content
  <2>1. proxy[p][t] \in Proxy
    BY <1>1 DEF Typed, RestTyped
  <2> QED  BY <2>1 DEF Proxy
<1>10. g \in [Content -> Proxy] /\ \A t \in Content : g[t] = y(t)
  BY <1>9
<1>11. proxy' = [proxy EXCEPT ![p] = [t \in Content |-> g[t]]]
  BY <1>3, <1>10
<1> HIDE DEF g, y
<1>12. /\ proxy' \in [Peer -> [Content -> Proxy]] /\ proxy'[p] = g
       /\ \A q \in Peer : q # p => proxy'[q] = proxy[q]
  BY <1>1, <1>10, <1>11, AllProxies DEF Typed
<1>13. \A q \in Peer, t \in Content : Connects(q, t) /\ proxy'[q][t].phase = proxy[q][t].phase
  <2> TAKE q \in Peer, t \in Content
  <2>1. CASE q = p
    BY <1>9, <1>10, <1>12, <2>1 DEF Connects
  <2>2. CASE q # p
    BY <1>12, <2>2 DEF Connects
  <2> QED  BY <2>1, <2>2
<1>14. /\ ms \in SUBSET Stanza
       /\ \A m \in ms : m.from = p /\ m.name = 1 /\ m.type \in {"initiate", "info"}
       /\ i \in ms
  BY <1>4, <1>5, <1>6
<1> HIDE DEF ms
<1>15. RestTyped'
  BY <1>2, <1>12, <1>14 DEF RestTyped, Typed
<1> QED  BY <1>2, <1>4, <1>7, <1>8, <1>13, <1>14, <1>15

\* A message of the session is taken, and moves its state to st.
Takes(p, st) == /\ Alone(p) /\ session'[p].state = st
                /\ session'[p].name = session[p].name /\ session'[p].acked = session[p].acked
                /\ session'[p].timer = session[p].timer
                /\ Holds(session[p], "Error") => Holds(session'[p], "Error")
                /\ UNCHANGED proxy

\* What MSG_STATE does: after an accept the session is in progress, after a reject it is
\* terminated, and after that it goes.
LEMMA StateIs ==
  ASSUME Typed, NEW p \in Peer, OnState(p)
  PROVE  /\ Exists(p) /\ RestTyped' /\ UNCHANGED <<net, back, fails>>
         /\ \/ /\ session[p].state \in {"SENTACCEPT", "RECEIVEDACCEPT"}
               /\ Takes(p, "INPROGRESS")
            \/ /\ session[p].state \in {"SENTREJECT", "RECEIVEDREJECT"}
               /\ Takes(p, "SENTTERMINATE") /\ Holds(session'[p], "State")
            \/ /\ session[p].state \in {"SENTTERMINATE", "RECEIVEDTERMINATE"}
               /\ Alone(p) /\ session'[p] = [NoSession EXCEPT !.state = "Gone"]
               /\ \A t \in Content : proxy'[p][t] = Unconnected
               /\ \A q \in Peer : q # p => proxy'[q] = proxy[q]
            \/ /\ session[p].state \notin {"SENTACCEPT", "RECEIVEDACCEPT", "SENTREJECT",
                     "RECEIVEDREJECT", "SENTTERMINATE", "RECEIVEDTERMINATE"}
               /\ Takes(p, session[p].state)
<1> DEFINE s == Popped(session[p])
           gone == [NoSession EXCEPT !.state = "Gone"]
           u == SetState(s, "INPROGRESS")
           v == Terminated(s)
           o == session[p].state
<1>1. /\ Exists(p) /\ session[p].posted # <<>> /\ Head(session[p].posted) = "State"
      /\ UNCHANGED <<net, back, fails>>
      /\ session' = [session EXCEPT ![p] =
           CASE s.state \in {"SENTACCEPT", "RECEIVEDACCEPT"} -> u
             [] s.state \in {"SENTREJECT", "RECEIVEDREJECT"} -> v
             [] s.state \in {"SENTTERMINATE", "RECEIVEDTERMINATE"} -> gone
             [] OTHER -> s]
  BY DEF OnState, Posted
<1>2. session[p] \in SessionRecord /\ session[p].state \notin {"None", "Gone"}
  BY <1>1 DEF Typed, SessionsTyped, Exists
<1>3. /\ s \in SessionRecord /\ s.state = o /\ s.name = session[p].name
      /\ s.acked = session[p].acked /\ s.timer = session[p].timer
      /\ Holds(session[p], "Error") => Holds(s, "Error")
  BY <1>1, <1>2, PoppedIs
<1>4. Keeps(s, u) /\ u.state = "INPROGRESS" /\ u \in SessionRecord
  BY <1>3, SetStateIs, States DEF Keeps
<1>5. Keeps(s, v) /\ v \in SessionRecord
  BY <1>3, TerminatedIs DEF Keeps
<1>6. o \in {"SENTREJECT", "RECEIVEDREJECT"} => v.state = "SENTTERMINATE" /\ Holds(v, "State")
  <2> SUFFICES ASSUME o \in {"SENTREJECT", "RECEIVEDREJECT"}
               PROVE  v.state = "SENTTERMINATE" /\ Holds(v, "State")
    OBVIOUS
  <2>1. "SENTTERMINATE" \in State
    BY DEF State
  <2>2. v = SetState(s, "SENTTERMINATE")
    BY <1>3 DEF Terminated
  <2> QED  BY <1>3, <2>1, <2>2, SetStateIs
<1>7. gone \in SessionRecord /\ gone.state = "Gone"
  <2>1. NoSession \in SessionRecord /\ "Gone" \in State
    BY DEF NoSession, SessionRecord, State
  <2> QED  BY <2>1 DEF SessionRecord
<1>8. proxy' = IF session'[p].state \notin {"None", "Gone"} THEN proxy
               ELSE [proxy EXCEPT ![p] = [t \in Content |-> Unconnected]]
  BY DEF OnState, Exists
<1> HIDE DEF s, u, v, gone
<1>9. ASSUME NEW w \in SessionRecord, session' = [session EXCEPT ![p] = w],
             w.state \notin {"None", "Gone"}, w.name = s.name, w.acked = s.acked,
             w.timer = s.timer, Holds(s, "Error") => Holds(w, "Error")
      PROVE  Takes(p, w.state) /\ session'[p] = w /\ RestTyped'
  <2>1. Alone(p) /\ session'[p] = w
    BY <1>9, SessionIs DEF Typed, Alone
  <2>2. UNCHANGED proxy
    BY <1>8, <1>9, <2>1
  <2> QED  BY <1>1, <1>3, <1>9, <2>1, <2>2 DEF Takes, Typed, RestTyped
<1>10. CASE o \in {"SENTACCEPT", "RECEIVEDACCEPT"}
  <2>1. session' = [session EXCEPT ![p] = u]
    BY <1>1, <1>3, <1>10
  <2>2. Takes(p, "INPROGRESS") /\ RestTyped'
    BY <1>4, <1>9, <2>1 DEF Keeps
  <2> QED  BY <1>1, <1>10, <2>2
<1>11. CASE o \in {"SENTREJECT", "RECEIVEDREJECT"}
  <2>1. session' = [session EXCEPT ![p] = v]
    BY <1>1, <1>3, <1>11
  <2>2. v.state = "SENTTERMINATE" /\ Holds(v, "State")
    BY <1>6, <1>11
  <2>3. Takes(p, "SENTTERMINATE") /\ session'[p] = v /\ RestTyped'
    BY <1>5, <1>9, <2>1, <2>2 DEF Keeps
  <2> QED  BY <1>1, <1>11, <2>2, <2>3
<1>12. CASE o \in {"SENTTERMINATE", "RECEIVEDTERMINATE"}
  <2>1. session' = [session EXCEPT ![p] = gone]
    BY <1>1, <1>3, <1>12
  <2>2. Alone(p) /\ session'[p] = gone
    BY <1>7, <2>1, SessionIs DEF Typed, Alone
  <2>3. Unconnected \in Proxy
    BY ConstantsOK DEF Unconnected, Proxy
  <2> DEFINE g == [t \in Content |-> Unconnected]
  <2>4. g \in [Content -> Proxy] /\ \A t \in Content : g[t] = Unconnected
    BY <2>3
  <2>5. proxy' = [proxy EXCEPT ![p] = [t \in Content |-> g[t]]]
    BY <1>7, <1>8, <2>2
  <2> HIDE DEF g
  <2>6. /\ proxy' \in [Peer -> [Content -> Proxy]] /\ proxy'[p] = g
        /\ \A q \in Peer : q # p => proxy'[q] = proxy[q]
    BY <2>4, <2>5, AllProxies DEF Typed
  <2>7. RestTyped'
    BY <1>1, <2>6 DEF RestTyped, Typed
  <2>8. session'[p] = [NoSession EXCEPT !.state = "Gone"]
    BY <2>2 DEF gone
  <2> QED  BY <1>1, <1>12, <2>2, <2>4, <2>6, <2>7, <2>8
<1>13. CASE o \notin {"SENTACCEPT", "RECEIVEDACCEPT", "SENTREJECT",
                     "RECEIVEDREJECT", "SENTTERMINATE", "RECEIVEDTERMINATE"}
  <2>1. session' = [session EXCEPT ![p] = s]
    BY <1>1, <1>3, <1>13
  <2>2. s.state \notin {"None", "Gone"}
    BY <1>2, <1>3
  <2>3. Takes(p, s.state) /\ RestTyped'
    BY <1>3, <1>9, <2>1, <2>2
  <2> QED  BY <1>1, <1>3, <1>13, <2>3
<1> QED  BY <1>10, <1>11, <1>12, <1>13

\* MSG_ERROR ends the session,
LEMMA ErrorIs ==
  ASSUME Typed, NEW p \in Peer, OnError(p)
  PROVE  /\ Exists(p) /\ Ends(p)
         /\ Holds(session[p], "State") => Holds(session'[p], "State")
<1> DEFINE s == Popped(session[p])
           u == Terminated(s)
<1>1. /\ Exists(p) /\ session[p].posted # <<>> /\ Head(session[p].posted) = "Error"
      /\ session' = [session EXCEPT ![p] = u]
      /\ net' = net \cup (IF session[p].state \in Ending THEN {} ELSE {To(p, "terminate")})
      /\ UNCHANGED <<proxy, back, fails>>
  BY DEF OnError, Posted, TerminateStanza, Send
<1>2. session[p] \in SessionRecord
  BY DEF Typed, SessionsTyped
<1>3. /\ s \in SessionRecord /\ s.state = session[p].state /\ s.name = session[p].name
      /\ s.acked = session[p].acked /\ s.timer = session[p].timer
      /\ Holds(session[p], "State") => Holds(s, "State")
  BY <1>1, <1>2, PoppedIs
<1> HIDE DEF s
<1>4. /\ Keeps(s, u) /\ u.state \in Ending \ {"Gone"}
      /\ u.state \in {s.state, "SENTTERMINATE"}
      /\ s.state # u.state => Holds(u, "State")
  BY <1>3, TerminatedIs
<1> HIDE DEF u
<1>5. Alone(p) /\ session'[p] = u
  BY <1>1, <1>4, SessionIs DEF Typed, Alone, Keeps
<1>6. RestTyped'
  BY <1>1, StanzaTyped DEF RestTyped, Typed
<1> QED  BY <1>1, <1>3, <1>4, <1>5, <1>6 DEF Ends, Keeps

\* and the timer posts it.
LEMMA TimeoutIs ==
  ASSUME Typed, NEW p \in Peer, OnTimeout(p)
  PROVE  /\ Exists(p) /\ Alone(p) /\ session'[p].state = session[p].state
         /\ session'[p].name = session[p].name /\ session'[p].acked = session[p].acked
         /\ Holds(session'[p], "Error")
         /\ \A x : Holds(session[p], x) => Holds(session'[p], x)
         /\ RestTyped' /\ UNCHANGED <<proxy, net, back, fails>>
<1> DEFINE e == SetError(session[p])
           k == [e EXCEPT !.timer = FALSE]
<1>1. Exists(p) /\ session' = [session EXCEPT ![p] = k] /\ UNCHANGED <<proxy, net, back, fails>>
  BY DEF OnTimeout
<1>2. session[p] \in SessionRecord
  BY DEF Typed, SessionsTyped
<1>3. Keeps(session[p], e) /\ e.state = session[p].state /\ Holds(e, "Error")
  BY <1>2, SetErrorIs
<1> HIDE DEF e
<1>4. /\ k \in SessionRecord /\ k.state = e.state /\ k.name = e.name /\ k.acked = e.acked
      /\ k.posted = e.posted
  BY <1>3 DEF SessionRecord, Keeps
<1> HIDE DEF k
<1>5. Alone(p) /\ session'[p] = k
  BY <1>1, <1>4, SessionIs DEF Typed, Alone
<1>6. Holds(k, "Error") /\ \A x : Holds(session[p], x) => Holds(k, x)
  BY <1>3, <1>4 DEF Keeps, Holds
<1> QED  BY <1>1, <1>3, <1>4, <1>5, <1>6 DEF Keeps, Typed, RestTyped

\* A stanza that is lost is a failure.
LEMMA LoseIs ==
  ASSUME Typed, NEW m \in net, LoseStanza(m)
  PROVE  /\ Nobody /\ RestTyped' /\ UNCHANGED proxy /\ net' = net \ {m} /\ fails' # 0
         /\ \A r \in back' : r \in back \/ r.kind = "error"
         /\ back \subseteq back'
<1>1. /\ UNCHANGED <<session, proxy>> /\ net' = net \ {m} /\ fails' = fails + 1 /\ fails < MaxFails
      /\ back' = back \cup Answers(m, "error")
  BY DEF LoseStanza
<1>2. m \in Stanza /\ fails \in 0..MaxFails
  BY DEF Typed, RestTyped
<1>3. \A r \in Answers(m, "error") : r \in Answer /\ r.kind = "error"
  BY <1>2 DEF Answers, Answer
<1>4. fails' \in 0..MaxFails /\ fails' # 0
  BY <1>1, <1>2, ConstantsOK
<1> QED  BY <1>1, <1>3, <1>4, NoSessionMoves DEF Typed, RestTyped

----------------------------------------------------------------------------
(* The theorems.                                                           *)

\* Every step keeps the types.
LEMMA TypedStep == ASSUME Typed, Next  PROVE Typed'
<1> USE DEF Typed
<1>1. CASE Users
  <2>1. CASE Initiate
    BY <2>1, InitiateIs DEF Alone
  <2>2. ASSUME NEW p \in Peer, Accept(p)  PROVE Typed'
    BY <2>2, AcceptIs DEF Alone
  <2>3. ASSUME NEW p \in Peer, Reject(p)  PROVE Typed'
    BY <2>3, RejectIs DEF Alone
  <2>4. ASSUME NEW p \in Peer, Terminate(p)  PROVE Typed'
    BY <2>4, TerminateIs DEF Alone, Ends
  <2> QED  BY <1>1, <2>1, <2>2, <2>3, <2>4 DEF Users
<1>2. CASE Transports
  <2>1. PICK p \in Peer, t \in Content :
          OnTransportConnecting(p, t) \/ OnTransportWritable(p, t) \/ OnCandidatesReady(p, t)
    BY <1>2 DEF Transports
  <2> QED  BY <2>1, ConnectingIs, WritableIs, CandidateIs DEF Watches, Alone, Nobody
<1>3. ASSUME NEW m \in net, Deliver(m)  PROVE Typed'
  <2>1. CASE Redirect(m) \/ UnknownSession(m) \/ OnUnexpectedMessage(m)
    BY <2>1, StrayIs DEF Nobody
  <2>2. CASE OnInitiateMessage(m)
    BY <2>2, InitiateArrives DEF Goes, Alone
  <2>3. CASE OnAcceptMessage(m)
    BY <2>3, AcceptArrives DEF Alone
  <2>4. CASE OnRejectMessage(m)
    BY <2>4, RejectArrives DEF Goes, Alone
  <2>5. CASE OnTerminateMessage(m)
    BY <2>5, TerminateArrives DEF Goes, Alone
  <2>6. CASE OnTransportInfoMessage(m)
    BY <2>6, InfoArrives DEF Nobody
  <2> QED  BY <1>3, <2>1, <2>2, <2>3, <2>4, <2>5, <2>6 DEF Deliver
<1>4. ASSUME NEW r \in back, Answered(r)  PROVE Typed'
  <2>1. CASE OnOldAnswer(r)
    BY <2>1, OldAnswerIs DEF Nobody
  <2>2. CASE OnInitiateResponse(r)
    BY <2>2, InitiateResponseIs DEF Alone
  <2>3. CASE OnFailedSend(r) \/ OnLateRedirect(r)
    BY <2>3, FailedIs DEF Fails, Alone
  <2>4. CASE OnRedirectError(r)
    BY <2>4, RedirectErrorIs DEF Alone
  <2> QED  BY <1>4, <2>1, <2>2, <2>3, <2>4 DEF Answered
<1>5. CASE Faults
  BY <1>5, LoseIs DEF Faults, Nobody
<1>6. ASSUME NEW p \in Peer, Own(p) \/ OnTimeout(p)  PROVE Typed'
  BY <1>6, StateIs, ErrorIs, TimeoutIs DEF Own, Takes, Ends, Alone
<1> QED  BY <1>1, <1>2, <1>3, <1>4, <1>5, <1>6 DEF Next, Network

LEMMA InitTyped == Init => Typed
<1> SUFFICES ASSUME Init  PROVE Typed
  OBVIOUS
<1>1. NoSession \in SessionRecord
  BY DEF NoSession, SessionRecord, State
<1>2. Unconnected \in Proxy
  BY ConstantsOK DEF Unconnected, Proxy
<1> QED  BY <1>1, <1>2, ConstantsOK DEF Init, Typed, SessionsTyped, RestTyped

\* A side whose session ends stays there.
Stays(p) == session[p].state \in Ending => session'[p].state \in Ending

\* An ending session stays where it is.
LEMMA EndStep == ASSUME Typed, Next, NEW p \in Peer  PROVE Stays(p)
<1>1. ASSUME NEW q \in Peer, Alone(q),
             session[q].state \in Ending => session'[q].state \in Ending
      PROVE  Stays(p)
  BY <1>1 DEF Alone, Stays
<1>2. ASSUME Nobody  PROVE Stays(p)
  BY <1>2 DEF Nobody, Stays
<1>3. CASE Users
  <2>1. CASE Initiate
    BY <1>1, <2>1, Sides, InitiateIs DEF Ending
  <2>2. ASSUME NEW q \in Peer, Accept(q) \/ Reject(q)  PROVE Stays(p)
    BY <1>1, <2>2, AcceptIs, RejectIs DEF Ending
  <2>3. ASSUME NEW q \in Peer, Terminate(q)  PROVE Stays(p)
    BY <1>1, <2>3, TerminateIs DEF Ends
  <2> QED  BY <1>3, <2>1, <2>2, <2>3 DEF Users
<1>4. CASE Transports
  <2>1. PICK q \in Peer, t \in Content :
          OnTransportConnecting(q, t) \/ OnTransportWritable(q, t) \/ OnCandidatesReady(q, t)
    BY <1>4 DEF Transports
  <2>2. CASE Watches(q, t)
    BY <1>1, <2>2 DEF Watches
  <2> QED  BY <1>2, <2>1, <2>2, ConnectingIs, WritableIs, CandidateIs
<1>5. ASSUME NEW m \in net, Deliver(m)  PROVE Stays(p)
  <2>1. CASE Redirect(m) \/ UnknownSession(m) \/ OnUnexpectedMessage(m)
    BY <1>2, <2>1, StrayIs
  <2>2. CASE OnInitiateMessage(m)
    BY <1>1, <2>2, Sides, InitiateArrives DEF Goes, Ending
  <2>3. CASE OnAcceptMessage(m)
    BY <1>1, <2>3, Sides, AcceptArrives DEF Ending
  <2>4. CASE OnRejectMessage(m)
    BY <1>1, <2>4, Sides, RejectArrives DEF Goes, Ending
  <2>5. CASE OnTerminateMessage(m)
    BY <1>1, <2>5, Sides, TerminateArrives DEF Goes, Ending
  <2>6. CASE OnTransportInfoMessage(m)
    BY <1>2, <2>6, InfoArrives
  <2> QED  BY <1>5, <2>1, <2>2, <2>3, <2>4, <2>5, <2>6 DEF Deliver
<1>6. ASSUME NEW r \in back, Answered(r)  PROVE Stays(p)
  <2>1. r.of.from \in Peer
    BY AnswerTyped
  <2>2. CASE OnOldAnswer(r)
    BY <1>2, <2>2, OldAnswerIs
  <2>3. CASE OnInitiateResponse(r)
    BY <1>1, <2>1, <2>3, InitiateResponseIs
  <2>4. CASE OnFailedSend(r) \/ OnLateRedirect(r)
    BY <1>1, <2>1, <2>4, FailedIs DEF Fails
  <2>5. CASE OnRedirectError(r)
    BY <1>1, <2>1, <2>5, RedirectErrorIs
  <2> QED  BY <1>6, <2>2, <2>3, <2>4, <2>5 DEF Answered
<1>7. CASE Faults
  BY <1>2, <1>7, LoseIs DEF Faults
<1>8. ASSUME NEW q \in Peer, Own(q) \/ OnTimeout(q)  PROVE Stays(p)
  <2>1. CASE OnState(q)
    BY <1>1, <2>1, StateIs DEF Takes, NoSession, Ending
  <2>2. CASE OnError(q)
    BY <1>1, <2>2, ErrorIs DEF Ends
  <2>3. CASE OnTimeout(q)
    BY <1>1, <2>3, TimeoutIs
  <2> QED  BY <1>8, <2>1, <2>2, <2>3 DEF Own
<1> QED  BY <1>3, <1>4, <1>5, <1>6, <1>7, <1>8 DEF Next, Network

LEMMA TypedStutter == ASSUME UNCHANGED vars  PROVE Typed => Typed'
BY DEF vars, Typed, SessionsTyped, RestTyped

\* The session of each side, its TransportProxies, the stanzas and their answers have their
\* types (the members of BaseSession and TransportProxy), whatever the contents and the bounds.
THEOREM SessionTyped == Spec => []TypeOK
<1>1. Typed /\ [Next]_vars => Typed'
  BY TypedStep, TypedStutter
<1>2. Typed => TypeOK
  BY DEF Typed, SessionsTyped, RestTyped, TypeOK
<1> QED  BY <1>1, <1>2, InitTyped, PTL DEF Spec

\* A side of a session that has ended does not come back, whatever is still on its way to it
\* (BaseSession::OnMessage, Session::OnMessage, the CheckStates of the handlers of stanzas), for
\* any number of contents, candidates and failures.
THEOREM EndCorrect == Spec => EndIsFinal
<1>1. Typed /\ [Next]_vars => Typed'
  BY TypedStep, TypedStutter
<1>2. Typed /\ [Next]_vars =>
        [\A p \in Peer : session[p].state \in Ending => session'[p].state \in Ending]_vars
  BY EndStep DEF Stays
<1> QED  BY <1>1, <1>2, InitTyped, PTL DEF Spec, EndIsFinal
================================================================================
