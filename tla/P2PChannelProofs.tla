-------------------------- MODULE P2PChannelProofs --------------------------
(***************************************************************************)
(* Theorems about P2PChannel, for every set of ports, remote addresses,    *)
(* networks and preferences and every bound.                               *)
(***************************************************************************)
EXTENDS P2PChannel, TLAPS

States == [Pair -> Connection]

\* A connection that does not exist is as the constructor would make it.
FreshOutside == \A c \in Pair \ conns : conn[c] = Fresh

\* The flags from which Allocates decides.
FlagsAgree == /\ wasWritable <=> writable
              /\ writable => ~wasTimedOut

Safe == NothingDangles /\ DeadIsDoomed /\ PortsGoAway /\ DirtyMeansPending /\ FreshOutside

\* A channel that its transport does not want connected: no port can come, and it is
\* timed out already, so that no sort makes it ask for signaling.
Disconnected == ~connected => ~sessions /\ Alive = {} /\ wasTimedOut

SafeInv == TypeOK /\ Safe /\ FlagsAgree /\ Disconnected

----------------------------------------------------------------------------
(* One connection.                                                         *)

LEMMA FreshTyped == Fresh \in Connection /\ ~Dead(Fresh)
  BY DEF Fresh, Connection, Reads, Writes, Dead

LEMMA RecordsTyped ==
  ASSUME NEW r \in Connection, NEW more \in BOOLEAN, NEW lapsed
  PROVE  /\ ReceivedPing(r) \in Connection
         /\ StartAgain(r) \in Connection
         /\ UpdateState(r, lapsed) \in Connection
         /\ Prune(r) \in Connection
         /\ SendPing(r) \in Connection
         /\ Responded(r, more) \in Connection
         /\ Failed(r) \in Connection
         /\ [r EXCEPT !.inflight = more] \in Connection
<1>1. ReceivedPing(r) \in Connection
  BY DEF ReceivedPing, Connection, Reads, Writes
<1>2. StartAgain(r) \in Connection
  BY DEF StartAgain, Connection, Reads, Writes
<1>3. UpdateState(r, lapsed) \in Connection
  BY DEF UpdateState, Connection, Reads, Writes
<1>4. Prune(r) \in Connection
  BY DEF Prune, Connection, Reads, Writes
<1>5. SendPing(r) \in Connection
  BY DEF SendPing, Connection, Reads, Writes
<1>6. Responded(r, more) \in Connection
  BY ConstantsOK DEF Responded, Connection, Reads, Writes
<1>7. Failed(r) \in Connection
  BY DEF Failed, Connection, Reads, Writes
<1>8. [r EXCEPT !.inflight = more] \in Connection
  BY DEF Connection, Reads, Writes
<1> QED
  BY <1>1, <1>2, <1>3, <1>4, <1>5, <1>6, <1>7, <1>8

\* UpdateConnectionStates gives states, and touches only the connections of the list.
LEMMA UpdatesKeep ==
  ASSUME NEW C, NEW just, NEW k \in States, NEW u \in Updates(C, k, just)
  PROVE  u \in States /\ \A c \in Pair \ C : u[c] = k[c]
<1> DEFINE after == [c \in C |-> Updated(k[c], c \in just)]
<1>1. PICK w \in [C -> UNION {after[c] : c \in C}] :
        /\ \A c \in C : w[c] \in after[c]
        /\ u = [c \in Pair |-> IF c \in C THEN w[c] ELSE k[c]]
  BY DEF Updates
<1>2. ASSUME NEW c \in Pair
      PROVE  u[c] \in Connection
  <2>1. k[c] \in Connection
    BY DEF States
  <2>2. CASE c \in C
    <3>1. u[c] \in Updated(k[c], c \in just)
      BY <1>1, <2>2
    <3>2. PICK lapsed : u[c] = UpdateState(k[c], lapsed)
      BY <3>1 DEF Updated
    <3> QED
      BY <2>1, <3>2, RecordsTyped
  <2>3. CASE c \notin C
    BY <1>1, <2>1, <2>3
  <2> QED
    BY <2>2, <2>3
<1>3. u \in States
  BY <1>1, <1>2 DEF States
<1> QED
  BY <1>1, <1>3

----------------------------------------------------------------------------
(* Changes of states, outside of a sort.                                   *)

\* What a change of some connections' states keeps, whatever the new states are.
LEMMA SetStatesKeeps ==
  ASSUME SafeInv, NEW new \in States, \A c \in Pair \ conns : new[c] = conn[c],
         SetStates(new)
  PROVE  /\ conn' \in States
         /\ sorts' \in Nat /\ sortDirty' \in BOOLEAN /\ deletes' \subseteq conns
         /\ sortDirty' => sorts' > 0
         /\ \A c \in conns : Dead(conn'[c]) => c \in deletes'
         /\ \A c \in Pair \ conns : conn'[c] = Fresh
         /\ sorts' = 0 =>
              /\ sorts = 0
              /\ \A c \in Pair : conn'[c].read = conn[c].read /\ conn'[c].write = conn[c].write
<1> USE DEF SafeInv, Safe
<1>1. conn' = new /\ deletes' = deletes \cup Doomed(conn, new)
  BY DEF SetStates
<1>2. sorts \in Nat /\ sortDirty \in BOOLEAN /\ deletes \subseteq conns
  BY DEF TypeOK, NothingDangles
<1>3. Changed(conn, new) \subseteq conns
  BY DEF Changed, TypeOK
<1>4. Doomed(conn, new) \subseteq conns
  BY <1>3 DEF Doomed
<1>5. /\ sorts' \in Nat /\ sortDirty' \in BOOLEAN /\ sorts' >= sorts
      /\ sortDirty' => sorts' > 0
  <2>1. \/ sorts' = sorts + 1 /\ sortDirty' = TRUE
        \/ sorts' = sorts /\ sortDirty' = sortDirty
    BY DEF SetStates, RequestSort
  <2>2. CASE sorts' = sorts + 1 /\ sortDirty' = TRUE
    BY <1>2, <2>2
  <2>3. CASE sorts' = sorts /\ sortDirty' = sortDirty
    BY <1>2, <2>3 DEF DirtyMeansPending
  <2> QED
    BY <2>1, <2>2, <2>3
<1>6. ASSUME NEW c \in conns, Dead(new[c])
      PROVE  c \in deletes'
  <2>1. c \in Pair
    BY DEF TypeOK
  <2>2. CASE c \in Changed(conn, new)
    BY <1>1, <1>6, <2>2 DEF Doomed
  <2>3. CASE c \notin Changed(conn, new)
    BY <1>1, <1>6, <2>1, <2>3 DEF Changed, Dead, DeadIsDoomed
  <2> QED
    BY <2>2, <2>3
<1>7. ASSUME sorts' = 0
      PROVE  sorts = 0 /\ Changed(conn, new) = {}
  BY <1>2, <1>5, <1>7 DEF SetStates, RequestSort, DirtyMeansPending
<1> QED
  BY <1>1, <1>2, <1>4, <1>5, <1>6, <1>7 DEF Changed, FreshOutside

----------------------------------------------------------------------------
(* The order of connections.                                               *)

LEMMA RankOrders ==
  \A w, x \in Writes : Rank(w) \in 0..3 /\ (Rank(w) = Rank(x) => w = x)
  BY DEF Rank, Writes

\* CompareConnections is a weak order: not being better is transitive.
LEMMA NotBetterTransitive ==
  ASSUME NEW k \in States, NEW a \in Pair, NEW b \in Pair, NEW c \in Pair,
         ~Better(a, b, k), ~Better(b, c, k)
  PROVE  ~Better(a, c, k)
<1>1. k[a].write \in Writes /\ k[b].write \in Writes /\ k[c].write \in Writes
  BY DEF States, Connection
<1>2. Pref[a] \in Nat /\ Pref[b] \in Nat /\ Pref[c] \in Nat
  BY ConstantsOK
<1> QED
  BY <1>1, <1>2, RankOrders DEF Better

\* Better looks at the write states only.
LEMMA BetterByWrite ==
  ASSUME NEW k, NEW v, NEW a, NEW b, k[a].write = v[a].write, k[b].write = v[b].write
  PROVE  Better(a, b, k) <=> Better(a, b, v)
  BY DEF Better

\* When one of the connections is writable, those that are not worse than any are too.
LEMMA TopIsWritable ==
  ASSUME NEW k \in States, NEW a \in Pair, NEW b \in Pair, ~Better(a, b, k),
         k[a].write = "Writable"
  PROVE  k[b].write = "Writable"
<1>1. k[a].write \in Writes /\ k[b].write \in Writes
  BY DEF States, Connection
<1> QED
  BY <1>1 DEF Better, Rank, Writes

----------------------------------------------------------------------------
(* SortConnections.                                                        *)

\* The connection that the channel uses after the sort, before it prunes.
LEMMA SwitchTakesTop ==
  ASSUME NEW C \in SUBSET Pair, NEW old \in C \cup {None}, NEW u \in States,
         NEW top \in (IF C = {} THEN {None} ELSE Tops(C, u)), NEW b \in Switch(old, top, u)
  PROVE  /\ b \in C \cup {None}
         /\ b = None <=> C = {}
         /\ \A c \in C : ~Better(c, b, u)
<1>1. None \notin C
  BY ConstantsOK
<1>2. CASE C = {}
  BY <1>2 DEF Switch
<1>3. CASE C # {}
  <2>1. top \in C /\ top # None /\ \A d \in C : ~Better(d, top, u)
    BY <1>1, <1>3 DEF Tops
  <2>2. b \in C /\ ~Better(top, b, u)
    <3>1. CASE old = None
      BY <2>1, <3>1 DEF Switch
    <3>2. CASE old # None
      BY <2>1, <3>2 DEF Switch
    <3> QED
      BY <3>1, <3>2
  <2>3. \A c \in C : ~Better(c, b, u)
    BY <2>1, <2>2, NotBetterTransitive
  <2> QED
    BY <1>1, <1>3, <2>2, <2>3
<1> QED
  BY <1>2, <1>3

\* What a sort keeps and what it establishes, on whichever connections C it works.
LEMMA SortKeeps ==
  ASSUME SafeInv, NEW C \in SUBSET Pair, conns \subseteq C,
         NEW k \in States, \A c \in Pair \ C : k[c] = conn[c],
         NEW just, NEW pending \in Nat, SortConnections(C, k, just, pending)
  PROVE  /\ conns' = C /\ conn' \in States /\ best' \in C \cup {None}
         /\ sorts' \in Nat /\ sortDirty' \in BOOLEAN /\ deletes' \subseteq C
         /\ readable' \in BOOLEAN /\ writable' \in BOOLEAN
         /\ wasWritable' \in BOOLEAN /\ wasTimedOut' \in BOOLEAN /\ waiting' \in BOOLEAN
         /\ sortDirty' => sorts' > 0
         /\ \A c \in C : Dead(conn'[c]) => c \in deletes'
         /\ \A c \in Pair \ C : conn'[c] = Fresh
         /\ FlagsAgree'
         /\ writable /\ ~writable' => waiting'
         /\ C = {} => wasTimedOut' /\ (wasTimedOut => waiting' = waiting)
         /\ sorts' = 0 =>
              /\ best' = None <=> C = {}
              /\ \A c \in C : ~Better(c, best', conn')
              /\ writable' <=> best' # None /\ conn'[best'].write = "Writable"
              /\ (\E c \in C : conn'[c].read = "Readable") => readable'
<1>1. PICK u, f, top :
        /\ u \in Updates(C, k, just)
        /\ top \in (IF C = {} THEN {None} ELSE Tops(C, u))
        /\ best' \in Switch(best, top, u)
        /\ conn' = PruneRest(C, u, best', f)
        /\ Settle(C, u, conn', pending)
  <2>1. PICK u \in Updates(C, k, just) :
          \E f \in Firsts(C, u), top \in (IF C = {} THEN {None} ELSE Tops(C, u)) :
             \E b \in Switch(best, top, u) :
               best' = b /\ Settle(C, u, PruneRest(C, u, b, f), pending)
    BY DEF SortConnections
  <2>2. PICK f \in Firsts(C, u), top \in (IF C = {} THEN {None} ELSE Tops(C, u)) :
          best' \in Switch(best, top, u) /\ Settle(C, u, PruneRest(C, u, best', f), pending)
    BY <2>1
  <2>3. conn' = PruneRest(C, u, best', f)
    BY <2>2 DEF Settle
  <2> QED
    BY <2>2, <2>3
<1> DEFINE AnyWritable == \E c \in C : conn'[c].write = "Writable"
           AnyTrying == \E c \in C : conn'[c].write \in {"Unreliable", "Init"}
           Again == Changed(u, conn') # {}
           Asked == Changed(conn, u) # {} /\ ~sortDirty
<1>2. conns' = C
  BY DEF SortConnections
<1>3. u \in States /\ \A c \in Pair \ C : u[c] = conn[c]
  BY <1>1, UpdatesKeep
<1>4. conn' \in States
  BY <1>1, <1>3, RecordsTyped DEF PruneRest, States
<1>5. \A c \in Pair \ C : conn'[c] = conn[c] /\ conn'[c] = Fresh
  BY <1>1, <1>3 DEF PruneRest, ToPrune, SafeInv, Safe, FreshOutside
<1>6. /\ best' \in C \cup {None}
      /\ best' = None <=> C = {}
      /\ \A c \in C : ~Better(c, best', u)
  <2>1. best \in C \cup {None}
    BY DEF SafeInv, Safe, NothingDangles
  <2> QED
    BY <1>1, <1>3, <2>1, SwitchTakesTop
<1>7. deletes' \subseteq C
  <2>1. Changed(conn, conn') \subseteq C
    BY <1>5 DEF Changed
  <2> QED
    BY <1>1, <2>1 DEF Settle, Doomed, SafeInv, Safe, NothingDangles
<1>8. \A c \in C : Dead(conn'[c]) => c \in deletes'
  <2> SUFFICES ASSUME NEW c \in C, Dead(conn'[c]), c \notin Doomed(conn, conn')
               PROVE  c \in deletes
    BY <1>1 DEF Settle
  <2>1. conn'[c].read = conn[c].read /\ conn'[c].write = conn[c].write
    BY DEF Doomed, Changed
  <2>2. Dead(conn[c])
    BY <2>1 DEF Dead
  <2> QED
    BY <2>2, FreshTyped DEF SafeInv, Safe, FreshOutside, DeadIsDoomed
<1>9. sorts' \in Nat /\ sortDirty' \in BOOLEAN /\ (sortDirty' => sorts' > 0)
  <2>1. /\ sorts' = pending + (IF Asked THEN 1 ELSE 0) + (IF Again THEN 1 ELSE 0)
        /\ sortDirty' = Again
    BY <1>1 DEF Settle
  <2>2. Again \in BOOLEAN
    OBVIOUS
  <2> HIDE DEF Again, Asked
  <2>3. sorts' \in Nat /\ (Again => sorts' > 0)
    BY <2>1
  <2> QED
    BY <2>1, <2>2, <2>3
<1>10. /\ writable' = AnyWritable /\ wasWritable' = AnyWritable
       /\ wasTimedOut' = (~AnyWritable /\ ~AnyTrying)
       /\ waiting' = (waiting \/ Allocates(AnyWritable, AnyTrying))
       /\ readable' = \E c \in C : conn'[c].read = "Readable"
  BY <1>1 DEF Settle, TimedOut
<1>11. /\ readable' \in BOOLEAN /\ writable' \in BOOLEAN
       /\ wasWritable' \in BOOLEAN /\ wasTimedOut' \in BOOLEAN /\ waiting' \in BOOLEAN
       /\ FlagsAgree'
       /\ writable /\ ~writable' => waiting'
       /\ C = {} => wasTimedOut' /\ (wasTimedOut => waiting' = waiting)
  <2>1. AnyWritable \in BOOLEAN /\ (\E c \in C : conn'[c].read = "Readable") \in BOOLEAN
    OBVIOUS
  <2>2. writable => wasWritable /\ ~wasTimedOut
    BY DEF SafeInv, FlagsAgree
  <2>3. C = {} => ~AnyWritable /\ ~AnyTrying
    OBVIOUS
  <2> HIDE DEF AnyWritable, AnyTrying
  <2>4. waiting \in BOOLEAN /\ wasTimedOut \in BOOLEAN
    BY DEF SafeInv, TypeOK
  <2>5. C = {} => wasTimedOut' /\ (wasTimedOut => waiting' = waiting)
    BY <1>10, <2>3, <2>4 DEF Allocates
  <2>6. writable /\ ~AnyWritable => Allocates(AnyWritable, AnyTrying)
    BY <2>2 DEF Allocates
  <2> QED
    BY <1>10, <2>1, <2>6, <2>5 DEF FlagsAgree
<1>12. ASSUME sorts' = 0
       PROVE  /\ \A c \in C : ~Better(c, best', conn')
              /\ writable' <=> best' # None /\ conn'[best'].write = "Writable"
              /\ (\E c \in C : conn'[c].read = "Readable") => readable'
  <2>1. Changed(u, conn') = {}
    BY <1>1, <1>9, <1>12 DEF Settle
  <2>2. \A c \in Pair : u[c].write = conn'[c].write
    BY <2>1 DEF Changed
  <2>3. \A c \in C : ~Better(c, best', conn')
    <3> TAKE c \in C
    <3>1. best' \in C
      BY <1>6
    <3> QED
      BY <1>6, <2>2, <3>1, BetterByWrite
  <2>4. AnyWritable <=> best' # None /\ conn'[best'].write = "Writable"
    <3>1. ASSUME NEW c \in C, conn'[c].write = "Writable"
          PROVE  best' # None /\ conn'[best'].write = "Writable"
      <4>1. best' \in C /\ best' # None
        BY <1>6
      <4> QED
        BY <1>4, <2>3, <3>1, <4>1, TopIsWritable
    <3> QED
      BY <1>6, <3>1
  <2> QED
    BY <1>10, <2>3, <2>4
<1> QED
  BY <1>2, <1>4, <1>5, <1>6, <1>7, <1>8, <1>9, <1>11, <1>12

----------------------------------------------------------------------------
(* SafeInv is inductive.  Most steps either change the states of some      *)
(* connections or sort the connections, old and new.                       *)

SetsStates == \E new \in States :
  SetStates(new) /\ \A c \in Pair \ conns : new[c] = conn[c]

Sorts == \E C \in SUBSET Pair, k \in States, pending \in Nat : \E just :
  /\ conns \subseteq C /\ (\A c \in Pair \ C : k[c] = conn[c])
  /\ \A c \in C : c[1] \in Alive'
  /\ SortConnections(C, k, just, pending)

\* A step that changes the states of some connections, and at most which one is used.
LEMMA StatesStep ==
  ASSUME SafeInv, SetsStates, round' \in BOOLEAN, best' \in conns \cup {None},
         UNCHANGED <<lists, conns, pings, flags, connected>>
  PROVE  SafeInv'
<1> PICK new \in States : SetStates(new) /\ \A c \in Pair \ conns : new[c] = conn[c]
  BY DEF SetsStates
<1> USE DEF SafeInv, Safe, lists, flags
<1>1. TypeOK'
  BY SetStatesKeeps DEF TypeOK, States
<1>2. NothingDangles' /\ DeadIsDoomed' /\ DirtyMeansPending' /\ FreshOutside'
  BY SetStatesKeeps
  DEF NothingDangles, DeadIsDoomed, DirtyMeansPending, FreshOutside, Alive
<1>3. PortsGoAway'
  BY DEF PortsGoAway, On
<1>4. FlagsAgree' /\ Disconnected'
  BY DEF FlagsAgree, Disconnected, Alive
<1> QED
  BY <1>1, <1>2, <1>3, <1>4

\* A step that sorts, after the port of a new connection came or with all ports as before.
LEMMA SortStep ==
  ASSUME SafeInv, Sorts,
         life' \in [Port -> {"None", "Young", "Old"}],
         \A p \in Port : life'[p] = "Old" => life[p] = "Old",
         ports' \in SUBSET Port, ports' \subseteq Alive',
         remotes' \in SUBSET Remote, round' \in BOOLEAN,
         connected \/ life' = life,
         UNCHANGED <<sessions, pings, connected>>
  PROVE  SafeInv'
<1> PICK C \in SUBSET Pair, k \in States, pending \in Nat : \E just :
      /\ conns \subseteq C /\ (\A c \in Pair \ C : k[c] = conn[c])
      /\ \A c \in C : c[1] \in Alive'
      /\ SortConnections(C, k, just, pending)
  BY DEF Sorts
<1> PICK just : SortConnections(C, k, just, pending)
  OBVIOUS
<1> USE DEF SafeInv, Safe
<1>1. ASSUME ~connected
      PROVE  ~waiting' /\ wasTimedOut' /\ ~sessions' /\ Alive' = {}
  <2>1. Alive' = {} /\ wasTimedOut /\ ~waiting /\ ~sessions
    BY <1>1 DEF Disconnected, Alive, TypeOK
  <2>2. C = {}
    BY <2>1
  <2> QED
    BY <2>1, <2>2, SortKeeps DEF Disconnected
<1>2. TypeOK'
  BY <1>1, SortKeeps DEF TypeOK, States
<1>3. NothingDangles' /\ DeadIsDoomed' /\ DirtyMeansPending' /\ FreshOutside' /\ FlagsAgree'
  BY SortKeeps DEF NothingDangles, DeadIsDoomed, DirtyMeansPending, FreshOutside
<1>4. PortsGoAway'
  BY SortKeeps DEF PortsGoAway, On
<1>5. Disconnected'
  BY <1>1 DEF Disconnected
<1> QED
  BY <1>2, <1>3, <1>4, <1>5

LEMMA SafeInit == Init => SafeInv
<1> SUFFICES ASSUME Init PROVE SafeInv
  OBVIOUS
<1>1. TypeOK
  BY FreshTyped DEF Init, TypeOK
<1>2. Safe /\ FlagsAgree /\ Disconnected
  BY FreshTyped DEF Init, Disconnected, Alive, Safe, NothingDangles, DeadIsDoomed,
                    PortsGoAway, DirtyMeansPending, FreshOutside, FlagsAgree, On
<1> QED
  BY <1>1, <1>2 DEF SafeInv

LEMMA ResetKeeps == ASSUME SafeInv, Reset PROVE SafeInv'
<1>1. TypeOK'
  BY FreshTyped DEF SafeInv, Reset, TypeOK
<1>2. Safe' /\ FlagsAgree' /\ Disconnected'
  BY FreshTyped DEF Reset, Disconnected, Alive, Safe, NothingDangles, DeadIsDoomed, PortsGoAway,
                    DirtyMeansPending, FreshOutside, FlagsAgree, On
<1> QED
  BY <1>1, <1>2 DEF SafeInv

\* The port of the last connection goes with it; others keep what they live for.
LEMMA DeleteKeeps == ASSUME SafeInv, NEW c \in Pair, OnDelete(c) PROVE SafeInv'
<1> USE DEF SafeInv, Safe
<1>1. c \in conns /\ c[1] \in Port
  BY DEF OnDelete, NothingDangles, Pair
<1>2. \/ sorts' = sorts + 1 /\ sortDirty' = TRUE
      \/ sorts' = sorts /\ sortDirty' = sortDirty
  BY DEF OnDelete, RequestSort
<1>3. sorts' \in Nat /\ sortDirty' \in BOOLEAN /\ DirtyMeansPending'
  <2>1. CASE sorts' = sorts + 1 /\ sortDirty' = TRUE
    BY <2>1 DEF TypeOK, DirtyMeansPending
  <2>2. CASE sorts' = sorts /\ sortDirty' = sortDirty
    BY <2>2 DEF TypeOK, DirtyMeansPending
  <2> QED
    BY <1>2, <2>1, <2>2
<1>4. /\ conns' = conns \ {c} /\ conn' = [conn EXCEPT ![c] = Fresh]
      /\ deletes' = deletes \ {c} /\ best' = (IF best = c THEN None ELSE best)
      /\ UNCHANGED <<round, remotes, sessions, pings, flags, connected>>
  BY DEF OnDelete
<1>5. \/ /\ life[c[1]] = "Old" /\ On(c[1]) = {c}
         /\ life' = [life EXCEPT ![c[1]] = "None"] /\ ports' = ports \ {c[1]}
      \/ /\ life[c[1]] # "Old" \/ On(c[1]) # {c}
         /\ UNCHANGED <<life, ports>>
  BY DEF OnDelete
<1>6. TypeOK'
  <2>1. life' \in [Port -> {"None", "Young", "Old"}] /\ ports' \in SUBSET Port
    BY <1>5 DEF TypeOK
  <2>2. conn' \in [Pair -> Connection]
    BY <1>4, FreshTyped DEF TypeOK
  <2> QED
    BY <1>3, <1>4, <2>1, <2>2 DEF TypeOK, flags
<1>7. NothingDangles'
  <2>1. best' \in conns' \cup {None} /\ deletes' \subseteq conns'
    BY <1>4 DEF NothingDangles
  <2>2. (\A d \in conns' : d[1] \in Alive') /\ ports' \subseteq Alive'
    <3>1. CASE On(c[1]) = {c} /\ life' = [life EXCEPT ![c[1]] = "None"] /\ ports' = ports \ {c[1]}
      BY <1>4, <3>1 DEF NothingDangles, Alive, On, TypeOK
    <3>2. CASE UNCHANGED <<life, ports>>
      BY <1>4, <3>2 DEF NothingDangles, Alive
    <3> QED
      BY <1>5, <3>1, <3>2
  <2> QED
    BY <2>1, <2>2 DEF NothingDangles
<1>8. PortsGoAway'
  <2> SUFFICES ASSUME NEW p \in Port, life'[p] = "Old"
               PROVE  On(p)' # {}
    BY DEF PortsGoAway
  <2>1. life[p] = "Old" /\ (p = c[1] => On(p) # {c})
    BY <1>5 DEF TypeOK
  <2>2. On(p) # {} /\ (c \in On(p) <=> p = c[1])
    BY <1>1, <2>1 DEF PortsGoAway, On
  <2>3. PICK d \in On(p) : d # c
    BY <2>1, <2>2
  <2>4. d \in On(p)'
    BY <1>4, <2>3 DEF On
  <2> QED
    BY <2>4
<1>9. DeadIsDoomed' /\ FreshOutside' /\ FlagsAgree'
  BY <1>1, <1>4 DEF DeadIsDoomed, FreshOutside, FlagsAgree, flags, TypeOK
<1>10. Disconnected'
  BY <1>4, <1>5 DEF Disconnected, Alive, flags, TypeOK
<1> QED
  BY <1>3, <1>6, <1>7, <1>8, <1>9, <1>10

LEMMA PortTimeoutKeeps == ASSUME SafeInv, NEW p \in Port, OnPortTimeout(p) PROVE SafeInv'
<1> USE DEF SafeInv, Safe, OnPortTimeout
<1>1. TypeOK'
  BY DEF TypeOK, sorting, flags
<1>2. NothingDangles'
  BY DEF NothingDangles, Alive, On, TypeOK, sorting
<1>3. PortsGoAway'
  BY DEF PortsGoAway, On, TypeOK
<1>4. DeadIsDoomed' /\ DirtyMeansPending' /\ FreshOutside' /\ FlagsAgree'
  BY DEF DeadIsDoomed, DirtyMeansPending, FreshOutside, FlagsAgree, sorting, flags
<1>5. Disconnected'
  BY DEF Disconnected, Alive, TypeOK, flags
<1> QED
  BY <1>1, <1>2, <1>3, <1>4, <1>5

LEMMA RequestTimeoutKeeps == ASSUME SafeInv, NEW c \in Pair, OnRequestTimeout(c) PROVE SafeInv'
<1> USE DEF SafeInv, Safe, OnRequestTimeout
<1>1. conn' \in [Pair -> Connection]
  BY RecordsTyped DEF TypeOK
<1>2. TypeOK'
  BY <1>1 DEF TypeOK, lists, sorting, flags
<1>3. NothingDangles' /\ PortsGoAway' /\ DirtyMeansPending' /\ FlagsAgree' /\ Disconnected'
  BY DEF Disconnected, NothingDangles, PortsGoAway, DirtyMeansPending, FlagsAgree, Alive, On,
         lists, sorting, flags
<1>4. DeadIsDoomed' /\ FreshOutside'
  BY DEF DeadIsDoomed, FreshOutside, Dead, TypeOK, Connection, sorting
<1> QED
  BY <1>2, <1>3, <1>4

\* Connect, OnSignalingReady and EndWait leave the connections alone.
LEMMA ConnectKeeps == ASSUME SafeInv, Connect \/ OnSignalingReady \/ EndWait PROVE SafeInv'
<1>1. TypeOK /\ Safe /\ FlagsAgree /\ Disconnected
  BY DEF SafeInv
<1>2. /\ ports' \in SUBSET Port /\ ports' \subseteq ports
      /\ sessions' \in BOOLEAN /\ pings' \in BOOLEAN
      /\ round' \in BOOLEAN /\ waiting' \in BOOLEAN /\ connected' \in BOOLEAN
      /\ waiting' => connected'
      /\ ~connected' => ~connected /\ ~sessions'
  <2>1. CASE Connect
    <3>1. /\ ports' = ports /\ sessions' = sessions /\ pings' = TRUE
          /\ round' = round /\ waiting' = TRUE /\ connected' = TRUE
      BY <2>1 DEF Connect, lists
    <3> QED
      BY <1>1, <3>1 DEF TypeOK
  <2>2. CASE OnSignalingReady
    <3>1. /\ ports' = {} /\ sessions' = TRUE /\ connected /\ pings' = pings
          /\ round' = round /\ waiting' = FALSE /\ connected' = connected
      BY <1>1, <2>2 DEF OnSignalingReady, TypeOK
    <3>2. sessions' \in BOOLEAN /\ pings' \in BOOLEAN
      BY <1>1, <3>1 DEF TypeOK
    <3>3. round' \in BOOLEAN /\ waiting' \in BOOLEAN /\ connected' \in BOOLEAN
      BY <1>1, <3>1 DEF TypeOK
    <3> QED
      BY <3>1, <3>2, <3>3
  <2>3. CASE EndWait
    BY <1>1, <2>3 DEF EndWait, TypeOK, Disconnected, lists, flags
  <2> QED
    BY <2>1, <2>2, <2>3
<1>3. UNCHANGED <<life, remotes, conns, conn, best, sorts, sortDirty, deletes,
                  readable, writable, wasWritable, wasTimedOut>>
  BY DEF Connect, OnSignalingReady, EndWait, lists, sorting, flags
<1>4. TypeOK'
  BY <1>1, <1>2, <1>3 DEF TypeOK
<1>5. NothingDangles' /\ PortsGoAway'
  BY <1>1, <1>2, <1>3 DEF Safe, NothingDangles, PortsGoAway, Alive, On
<1>6. DeadIsDoomed' /\ DirtyMeansPending' /\ FreshOutside' /\ FlagsAgree'
  BY <1>1, <1>3 DEF Safe, DeadIsDoomed, DirtyMeansPending, FreshOutside, FlagsAgree
<1>7. Disconnected'
  BY <1>1, <1>2, <1>3 DEF Disconnected, Alive
<1> QED
  BY <1>4, <1>5, <1>6, <1>7 DEF SafeInv, Safe

LEMMA PortReadyKeeps == ASSUME SafeInv, NEW p \in Port, OnPortReady(p) PROVE Sorts /\ SafeInv'
<1> DEFINE C == conns \cup {p} \X remotes
<1> USE DEF SafeInv, Safe
<1>1. /\ p \notin Alive /\ life' = [life EXCEPT ![p] = "Young"] /\ ports' = ports \cup {p}
      /\ SortConnections(C, conn, {}, sorts)
      /\ UNCHANGED <<round, remotes, sessions, pings, connected>>
      /\ connected
  BY DEF OnPortReady, Disconnected
<1>2. C \in SUBSET Pair /\ conns \subseteq C
  BY DEF TypeOK, Pair
<1>3. /\ life' \in [Port -> {"None", "Young", "Old"}]
      /\ \A q \in Port : life'[q] = "Old" => life[q] = "Old"
      /\ ports' \in SUBSET Port /\ ports' \subseteq Alive'
  BY <1>1 DEF TypeOK, Alive, NothingDangles
<1>4. \A c \in C : c[1] \in Alive'
  BY <1>1 DEF TypeOK, Alive, NothingDangles
<1>5. conn \in States /\ sorts \in Nat /\ remotes' \in SUBSET Remote /\ round' \in BOOLEAN
  BY <1>1 DEF TypeOK, States
<1>6. Sorts
  BY <1>1, <1>2, <1>4, <1>5 DEF Sorts
<1> QED
  BY <1>1, <1>3, <1>5, <1>6, SortStep

LEMMA CandidateKeeps == ASSUME SafeInv, NEW r \in Remote, OnCandidate(r) PROVE Sorts /\ SafeInv'
<1> DEFINE C == conns \cup ports \X {r}
<1> USE DEF SafeInv, Safe
<1>1. /\ remotes' = remotes \cup {r}
      /\ SortConnections(C, conn, {}, sorts)
      /\ UNCHANGED <<round, life, ports, sessions, pings, connected>>
  BY DEF OnCandidate
<1>2. C \in SUBSET Pair /\ conns \subseteq C
  BY DEF TypeOK, Pair
<1>3. (\A c \in C : c[1] \in Alive') /\ ports' \subseteq Alive'
  BY <1>1 DEF Alive, NothingDangles
<1>4. /\ conn \in States /\ sorts \in Nat /\ remotes' \in SUBSET Remote /\ round' \in BOOLEAN
      /\ life' \in [Port -> {"None", "Young", "Old"}] /\ ports' \in SUBSET Port
  BY <1>1 DEF TypeOK, States
<1>5. Sorts
  BY <1>1, <1>2, <1>3, <1>4 DEF Sorts
<1> QED
  BY <1>1, <1>3, <1>4, <1>5, SortStep

LEMMA SortMessageKeeps == ASSUME SafeInv, OnSort PROVE Sorts /\ SafeInv'
<1> USE DEF SafeInv, Safe
<1>1. /\ sorts > 0 /\ SortConnections(conns, conn, {}, sorts - 1)
      /\ UNCHANGED <<round, life, ports, remotes, sessions, pings, connected>>
  BY DEF OnSort, lists
<1>2. /\ conns \in SUBSET Pair /\ conn \in States /\ sorts - 1 \in Nat
      /\ remotes' \in SUBSET Remote /\ round' \in BOOLEAN
      /\ life' \in [Port -> {"None", "Young", "Old"}] /\ ports' \in SUBSET Port
  BY <1>1 DEF TypeOK, States
<1>3. (\A c \in conns : c[1] \in Alive') /\ ports' \subseteq Alive'
  BY <1>1 DEF Alive, NothingDangles
<1>4. Sorts
  BY <1>1, <1>2, <1>3 DEF Sorts
<1> QED
  BY <1>1, <1>2, <1>3, <1>4, SortStep

LEMMA UnknownKeeps == ASSUME SafeInv, NEW c \in Pair, RecvUnknown(c) PROVE Sorts /\ SafeInv'
<1> DEFINE new == {c} \cup ports \X {c[2]}
           k == [d \in Pair |-> IF d \in new THEN ReceivedPing(conn[d]) ELSE conn[d]]
<1> USE DEF SafeInv, Safe
<1>1. /\ c[1] \in Alive /\ remotes' = remotes \cup {c[2]}
      /\ SortConnections(conns \cup new, k, new, sorts)
      /\ UNCHANGED <<life, ports, sessions, pings, connected>>
      /\ round' \in BOOLEAN
  BY DEF RecvUnknown, StayInRound
<1>2. c[1] \in Port /\ c[2] \in Remote
  BY DEF Pair
<1>3. conns \cup new \in SUBSET Pair
  BY <1>2 DEF TypeOK, Pair
<1>4. k \in States
  BY RecordsTyped DEF TypeOK, States
<1>5. (\A d \in conns \cup new : d[1] \in Alive') /\ ports' \subseteq Alive'
  BY <1>1 DEF Alive, NothingDangles
<1>6. /\ sorts \in Nat /\ remotes' \in SUBSET Remote
      /\ life' \in [Port -> {"None", "Young", "Old"}] /\ ports' \in SUBSET Port
  BY <1>1, <1>2 DEF TypeOK
<1>7. \A d \in Pair \ (conns \cup new) : k[d] = conn[d]
  OBVIOUS
<1> HIDE DEF new, k
<1>8. Sorts
  BY <1>1, <1>3, <1>4, <1>5, <1>6, <1>7 DEF Sorts
<1> QED
  BY <1>1, <1>5, <1>6, <1>8, SortStep

LEMMA PingKeeps == ASSUME SafeInv, OnPing PROVE SetsStates /\ SafeInv'
<1> USE DEF SafeInv, Safe
<1>1. PICK u \in Updates(conns, conn, {}) :
        \/ SetStates(u)
        \/ \E c \in conns : SetStates([u EXCEPT ![c] = SendPing(@)])
  BY DEF OnPing
<1>2. SetsStates
  <2>1. u \in States /\ \A c \in Pair \ conns : u[c] = conn[c]
    BY UpdatesKeep DEF TypeOK, States
  <2>2. CASE SetStates(u)
    BY <2>1, <2>2 DEF SetsStates
  <2>3. ASSUME NEW c \in conns, SetStates([u EXCEPT ![c] = SendPing(@)])
        PROVE  SetsStates
    <3>1. [u EXCEPT ![c] = SendPing(@)] \in States
      BY <2>1, RecordsTyped DEF TypeOK, States
    <3>2. \A d \in Pair \ conns : [u EXCEPT ![c] = SendPing(@)][d] = conn[d]
      BY <2>1 DEF States
    <3> QED
      BY <2>3, <3>1, <3>2 DEF SetsStates
  <2> QED
    BY <1>1, <2>2, <2>3
<1>3. UNCHANGED <<round, lists, conns, best, pings, flags, connected>>
  BY DEF OnPing
<1>4. round' \in BOOLEAN /\ best' \in conns \cup {None}
  BY <1>3 DEF TypeOK, NothingDangles
<1> QED
  BY <1>2, <1>3, <1>4, StatesStep

\* Packets on a connection change the state of that connection.
LEMMA PacketKeeps ==
  ASSUME SafeInv, NEW c \in Pair, NEW use \in BOOLEAN,
         RecvPing(c, use) \/ RecvResponse(c) \/ RecvError(c) \/ RecvData(c)
  PROVE  SetsStates /\ SafeInv'
<1> USE DEF SafeInv, Safe
<1>1. /\ c \in conns /\ round' \in BOOLEAN /\ (best' = c \/ best' = best)
      /\ UNCHANGED <<lists, conns, pings, flags, connected>>
  BY DEF RecvPing, RecvResponse, RecvError, RecvData, StayInRound
<1>2. conn \in [Pair -> Connection] /\ conn[c] \in Connection
  BY DEF TypeOK
<1>3. ASSUME NEW r \in Connection, SetStates([conn EXCEPT ![c] = r])
      PROVE  SetsStates /\ SafeInv'
  <2>1. [conn EXCEPT ![c] = r] \in States
    BY <1>2 DEF States
  <2>2. \A d \in Pair \ conns : [conn EXCEPT ![c] = r][d] = conn[d]
    BY <1>1, <1>2
  <2>3. best' \in conns \cup {None}
    BY <1>1 DEF NothingDangles
  <2>4. SetsStates
    BY <1>3, <2>1, <2>2 DEF SetsStates
  <2> QED
    BY <1>1, <2>3, <2>4, StatesStep
<1>4. CASE RecvPing(c, use)
  <2>1. StartAgain(ReceivedPing(conn[c])) \in Connection
    BY <1>2, RecordsTyped
  <2>2. SetStates([conn EXCEPT ![c] = StartAgain(ReceivedPing(conn[c]))])
    BY <1>4 DEF RecvPing
  <2> QED
    BY <1>3, <2>1, <2>2
<1>5. CASE RecvResponse(c)
  <2>1. PICK more \in {FALSE, Overlap} : SetStates([conn EXCEPT ![c] = Responded(@, more)])
    BY <1>5 DEF RecvResponse
  <2>2. more \in BOOLEAN /\ [conn EXCEPT ![c] = Responded(@, more)]
                              = [conn EXCEPT ![c] = Responded(conn[c], more)]
    BY <1>2, ConstantsOK
  <2>3. Responded(conn[c], more) \in Connection
    BY <1>2, <2>2, RecordsTyped
  <2> QED
    BY <1>3, <2>1, <2>2, <2>3
<1>6. CASE RecvError(c)
  <2>1. PICK more \in {FALSE, Overlap}, r \in {conn[c], Failed(conn[c])} :
          SetStates([conn EXCEPT ![c] = [r EXCEPT !.inflight = more]])
    BY <1>6 DEF RecvError
  <2>2. more \in BOOLEAN /\ r \in Connection
    BY <1>2, <2>1, ConstantsOK, RecordsTyped
  <2>3. [r EXCEPT !.inflight = more] \in Connection
    BY <2>2, RecordsTyped
  <2> QED
    BY <1>3, <2>1, <2>3
<1>7. CASE RecvData(c)
  <2>1. PICK r \in {conn[c], StartAgain(conn[c])} : SetStates([conn EXCEPT ![c] = r])
    BY <1>7 DEF RecvData
  <2>2. r \in Connection
    BY <1>2, <2>1, RecordsTyped
  <2> QED
    BY <1>3, <2>1, <2>2
<1> QED
  BY <1>4, <1>5, <1>6, <1>7

LEMMA SafeNext == SafeInv /\ [Next]_vars => SafeInv'
<1> SUFFICES ASSUME SafeInv, [Next]_vars PROVE SafeInv'
  OBVIOUS
<1>1. CASE Environment
  BY <1>1, ConnectKeeps, ResetKeeps, PortReadyKeeps, PortTimeoutKeeps, CandidateKeeps,
     PacketKeeps, UnknownKeeps, RequestTimeoutKeeps DEF Environment
<1>2. CASE Queue
  BY <1>2, SortMessageKeeps, PingKeeps, DeleteKeeps DEF Queue
<1>3. CASE EndWait
  BY <1>3, ConnectKeeps
<1>4. CASE UNCHANGED vars
  BY <1>4 DEF vars, lists, sorting, flags, SafeInv, Safe, TypeOK, NothingDangles, DeadIsDoomed,
              PortsGoAway, DirtyMeansPending, FreshOutside, FlagsAgree, Disconnected, Alive, On
<1> QED
  BY <1>1, <1>2, <1>3, <1>4 DEF Next

\* What is always true of every channel: its types; that no pointer to a connection or port
\* outlives what it points to; that dead connections have a MSG_DELETE pending, old ports a
\* connection, and a sort that was asked for a MSG_SORT.
LEMMA Safety == Spec => []SafeInv
  BY SafeInit, SafeNext, PTL DEF Spec

\* Every variable keeps its type, whatever packets, timeouts and messages come, and a
\* channel that was not asked to connect, or was reset, does not ask for signaling.
THEOREM ChannelTypes == Spec => []TypeOK
  BY Safety, PTL DEF SafeInv

\* After OnConnectionDestroyed, OnPortDestroyed and every other handler, best_connection_,
\* the pending MSG_DELETEs, ports_ and the ports' maps point to what is alive.
THEOREM NoDanglingPointer == Spec => []NothingDangles
  BY Safety, PTL DEF SafeInv, Safe

\* CheckTimeout catches every connection that has nothing to contribute.
THEOREM DeadConnectionsGo == Spec => []DeadIsDoomed
  BY Safety, PTL DEF SafeInv, Safe

\* Port::CheckTimeout leaves no port that has no purpose.
THEOREM PortsLiveForConnections == Spec => []PortsGoAway
  BY Safety, PTL DEF SafeInv, Safe

\* sort_dirty_ never suppresses the last request for a sort.
THEOREM SortRequestsPend == Spec => []DirtyMeansPending
  BY Safety, PTL DEF SafeInv, Safe

----------------------------------------------------------------------------
(* What the channel uses and reports when no sort is pending.  A nominated *)
(* connection is used without a sort: the channel must not be controlled.  *)

Reported == BestIsTop /\ StatesReported

LEMMA SortReports == ASSUME SafeInv, Sorts PROVE Reported' /\ (writable /\ ~writable' => waiting')
<1> PICK C \in SUBSET Pair, k \in States, pending \in Nat : \E just :
      /\ conns \subseteq C /\ (\A c \in Pair \ C : k[c] = conn[c])
      /\ SortConnections(C, k, just, pending)
  BY DEF Sorts
<1> PICK just : SortConnections(C, k, just, pending)
  OBVIOUS
<1> QED
  BY SortKeeps DEF Reported, BestIsTop, StatesReported

\* A change of states that asks for no sort changes nothing that is reported.
LEMMA StatesReport ==
  ASSUME SafeInv, Reported, SetsStates, UNCHANGED <<conns, best, writable, readable>>
  PROVE  Reported'
<1> PICK new \in States : SetStates(new) /\ \A c \in Pair \ conns : new[c] = conn[c]
  BY DEF SetsStates
<1> SUFFICES ASSUME sorts' = 0
             PROVE  /\ best' = None <=> conns' = {}
                    /\ \A c \in conns' : ~Better(c, best', conn')
                    /\ writable' <=> best' # None /\ conn'[best'].write = "Writable"
                    /\ (\E c \in conns' : conn'[c].read = "Readable") => readable'
  BY DEF Reported, BestIsTop, StatesReported
<1>1. /\ sorts = 0
      /\ \A c \in Pair : conn'[c].read = conn[c].read /\ conn'[c].write = conn[c].write
  BY SetStatesKeeps
<1>2. conns \subseteq Pair /\ best \in conns \cup {None} /\ (best = None <=> conns = {})
  BY <1>1 DEF SafeInv, Safe, TypeOK, NothingDangles, Reported, BestIsTop
<1>3. \A c \in conns' : ~Better(c, best', conn')
  <2> SUFFICES ASSUME NEW c \in conns PROVE ~Better(c, best, conn')
    OBVIOUS
  <2>1. best \in Pair /\ c \in Pair
    BY <1>2
  <2>2. ~Better(c, best, conn)
    BY <1>1 DEF Reported, BestIsTop
  <2> QED
    BY <1>1, <2>1, <2>2, BetterByWrite
<1>4. writable' <=> best' # None /\ conn'[best'].write = "Writable"
  BY <1>1, <1>2 DEF Reported, StatesReported
<1>5. (\E c \in conns' : conn'[c].read = "Readable") => readable'
  BY <1>1, <1>2 DEF Reported, StatesReported
<1> QED
  BY <1>2, <1>3, <1>4, <1>5

LEMMA DeleteReports == ASSUME SafeInv, Reported, NEW c \in Pair, OnDelete(c) PROVE Reported'
<1> SUFFICES ASSUME sorts' = 0
             PROVE  /\ best' = None <=> conns' = {}
                    /\ \A d \in conns' : ~Better(d, best', conn')
                    /\ writable' <=> best' # None /\ conn'[best'].write = "Writable"
                    /\ (\E d \in conns' : conn'[d].read = "Readable") => readable'
  BY DEF Reported, BestIsTop, StatesReported
<1>1. c \in conns /\ conns \subseteq Pair /\ conn \in States
  BY DEF OnDelete, SafeInv, Safe, TypeOK, NothingDangles, States
<1>2. /\ conns' = conns \ {c} /\ conn' = [conn EXCEPT ![c] = Fresh]
      /\ best' = (IF best = c THEN None ELSE best)
      /\ UNCHANGED <<readable, writable>>
  BY DEF OnDelete, flags
<1>3. sorts = 0 /\ best # c
  <2>1. sorts \in Nat /\ (sortDirty => sorts > 0)
    BY DEF SafeInv, Safe, TypeOK, DirtyMeansPending
  <2>2. RequestSort(best = c)
    BY DEF OnDelete
  <2>3. CASE best = c /\ ~sortDirty
    BY <2>1, <2>2, <2>3 DEF RequestSort
  <2>4. CASE ~(best = c /\ ~sortDirty)
    <3>1. sorts' = sorts
      BY <2>2, <2>4 DEF RequestSort
    <3> QED
      BY <2>1, <2>4, <3>1
  <2> QED
    BY <2>3, <2>4
<1>4. /\ best \in conns /\ best # None /\ best' = best
      /\ \A d \in conns : ~Better(d, best, conn)
  BY <1>1, <1>2, <1>3 DEF Reported, BestIsTop, SafeInv, Safe, NothingDangles
<1>5. \A d \in conns' : conn'[d] = conn[d] /\ d \in conns
  BY <1>1, <1>2 DEF States
<1>6. best' \in conns' /\ conn'[best'] = conn[best]
  BY <1>2, <1>3, <1>4, <1>5
<1>7. \A d \in conns' : ~Better(d, best', conn')
  BY <1>4, <1>5, <1>6, BetterByWrite
<1>8. writable' <=> best' # None /\ conn'[best'].write = "Writable"
  BY <1>2, <1>3, <1>4, <1>6 DEF Reported, StatesReported
<1>9. (\E d \in conns' : conn'[d].read = "Readable") => readable'
  BY <1>2, <1>3, <1>5 DEF Reported, StatesReported
<1> QED
  BY <1>4, <1>6, <1>7, <1>8, <1>9

LEMMA ReportedInit == Init => Reported
  BY DEF Init, Reported, BestIsTop, StatesReported

\* Steps that neither change a read or write state nor sort.
LEMMA QuietReport ==
  ASSUME SafeInv, Reported, UNCHANGED <<conns, best, sorts, writable, readable>>,
         \A c \in conns : conn'[c].read = conn[c].read /\ conn'[c].write = conn[c].write
  PROVE  Reported'
<1>1. best \in conns \cup {None}
  BY DEF SafeInv, Safe, NothingDangles
<1>2. \A c \in conns : best # None => (Better(c, best, conn') <=> Better(c, best, conn))
  BY <1>1, BetterByWrite
<1> QED
  BY <1>1, <1>2 DEF Reported, BestIsTop, StatesReported

LEMMA ReportedNext ==
  ASSUME ~Controlled, SafeInv, Reported, [Next]_vars
  PROVE  Reported'
<1>1. CASE Connect \/ OnSignalingReady \/ EndWait \/ (\E p \in Port : OnPortTimeout(p))
  <2>1. UNCHANGED <<conns, best, sorts, writable, readable, conn>>
    BY <1>1 DEF Connect, OnSignalingReady, EndWait, OnPortTimeout, sorting, flags
  <2> QED
    BY <2>1, QuietReport
<1>2. CASE Reset
  BY <1>2 DEF Reset, Reported, BestIsTop, StatesReported
<1>3. CASE \/ \E p \in Port : OnPortReady(p)
           \/ \E r \in Remote : OnCandidate(r)
           \/ \E c \in Pair : RecvUnknown(c)
           \/ OnSort
  BY <1>3, PortReadyKeeps, CandidateKeeps, UnknownKeeps, SortMessageKeeps, SortReports
<1>4. ASSUME NEW c \in Pair, NEW use \in BOOLEAN,
             RecvPing(c, use) \/ RecvResponse(c) \/ RecvError(c) \/ RecvData(c)
      PROVE  Reported'
  <2>1. UNCHANGED <<conns, best, writable, readable>>
    BY <1>4 DEF RecvPing, RecvResponse, RecvError, RecvData, flags
  <2> QED
    BY <1>4, <2>1, PacketKeeps, StatesReport
<1>5. CASE OnPing
  <2>1. UNCHANGED <<conns, best, writable, readable>>
    BY <1>5 DEF OnPing, flags
  <2> QED
    BY <1>5, <2>1, PingKeeps, StatesReport
<1>6. ASSUME NEW c \in Pair, OnRequestTimeout(c)
      PROVE  Reported'
  <2>1. UNCHANGED <<conns, best, sorts, writable, readable>>
    BY <1>6 DEF OnRequestTimeout, sorting, flags
  <2>2. \A d \in conns : conn'[d].read = conn[d].read /\ conn'[d].write = conn[d].write
    BY <1>6 DEF OnRequestTimeout, SafeInv, TypeOK, Connection
  <2> QED
    BY <2>1, <2>2, QuietReport
<1>7. ASSUME NEW c \in Pair, OnDelete(c)
      PROVE  Reported'
  BY <1>7, DeleteReports
<1>8. CASE UNCHANGED vars
  BY <1>8, QuietReport DEF vars, sorting, flags
<1> QED
  BY <1>1, <1>2, <1>3, <1>4, <1>5, <1>6, <1>7, <1>8 DEF Next, Environment, Queue

\* When no MSG_SORT is pending, a controlling channel uses a connection than which no other
\* is better by CompareConnections.
THEOREM BestIsUsed ==
  ASSUME ~Controlled
  PROVE  Spec => []BestIsTop
<1>1. Init => Reported
  BY ReportedInit
<1>2. SafeInv /\ Reported /\ [Next]_vars => Reported'
  BY ReportedNext
<1> QED
  BY <1>1, <1>2, Safety, PTL DEF Spec, Reported

\* When no MSG_SORT is pending, a controlling channel reports what its best connection is.
THEOREM ReportsBest ==
  ASSUME ~Controlled
  PROVE  Spec => []StatesReported
<1>1. Init => Reported
  BY ReportedInit
<1>2. SafeInv /\ Reported /\ [Next]_vars => Reported'
  BY ReportedNext
<1> QED
  BY <1>1, <1>2, Safety, PTL DEF Spec, Reported

\* HandleNotWritable and HandleAllTimedOut never miss the loss of writability.
THEOREM LossAllocates == Spec => AllocatesOnLoss
<1>1. SafeInv /\ [Next]_vars => [writable /\ ~writable' => waiting' \/ ~connected']_vars
  <2> SUFFICES ASSUME SafeInv, Next, writable, ~writable'
               PROVE  waiting' \/ ~connected'
    OBVIOUS
  <2>1. CASE Reset
    BY <2>1 DEF Reset
  <2>2. CASE \/ \E p \in Port : OnPortReady(p)
             \/ \E r \in Remote : OnCandidate(r)
             \/ \E c \in Pair : RecvUnknown(c)
             \/ OnSort
    BY <2>2, PortReadyKeeps, CandidateKeeps, UnknownKeeps, SortMessageKeeps, SortReports
  <2>3. CASE ~(\/ Reset \/ (\E p \in Port : OnPortReady(p)) \/ (\E r \in Remote : OnCandidate(r))
               \/ (\E c \in Pair : RecvUnknown(c)) \/ OnSort)
    <3>1. writable' = writable
      BY <2>3 DEF Next, Environment, Queue, Connect, OnSignalingReady, OnPortTimeout, RecvPing,
                  RecvResponse, RecvError, RecvData, OnRequestTimeout, OnPing, OnDelete,
                  EndWait, flags
    <3> QED
      BY <3>1
  <2> QED
    BY <2>1, <2>2, <2>3
<1> QED
  BY <1>1, Safety, PTL DEF Spec, AllocatesOnLoss
=============================================================================
