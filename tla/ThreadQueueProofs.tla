------------------------- MODULE ThreadQueueProofs -------------------------
(***************************************************************************)
(* Theorems about ThreadQueue, for every set of threads and handlers and   *)
(* every bound: its types and all its safety properties.  They follow from *)
(* one invariant (FullInv), each part of which uses the parts before it:   *)
(*   TypeInv   the types, and what is at the bottom of a stack;            *)
(*   Shape     which frame may lie on which;                               *)
(*   Life      a message is in one place at a time, where it was posted or *)
(*             sent to, and the Send that its flag belongs to waits;       *)
(*   Timed     the readings of the clock and the order of dmsgq_;          *)
(*   Gone      what is left of a thread that has been deleted;             *)
(*   Outside   the stack of a thread that has no Thread object;            *)
(*   Alive     no message of a destroyed handler is in a queue;            *)
(*   Woken     what a thread has not seen when it goes to sleep has raised *)
(*             its signal, or will.                                        *)
(***************************************************************************)
EXTENDS ThreadQueue, FiniteSetTheorems, SequenceTheorems, TLAPS

\* At the bottom of a stack is a Get (of a worker) or client code: no call of the
\* queue is the last frame to return.
Bottom == \A t \in Thread : stack[t][1].at \in GetPoints \cup {"Code"}

----------------------------------------------------------------------------
(* What the three operations on a stack do.                                *)

LEMMA CallIsFrame ==
  ASSUME NEW t \in Thread, NEW p \in Points, NEW m \in Msg \cup {NoMsg},
         p \in Carrying => m # NoMsg
  PROVE  CallOn(t, p, m) \in Frame /\ (p \notin Carrying => Call(t, p) \in Frame)
  BY DEF CallOn, Call, Frame, NoMsg

LEMMA OneBelow ==
  ASSUME NEW n \in Nat \ {0}
  PROVE  (n # 1 => 1 \in 1..(n - 1)) /\ (n > 1 => n # 1)
  OBVIOUS

LEMMA GoToStack ==
  ASSUME NEW s \in Seq(Frame), s # <<>>, NEW p \in Points,
         p \in Carrying => s[Len(s)].msg # NoMsg
  PROVE  /\ GoTo(s, p) \in Seq(Frame)
         /\ Len(GoTo(s, p)) = Len(s)
         /\ GoTo(s, p) # <<>>
         /\ GoTo(s, p)[Len(s)] = [s[Len(s)] EXCEPT !.at = p]
         /\ \A i \in 1..(Len(s) - 1) : GoTo(s, p)[i] = s[i]
<1>1. Len(s) \in 1..Len(s) /\ Len(s) \in Nat
  BY EmptySeq, LenProperties
<1>2. s[Len(s)] \in Frame
  BY <1>1, ElementOfSeq
<1>3. [s[Len(s)] EXCEPT !.at = p] \in Frame
  BY <1>2 DEF Frame
<1>4. GoTo(s, p) = [s EXCEPT ![Len(s)] = [s[Len(s)] EXCEPT !.at = p]]
  BY <1>1 DEF GoTo
<1>5. GoTo(s, p) \in Seq(Frame) /\ Len(GoTo(s, p)) = Len(s)
  BY <1>1, <1>3, <1>4, ExceptSeq
<1>6. GoTo(s, p) # <<>>
  BY <1>1, <1>5, EmptySeq
<1> QED
  BY <1>1, <1>4, <1>5, <1>6, LenProperties

LEMMA PushStack ==
  ASSUME NEW s \in Seq(Frame), s # <<>>, NEW f \in Frame
  PROVE  /\ Append(s, f) \in Seq(Frame)
         /\ Append(s, f) # <<>>
         /\ Len(Append(s, f)) = Len(s) + 1
         /\ Append(s, f)[Len(s) + 1] = f
         /\ \A i \in 1..Len(s) : Append(s, f)[i] = s[i]
  BY AppendProperties

LEMMA PopStack ==
  ASSUME NEW s \in Seq(Frame), s # <<>>, Len(s) # 1
  PROVE  /\ SubSeq(s, 1, Len(s) - 1) \in Seq(Frame)
         /\ SubSeq(s, 1, Len(s) - 1) # <<>>
         /\ Len(SubSeq(s, 1, Len(s) - 1)) = Len(s) - 1
         /\ \A i \in 1..(Len(s) - 1) : SubSeq(s, 1, Len(s) - 1)[i] = s[i]
<1>1. Len(s) - 1 \in Nat /\ Len(s) - 1 <= Len(s) /\ Len(s) - 1 # 0
  BY EmptySeq, LenProperties
<1>2. \A n \in Nat : n <= Len(s) =>
        /\ SubSeq(s, 1, n) \in Seq(Frame)
        /\ Len(SubSeq(s, 1, n)) = n
        /\ \A i \in 1..n : SubSeq(s, 1, n)[i] = s[i]
  OBVIOUS
<1>3. SubSeq(s, 1, Len(s) - 1) # <<>>
  BY <1>1, <1>2, EmptySeq
<1> QED
  BY <1>1, <1>2, <1>3

----------------------------------------------------------------------------
(* The stacks keep their type.                                             *)

StackOK == /\ stack \in [Thread -> Seq(Frame)]
           /\ \A t \in Thread : stack[t] # <<>>
           /\ Bottom

\* Only these points are left at the bottom of a stack.
Lasting == GetPoints \cup {"Code"}

LEMMA TopIsFrame ==
  ASSUME StackOK, NEW t \in Thread
  PROVE  /\ Top(t) \in Frame /\ Len(stack[t]) \in Nat \ {0}
         /\ (Top(t).at \notin Lasting => Len(stack[t]) # 1)
<1>1. stack[t] \in Seq(Frame) /\ stack[t] # <<>>
  BY DEF StackOK
<1>2. Len(stack[t]) \in Nat \ {0}
  BY <1>1, EmptySeq
<1>3. Top(t) \in Frame
  BY <1>1, <1>2, ElementOfSeq DEF Top
<1>4. Len(stack[t]) = 1 => Top(t).at \in Lasting
  BY DEF StackOK, Bottom, Top, Lasting
<1> QED
  BY <1>2, <1>3, <1>4

LEMMA ReplaceStack ==
  ASSUME StackOK, NEW t \in Thread, NEW s \in Seq(Frame), s # <<>>, s[1].at \in Lasting,
         stack' = [stack EXCEPT ![t] = s]
  PROVE  StackOK'
<1>1. \A u \in Thread : stack'[u] = IF u = t THEN s ELSE stack[u]
  BY DEF StackOK
<1>2. stack' \in [Thread -> Seq(Frame)]
  BY DEF StackOK
<1> QED
  BY <1>1, <1>2 DEF StackOK, Bottom, Lasting

LEMMA GotoOK ==
  ASSUME StackOK, NEW t \in Thread, NEW p \in Points, Goto(t, p),
         Top(t).at \notin Lasting \/ p \in Lasting, p \in Carrying => Top(t).msg # NoMsg
  PROVE  StackOK'
<1> DEFINE s == GoTo(stack[t], p)
<1>1. stack[t] \in Seq(Frame) /\ stack[t] # <<>> /\ stack[t][1].at \in Lasting
  BY DEF StackOK, Bottom, Lasting
<1>2. s \in Seq(Frame) /\ s # <<>> /\ s[Len(stack[t])] = [Top(t) EXCEPT !.at = p]
      /\ \A i \in 1..(Len(stack[t]) - 1) : s[i] = stack[t][i]
  BY <1>1, GoToStack DEF Top
<1>3. s[1].at \in Lasting
  <2>1. CASE Len(stack[t]) = 1
    <3>1. [Top(t) EXCEPT !.at = p].at = p
      BY TopIsFrame DEF Frame
    <3>2. p \in Lasting
      BY <2>1, TopIsFrame
    <3> QED
      BY <1>2, <2>1, <3>1, <3>2, Zenon
  <2>2. CASE Len(stack[t]) # 1
    <3>1. Len(stack[t]) \in Nat \ {0}
      BY <1>1, EmptySeq
    <3>2. 1 \in 1..(Len(stack[t]) - 1)
      BY <2>2, <3>1, OneBelow, Zenon
    <3>3. s[1] = stack[t][1]
      BY <1>2, <3>2
    <3> QED
      BY <1>1, <3>3
  <2> QED
    BY <2>1, <2>2
<1>4. stack' = [stack EXCEPT ![t] = s]
  BY DEF Goto
<1> HIDE DEF s
<1> QED
  BY <1>2, <1>3, <1>4, ReplaceStack

LEMMA CallFromOK ==
  ASSUME StackOK, NEW t \in Thread, NEW p \in Points, NEW f \in Frame, CallFrom(t, p, f),
         Top(t).at \notin Lasting \/ p \in Lasting, p \in Carrying => Top(t).msg # NoMsg
  PROVE  StackOK'
<1> DEFINE s == GoTo(stack[t], p)
           r == Append(s, f)
<1>1. stack[t] \in Seq(Frame) /\ stack[t] # <<>> /\ stack[t][1].at \in Lasting
  BY DEF StackOK, Bottom, Lasting
<1>2. s \in Seq(Frame) /\ s # <<>> /\ s[Len(stack[t])] = [Top(t) EXCEPT !.at = p]
      /\ \A i \in 1..(Len(stack[t]) - 1) : s[i] = stack[t][i]
  BY <1>1, GoToStack DEF Top
<1>3. s[1].at \in Lasting
  <2>1. CASE Len(stack[t]) = 1
    <3>1. [Top(t) EXCEPT !.at = p].at = p
      BY TopIsFrame DEF Frame
    <3>2. p \in Lasting
      BY <2>1, TopIsFrame
    <3> QED
      BY <1>2, <2>1, <3>1, <3>2, Zenon
  <2>2. CASE Len(stack[t]) # 1
    <3>1. Len(stack[t]) \in Nat \ {0}
      BY <1>1, EmptySeq
    <3>2. 1 \in 1..(Len(stack[t]) - 1)
      BY <2>2, <3>1, OneBelow, Zenon
    <3>3. s[1] = stack[t][1]
      BY <1>2, <3>2
    <3> QED
      BY <1>1, <3>3
  <2> QED
    BY <2>1, <2>2
<1>4. stack' = [stack EXCEPT ![t] = r]
  BY DEF CallFrom
<1>5. Len(s) \in Nat \ {0}
  BY <1>2, EmptySeq
<1> HIDE DEF s
<1>6. r \in Seq(Frame) /\ r # <<>> /\ r[1] = s[1]
  BY <1>2, <1>5, PushStack
<1> HIDE DEF r
<1> QED
  BY <1>3, <1>4, <1>6, ReplaceStack

LEMMA ReturnOK ==
  ASSUME StackOK, NEW t \in Thread, Return(t), Len(stack[t]) # 1
  PROVE  StackOK'
<1> DEFINE s == SubSeq(stack[t], 1, Len(stack[t]) - 1)
<1>1. stack[t] \in Seq(Frame) /\ stack[t] # <<>> /\ stack[t][1].at \in Lasting
  BY DEF StackOK, Bottom, Lasting
<1>2. s \in Seq(Frame) /\ s # <<>>
      /\ \A i \in 1..(Len(stack[t]) - 1) : s[i] = stack[t][i]
  BY <1>1, PopStack
<1>3. s[1] = stack[t][1]
  BY <1>2, TopIsFrame
<1>4. stack' = [stack EXCEPT ![t] = s]
  BY DEF Return
<1> HIDE DEF s
<1> QED
  BY <1>1, <1>2, <1>3, <1>4, ReplaceStack
----------------------------------------------------------------------------
(* The other variables keep their type.                                    *)

ClockOK == clock \in [Thread -> [cur: Nat, delay: Nat \cup {Forever}]] /\ now \in Nat
QueuesOK == /\ msgq \in [Thread -> SUBSET Msg] /\ dmsgq \in [Thread -> SUBSET Msg]
            /\ sendlist \in [Thread -> SUBSET Msg]
SignalsOK == /\ hasSends \in [Thread -> BOOLEAN] /\ fStop \in [Thread -> BOOLEAN]
             /\ wake \in [Thread -> BOOLEAN] /\ ready \in [Msg -> BOOLEAN]
MsgsOK == info \in [Msg -> Info] /\ created \in 0..MaxMsgs /\ arrived \in Nat
ObjectsOK == exists \in SUBSET Thread /\ handlers \in SUBSET Handler

TypeInv == StackOK /\ ClockOK /\ QueuesOK /\ SignalsOK /\ MsgsOK /\ ObjectsOK

LEMMA HomeIsThread == \A h \in Handler : HomeOf[h] \in Thread
  BY ConstantsOK DEF Thread

THEOREM TypeInvInit == Init => TypeInv
<1> SUFFICES ASSUME Init PROVE TypeInv
  OBVIOUS
<1>1. StackOK
  <2>1. \A t \in Thread : stack[t] = <<Call(t, IF t \in Worker THEN "Top" ELSE "Code")>>
    BY DEF Init
  <2>2. \A t \in Thread : Call(t, IF t \in Worker THEN "Top" ELSE "Code") \in Frame
    BY CallIsFrame DEF Points, GetPoints, SendPoints, Carrying, NoMsg
  <2>3. stack \in [Thread -> Seq(Frame)]
    BY <2>2 DEF Init
  <2>4. \A t \in Thread : stack[t] # <<>> /\ stack[t][1].at \in GetPoints \cup {"Code"}
    <3> TAKE t \in Thread
    <3> DEFINE f == Call(t, IF t \in Worker THEN "Top" ELSE "Code")
    <3>1. f.at \in GetPoints \cup {"Code"}
      BY DEF Call, GetPoints
    <3> HIDE DEF f
    <3>2. <<f>> # <<>> /\ <<f>>[1] = f
      OBVIOUS
    <3> QED
      BY <2>1, <3>1, <3>2 DEF f
  <2> QED
    BY <2>3, <2>4 DEF StackOK, Bottom
<1>2. ClockOK /\ QueuesOK /\ SignalsOK
  BY DEF Init, ClockOK, QueuesOK, SignalsOK, Forever
<1>3. MsgsOK
  <2>1. (CHOOSE h \in Handler : TRUE) \in Handler
    BY ConstantsOK
  <2> QED
    BY <2>1, ConstantsOK DEF Init, MsgsOK, Info, Forever, Thread
<1>4. ObjectsOK
  BY DEF Init, ObjectsOK, Thread
<1> QED
  BY <1>1, <1>2, <1>3, <1>4 DEF TypeInv

\* A new message, and its arrival in a queue.
LEMMA NewMsgOK ==
  ASSUME MsgsOK, NEW t \in Thread, NEW h \in Handler, NEW d \in Nat \cup {Forever},
         now \in Nat, NewMsg(t, h, d)
  PROVE  /\ created' \in 0..MaxMsgs /\ info' \in [Msg -> Info]
         /\ created + 1 \in Msg
<1>1. created + 1 \in Msg /\ created' \in 0..MaxMsgs
  BY ConstantsOK DEF NewMsg, MsgsOK, Msg
<1>2. [handler |-> h, from |-> t, delay |-> d, arrival |-> 0,
       trigger |-> IF d = Forever THEN 0 ELSE now + d] \in Info
  BY DEF Info, Forever
<1> QED
  BY <1>1, <1>2 DEF NewMsg, MsgsOK

LEMMA ArriveOK ==
  ASSUME MsgsOK, NEW m, Arrive(m)
  PROVE  MsgsOK'
<1>1. \A k \in Msg : info'[k] \in Info
  <2> TAKE k \in Msg
  <2>1. info[k] \in Info /\ arrived + 1 \in Nat
    BY DEF MsgsOK
  <2>2. info'[k] = IF k = m THEN [info[k] EXCEPT !.arrival = arrived + 1]
                   ELSE info[k]
    BY DEF MsgsOK, Arrive
  <2> QED
    BY <2>1, <2>2 DEF Info
<1>2. info' \in [Msg -> Info]
  <2>1. info' = [k \in Msg |-> info'[k]]
    BY DEF MsgsOK, Arrive
  <2> HIDE DEF Info
  <2> QED
    BY <1>1, <2>1
<1> QED
  BY <1>2 DEF MsgsOK, Arrive

----------------------------------------------------------------------------
(* Every action preserves TypeInv.                                         *)

LEMMA NextSendOK ==
  ASSUME StackOK, QueuesOK, NEW t \in Thread, NextSend(t), Top(t).at \notin Lasting
  PROVE  StackOK'
<1>1. CASE Return(t)
  BY <1>1, ReturnOK, TopIsFrame
<1>2. CASE \E m \in sendlist[t] : stack' = [stack EXCEPT ![t] =
             Append([@ EXCEPT ![Len(@)] = CallOn(t, "RsReady", m)], CallOn(t, "Code", m))]
  <2>1. PICK m \in Msg : stack' = [stack EXCEPT ![t] =
             Append([stack[t] EXCEPT ![Len(stack[t])] = CallOn(t, "RsReady", m)],
                    CallOn(t, "Code", m))]
    BY <1>2 DEF QueuesOK, StackOK
  <2> DEFINE f == CallOn(t, "RsReady", m)
             g == CallOn(t, "Code", m)
             s == [stack[t] EXCEPT ![Len(stack[t])] = f]
             r == Append(s, g)
  <2>2. f \in Frame /\ g \in Frame
    <3>1. m # NoMsg
      BY DEF Msg, NoMsg
    <3> QED
      BY <3>1, CallIsFrame DEF Points, ReceivePoints
  <2>3. stack[t] \in Seq(Frame) /\ stack[t] # <<>> /\ stack[t][1].at \in Lasting
    BY DEF StackOK, Bottom, Lasting
  <2>4. Len(stack[t]) \in Nat \ {0} /\ Len(stack[t]) # 1
    BY TopIsFrame
  <2>5. 1 \in 1..Len(stack[t]) /\ Len(stack[t]) \in 1..Len(stack[t])
    BY <2>4
  <2> HIDE DEF f, g
  <2>6. s \in Seq(Frame) /\ Len(s) = Len(stack[t]) /\ s[1] = stack[t][1]
    BY <2>2, <2>3, <2>4, <2>5, ExceptSeq
  <2>7. s # <<>>
    BY <2>4, <2>6, EmptySeq
  <2> HIDE DEF s
  <2>8. r \in Seq(Frame) /\ r # <<>> /\ r[1] = s[1]
    BY <2>2, <2>4, <2>6, <2>7, PushStack
  <2>9. stack' = [stack EXCEPT ![t] = r]
    BY <2>1 DEF f, g, s
  <2> HIDE DEF r
  <2> QED
    BY <2>3, <2>6, <2>8, <2>9, ReplaceStack
<1> QED
  BY <1>1, <1>2 DEF NextSend

LEMMA NextSendLists ==
  ASSUME QueuesOK, SignalsOK, NEW t \in Thread, NextSend(t)
  PROVE  sendlist' \in [Thread -> SUBSET Msg] /\ hasSends' \in [Thread -> BOOLEAN]
<1>1. CASE /\ hasSends' = [hasSends EXCEPT ![t] = FALSE]
           /\ UNCHANGED sendlist
  BY <1>1 DEF QueuesOK, SignalsOK
<1>2. CASE /\ \E m \in sendlist[t] : sendlist' = [sendlist EXCEPT ![t] = @ \ {m}]
           /\ UNCHANGED hasSends
  BY <1>2 DEF QueuesOK, SignalsOK
<1> QED
  BY <1>1, <1>2 DEF NextSend

RunA(t) == QuitWake(t) \/ SendWake(t) \/ SendLoop(t) \/ SendReturn(t) \/ ReplyReady(t)
           \/ ReceiveFirst(t) \/ ReplyWake(t)

LEMMA RunTypeA ==
  ASSUME TypeInv, NEW t \in Thread, RunA(t)
  PROVE  TypeInv'
<1>a. StackOK /\ ClockOK /\ QueuesOK /\ SignalsOK /\ MsgsOK /\ ObjectsOK
  BY DEF TypeInv
<1>1. CASE QuitWake(t)
  <2>1. StackOK'
    <3>1. Return(t) /\ Top(t).at = "QuitWake" /\ "QuitWake" \notin Lasting
      BY <1>1 DEF QuitWake, At, Lasting, GetPoints
    <3> QED
      BY <1>a, <3>1, ReturnOK, TopIsFrame
  <2>2. ClockOK' /\ QueuesOK' /\ SignalsOK' /\ MsgsOK' /\ ObjectsOK'
    BY <1>a, <1>1 DEF QuitWake, ClockOK, QueuesOK, SignalsOK, MsgsOK, ObjectsOK, queues, signals,
       msgs, objects
  <2> QED
    BY <2>1, <2>2 DEF TypeInv
<1>2. CASE SendWake(t)
  <2>1. StackOK'
    <3>1. Goto(t, "SendLoop") /\ Top(t).at = "SendWake"
      BY <1>2 DEF SendWake, At
    <3>2. "SendLoop" \in Points /\ ("SendWake" \notin Lasting \/ "SendLoop" \in Lasting)
          /\ ("SendLoop" \in Carrying => "SendWake" \in Carrying)
      BY DEF Points, GetPoints, ReceivePoints, SendPoints, CallPoints, Lasting, Carrying
    <3>3. "SendWake" \in Carrying => Top(t).msg # NoMsg
      BY <1>a, <3>1, TopIsFrame DEF Frame
    <3> QED
      BY <1>a, <3>1, <3>2, <3>3, GotoOK
  <2>2. ClockOK' /\ QueuesOK' /\ SignalsOK' /\ MsgsOK' /\ ObjectsOK'
    BY <1>a, <1>2 DEF SendWake, ClockOK, QueuesOK, SignalsOK, MsgsOK, ObjectsOK, queues, signals,
       msgs, objects
  <2> QED
    BY <2>1, <2>2 DEF TypeInv
<1>3. CASE SendLoop(t)
  <2>1. StackOK'
    <3>1. Goto(t, "SendRecv") /\ Top(t).at = "SendLoop"
      BY <1>3 DEF SendLoop, At
    <3>2. "SendRecv" \in Points /\ ("SendLoop" \notin Lasting \/ "SendRecv" \in Lasting)
          /\ ("SendRecv" \in Carrying => "SendLoop" \in Carrying)
      BY DEF Points, GetPoints, ReceivePoints, SendPoints, CallPoints, Lasting, Carrying
    <3>3. "SendLoop" \in Carrying => Top(t).msg # NoMsg
      BY <1>a, <3>1, TopIsFrame DEF Frame
    <3> QED
      BY <1>a, <3>1, <3>2, <3>3, GotoOK
  <2>2. ClockOK' /\ QueuesOK' /\ SignalsOK' /\ MsgsOK' /\ ObjectsOK'
    BY <1>a, <1>3 DEF SendLoop, ClockOK, QueuesOK, SignalsOK, MsgsOK, ObjectsOK, queues, signals,
       msgs, objects
  <2> QED
    BY <2>1, <2>2 DEF TypeInv
<1>4. CASE SendReturn(t)
  <2>1. StackOK'
    <3>1. Return(t) /\ Top(t).at = "SendLoop" /\ "SendLoop" \notin Lasting
      BY <1>4 DEF SendReturn, At, Lasting, GetPoints
    <3> QED
      BY <1>a, <3>1, ReturnOK, TopIsFrame
  <2>2. ClockOK' /\ QueuesOK' /\ SignalsOK' /\ MsgsOK' /\ ObjectsOK'
    BY <1>a, <1>4 DEF SendReturn, ClockOK, QueuesOK, SignalsOK, MsgsOK, ObjectsOK, queues, signals,
       msgs, objects
  <2> QED
    BY <2>1, <2>2 DEF TypeInv
<1>5. CASE ReplyReady(t)
  <2>1. StackOK'
    <3>1. Goto(t, "RsWake") /\ Top(t).at = "RsReady"
      BY <1>5 DEF ReplyReady, At
    <3>2. "RsWake" \in Points /\ ("RsReady" \notin Lasting \/ "RsWake" \in Lasting)
          /\ ("RsWake" \in Carrying => "RsReady" \in Carrying)
      BY DEF Points, GetPoints, ReceivePoints, SendPoints, CallPoints, Lasting, Carrying
    <3>3. "RsReady" \in Carrying => Top(t).msg # NoMsg
      BY <1>a, <3>1, TopIsFrame DEF Frame
    <3> QED
      BY <1>a, <3>1, <3>2, <3>3, GotoOK
  <2>2. ClockOK' /\ QueuesOK' /\ SignalsOK' /\ MsgsOK' /\ ObjectsOK'
    BY <1>a, <1>5 DEF ReplyReady, ClockOK, QueuesOK, SignalsOK, MsgsOK, ObjectsOK, queues, signals,
       msgs, objects
  <2> QED
    BY <2>1, <2>2 DEF TypeInv
<1>6. CASE ReceiveFirst(t)
  <2>1. StackOK'
    <3>1. NextSend(t) /\ Top(t).at = "RsPop" /\ "RsPop" \notin Lasting
      BY <1>6 DEF ReceiveFirst, At, Lasting, GetPoints
    <3> QED
      BY <1>a, <3>1, NextSendOK
  <2>2. ClockOK' /\ QueuesOK' /\ SignalsOK' /\ MsgsOK' /\ ObjectsOK'
    <3>1. sendlist' \in [Thread -> SUBSET Msg] /\ hasSends' \in [Thread -> BOOLEAN]
      BY <1>a, <1>6, NextSendLists DEF ReceiveFirst
    <3>2. /\ UNCHANGED <<clock, now, msgq, dmsgq, fStop, info, created, arrived, exists, handlers>>
          /\ wake' = wake /\ ready' = ready
      BY <1>6 DEF ReceiveFirst, msgs, objects
    <3>3. ClockOK' /\ MsgsOK' /\ ObjectsOK'
      BY <1>a, <3>2 DEF ClockOK, MsgsOK, ObjectsOK
    <3>4. QueuesOK'
      BY <1>a, <3>1, <3>2 DEF QueuesOK
    <3>5. SignalsOK'
      BY <1>a, <3>1, <3>2 DEF SignalsOK
    <3> QED
      BY <3>3, <3>4, <3>5
  <2> QED
    BY <2>1, <2>2 DEF TypeInv
<1>7. CASE ReplyWake(t)
  <2>1. StackOK'
    <3>1. NextSend(t) /\ Top(t).at = "RsWake" /\ "RsWake" \notin Lasting
      BY <1>7 DEF ReplyWake, At, Lasting, GetPoints
    <3> QED
      BY <1>a, <3>1, NextSendOK
  <2>2. ClockOK' /\ QueuesOK' /\ SignalsOK' /\ MsgsOK' /\ ObjectsOK'
    <3>1. sendlist' \in [Thread -> SUBSET Msg] /\ hasSends' \in [Thread -> BOOLEAN]
      BY <1>a, <1>7, NextSendLists DEF ReplyWake
    <3>2. /\ UNCHANGED <<clock, now, msgq, dmsgq, fStop, info, created, arrived, exists, handlers>>
          /\ wake' = [wake EXCEPT ![info[Top(t).msg].from] = TRUE] /\ ready' = ready
      BY <1>7 DEF ReplyWake, msgs, objects
    <3>3. ClockOK' /\ MsgsOK' /\ ObjectsOK'
      BY <1>a, <3>2 DEF ClockOK, MsgsOK, ObjectsOK
    <3>4. QueuesOK'
      BY <1>a, <3>1, <3>2 DEF QueuesOK
    <3>5. SignalsOK'
      BY <1>a, <3>1, <3>2 DEF SignalsOK
    <3> QED
      BY <3>3, <3>4, <3>5
  <2> QED
    BY <2>1, <2>2 DEF TypeInv
<1> QED
  BY <1>1, <1>2, <1>3, <1>4, <1>5, <1>6, <1>7 DEF RunA


----------------------------------------------------------------------------
(* The remaining steps of the queue, and those of its clients.             *)

LEMMA ReceiveSendsOK ==
  ASSUME StackOK, NEW t \in Thread, NEW from \in Points, NEW to \in Points,
         Top(t).at \notin Lasting \/ to \in Lasting, to \notin Carrying \/ from \in Carrying,
         ReceiveSends(t, from, to)
  PROVE  StackOK'
<1>1. to \in Carrying => Top(t).msg # NoMsg
  BY TopIsFrame DEF Frame, ReceiveSends, At
<1>2. Call(t, "RsPop") \in Frame
  BY CallIsFrame DEF Points, ReceivePoints, SendPoints, Carrying, NoMsg
<1>3. CASE hasSends[t]
  BY <1>1, <1>2, <1>3, CallFromOK DEF ReceiveSends
<1>4. CASE ~hasSends[t]
  BY <1>1, <1>4, GotoOK DEF ReceiveSends
<1> QED
  BY <1>3, <1>4

LEMMA TriggeredCount ==
  ASSUME QueuesOK, NEW t \in Thread
  PROVE  /\ Triggered(t) \subseteq Msg
         /\ \A S \in SUBSET Triggered(t) : Cardinality(S) \in Nat
<1>1. IsFiniteSet(Msg)
  BY ConstantsOK, FS_Interval DEF Msg
<1>2. Triggered(t) \subseteq Msg
  BY DEF QueuesOK, Triggered
<1>3. \A S \in SUBSET Triggered(t) : IsFiniteSet(S)
  BY <1>1, <1>2, FS_Subset
<1> QED
  BY <1>2, <1>3, FS_CardinalityType

RunB(t) == PostPush(t) \/ SendPush(t) \/ SendWait(t) \/ GetReceiveSends(t)
           \/ SendReceiveSends(t) \/ GetMessage(t) \/ GetNothing(t) \/ GetStop(t)
           \/ GetWait(t)

LEMMA RunTypeB ==
  ASSUME TypeInv, NEW t \in Thread, RunB(t)
  PROVE  TypeInv'
<1>a. StackOK /\ ClockOK /\ QueuesOK /\ SignalsOK /\ MsgsOK /\ ObjectsOK
  BY DEF TypeInv
<1>1. CASE PostPush(t)
  <2>1. StackOK'
    <3>1. Return(t) /\ Top(t).at = "PostPush" /\ "PostPush" \notin Lasting
      BY <1>1 DEF PostPush, At, Lasting, GetPoints
    <3> QED
      BY <1>a, <3>1, ReturnOK, TopIsFrame
  <2>0. Top(t).to \in Thread /\ Top(t).msg \in Msg
    <3>1. Top(t).at = "PostPush" /\ "PostPush" \in Carrying
      BY <1>1 DEF PostPush, At, Carrying
    <3> QED
      BY <1>a, <3>1, TopIsFrame DEF Frame
  <2>3. MsgsOK'
    BY <1>a, <1>1, <2>0, ArriveOK DEF PostPush
  <2>2. ClockOK' /\ SignalsOK' /\ ObjectsOK'
    BY <1>a, <1>1, <2>0 DEF PostPush, ClockOK, SignalsOK, ObjectsOK, objects
  <2>4. QueuesOK'
    BY <1>a, <1>1, <2>0 DEF PostPush, QueuesOK
  <2> QED
    BY <2>1, <2>2, <2>3, <2>4 DEF TypeInv
<1>2. CASE SendPush(t)
  <2>1. StackOK'
    <3>1. Goto(t, "SendWake") /\ Top(t).at = "SendPush"
      BY <1>2 DEF SendPush, At
    <3>2. "SendWake" \in Points /\ ("SendPush" \notin Lasting \/ "SendWake" \in Lasting)
          /\ ("SendWake" \in Carrying => "SendPush" \in Carrying)
      BY DEF Points, GetPoints, ReceivePoints, SendPoints, CallPoints, Lasting, Carrying
    <3>3. "SendPush" \in Carrying => Top(t).msg # NoMsg
      BY <1>a, <3>1, TopIsFrame DEF Frame
    <3> QED
      BY <1>a, <3>1, <3>2, <3>3, GotoOK
  <2>0. Top(t).to \in Thread /\ Top(t).msg \in Msg
    <3>1. Top(t).at = "SendPush" /\ "SendPush" \in Carrying
      BY <1>2 DEF SendPush, At, Carrying
    <3> QED
      BY <1>a, <3>1, TopIsFrame DEF Frame
  <2>3. MsgsOK'
    BY <1>a, <1>2, <2>0, ArriveOK DEF SendPush
  <2>2. ClockOK' /\ QueuesOK' /\ SignalsOK' /\ ObjectsOK'
    BY <1>a, <1>2, <2>0 DEF SendPush, ClockOK, QueuesOK, SignalsOK, ObjectsOK, objects
  <2> QED
    BY <2>1, <2>2, <2>3 DEF TypeInv
<1>3. CASE SendWait(t)
  <2>1. StackOK'
    <3>1. stack[t] \in Seq(Frame) /\ stack[t] # <<>> /\ stack[t][1].at \in Lasting
      BY <1>a DEF StackOK, Bottom, Lasting
    <3>2. Top(t).at = "SendWait" /\ "SendWait" \notin Lasting /\ "SendWait" \in Carrying
      BY <1>3 DEF SendWait, At, Lasting, GetPoints, Carrying, SendPoints
    <3>3. Len(stack[t]) \in Nat \ {0} /\ Len(stack[t]) # 1 /\ Top(t) \in Frame
      BY <1>a, <3>2, TopIsFrame
    <3>4. Len(stack[t]) \in 1..Len(stack[t]) /\ 1 \in 1..Len(stack[t])
      BY <3>3
    <3> DEFINE f == [Top(t) EXCEPT !.at = "SendLoop", !.waited = TRUE]
               s == [stack[t] EXCEPT ![Len(stack[t])] = f]
    <3>5. f \in Frame
      BY <3>2, <3>3 DEF Frame, Points, SendPoints
    <3>6. stack' = [stack EXCEPT ![t] = s]
      BY <1>3 DEF SendWait, Top
    <3> HIDE DEF f
    <3>7. s \in Seq(Frame) /\ Len(s) = Len(stack[t]) /\ s[1] = stack[t][1]
      BY <3>1, <3>3, <3>4, <3>5, ExceptSeq
    <3>8. s # <<>>
      BY <3>3, <3>7, EmptySeq
    <3> HIDE DEF s
    <3> QED
      BY <1>a, <3>1, <3>6, <3>7, <3>8, ReplaceStack
  <2>2. ClockOK' /\ QueuesOK' /\ SignalsOK' /\ MsgsOK' /\ ObjectsOK'
    BY <1>a, <1>3 DEF SendWait, ClockOK, QueuesOK, SignalsOK, MsgsOK, ObjectsOK, queues, signals,
       msgs, objects
  <2> QED
    BY <2>1, <2>2 DEF TypeInv
<1>4. CASE GetReceiveSends(t)
  <2>1. StackOK'
    <3>1. ReceiveSends(t, "Top", "Queues") /\ Top(t).at = "Top"
      BY <1>4 DEF GetReceiveSends, ReceiveSends, At
    <3>2. /\ "Top" \in Points /\ "Queues" \in Points
          /\ ("Top" \notin Lasting \/ "Queues" \in Lasting)
          /\ ("Queues" \notin Carrying \/ "Top" \in Carrying)
      BY DEF Points, GetPoints, ReceivePoints, SendPoints, CallPoints, Lasting, Carrying
    <3> QED
      BY <1>a, <3>1, <3>2, ReceiveSendsOK
  <2>2. ClockOK' /\ QueuesOK' /\ SignalsOK' /\ MsgsOK' /\ ObjectsOK'
    BY <1>a, <1>4 DEF GetReceiveSends, ReceiveSends, ClockOK, QueuesOK, SignalsOK, MsgsOK,
       ObjectsOK, queues, signals, msgs, objects
  <2> QED
    BY <2>1, <2>2 DEF TypeInv
<1>5. CASE SendReceiveSends(t)
  <2>1. StackOK'
    <3>1. ReceiveSends(t, "SendRecv", "SendWait") /\ Top(t).at = "SendRecv"
      BY <1>5 DEF SendReceiveSends, ReceiveSends, At
    <3>2. /\ "SendRecv" \in Points /\ "SendWait" \in Points
          /\ ("SendRecv" \notin Lasting \/ "SendWait" \in Lasting)
          /\ ("SendWait" \notin Carrying \/ "SendRecv" \in Carrying)
      BY DEF Points, GetPoints, ReceivePoints, SendPoints, CallPoints, Lasting, Carrying
    <3> QED
      BY <1>a, <3>1, <3>2, ReceiveSendsOK
  <2>2. ClockOK' /\ QueuesOK' /\ SignalsOK' /\ MsgsOK' /\ ObjectsOK'
    BY <1>a, <1>5 DEF SendReceiveSends, ReceiveSends, ClockOK, QueuesOK, SignalsOK, MsgsOK,
       ObjectsOK, queues, signals, msgs, objects
  <2> QED
    BY <2>1, <2>2 DEF TypeInv
<1>6. CASE GetMessage(t)
  <2>0. PICK m \in Msg : /\ CallFrom(t, "Top", CallOn(t, "Code", m))
                         /\ msgq' = [msgq EXCEPT ![t] = (@ \cup Triggered(t)) \ {m}]
    BY <1>a, <1>6, TriggeredCount DEF GetMessage, QueuesOK
  <2>1. StackOK'
    <3>1. CallOn(t, "Code", m) \in Frame
      BY CallIsFrame DEF Points, Carrying, SendPoints
    <3>2. "Top" \in Points /\ "Top" \in Lasting /\ "Top" \notin Carrying
      BY DEF Points, GetPoints, Lasting, Carrying, SendPoints
    <3> QED
      BY <1>a, <2>0, <3>1, <3>2, CallFromOK
  <2>2. MsgsOK'
    <3>1. \A k \in Msg : info'[k] \in Info
      <4> TAKE k \in Msg
      <4>1. info[k] \in Info /\ arrived \in Nat
        BY <1>a DEF MsgsOK
      <4>2. arrived + Cardinality({n \in Triggered(t) : NotAfter(n, k)}) \in Nat
        BY <1>a, <4>1, TriggeredCount
      <4>3. info'[k] = info[k] \/ info'[k] = [info[k] EXCEPT !.arrival =
              arrived + Cardinality({n \in Triggered(t) : NotAfter(n, k)})]
        BY <1>6 DEF GetMessage, Moved
      <4> DEFINE c == arrived + Cardinality({n \in Triggered(t) : NotAfter(n, k)})
      <4> HIDE DEF c
      <4>4. [info[k] EXCEPT !.arrival = c] \in Info
        BY <4>1, <4>2 DEF Info, c
      <4> QED
        BY <4>1, <4>3, <4>4 DEF c
    <3>2. arrived' \in Nat
      BY <1>a, <1>6, TriggeredCount DEF GetMessage, MsgsOK
    <3>3. info' = [k \in Msg |-> info'[k]]
      BY <1>6 DEF GetMessage, Moved
    <3> QED
      BY <1>a, <1>6, <3>1, <3>2, <3>3 DEF GetMessage, MsgsOK
  <2>3. ClockOK' /\ QueuesOK' /\ SignalsOK' /\ ObjectsOK'
    <3>1. Triggered(t) \subseteq Msg
      BY <1>a, TriggeredCount
    <3> QED
      BY <1>a, <1>6, <2>0, <3>1 DEF GetMessage, ClockOK, QueuesOK, SignalsOK, ObjectsOK, signals,
         objects
  <2> QED
    BY <2>1, <2>2, <2>3 DEF TypeInv
<1>7. CASE GetNothing(t)
  <2>1. StackOK'
    <3>1. Goto(t, "Stop") /\ Top(t).at = "Queues"
      BY <1>7 DEF GetNothing, At
    <3>2. "Stop" \in Points /\ ("Queues" \notin Lasting \/ "Stop" \in Lasting)
          /\ ("Stop" \in Carrying => "Queues" \in Carrying)
      BY DEF Points, GetPoints, ReceivePoints, SendPoints, CallPoints, Lasting, Carrying
    <3>3. "Queues" \in Carrying => Top(t).msg # NoMsg
      BY <1>a, <3>1, TopIsFrame DEF Frame
    <3> QED
      BY <1>a, <3>1, <3>2, <3>3, GotoOK
  <2>2. PICK d \in DelayNext(t) : clock' = [clock EXCEPT ![t].delay = d]
    BY <1>7 DEF GetNothing
  <2>3. d \in Nat \cup {Forever}
    <3>1. CASE dmsgq[t] = {}
      BY <2>2, <3>1 DEF DelayNext
    <3>2. CASE dmsgq[t] # {}
      <4>1. PICK m \in dmsgq[t] : d = info[m].trigger - clock[t].cur
        BY <2>2, <3>2 DEF DelayNext
      <4>2. m \in Msg /\ info[m].trigger \in Nat /\ clock[t].cur \in Nat
        BY <1>a DEF QueuesOK, MsgsOK, Info, ClockOK
      <4>3. ~(info[m].trigger <= clock[t].cur)
        BY <4>1, <1>7 DEF GetNothing, Triggered
      <4> QED
        BY <4>1, <4>2, <4>3
    <3> QED
      BY <3>1, <3>2
  <2>4. ClockOK' /\ QueuesOK' /\ SignalsOK' /\ MsgsOK' /\ ObjectsOK'
    BY <1>a, <1>7, <2>2, <2>3 DEF GetNothing, ClockOK, QueuesOK, SignalsOK, MsgsOK, ObjectsOK,
       queues, signals, msgs, objects
  <2> QED
    BY <2>1, <2>4 DEF TypeInv
<1>8. CASE GetStop(t)
  <2>1. StackOK'
    <3>1. (Goto(t, "Exited") \/ Goto(t, "Wait")) /\ Top(t).at = "Stop"
      BY <1>8 DEF GetStop, At
    <3>2. {"Exited", "Wait"} \subseteq Points \cap Lasting /\ {"Exited", "Wait"} \cap Carrying = {}
      BY DEF Points, GetPoints, ReceivePoints, SendPoints, CallPoints, Lasting, Carrying
    <3> QED
      BY <1>a, <3>1, <3>2, GotoOK
  <2>2. ClockOK'
    BY <1>a, <1>8 DEF GetStop, ClockOK, Forever
  <2>3. QueuesOK' /\ SignalsOK' /\ MsgsOK' /\ ObjectsOK'
    BY <1>a, <1>8 DEF GetStop, QueuesOK, SignalsOK, MsgsOK, ObjectsOK, queues, signals, msgs,
       objects
  <2> QED
    BY <2>1, <2>2, <2>3 DEF TypeInv
<1>9. CASE GetWait(t)
  <2>1. StackOK'
    <3>1. Goto(t, "Top") /\ Top(t).at = "Wait"
      BY <1>9 DEF GetWait, At
    <3>2. "Top" \in Points /\ ("Wait" \notin Lasting \/ "Top" \in Lasting)
          /\ ("Top" \in Carrying => "Wait" \in Carrying)
      BY DEF Points, GetPoints, ReceivePoints, SendPoints, CallPoints, Lasting, Carrying
    <3>3. "Wait" \in Carrying => Top(t).msg # NoMsg
      BY <1>a, <3>1, TopIsFrame DEF Frame
    <3> QED
      BY <1>a, <3>1, <3>2, <3>3, GotoOK
  <2>2. ClockOK' /\ QueuesOK' /\ SignalsOK' /\ MsgsOK' /\ ObjectsOK'
    BY <1>a, <1>9 DEF GetWait, ClockOK, QueuesOK, SignalsOK, MsgsOK, ObjectsOK, queues, signals,
       msgs, objects
  <2> QED
    BY <2>1, <2>2 DEF TypeInv
<1> QED
  BY <1>1, <1>2, <1>3, <1>4, <1>5, <1>6, <1>7, <1>8, <1>9 DEF RunB

LEMMA PostType ==
  ASSUME TypeInv, NEW t \in Thread, NEW h \in Handler, NEW d \in Nat \cup {Forever}, Post(t, h, d)
  PROVE  TypeInv'
<1>a. StackOK /\ ClockOK /\ QueuesOK /\ SignalsOK /\ MsgsOK /\ ObjectsOK
  BY DEF TypeInv
<1>1. CASE Post(t, h, d)
  <2>0. created + 1 \in Msg /\ MsgsOK'
    BY <1>a, <1>1, NewMsgOK DEF Post, MsgsOK, ClockOK
  <2>1. StackOK'
    <3>1. HomeOf[h] \in Thread /\ created + 1 # NoMsg
      BY <2>0, HomeIsThread DEF Msg, NoMsg
    <3>2. CallOn(HomeOf[h], "PostPush", created + 1) \in Frame
      BY <2>0, <3>1, CallIsFrame DEF Points, CallPoints
    <3>3. "Code" \in Points /\ "Code" \in Lasting /\ "Code" \notin Carrying
      BY DEF Points, Lasting, Carrying, SendPoints
    <3> QED
      BY <1>a, <1>1, <3>2, <3>3, CallFromOK DEF Post
  <2>2. ClockOK' /\ QueuesOK' /\ SignalsOK' /\ ObjectsOK'
    BY <1>a, <1>1 DEF Post, ClockOK, QueuesOK, SignalsOK, ObjectsOK, queues, signals, objects
  <2> QED
    BY <2>0, <2>1, <2>2 DEF TypeInv
<1> QED
  BY <1>1 DEF Post

LEMMA ClearOK ==
  ASSUME QueuesOK, SignalsOK, NEW S, NEW onQueues, Clear(S, onQueues),
         UNCHANGED <<hasSends, fStop>>
  PROVE  QueuesOK' /\ SignalsOK'
  BY DEF QueuesOK, SignalsOK, Clear

SendOrDestroy(t, h) == SendHere(t, h) \/ Send(t, h) \/ DestroyHandler(t, h)

LEMMA SendType ==
  ASSUME TypeInv, NEW t \in Thread, NEW h \in Handler, SendOrDestroy(t, h)
  PROVE  TypeInv'
<1>a. StackOK /\ ClockOK /\ QueuesOK /\ SignalsOK /\ MsgsOK /\ ObjectsOK
  BY DEF TypeInv
<1>1. CASE SendHere(t, h)
  <2>0. created + 1 \in Msg /\ MsgsOK'
    BY <1>a, <1>1, NewMsgOK DEF SendHere, MsgsOK, ClockOK
  <2>1. StackOK'
    <3>1. HomeOf[h] \in Thread /\ created + 1 # NoMsg
      BY <2>0, HomeIsThread DEF Msg, NoMsg
    <3>2. CallOn(t, "Code", created + 1) \in Frame
      BY <2>0, <3>1, CallIsFrame DEF Points, CallPoints
    <3>3. "Code" \in Points /\ "Code" \in Lasting /\ "Code" \notin Carrying
      BY DEF Points, Lasting, Carrying, SendPoints
    <3> QED
      BY <1>a, <1>1, <3>2, <3>3, CallFromOK DEF SendHere
  <2>2. ClockOK' /\ QueuesOK' /\ SignalsOK' /\ ObjectsOK'
    BY <1>a, <1>1 DEF SendHere, ClockOK, QueuesOK, SignalsOK, ObjectsOK, queues, signals, objects
  <2> QED
    BY <2>0, <2>1, <2>2 DEF TypeInv
<1>2. CASE Send(t, h)
  <2>0. created + 1 \in Msg /\ MsgsOK'
    BY <1>a, <1>2, NewMsgOK DEF Send, MsgsOK, ClockOK
  <2>1. StackOK'
    <3>1. HomeOf[h] \in Thread /\ created + 1 # NoMsg
      BY <2>0, HomeIsThread DEF Msg, NoMsg
    <3>2. CallOn(HomeOf[h], "SendPush", created + 1) \in Frame
      BY <2>0, <3>1, CallIsFrame DEF Points, CallPoints
    <3>3. "Code" \in Points /\ "Code" \in Lasting /\ "Code" \notin Carrying
      BY DEF Points, Lasting, Carrying, SendPoints
    <3> QED
      BY <1>a, <1>2, <3>2, <3>3, CallFromOK DEF Send
  <2>2. ClockOK' /\ QueuesOK' /\ SignalsOK' /\ ObjectsOK'
    BY <1>a, <1>2 DEF Send, ClockOK, QueuesOK, SignalsOK, ObjectsOK, queues, signals, objects
  <2> QED
    BY <2>0, <2>1, <2>2 DEF TypeInv
<1>3. CASE DestroyHandler(t, h)
  <2>1. StackOK' /\ ClockOK' /\ MsgsOK' /\ ObjectsOK'
    BY <1>a, <1>3 DEF DestroyHandler, StackOK, Bottom, ClockOK, MsgsOK, ObjectsOK, msgs
  <2>2. QueuesOK' /\ SignalsOK'
    BY <1>a, <1>3, ClearOK DEF DestroyHandler
  <2> QED
    BY <2>1, <2>2 DEF TypeInv
<1> QED
  BY <1>1, <1>2, <1>3 DEF SendOrDestroy

LEMMA QuitType ==
  ASSUME TypeInv, NEW t \in Thread, NEW u \in Worker, Quit(t, u)
  PROVE  TypeInv'
<1>a. StackOK /\ ClockOK /\ QueuesOK /\ SignalsOK /\ MsgsOK /\ ObjectsOK
  BY DEF TypeInv
<1>1. CASE Quit(t, u)
  <2>1. StackOK'
    <3>1. CallOn(u, "QuitWake", NoMsg) \in Frame
      BY CallIsFrame, ConstantsOK DEF Points, CallPoints, Carrying, SendPoints, NoMsg, Thread
    <3>2. "Code" \in Points /\ "Code" \in Lasting /\ "Code" \notin Carrying
      BY DEF Points, Lasting, Carrying, SendPoints
    <3> QED
      BY <1>a, <1>1, <3>1, <3>2, CallFromOK DEF Quit
  <2>2. ClockOK' /\ QueuesOK' /\ SignalsOK' /\ MsgsOK' /\ ObjectsOK'
    BY <1>a, <1>1 DEF Quit, ClockOK, QueuesOK, SignalsOK, MsgsOK, ObjectsOK, queues, signals, msgs,
       objects
  <2> QED
    BY <2>1, <2>2 DEF TypeInv
<1> QED
  BY <1>1 DEF Quit

LEMMA CodeReturnType ==
  ASSUME TypeInv, NEW t \in Thread, CodeReturn(t)
  PROVE  TypeInv'
<1>a. StackOK /\ ClockOK /\ QueuesOK /\ SignalsOK /\ MsgsOK /\ ObjectsOK
  BY DEF TypeInv
<1>1. CASE CodeReturn(t)
  <2>1. StackOK'
    <3>1. Return(t) /\ Len(stack[t]) # 1
      <4>1. Len(stack[t]) > 1 /\ Return(t)
        BY <1>1 DEF CodeReturn, Depth
      <4>2. Len(stack[t]) \in Nat \ {0}
        BY <1>a, TopIsFrame
      <4> QED
        BY <4>1, <4>2, OneBelow, Zenon
    <3> QED
      BY <1>a, <3>1, ReturnOK
  <2>2. ClockOK' /\ QueuesOK' /\ SignalsOK' /\ MsgsOK' /\ ObjectsOK'
    BY <1>a, <1>1 DEF CodeReturn, ClockOK, QueuesOK, SignalsOK, MsgsOK, ObjectsOK, queues, signals,
       msgs, objects
  <2> QED
    BY <2>1, <2>2 DEF TypeInv
<1> QED
  BY <1>1 DEF CodeReturn

LEMMA DeletionType ==
  ASSUME TypeInv, Deletion
  PROVE  TypeInv'
<1>a. StackOK /\ ClockOK /\ QueuesOK /\ SignalsOK /\ MsgsOK /\ ObjectsOK
  BY DEF TypeInv
<1>b. Main \in Thread
  BY DEF Thread
<1>1. CASE StopWake
  <2>1. StackOK'
    <3>1. Goto(Main, "Join") /\ Top(Main).at = "StopWake"
      BY <1>1 DEF StopWake, At
    <3>2. "Join" \in Points /\ ("StopWake" \notin Lasting \/ "Join" \in Lasting)
          /\ ("Join" \in Carrying => "StopWake" \in Carrying)
      BY DEF Points, GetPoints, ReceivePoints, SendPoints, CallPoints, Lasting, Carrying
    <3>3. "StopWake" \in Carrying => Top(Main).msg # NoMsg
      BY <1>a, <1>b, <3>1, TopIsFrame DEF Frame
    <3> QED
      BY <1>a, <1>b, <3>1, <3>2, <3>3, GotoOK
  <2>2. ClockOK' /\ QueuesOK' /\ SignalsOK' /\ MsgsOK' /\ ObjectsOK'
    BY <1>a, <1>1 DEF StopWake, ClockOK, QueuesOK, SignalsOK, MsgsOK, ObjectsOK, queues, signals,
       msgs, objects
  <2> QED
    BY <2>1, <2>2 DEF TypeInv
<1>2. CASE Join
  <2>1. StackOK'
    <3>1. Goto(Main, "Delete") /\ Top(Main).at = "Join"
      BY <1>2 DEF Join, At
    <3>2. "Delete" \in Points /\ ("Join" \notin Lasting \/ "Delete" \in Lasting)
          /\ ("Delete" \in Carrying => "Join" \in Carrying)
      BY DEF Points, GetPoints, ReceivePoints, SendPoints, CallPoints, Lasting, Carrying
    <3>3. "Join" \in Carrying => Top(Main).msg # NoMsg
      BY <1>a, <1>b, <3>1, TopIsFrame DEF Frame
    <3> QED
      BY <1>a, <1>b, <3>1, <3>2, <3>3, GotoOK
  <2>2. ClockOK' /\ QueuesOK' /\ SignalsOK' /\ MsgsOK' /\ ObjectsOK'
    BY <1>a, <1>2 DEF Join, ClockOK, QueuesOK, SignalsOK, MsgsOK, ObjectsOK, queues, signals, msgs,
       objects
  <2> QED
    BY <2>1, <2>2 DEF TypeInv
<1>3. CASE DeleteClear
  <2>1. StackOK'
    <3>1. Return(Main) /\ Top(Main).at = "Delete" /\ "Delete" \notin Lasting
      BY <1>3 DEF DeleteClear, At, Lasting, GetPoints
    <3> QED
      BY <1>a, <1>b, <3>1, ReturnOK, TopIsFrame
  <2>2. QueuesOK' /\ SignalsOK'
    BY <1>a, <1>3, ClearOK DEF DeleteClear
  <2>3. ClockOK' /\ MsgsOK' /\ ObjectsOK'
    BY <1>a, <1>3 DEF DeleteClear, ClockOK, MsgsOK, ObjectsOK, msgs
  <2> QED
    BY <2>1, <2>2, <2>3 DEF TypeInv
<1> QED
  BY <1>1, <1>2, <1>3 DEF Deletion

LEMMA DeleteThreadType ==
  ASSUME TypeInv, NEW u \in Worker, DeleteThread(u)
  PROVE  TypeInv'
<1>a. StackOK /\ ClockOK /\ QueuesOK /\ SignalsOK /\ MsgsOK /\ ObjectsOK
  BY DEF TypeInv
<1>b. Main \in Thread
  BY DEF Thread
<1>1. CASE DeleteThread(u)
  <2>1. StackOK'
    <3>1. CallOn(u, "StopWake", NoMsg) \in Frame
      BY CallIsFrame, ConstantsOK DEF Points, CallPoints, Carrying, SendPoints, NoMsg, Thread
    <3>2. "Code" \in Points /\ "Code" \in Lasting /\ "Code" \notin Carrying
      BY DEF Points, Lasting, Carrying, SendPoints
    <3> QED
      BY <1>a, <1>b, <1>1, <3>1, <3>2, CallFromOK DEF DeleteThread
  <2>2. ClockOK' /\ QueuesOK' /\ SignalsOK' /\ MsgsOK' /\ ObjectsOK'
    BY <1>a, <1>1 DEF DeleteThread, ClockOK, QueuesOK, SignalsOK, MsgsOK, ObjectsOK, queues,
       signals, msgs, objects
  <2> QED
    BY <2>1, <2>2 DEF TypeInv
<1> QED
  BY <1>1 DEF DeleteThread

LEMMA TypeInvNext == TypeInv /\ [Next]_vars => TypeInv'
<1> SUFFICES ASSUME TypeInv, [Next]_vars PROVE TypeInv'
  OBVIOUS
<1>1. CASE \E t \in Thread : Run(t)
  BY <1>1, RunTypeA, RunTypeB DEF Run, RunA, RunB
<1>2. CASE \E t \in Thread : Client(t)
  <2>1. PICK t \in Thread : Client(t)
    BY <1>2
  <2>2. CASE \E h \in Handler, d \in Delays \cup {Forever} : Post(t, h, d)
    BY <2>2, ConstantsOK, PostType
  <2>3. CASE \E h \in Handler : SendHere(t, h) \/ Send(t, h) \/ DestroyHandler(t, h)
    BY <2>3, SendType DEF SendOrDestroy
  <2>4. CASE \E u \in Worker : Quit(t, u)
    BY <2>4, QuitType
  <2> QED
    BY <2>1, <2>2, <2>3, <2>4 DEF Client
<1>3. CASE \E t \in Thread : CodeReturn(t)
  BY <1>3, CodeReturnType
<1>4. CASE Deletion
  BY <1>4, DeletionType
<1>5. CASE \E u \in Worker : DeleteThread(u)
  BY <1>5, DeleteThreadType
<1>6. CASE Tick
  BY <1>6 DEF Tick, TypeInv, StackOK, Bottom, ClockOK, QueuesOK, SignalsOK, MsgsOK, ObjectsOK,
     queues, signals, msgs, objects
<1>7. CASE UNCHANGED vars
  BY <1>7 DEF vars, TypeInv, StackOK, Bottom, ClockOK, QueuesOK, SignalsOK, MsgsOK, ObjectsOK,
     queues, signals, msgs, objects
<1> QED
  BY <1>1, <1>2, <1>3, <1>4, <1>5, <1>6, <1>7 DEF Next

\* Whatever the clients of the threads do, every variable keeps its type; in particular
\* the flag and the wake-up that a Send or a reply writes belong to a message and a thread.
THEOREM ThreadTypes == Spec => []TypeOK
<1>1. Spec => []TypeInv
  BY TypeInvInit, TypeInvNext, PTL DEF Spec
<1>2. TypeInv => TypeOK
  BY DEF TypeInv, TypeOK, StackOK, ClockOK, QueuesOK, SignalsOK, MsgsOK, ObjectsOK
<1> QED
  BY <1>1, <1>2, PTL

----------------------------------------------------------------------------
(* What a step does to the stacks: one thread's top frame moves on, makes a *)
(* call or returns.                                                        *)

Others(t) == \A u \in Thread : u # t => stack'[u] = stack[u]
Rest(t) == Others(t) /\ \A i \in 1..(Depth(t) - 1) : stack'[t][i] = stack[t][i]

\* Frame f is g at another point.
Becomes(g, f, point) == /\ f.at = point /\ f.msg = g.msg /\ f.to = g.to
                        /\ g.waited => f.waited

Moves(t, point) == /\ Rest(t) /\ Depth(t)' = Depth(t)
                   /\ Becomes(Top(t), stack'[t][Depth(t)], point)
Pushes(t, point, f) == /\ Rest(t) /\ Depth(t)' = Depth(t) + 1
                       /\ Becomes(Top(t), stack'[t][Depth(t)], point)
                       /\ stack'[t][Depth(t) + 1] = f
Pops(t) == Rest(t) /\ Depth(t)' = Depth(t) - 1 /\ Depth(t) > 1
Serves(t, m) == /\ Rest(t) /\ Depth(t)' = Depth(t) + 1
                /\ stack'[t][Depth(t)] = CallOn(t, "RsReady", m)
                /\ stack'[t][Depth(t) + 1] = CallOn(t, "Code", m)

LEMMA FrameIs ==
  ASSUME StackOK, NEW t \in Thread, NEW i \in 1..Depth(t)
  PROVE  stack[t][i] \in Frame
BY ElementOfSeq DEF StackOK, Depth

LEMMA BecomesOther ==
  ASSUME NEW f \in Frame, NEW p
  PROVE  Becomes(f, [f EXCEPT !.at = p], p)
BY DEF Becomes, Frame

LEMMA GotoMoves ==
  ASSUME StackOK, NEW t \in Thread, NEW p \in Points, Goto(t, p), p \in Carrying => Top(t).msg # NoMsg
  PROVE  Moves(t, p)
<1>1. stack[t] \in Seq(Frame) /\ stack[t] # <<>> /\ Top(t) \in Frame
  BY TopIsFrame DEF StackOK
<1>2. PICK s : s = GoTo(stack[t], p)
  OBVIOUS
<1>3. /\ Len(s) = Len(stack[t]) /\ s[Len(stack[t])] = [Top(t) EXCEPT !.at = p]
      /\ \A i \in 1..(Len(stack[t]) - 1) : s[i] = stack[t][i]
  BY <1>1, <1>2, GoToStack DEF Top
<1>4. stack' = [stack EXCEPT ![t] = s]
  BY <1>2 DEF Goto
<1>5. stack'[t] = s /\ Others(t)
  BY <1>4 DEF StackOK, Others
<1>6. Becomes(Top(t), [Top(t) EXCEPT !.at = p], p)
  BY <1>1, BecomesOther
<1> QED  BY <1>3, <1>5, <1>6 DEF Moves, Rest, Depth

LEMMA CallPushes ==
  ASSUME StackOK, NEW t \in Thread, NEW p \in Points, NEW f \in Frame, CallFrom(t, p, f),
         p \in Carrying => Top(t).msg # NoMsg
  PROVE  Pushes(t, p, f)
<1>1. stack[t] \in Seq(Frame) /\ stack[t] # <<>> /\ Top(t) \in Frame
  BY TopIsFrame DEF StackOK
<1>2. PICK s : s = GoTo(stack[t], p)
  OBVIOUS
<1>3. /\ s \in Seq(Frame) /\ s # <<>>
      /\ Len(s) = Len(stack[t]) /\ s[Len(stack[t])] = [Top(t) EXCEPT !.at = p]
      /\ \A i \in 1..(Len(stack[t]) - 1) : s[i] = stack[t][i]
  BY <1>1, <1>2, GoToStack DEF Top
<1>4. PICK r : r = Append(s, f)
  OBVIOUS
<1>5. Len(r) = Len(s) + 1 /\ r[Len(s) + 1] = f /\ \A i \in 1..Len(s) : r[i] = s[i]
  BY <1>3, <1>4, PushStack
<1>6. stack' = [stack EXCEPT ![t] = r]
  BY <1>2, <1>4 DEF CallFrom
<1>7. stack'[t] = r /\ Others(t)
  BY <1>6 DEF StackOK, Others
<1>8. Becomes(Top(t), [Top(t) EXCEPT !.at = p], p)
  BY <1>1, BecomesOther
<1>9. Len(stack[t]) \in Nat \ {0}
  BY TopIsFrame
<1>10. r[Len(stack[t])] = [Top(t) EXCEPT !.at = p]
       /\ \A i \in 1..(Len(stack[t]) - 1) : r[i] = stack[t][i]
  BY <1>3, <1>5, <1>9
<1> QED  BY <1>3, <1>5, <1>7, <1>8, <1>10 DEF Pushes, Rest, Depth

LEMMA AboveOne ==
  ASSUME NEW n \in Nat \ {0}, n # 1
  PROVE  n > 1
OBVIOUS

LEMMA ReturnPops ==
  ASSUME StackOK, NEW t \in Thread, Return(t), Len(stack[t]) # 1
  PROVE  Pops(t)
<1>1. stack[t] \in Seq(Frame) /\ stack[t] # <<>> /\ Len(stack[t]) \in Nat \ {0}
  BY TopIsFrame DEF StackOK
<1>2. PICK s : s = SubSeq(stack[t], 1, Len(stack[t]) - 1)
  OBVIOUS
<1>3. Len(s) = Len(stack[t]) - 1 /\ \A i \in 1..(Len(stack[t]) - 1) : s[i] = stack[t][i]
  BY <1>1, <1>2, PopStack
<1>4. stack' = [stack EXCEPT ![t] = s]
  BY <1>2 DEF Return
<1>5. stack'[t] = s /\ Others(t)
  BY <1>4 DEF StackOK, Others
<1>6. Len(stack[t]) > 1
  BY <1>1, AboveOne, Zenon
<1>7. Rest(t) /\ Len(stack'[t]) = Len(stack[t]) - 1
  BY <1>3, <1>5 DEF Rest, Depth
<1> QED  BY <1>6, <1>7 DEF Pops, Depth

\* The oldest message of sendlist_ is run, or ReceiveSends returns.
LEMMA NextServes ==
  ASSUME StackOK, QueuesOK, NEW t \in Thread, NextSend(t), Top(t).at \notin Lasting
  PROVE  \/ /\ Pops(t) /\ sendlist[t] = {} /\ UNCHANGED sendlist
            /\ hasSends' = [hasSends EXCEPT ![t] = FALSE]
         \/ \E m \in sendlist[t] : /\ Serves(t, m) /\ UNCHANGED hasSends
                                   /\ sendlist' = [sendlist EXCEPT ![t] = sendlist[t] \ {m}]
<1>1. stack[t] \in Seq(Frame) /\ stack[t] # <<>> /\ Len(stack[t]) \in Nat \ {0} /\ Len(stack[t]) # 1
  BY TopIsFrame DEF StackOK
<1>2. CASE Return(t) /\ sendlist[t] = {} /\ UNCHANGED sendlist /\ hasSends' = [hasSends EXCEPT ![t] = FALSE]
  BY <1>1, <1>2, ReturnPops
<1>3. ASSUME NEW m \in sendlist[t], sendlist' = [sendlist EXCEPT ![t] = sendlist[t] \ {m}],
             UNCHANGED hasSends,
             stack' = [stack EXCEPT ![t] =
               Append([stack[t] EXCEPT ![Len(stack[t])] = CallOn(t, "RsReady", m)], CallOn(t, "Code", m))]
      PROVE  Serves(t, m)
  <2>1. PICK f, g, s, r : /\ f = CallOn(t, "RsReady", m) /\ g = CallOn(t, "Code", m)
                          /\ s = [stack[t] EXCEPT ![Len(stack[t])] = f] /\ r = Append(s, g)
    OBVIOUS
  <2>2. f \in Frame /\ g \in Frame
    <3>1. m # NoMsg /\ m \in Msg
      BY DEF Msg, NoMsg, QueuesOK
    <3> QED  BY <2>1, <3>1, CallIsFrame DEF Points, ReceivePoints
  <2>3. s \in Seq(Frame) /\ Len(s) = Len(stack[t])
    BY <1>1, <2>1, <2>2, ExceptSeq
  <2>4. s[Len(stack[t])] = f /\ \A i \in 1..(Len(stack[t]) - 1) : s[i] = stack[t][i]
    BY <1>1, <2>1, LenProperties
  <2>5. s # <<>>
    BY <1>1, <2>3, EmptySeq
  <2>6. Len(r) = Len(s) + 1 /\ r[Len(s) + 1] = g /\ \A i \in 1..Len(s) : r[i] = s[i]
    BY <2>1, <2>2, <2>3, <2>5, PushStack
  <2>7. stack' = [stack EXCEPT ![t] = r]
    BY <1>3, <2>1
  <2>8. stack'[t] = r /\ Others(t)
    BY <2>7 DEF StackOK, Others
  <2>9. r[Len(stack[t])] = f /\ \A i \in 1..(Len(stack[t]) - 1) : r[i] = stack[t][i]
    BY <1>1, <2>3, <2>4, <2>6, SMTT(30)
  <2> QED  BY <2>1, <2>3, <2>6, <2>8, <2>9 DEF Serves, Rest, Depth
<1> QED
  <2>1. \/ Return(t) /\ sendlist[t] = {} /\ UNCHANGED sendlist /\ hasSends' = [hasSends EXCEPT ![t] = FALSE]
        \/ \E m \in sendlist[t] :
             /\ sendlist' = [sendlist EXCEPT ![t] = sendlist[t] \ {m}]
             /\ UNCHANGED hasSends
             /\ stack' = [stack EXCEPT ![t] =
                  Append([stack[t] EXCEPT ![Len(stack[t])] = CallOn(t, "RsReady", m)], CallOn(t, "Code", m))]
    BY DEF NextSend, StackOK, QueuesOK
  <2> QED  BY <1>2, <1>3, <2>1

----------------------------------------------------------------------------
(* What each action does to the stacks.                                    *)

LEMMA PointsAre ==
  /\ GetPoints \cup ReceivePoints \cup SendPoints \cup CallPoints \cup {"Code"} = Points
  /\ Lasting = {"Top", "Queues", "Stop", "Wait", "Exited", "Code"}
  /\ Carrying = {"SendWake", "SendLoop", "SendRecv", "SendWait", "RsReady", "RsWake", "PostPush",
                 "SendPush"}
  /\ Points = {"Top", "Queues", "Stop", "Wait", "Exited", "RsPop", "RsReady", "RsWake", "SendWake",
               "SendLoop", "SendRecv", "SendWait", "PostPush", "SendPush", "QuitWake", "StopWake",
               "Join", "Delete", "Code"}
BY DEF Points, GetPoints, ReceivePoints, SendPoints, CallPoints, Lasting, Carrying

LEMMA TopCarries ==
  ASSUME StackOK, NEW t \in Thread, Top(t).at \in Carrying
  PROVE  Top(t).msg \in Msg
<1>1. Top(t) \in Frame
  BY TopIsFrame
<1> QED  BY <1>1 DEF Frame

LEMMA QuitWakeStack ==
  ASSUME StackOK, NEW t \in Thread, QuitWake(t)
  PROVE  Pops(t) /\ Top(t).at = "QuitWake"
<1>1. Return(t) /\ Top(t).at = "QuitWake"
  BY DEF QuitWake, At
<1> QED  BY <1>1, TopIsFrame, ReturnPops DEF Lasting, GetPoints

LEMMA SendReturnStack ==
  ASSUME StackOK, NEW t \in Thread, SendReturn(t)
  PROVE  Pops(t) /\ Top(t).at = "SendLoop"
<1>1. Return(t) /\ Top(t).at = "SendLoop"
  BY DEF SendReturn, At
<1> QED  BY <1>1, TopIsFrame, ReturnPops DEF Lasting, GetPoints

LEMMA PostPushStack ==
  ASSUME StackOK, NEW t \in Thread, PostPush(t)
  PROVE  Pops(t) /\ Top(t).at = "PostPush"
<1>1. Return(t) /\ Top(t).at = "PostPush"
  BY DEF PostPush, At
<1> QED  BY <1>1, TopIsFrame, ReturnPops DEF Lasting, GetPoints

LEMMA DeleteClearStack ==
  ASSUME StackOK, DeleteClear
  PROVE  Main \in Thread /\ Pops(Main) /\ Top(Main).at = "Delete"
<1>1. Return(Main) /\ Top(Main).at = "Delete" /\ Main \in Thread
  BY DEF DeleteClear, At, Thread
<1> QED  BY <1>1, TopIsFrame, ReturnPops DEF Lasting, GetPoints

LEMMA CodeReturnStack ==
  ASSUME StackOK, NEW t \in Thread, CodeReturn(t)
  PROVE  Pops(t) /\ Top(t).at = "Code"
<1>1. Return(t) /\ Top(t).at = "Code" /\ Len(stack[t]) > 1
  BY DEF CodeReturn, At, Depth
<1>2. Len(stack[t]) # 1
  BY <1>1, TopIsFrame, OneBelow, Zenon
<1> QED  BY <1>1, <1>2, ReturnPops

LEMMA SendWakeStack ==
  ASSUME StackOK, NEW t \in Thread, SendWake(t)
  PROVE  Moves(t, "SendLoop") /\ Top(t).at = "SendWake"
<1>1. Goto(t, "SendLoop") /\ Top(t).at = "SendWake"
  BY DEF SendWake, At
<1>2. "SendLoop" \in Carrying => Top(t).msg # NoMsg
  BY <1>1, TopCarries, PointsAre DEF Msg, NoMsg
<1> QED  BY <1>1, <1>2, GotoMoves, PointsAre

LEMMA SendLoopStack ==
  ASSUME StackOK, NEW t \in Thread, SendLoop(t)
  PROVE  Moves(t, "SendRecv") /\ Top(t).at = "SendLoop"
<1>1. Goto(t, "SendRecv") /\ Top(t).at = "SendLoop"
  BY DEF SendLoop, At
<1>2. "SendRecv" \in Carrying => Top(t).msg # NoMsg
  BY <1>1, TopCarries, PointsAre DEF Msg, NoMsg
<1> QED  BY <1>1, <1>2, GotoMoves, PointsAre

LEMMA SendPushStack ==
  ASSUME StackOK, NEW t \in Thread, SendPush(t)
  PROVE  Moves(t, "SendWake") /\ Top(t).at = "SendPush"
<1>1. Goto(t, "SendWake") /\ Top(t).at = "SendPush"
  BY DEF SendPush, At
<1>2. "SendWake" \in Carrying => Top(t).msg # NoMsg
  BY <1>1, TopCarries, PointsAre DEF Msg, NoMsg
<1> QED  BY <1>1, <1>2, GotoMoves, PointsAre

LEMMA ReplyReadyStack ==
  ASSUME StackOK, NEW t \in Thread, ReplyReady(t)
  PROVE  Moves(t, "RsWake") /\ Top(t).at = "RsReady"
<1>1. Goto(t, "RsWake") /\ Top(t).at = "RsReady"
  BY DEF ReplyReady, At
<1>2. "RsWake" \in Carrying => Top(t).msg # NoMsg
  BY <1>1, TopCarries, PointsAre DEF Msg, NoMsg
<1> QED  BY <1>1, <1>2, GotoMoves, PointsAre

LEMMA GetNothingStack ==
  ASSUME StackOK, NEW t \in Thread, GetNothing(t)
  PROVE  Moves(t, "Stop") /\ Top(t).at = "Queues"
<1>1. Goto(t, "Stop") /\ Top(t).at = "Queues"
  BY DEF GetNothing, At
<1>2. "Stop" \in Carrying => Top(t).msg # NoMsg
  BY <1>1, TopCarries, PointsAre DEF Msg, NoMsg
<1> QED  BY <1>1, <1>2, GotoMoves, PointsAre

LEMMA GetWaitStack ==
  ASSUME StackOK, NEW t \in Thread, GetWait(t)
  PROVE  Moves(t, "Top") /\ Top(t).at = "Wait"
<1>1. Goto(t, "Top") /\ Top(t).at = "Wait"
  BY DEF GetWait, At
<1>2. "Top" \in Carrying => Top(t).msg # NoMsg
  BY <1>1, TopCarries, PointsAre DEF Msg, NoMsg
<1> QED  BY <1>1, <1>2, GotoMoves, PointsAre

LEMMA StopWakeStack ==
  ASSUME StackOK, StopWake
  PROVE  Main \in Thread /\ Moves(Main, "Join") /\ Top(Main).at = "StopWake"
<1>1. Goto(Main, "Join") /\ Top(Main).at = "StopWake" /\ Main \in Thread
  BY DEF StopWake, At, Thread
<1> QED  BY <1>1, GotoMoves, PointsAre

LEMMA JoinStack ==
  ASSUME StackOK, Join
  PROVE  Main \in Thread /\ Moves(Main, "Delete") /\ Top(Main).at = "Join"
<1>1. Goto(Main, "Delete") /\ Top(Main).at = "Join" /\ Main \in Thread
  BY DEF Join, At, Thread
<1> QED  BY <1>1, GotoMoves, PointsAre

LEMMA GetStopStack ==
  ASSUME StackOK, NEW t \in Thread, GetStop(t)
  PROVE  (IF fStop[t] THEN Moves(t, "Exited") ELSE Moves(t, "Wait")) /\ Top(t).at = "Stop"
<1>1. (IF fStop[t] THEN Goto(t, "Exited") ELSE Goto(t, "Wait")) /\ Top(t).at = "Stop"
  BY DEF GetStop, At
<1> QED  BY <1>1, GotoMoves, PointsAre

LEMMA SendWaitStack ==
  ASSUME StackOK, NEW t \in Thread, SendWait(t)
  PROVE  Moves(t, "SendLoop") /\ Top(t).at = "SendWait" /\ stack'[t][Depth(t)].waited
<1>1. /\ stack' = [stack EXCEPT ![t][Len(stack[t])] = [@ EXCEPT !.at = "SendLoop", !.waited = TRUE]]
      /\ Top(t).at = "SendWait"
  BY DEF SendWait, At
<1>2. PICK f : f = [Top(t) EXCEPT !.at = "SendLoop", !.waited = TRUE]
  OBVIOUS
<1>3. f \in Frame /\ Becomes(Top(t), f, "SendLoop") /\ f.waited
  <2>1. Top(t) \in Frame /\ Top(t).msg # NoMsg
    BY <1>1, TopIsFrame, PointsAre DEF Frame
  <2>2. "SendLoop" \in Points
    BY PointsAre
  <2> QED  BY <1>2, <2>1, <2>2 DEF Frame, Becomes
<1>4. PICK s : s = [stack[t] EXCEPT ![Len(stack[t])] = f]
  OBVIOUS
<1>5. stack' = [stack EXCEPT ![t] = s]
  BY <1>1, <1>2, <1>4 DEF StackOK, Top
<1>6. stack[t] \in Seq(Frame) /\ Len(stack[t]) \in Nat \ {0}
  BY TopIsFrame DEF StackOK
<1>7. Len(s) = Len(stack[t])
  BY <1>3, <1>4, <1>6, ExceptSeq
<1>8. s[Len(stack[t])] = f /\ \A i \in 1..(Len(stack[t]) - 1) : s[i] = stack[t][i]
  BY <1>4, <1>6, LenProperties
<1>9. stack'[t] = s /\ Others(t)
  BY <1>5 DEF StackOK, Others
<1> QED  BY <1>1, <1>3, <1>7, <1>8, <1>9 DEF Moves, Rest, Depth

LEMMA ReceiveSendsStack ==
  ASSUME StackOK, NEW t \in Thread, NEW from, NEW to \in Points, ReceiveSends(t, from, to),
         to \in Carrying => from \in Carrying
  PROVE  /\ Top(t).at = from
         /\ IF hasSends[t] THEN Pushes(t, to, Call(t, "RsPop")) ELSE Moves(t, to)
<1>1. Top(t).at = from
  BY DEF ReceiveSends, At
<1>2. to \in Carrying => Top(t).msg # NoMsg
  BY <1>1, TopCarries, PointsAre DEF Msg, NoMsg
<1>3. Call(t, "RsPop") \in Frame
  BY CallIsFrame, PointsAre
<1>4. IF hasSends[t] THEN CallFrom(t, to, Call(t, "RsPop")) ELSE Goto(t, to)
  BY DEF ReceiveSends
<1> QED  BY <1>1, <1>2, <1>3, <1>4, CallPushes, GotoMoves

LEMMA ReceiveFirstStack ==
  ASSUME StackOK, QueuesOK, NEW t \in Thread, ReceiveFirst(t)
  PROVE  /\ Top(t).at = "RsPop"
         /\ \/ /\ Pops(t) /\ sendlist[t] = {} /\ UNCHANGED sendlist
               /\ hasSends' = [hasSends EXCEPT ![t] = FALSE]
            \/ \E m \in sendlist[t] : /\ Serves(t, m) /\ UNCHANGED hasSends
                                      /\ sendlist' = [sendlist EXCEPT ![t] = sendlist[t] \ {m}]
<1>1. NextSend(t) /\ Top(t).at = "RsPop"
  BY DEF ReceiveFirst, At
<1>2. Top(t).at \notin Lasting
  BY <1>1, PointsAre
<1> QED  BY <1>1, <1>2, NextServes

LEMMA ReplyWakeStack ==
  ASSUME StackOK, QueuesOK, NEW t \in Thread, ReplyWake(t)
  PROVE  /\ Top(t).at = "RsWake"
         /\ \/ /\ Pops(t) /\ sendlist[t] = {} /\ UNCHANGED sendlist
               /\ hasSends' = [hasSends EXCEPT ![t] = FALSE]
            \/ \E m \in sendlist[t] : /\ Serves(t, m) /\ UNCHANGED hasSends
                                      /\ sendlist' = [sendlist EXCEPT ![t] = sendlist[t] \ {m}]
<1>1. NextSend(t) /\ Top(t).at = "RsWake"
  BY DEF ReplyWake, At
<1>2. Top(t).at \notin Lasting
  BY <1>1, PointsAre
<1> QED  BY <1>1, <1>2, NextServes

LEMMA GetMessageStack ==
  ASSUME StackOK, QueuesOK, NEW t \in Thread, GetMessage(t)
  PROVE  /\ Top(t).at = "Queues"
         /\ \E m \in msgq[t] \cup Triggered(t) :
              /\ Pushes(t, "Top", CallOn(t, "Code", m))
              /\ msgq' = [msgq EXCEPT ![t] = (msgq[t] \cup Triggered(t)) \ {m}]
<1>1. PICK m \in msgq[t] \cup Triggered(t) :
        /\ msgq' = [msgq EXCEPT ![t] = (msgq[t] \cup Triggered(t)) \ {m}]
        /\ CallFrom(t, "Top", CallOn(t, "Code", m))
  BY DEF GetMessage, QueuesOK
<1>2. m \in Msg
  BY DEF QueuesOK, Triggered
<1>3. CallOn(t, "Code", m) \in Frame
  BY <1>2, CallIsFrame, PointsAre
<1>4. Pushes(t, "Top", CallOn(t, "Code", m))
  BY <1>1, <1>3, CallPushes, PointsAre
<1> QED  BY <1>1, <1>4 DEF GetMessage, At

LEMMA PostStack ==
  ASSUME StackOK, MsgsOK, now \in Nat, NEW t \in Thread, NEW h \in Handler, NEW d \in Nat \cup {Forever}, Post(t, h, d)
  PROVE  /\ Pushes(t, "Code", CallOn(HomeOf[h], "PostPush", created + 1)) /\ Top(t).at = "Code"
         /\ created + 1 \in Msg /\ NewMsg(t, h, d)
<1>1. CallFrom(t, "Code", CallOn(HomeOf[h], "PostPush", created + 1)) /\ Top(t).at = "Code" /\ NewMsg(t, h, d)
  BY DEF Post, At
<1>2. created + 1 \in Msg /\ created + 1 # NoMsg
  BY <1>1, NewMsgOK DEF Msg, NoMsg, Forever
<1>3. CallOn(HomeOf[h], "PostPush", created + 1) \in Frame
  BY <1>2, CallIsFrame, PointsAre, HomeIsThread
<1>4. Pushes(t, "Code", CallOn(HomeOf[h], "PostPush", created + 1))
  BY <1>1, <1>3, CallPushes, PointsAre
<1> QED  BY <1>1, <1>2, <1>4

LEMMA SendStack ==
  ASSUME StackOK, MsgsOK, now \in Nat, NEW t \in Thread, NEW h \in Handler, Send(t, h)
  PROVE  /\ Pushes(t, "Code", CallOn(HomeOf[h], "SendPush", created + 1)) /\ Top(t).at = "Code"
         /\ created + 1 \in Msg /\ NewMsg(t, h, Forever)
<1>1. CallFrom(t, "Code", CallOn(HomeOf[h], "SendPush", created + 1)) /\ Top(t).at = "Code" /\ NewMsg(t, h, Forever)
  BY DEF Send, At
<1>2. created + 1 \in Msg /\ created + 1 # NoMsg
  BY <1>1, NewMsgOK DEF Msg, NoMsg, Forever
<1>3. CallOn(HomeOf[h], "SendPush", created + 1) \in Frame
  BY <1>2, CallIsFrame, PointsAre, HomeIsThread
<1>4. Pushes(t, "Code", CallOn(HomeOf[h], "SendPush", created + 1))
  BY <1>1, <1>3, CallPushes, PointsAre
<1> QED  BY <1>1, <1>2, <1>4

LEMMA SendHereStack ==
  ASSUME StackOK, MsgsOK, now \in Nat, NEW t \in Thread, NEW h \in Handler, SendHere(t, h)
  PROVE  /\ Pushes(t, "Code", CallOn(t, "Code", created + 1)) /\ Top(t).at = "Code"
         /\ created + 1 \in Msg /\ NewMsg(t, h, Forever)
<1>1. CallFrom(t, "Code", CallOn(t, "Code", created + 1)) /\ Top(t).at = "Code" /\ NewMsg(t, h, Forever)
  BY DEF SendHere, At
<1>2. created + 1 \in Msg /\ created + 1 # NoMsg
  BY <1>1, NewMsgOK DEF Msg, NoMsg, Forever
<1>3. CallOn(t, "Code", created + 1) \in Frame
  BY <1>2, CallIsFrame, PointsAre, HomeIsThread
<1>4. Pushes(t, "Code", CallOn(t, "Code", created + 1))
  BY <1>1, <1>3, CallPushes, PointsAre
<1> QED  BY <1>1, <1>2, <1>4

LEMMA QuitStack ==
  ASSUME StackOK, NEW t \in Thread, NEW u \in Worker, Quit(t, u)
  PROVE  /\ Main \in Thread /\ Pushes(t, "Code", CallOn(u, "QuitWake", NoMsg)) /\ Top(t).at = "Code"
<1>1. CallFrom(t, "Code", CallOn(u, "QuitWake", NoMsg)) /\ Top(t).at = "Code" /\ Main \in Thread
  BY DEF Quit, At, Thread
<1>2. CallOn(u, "QuitWake", NoMsg) \in Frame
  BY CallIsFrame, PointsAre DEF Thread
<1> QED  BY <1>1, <1>2, CallPushes, PointsAre

LEMMA DeleteThreadStack ==
  ASSUME StackOK, NEW u \in Worker, DeleteThread(u)
  PROVE  /\ Main \in Thread /\ Pushes(Main, "Code", CallOn(u, "StopWake", NoMsg)) /\ Top(Main).at = "Code"
<1>1. CallFrom(Main, "Code", CallOn(u, "StopWake", NoMsg)) /\ Top(Main).at = "Code" /\ Main \in Thread
  BY DEF DeleteThread, At, Thread
<1>2. CallOn(u, "StopWake", NoMsg) \in Frame
  BY CallIsFrame, PointsAre DEF Thread
<1> QED  BY <1>1, <1>2, CallPushes, PointsAre

----------------------------------------------------------------------------
(* The shape of a stack.                                                   *)

\* What a frame is at while the one above it is at the point.
Below(point) == IF point \in ReceivePoints THEN {"Queues", "SendWait"}
                ELSE IF point = "Code" THEN {"Top", "Code", "RsReady"}
                ELSE IF point \in GetPoints THEN {}
                ELSE {"Code"}
Shape == \A t \in Thread : \A i \in 1..(Depth(t) - 1) :
           stack[t][i].at \in Below(stack[t][i + 1].at)

LEMMA DepthIs ==
  ASSUME StackOK, NEW t \in Thread
  PROVE  Depth(t) \in Nat /\ Depth(t) >= 1 /\ Top(t) = stack[t][Depth(t)]
<1>1. Len(stack[t]) \in Nat \ {0}
  BY TopIsFrame
<1>2. PICK n \in Nat \ {0} : n = Len(stack[t])
  BY <1>1
<1>3. n >= 1
  OBVIOUS
<1> QED  BY <1>2, <1>3 DEF Depth, Top

\* The frame below the top.
LEMMA BelowTop ==
  ASSUME StackOK, Shape, NEW t \in Thread, Depth(t) > 1
  PROVE  stack[t][Depth(t) - 1].at \in Below(Top(t).at)
<1>1. PICK n \in Nat : n = Depth(t)
  BY DepthIs
<1>2. (n - 1) \in 1..(n - 1) /\ (n - 1) + 1 = n
  BY <1>1
<1> QED  BY <1>1, <1>2, DepthIs DEF Shape

LEMMA MovesShape ==
  ASSUME StackOK, Shape, NEW t \in Thread, NEW p, Moves(t, p), Below(Top(t).at) \subseteq Below(p)
  PROVE  Shape'
<1>1. SUFFICES ASSUME NEW u \in Thread, NEW i \in 1..(Depth(u)' - 1)
               PROVE  stack'[u][i].at \in Below(stack'[u][i + 1].at)
  BY DEF Shape
<1>2. CASE u # t
  BY <1>1, <1>2 DEF Moves, Rest, Others, Shape, Depth
<1>3. CASE u = t
  <2>1. PICK n \in Nat : n = Depth(t)
    BY DepthIs
  <2>2. i \in 1..(n - 1) /\ stack[t][i].at \in Below(stack[t][i + 1].at) /\ stack'[t][i] = stack[t][i]
    BY <1>1, <1>3, <2>1 DEF Moves, Rest, Shape
  <2>3. CASE i = n - 1
    <3>1. i + 1 = n /\ stack'[t][n].at = p /\ Top(t) = stack[t][n]
      BY <2>1, <2>3, DepthIs DEF Moves, Becomes
    <3> QED  BY <1>3, <2>2, <3>1
  <2>4. CASE i # n - 1
    <3>1. i + 1 \in 1..(n - 1)
      BY <2>2, <2>4
    <3> QED  BY <1>3, <2>1, <2>2, <3>1 DEF Moves, Rest
  <2> QED  BY <2>3, <2>4
<1> QED  BY <1>2, <1>3

\* A call, or a handler that runs.
LEMMA GrowsShape ==
  ASSUME StackOK, Shape, NEW t \in Thread, Rest(t), Depth(t)' = Depth(t) + 1,
         Below(Top(t).at) \subseteq Below(stack'[t][Depth(t)].at),
         stack'[t][Depth(t)].at \in Below(stack'[t][Depth(t) + 1].at)
  PROVE  Shape'
<1>1. SUFFICES ASSUME NEW u \in Thread, NEW i \in 1..(Depth(u)' - 1)
               PROVE  stack'[u][i].at \in Below(stack'[u][i + 1].at)
  BY DEF Shape
<1>2. CASE u # t
  BY <1>1, <1>2 DEF Rest, Others, Shape, Depth
<1>3. CASE u = t
  <2>1. PICK n \in Nat : n = Depth(t)
    BY DepthIs
  <2>2. i \in 1..n
    BY <1>1, <1>3, <2>1
  <2>3. CASE i = n
    BY <1>3, <2>1, <2>3
  <2>4. CASE i = n - 1
    <3>1. i + 1 = n /\ i \in 1..(n - 1) /\ Top(t) = stack[t][n]
      BY <2>1, <2>2, <2>4, DepthIs
    <3>2. stack[t][i].at \in Below(Top(t).at) /\ stack'[t][i] = stack[t][i]
      BY <2>1, <3>1 DEF Shape, Rest
    <3> QED  BY <1>3, <2>1, <3>1, <3>2
  <2>5. CASE i # n - 1 /\ i # n
    <3>1. i + 1 \in 1..(n - 1) /\ i \in 1..(n - 1)
      BY <2>2, <2>5
    <3> QED  BY <1>3, <2>1, <3>1 DEF Rest, Shape
  <2> QED  BY <2>3, <2>4, <2>5
<1> QED  BY <1>2, <1>3

LEMMA PopsShape ==
  ASSUME StackOK, Shape, NEW t \in Thread, Pops(t)
  PROVE  Shape'
<1>1. SUFFICES ASSUME NEW u \in Thread, NEW i \in 1..(Depth(u)' - 1)
               PROVE  stack'[u][i].at \in Below(stack'[u][i + 1].at)
  BY DEF Shape
<1>2. CASE u # t
  BY <1>1, <1>2 DEF Pops, Rest, Others, Shape, Depth
<1>3. CASE u = t
  <2>1. PICK n \in Nat : n = Depth(t)
    BY DepthIs
  <2>2. i \in 1..(n - 1) /\ i + 1 \in 1..(n - 1)
    BY <1>1, <1>3, <2>1 DEF Pops
  <2> QED  BY <1>3, <2>1, <2>2 DEF Pops, Rest, Shape
<1> QED  BY <1>2, <1>3

LEMMA BelowIs ==
  /\ \A p \in {"SendWake", "SendLoop", "SendRecv", "SendWait", "PostPush", "SendPush", "QuitWake",
               "StopWake", "Join", "Delete"} : Below(p) = {"Code"}
  /\ \A p \in {"RsPop", "RsReady", "RsWake"} : Below(p) = {"Queues", "SendWait"}
  /\ \A p \in {"Top", "Queues", "Stop", "Wait", "Exited"} : Below(p) = {}
  /\ Below("Code") = {"Top", "Code", "RsReady"}
BY DEF Below, GetPoints, ReceivePoints

LEMMA PushesShape ==
  ASSUME StackOK, Shape, NEW t \in Thread, NEW p, NEW f, Pushes(t, p, f),
         Below(Top(t).at) \subseteq Below(p), p \in Below(f.at)
  PROVE  Shape'
BY GrowsShape DEF Pushes, Becomes

LEMMA ServesShape ==
  ASSUME StackOK, Shape, NEW t \in Thread, NEW m, Serves(t, m), Top(t).at \in {"RsPop", "RsWake"}
  PROVE  Shape'
<1>1. CallOn(t, "RsReady", m).at = "RsReady" /\ CallOn(t, "Code", m).at = "Code"
  BY DEF CallOn
<1> QED  BY <1>1, GrowsShape, BelowIs DEF Serves

LEMMA StillShape ==
  ASSUME Shape, UNCHANGED stack
  PROVE  Shape'
BY DEF Shape, Depth

LEMMA RunShape ==
  ASSUME TypeInv, Shape, NEW t \in Thread, Run(t)
  PROVE  Shape'
<1>1. StackOK /\ QueuesOK
  BY DEF TypeInv
<1>2. CASE PostPush(t) \/ QuitWake(t) \/ SendReturn(t)
  BY <1>1, <1>2, PostPushStack, QuitWakeStack, SendReturnStack, PopsShape
<1>3. CASE SendPush(t) \/ SendWake(t) \/ SendLoop(t) \/ SendWait(t) \/ ReplyReady(t)
  BY <1>1, <1>3, SendPushStack, SendWakeStack, SendLoopStack, SendWaitStack, ReplyReadyStack,
     MovesShape, BelowIs
<1>4. CASE GetNothing(t) \/ GetStop(t) \/ GetWait(t)
  BY <1>1, <1>4, GetNothingStack, GetStopStack, GetWaitStack, MovesShape, BelowIs
<1>5. CASE SendReceiveSends(t)
  <2>1. Top(t).at = "SendRecv" /\ (Pushes(t, "SendWait", Call(t, "RsPop")) \/ Moves(t, "SendWait"))
    BY <1>1, <1>5, ReceiveSendsStack, PointsAre DEF SendReceiveSends
  <2> QED  BY <1>1, <2>1, PushesShape, MovesShape, BelowIs DEF Call
<1>6. CASE GetReceiveSends(t)
  <2>1. Top(t).at = "Top" /\ (Pushes(t, "Queues", Call(t, "RsPop")) \/ Moves(t, "Queues"))
    BY <1>1, <1>6, ReceiveSendsStack, PointsAre DEF GetReceiveSends
  <2> QED  BY <1>1, <2>1, PushesShape, MovesShape, BelowIs DEF Call
<1>7. CASE ReceiveFirst(t)
  BY <1>1, <1>7, ReceiveFirstStack, PopsShape, ServesShape
<1>8. CASE ReplyWake(t)
  BY <1>1, <1>8, ReplyWakeStack, PopsShape, ServesShape
<1>9. CASE GetMessage(t)
  BY <1>1, <1>9, GetMessageStack, PushesShape, BelowIs DEF CallOn
<1> QED  BY <1>2, <1>3, <1>4, <1>5, <1>6, <1>7, <1>8, <1>9 DEF Run

LEMMA ClientShape ==
  ASSUME TypeInv, Shape, NEW t \in Thread, Client(t) \/ CodeReturn(t)
  PROVE  Shape'
<1>1. StackOK /\ MsgsOK /\ now \in Nat
  BY DEF TypeInv, ClockOK
<1>2. ASSUME NEW h \in Handler, NEW d \in Delays \cup {Forever}, Post(t, h, d)
      PROVE  Shape'
  <2>1. d \in Nat \cup {Forever}
    BY ConstantsOK
  <2> QED  BY <1>1, <1>2, <2>1, PostStack, PushesShape, BelowIs DEF CallOn
<1>3. ASSUME NEW h \in Handler, SendHere(t, h)
      PROVE  Shape'
  BY <1>1, <1>3, SendHereStack, PushesShape, BelowIs DEF CallOn
<1>4. ASSUME NEW h \in Handler, Send(t, h)
      PROVE  Shape'
  BY <1>1, <1>4, SendStack, PushesShape, BelowIs DEF CallOn
<1>5. ASSUME NEW h \in Handler, DestroyHandler(t, h)
      PROVE  Shape'
  BY <1>5, StillShape DEF DestroyHandler
<1>6. ASSUME NEW u \in Worker, Quit(t, u)
      PROVE  Shape'
  BY <1>1, <1>6, QuitStack, PushesShape, BelowIs DEF CallOn
<1>7. CASE CodeReturn(t)
  BY <1>1, <1>7, CodeReturnStack, PopsShape
<1> QED  BY <1>2, <1>3, <1>4, <1>5, <1>6, <1>7 DEF Client

LEMMA OwnerShape ==
  ASSUME TypeInv, Shape, Deletion \/ (\E u \in Worker : DeleteThread(u)) \/ Tick
  PROVE  Shape'
<1>1. StackOK
  BY DEF TypeInv
<1>2. ASSUME NEW u \in Worker, DeleteThread(u)
      PROVE  Shape'
  BY <1>1, <1>2, DeleteThreadStack, PushesShape, BelowIs DEF CallOn
<1>3. CASE StopWake \/ Join
  BY <1>1, <1>3, StopWakeStack, JoinStack, MovesShape, BelowIs
<1>4. CASE DeleteClear
  BY <1>1, <1>4, DeleteClearStack, PopsShape
<1>5. CASE Tick
  BY <1>5, StillShape DEF Tick
<1> QED  BY <1>2, <1>3, <1>4, <1>5 DEF Deletion

LEMMA ShapeInit == Init => Shape
<1>1. SUFFICES ASSUME Init, NEW t \in Thread PROVE Depth(t) = 1
  BY DEF Shape
<1> QED  BY <1>1 DEF Init, Depth

LEMMA ShapeStep == TypeInv /\ Shape /\ [Next]_vars => Shape'
<1>1. ASSUME TypeInv, Shape, Next
      PROVE  Shape'
  BY <1>1, RunShape, ClientShape, OwnerShape DEF Next
<1>2. Shape /\ UNCHANGED vars => Shape'
  BY StillShape DEF vars
<1> QED  BY <1>1, <1>2

----------------------------------------------------------------------------
(* The frames after a step, and those before it.                           *)

LEMMA MovesFrames ==
  ASSUME StackOK, NEW t \in Thread, NEW p, Moves(t, p)
  PROVE  \A u \in Thread :
           /\ Depth(u)' = Depth(u)
           /\ \A i \in 1..Depth(u) :
                \/ stack'[u][i] = stack[u][i] /\ (u # t \/ i # Depth(t))
                \/ u = t /\ i = Depth(t) /\ stack[u][i] = Top(t) /\ Becomes(Top(t), stack'[u][i], p)
<1>1. SUFFICES ASSUME NEW u \in Thread
               PROVE  /\ Depth(u)' = Depth(u)
                      /\ \A i \in 1..Depth(u) :
                           \/ stack'[u][i] = stack[u][i] /\ (u # t \/ i # Depth(t))
                           \/ u = t /\ i = Depth(t) /\ stack[u][i] = Top(t) /\ Becomes(Top(t), stack'[u][i], p)
  OBVIOUS
<1>2. CASE u # t
  BY <1>2 DEF Moves, Rest, Others, Depth
<1>3. CASE u = t
  BY <1>3, DepthIs DEF Moves, Rest
<1> QED  BY <1>2, <1>3

LEMMA PushesFrames ==
  ASSUME StackOK, NEW t \in Thread, NEW p, NEW f, Pushes(t, p, f)
  PROVE  \A u \in Thread :
           /\ Depth(u)' = IF u = t THEN Depth(t) + 1 ELSE Depth(u)
           /\ \A i \in 1..Depth(u) :
                \/ stack'[u][i] = stack[u][i] /\ (u # t \/ i # Depth(t))
                \/ u = t /\ i = Depth(t) /\ stack[u][i] = Top(t) /\ Becomes(Top(t), stack'[u][i], p)
           /\ \A i \in 1..Depth(u)' : i \in 1..Depth(u) \/ (u = t /\ i = Depth(t) + 1 /\ stack'[u][i] = f)
<1>1. SUFFICES ASSUME NEW u \in Thread
               PROVE  /\ Depth(u)' = IF u = t THEN Depth(t) + 1 ELSE Depth(u)
                      /\ \A i \in 1..Depth(u) :
                           \/ stack'[u][i] = stack[u][i] /\ (u # t \/ i # Depth(t))
                           \/ u = t /\ i = Depth(t) /\ stack[u][i] = Top(t) /\ Becomes(Top(t), stack'[u][i], p)
                      /\ \A i \in 1..Depth(u)' : i \in 1..Depth(u) \/ (u = t /\ i = Depth(t) + 1 /\ stack'[u][i] = f)
  OBVIOUS
<1>2. CASE u # t
  BY <1>2 DEF Pushes, Rest, Others, Depth
<1>3. CASE u = t
  BY <1>3, DepthIs DEF Pushes, Rest
<1> QED  BY <1>2, <1>3

LEMMA PopsFrames ==
  ASSUME StackOK, NEW t \in Thread, Pops(t)
  PROVE  \A u \in Thread :
           /\ Depth(u)' = IF u = t THEN Depth(t) - 1 ELSE Depth(u)
           /\ \A i \in 1..Depth(u) : \/ stack'[u][i] = stack[u][i] /\ i \in 1..Depth(u)'
                                     \/ u = t /\ i = Depth(t) /\ stack[u][i] = Top(t)
           /\ \A i \in 1..Depth(u)' : /\ i \in 1..Depth(u) /\ stack'[u][i] = stack[u][i]
                                      /\ u # t \/ i # Depth(t)
<1>1. SUFFICES ASSUME NEW u \in Thread
               PROVE  /\ Depth(u)' = IF u = t THEN Depth(t) - 1 ELSE Depth(u)
                      /\ \A i \in 1..Depth(u) : \/ stack'[u][i] = stack[u][i] /\ i \in 1..Depth(u)'
                                                \/ u = t /\ i = Depth(t) /\ stack[u][i] = Top(t)
                      /\ \A i \in 1..Depth(u)' : /\ i \in 1..Depth(u) /\ stack'[u][i] = stack[u][i]
                                                 /\ u # t \/ i # Depth(t)
  OBVIOUS
<1>2. CASE u # t
  BY <1>2 DEF Pops, Rest, Others, Depth
<1>3. CASE u = t
  BY <1>3, DepthIs DEF Pops, Rest
<1> QED  BY <1>2, <1>3

LEMMA ServesFrames ==
  ASSUME StackOK, NEW t \in Thread, NEW m, Serves(t, m)
  PROVE  \A u \in Thread :
           /\ Depth(u)' = IF u = t THEN Depth(t) + 1 ELSE Depth(u)
           /\ \A i \in 1..Depth(u) :
                \/ stack'[u][i] = stack[u][i] /\ (u # t \/ i # Depth(t))
                \/ u = t /\ i = Depth(t) /\ stack[u][i] = Top(t) /\ stack'[u][i] = CallOn(t, "RsReady", m)
           /\ \A i \in 1..Depth(u)' : \/ i \in 1..Depth(u)
                                      \/ u = t /\ i = Depth(t) + 1 /\ stack'[u][i] = CallOn(t, "Code", m)
<1>1. SUFFICES ASSUME NEW u \in Thread
               PROVE  /\ Depth(u)' = IF u = t THEN Depth(t) + 1 ELSE Depth(u)
                      /\ \A i \in 1..Depth(u) :
                           \/ stack'[u][i] = stack[u][i] /\ (u # t \/ i # Depth(t))
                           \/ u = t /\ i = Depth(t) /\ stack[u][i] = Top(t)
                              /\ stack'[u][i] = CallOn(t, "RsReady", m)
                      /\ \A i \in 1..Depth(u)' :
                           \/ i \in 1..Depth(u)
                           \/ u = t /\ i = Depth(t) + 1 /\ stack'[u][i] = CallOn(t, "Code", m)
  OBVIOUS
<1>2. CASE u # t
  BY <1>2 DEF Serves, Rest, Others, Depth
<1>3. CASE u = t
  BY <1>3, DepthIs DEF Serves, Rest
<1> QED  BY <1>2, <1>3

----------------------------------------------------------------------------
(* Where a message is.                                                     *)

Home(m) == HomeOf[info[m].handler]
Starting == {"PostPush", "SendPush"}
Busy == {"PostPush", "SendPush", "Code", "RsReady", "RsWake"}

\* The message of a frame exists; while it is posted or sent, the frame is its sender's.
Homed ==
  /\ \A t \in Thread : \A m \in msgq[t] \cup dmsgq[t] \cup sendlist[t] : m <= created /\ Home(m) = t
  /\ \A t \in Thread : \A i \in 1..Depth(t) :
       LET f == stack[t][i]
       IN f.msg # NoMsg => /\ f.msg <= created
                           /\ f.at \in Starting \cup SendPoints => info[f.msg].from = t
                           /\ f.at \in Starting => f.to = Home(f.msg)

\* A message is in one list, or its sender's call is about to put it there, or it runs, in one
\* frame but for ReceiveSends and the handler above it.
Held(t, i, m) == stack[t][i].msg = m /\ stack[t][i].at \in Busy
Once ==
  /\ \A m \in Msg, t \in Thread : \A i \in 1..Depth(t) : Held(t, i, m) => ~Queued(m)
  /\ \A m \in Msg, t, u \in Thread : \A i \in 1..Depth(t), j \in 1..Depth(u) :
       Held(t, i, m) /\ Held(u, j, m) =>
         t = u /\ (i < j => stack[t][i].at = "RsReady" /\ stack[u][j].at = "Code")
  /\ \A t \in Thread : msgq[t] \cap dmsgq[t] = {} /\ sendlist[t] \cap (msgq[t] \cup dmsgq[t]) = {}

\* The sender was told only about messages that nobody will run any more.
Replied == \A m \in Msg : ready[m] =>
  /\ m <= created /\ ~Queued(m)
  /\ \A t \in Thread : \A i \in 1..Depth(t) : Held(t, i, m) => stack[t][i].at = "RsWake"

\* Whoever holds the pointer to the sender's flag finds it.
Waits(m) == LET s == stack[info[m].from] IN \E i \in 1..Len(s) : s[i].msg = m /\ s[i].at \in SendPoints
Awaited == \A t \in Thread, m \in Msg :
  m \in sendlist[t] \/ (\E i \in 1..Depth(t) : stack[t][i].msg = m /\ stack[t][i].at = "RsReady") => Waits(m)

Life == Homed /\ Once /\ Replied /\ Awaited

LEMMA LifeMeans ==
  ASSUME TypeInv, Life
  PROVE  ReadyPointsToWaitingSend /\ SendIsSynchronous
<1>1. SendIsSynchronous
  <2>1. SUFFICES ASSUME NEW m \in Msg, ready[m], NEW t \in Thread
                 PROVE  /\ m \notin sendlist[t]
                        /\ \A i \in 1..Depth(t) : stack[t][i].at = "Code" => stack[t][i].msg # m
    BY DEF SendIsSynchronous
  <2>2. m \notin sendlist[t]
    BY <2>1 DEF Life, Replied, Queued
  <2>3. ASSUME NEW i \in 1..Depth(t), stack[t][i].at = "Code", stack[t][i].msg = m
        PROVE  FALSE
    BY <2>1, <2>3 DEF Life, Replied, Held, Busy
  <2> QED  BY <2>2, <2>3
<1>2. ReadyPointsToWaitingSend
  <2>1. SUFFICES ASSUME NEW t \in Thread, NEW m \in Msg,
                        m \in sendlist[t] \/ (\E i \in 1..Depth(t) : /\ stack[t][i].msg = m
                                                                      /\ stack[t][i].at = "RsReady")
                 PROVE  ~ready[m] /\ Waits(m)
    BY DEF ReadyPointsToWaitingSend, Waits
  <2>2. Waits(m)
    BY <2>1 DEF Life, Awaited
  <2>3. ~ready[m]
    BY <2>1 DEF Life, Replied, Queued, Held, Busy
  <2> QED  BY <2>2, <2>3
<1> QED  BY <1>1, <1>2

\* A step after which every frame was there before and nothing else is new.
Stems(u, i) ==
  /\ i \in 1..Depth(u) /\ stack'[u][i].msg = stack[u][i].msg /\ stack'[u][i].to = stack[u][i].to
  /\ stack'[u][i].at \in Busy => stack[u][i].at = stack'[u][i].at
  /\ stack'[u][i].at \in SendPoints => stack[u][i].at \in SendPoints
Persists(u, i) ==
  i \in 1..Depth(u)' /\ stack'[u][i].at \in SendPoints /\ stack'[u][i].msg = stack[u][i].msg
Fewer == \A u \in Thread : \A i \in 1..Depth(u)' : stack'[u][i].msg # NoMsg => Stems(u, i)
Lasts == \A u \in Thread : \A i \in 1..Depth(u) : stack[u][i].at \in SendPoints => Persists(u, i)
Calm == Fewer /\ Lasts

LEMMA FewerLife ==
  ASSUME TypeInv, Life, Fewer, UNCHANGED <<queues, ready, info, created>>
  PROVE  Homed' /\ Once' /\ Replied'
<1>1. Homed'
  BY DEF Fewer, Stems, Life, Homed, Home, queues, Starting, Busy
<1>2. Once'
  <2>1. ASSUME NEW m \in Msg, NEW t \in Thread, NEW i \in 1..Depth(t)', Held(t, i, m)'
        PROVE  i \in 1..Depth(t) /\ Held(t, i, m) /\ stack[t][i].at = stack'[t][i].at
    BY <2>1 DEF Fewer, Stems, Held, Msg, NoMsg
  <2>2. \A m \in Msg : Queued(m)' <=> Queued(m)
    BY DEF Queued, queues
  <2> QED  BY <2>1, <2>2 DEF Life, Once, queues
<1>3. Replied'
  BY DEF Fewer, Stems, Life, Replied, Held, Queued, queues, Msg, NoMsg
<1> QED  BY <1>1, <1>2, <1>3

LEMMA CalmLife ==
  ASSUME TypeInv, Life, Calm, UNCHANGED <<queues, ready, info, created>>
  PROVE  Life'
<1>1. Homed' /\ Once' /\ Replied'
  BY FewerLife DEF Calm
<1>2. Awaited'
  <2>1. SUFFICES ASSUME NEW t \in Thread, NEW m \in Msg,
                        m \in sendlist[t] \/ (\E i \in 1..Depth(t)' : /\ stack'[t][i].msg = m
                                                                       /\ stack'[t][i].at = "RsReady")
                 PROVE  Waits(m)'
    BY DEF Awaited, queues
  <2>2. Waits(m)
    BY <2>1 DEF Calm, Fewer, Stems, Life, Awaited, Busy, Msg, NoMsg
  <2>3. info[m].from \in Thread
    BY DEF TypeInv, MsgsOK, Info
  <2> QED  BY <2>2, <2>3 DEF Calm, Lasts, Persists, Waits, Depth
<1> QED  BY <1>1, <1>2 DEF Life

LEMMA MovesCalm ==
  ASSUME StackOK, NEW t \in Thread, NEW p, Moves(t, p), p \notin Busy,
         p \in SendPoints <=> Top(t).at \in SendPoints
  PROVE  Calm
<1>1. \A u \in Thread : \A i \in 1..Depth(u)' : Stems(u, i)
  BY MovesFrames DEF Stems, Becomes
<1>2. \A u \in Thread : \A i \in 1..Depth(u) : stack[u][i].at \in SendPoints => Persists(u, i)
  BY MovesFrames DEF Persists, Becomes
<1> QED  BY <1>1, <1>2 DEF Calm, Fewer, Lasts

LEMMA PushesCalm ==
  ASSUME StackOK, NEW t \in Thread, NEW p, NEW f, Pushes(t, p, f), f.msg = NoMsg,
         p \in Busy => Top(t).at = p, p \in SendPoints <=> Top(t).at \in SendPoints
  PROVE  Calm
<1>1. \A u \in Thread : \A i \in 1..Depth(u)' : stack'[u][i].msg # NoMsg => Stems(u, i)
  BY PushesFrames DEF Stems, Becomes
<1>2. \A u \in Thread : \A i \in 1..Depth(u) : stack[u][i].at \in SendPoints => Persists(u, i)
  BY PushesFrames, DepthIs DEF Persists, Becomes
<1> QED  BY <1>1, <1>2 DEF Calm, Fewer, Lasts

LEMMA PopsCalm ==
  ASSUME StackOK, NEW t \in Thread, Pops(t), Top(t).at \notin SendPoints
  PROVE  Calm
<1>1. \A u \in Thread : \A i \in 1..Depth(u)' : Stems(u, i)
  BY PopsFrames DEF Stems
<1>2. \A u \in Thread : \A i \in 1..Depth(u) : stack[u][i].at \in SendPoints => Persists(u, i)
  BY PopsFrames DEF Persists
<1> QED  BY <1>1, <1>2 DEF Calm, Fewer, Lasts

----------------------------------------------------------------------------
(* The life of a message, step by step.                                    *)

LEMMA NewMsgIs ==
  ASSUME MsgsOK, NEW t \in Thread, NEW h \in Handler, NEW d \in Nat \cup {Forever}, now \in Nat,
         NewMsg(t, h, d)
  PROVE  /\ created' = created + 1 /\ created \in Nat /\ created + 1 \in Msg
         /\ \A m \in Msg : m <= created => info'[m] = info[m]
         /\ info'[created + 1].handler = h /\ info'[created + 1].from = t
         /\ info'[created + 1].delay = d /\ info'[created + 1].arrival = 0
         /\ info'[created + 1].trigger = IF d = Forever THEN 0 ELSE now + d
<1>1. created + 1 \in Msg /\ created \in Nat
  BY NewMsgOK DEF MsgsOK
<1>2. \A m \in Msg : m <= created => m # created + 1
  BY <1>1 DEF Msg
<1>3. info'[created + 1] = [handler |-> h, from |-> t, delay |-> d, arrival |-> 0,
                            trigger |-> IF d = Forever THEN 0 ELSE now + d]
  BY <1>1 DEF NewMsg, MsgsOK
<1> QED  BY <1>1, <1>2, <1>3 DEF NewMsg, MsgsOK

\* Post, Send, and a Send to the thread itself.
LEMMA CreateLife ==
  ASSUME TypeInv, Life, NEW t \in Thread, NEW h \in Handler, NEW d \in Nat \cup {Forever},
         NewMsg(t, h, d), NEW u \in Thread, NEW p \in Starting \cup {"Code"},
         p \in Starting => u = HomeOf[h],
         Pushes(t, "Code", CallOn(u, p, created + 1)), Top(t).at = "Code", UNCHANGED <<queues, ready>>
  PROVE  Life'
<1>1. StackOK /\ MsgsOK /\ now \in Nat /\ QueuesOK /\ SignalsOK
  BY DEF TypeInv, ClockOK
<1>2. PICK k \in Msg : k = created + 1
  BY <1>1, NewMsgIs
<1>3. /\ created' = k /\ created \in Nat /\ created < k
      /\ \A m \in Msg : m <= created => info'[m] = info[m]
      /\ info'[k].handler = h /\ info'[k].from = t
  <2>1. /\ created' = k /\ created \in Nat /\ info'[k].handler = h /\ info'[k].from = t
        /\ \A m \in Msg : m <= created => info'[m] = info[m]
    <3>1. /\ created' = created + 1 /\ created \in Nat
          /\ info'[created + 1].handler = h /\ info'[created + 1].from = t
          /\ \A m \in Msg : m <= created => info'[m] = info[m]
      BY <1>1, NewMsgIs
    <3> QED  BY <1>2, <3>1
  <2> QED  BY <1>2, <2>1
<1>4. PICK f : f = CallOn(u, p, k)
  OBVIOUS
<1>5. f.at = p /\ f.msg = k /\ f.to = u
  BY <1>4 DEF CallOn
<1>6. \A v \in Thread : \A i \in 1..Depth(v)' :
        \/ i \in 1..Depth(v) /\ Stems(v, i)
        \/ v = t /\ i = Depth(t) + 1 /\ stack'[v][i] = f
  BY <1>1, <1>2, <1>4, PushesFrames DEF Stems, Becomes
<1>7. \A v \in Thread : \A i \in 1..Depth(v) : stack[v][i].at \in SendPoints => Persists(v, i)
  BY <1>1, PushesFrames, DepthIs DEF Persists, Becomes, SendPoints
<1>8. \A v \in Thread : \A i \in 1..Depth(v) :
        stack[v][i].msg # NoMsg => stack[v][i].msg \in Msg /\ stack[v][i].msg <= created
  BY <1>1, FrameIs DEF Life, Homed, Frame
<1>9. \A v \in Thread : \A m \in msgq[v] \cup dmsgq[v] \cup sendlist[v] : m <= created /\ m \in Msg
  BY <1>1 DEF Life, Homed, QueuesOK
<1>10. \A v \in Thread : \A i \in 1..Depth(v)' :
         LET g == stack'[v][i]
         IN g.msg # NoMsg => /\ g.msg <= created'
                             /\ g.at \in Starting \cup SendPoints => info'[g.msg].from = v
                             /\ g.at \in Starting => g.to = HomeOf[info'[g.msg].handler]
  <2>1. ASSUME NEW v \in Thread, NEW i \in 1..Depth(v)', i \in 1..Depth(v), Stems(v, i),
               stack'[v][i].msg # NoMsg
        PROVE  LET g == stack'[v][i]
               IN /\ g.msg <= created'
                  /\ g.at \in Starting \cup SendPoints => info'[g.msg].from = v
                  /\ g.at \in Starting => g.to = HomeOf[info'[g.msg].handler]
    <3>1. PICK g, b : g = stack'[v][i] /\ b = stack[v][i]
      OBVIOUS
    <3>2. /\ g.msg = b.msg /\ g.to = b.to /\ b.msg \in Msg /\ b.msg <= created
          /\ g.at \in Starting => b.at \in Starting
          /\ g.at \in SendPoints => b.at \in SendPoints
      BY <1>8, <2>1, <3>1 DEF Stems, Starting, Busy
    <3>3. /\ b.at \in Starting \cup SendPoints => info[b.msg].from = v
          /\ b.at \in Starting => b.to = Home(b.msg)
      BY <2>1, <3>1, <3>2 DEF Life, Homed
    <3>4. info'[b.msg] = info[b.msg] /\ b.msg <= created'
      BY <1>3, <3>2 DEF Msg
    <3> QED  BY <3>1, <3>2, <3>3, <3>4 DEF Home
  <2>2. /\ f.msg <= created' /\ info'[f.msg].from = t
        /\ f.at \in Starting => f.to = HomeOf[info'[f.msg].handler]
    BY <1>3, <1>5 DEF Home, Msg
  <2> QED  BY <1>6, <2>1, <2>2
<1>11. Homed'
  <2>1. \A v \in Thread : \A m \in (msgq[v] \cup dmsgq[v] \cup sendlist[v])' : m <= created' /\ Home(m)' = v
    BY <1>3, <1>9 DEF Life, Homed, Home, queues, Msg
  <2> QED  BY <1>10, <2>1 DEF Homed, Home
<1>12. ASSUME NEW m \in Msg, NEW v \in Thread, NEW i \in 1..Depth(v)', Held(v, i, m)'
       PROVE  \/ i \in 1..Depth(v) /\ Held(v, i, m) /\ stack[v][i].at = stack'[v][i].at /\ m <= created
              \/ v = t /\ i = Depth(t) + 1 /\ stack'[v][i] = f /\ m = k
  BY <1>5, <1>6, <1>8, <1>12 DEF Stems, Held, Msg, NoMsg
<1>13. \A m \in Msg : /\ Queued(m)' <=> Queued(m)
                      /\ Queued(m) => m <= created
  BY <1>9 DEF Queued, queues
<1>14. Once'
  <2>1. \A m \in Msg, v \in Thread : \A i \in 1..Depth(v)' : Held(v, i, m)' => ~Queued(m)'
    BY <1>3, <1>12, <1>13 DEF Life, Once, Msg
  <2>2. \A m \in Msg, v, w \in Thread : \A i \in 1..Depth(v)', j \in 1..Depth(w)' :
          Held(v, i, m)' /\ Held(w, j, m)' =>
            v = w /\ (i < j => stack'[v][i].at = "RsReady" /\ stack'[w][j].at = "Code")
    <3>1. SUFFICES ASSUME NEW m \in Msg, NEW v \in Thread, NEW w \in Thread,
                          NEW i \in 1..Depth(v)', NEW j \in 1..Depth(w)', Held(v, i, m)', Held(w, j, m)'
                   PROVE  v = w /\ (i < j => stack'[v][i].at = "RsReady" /\ stack'[w][j].at = "Code")
      OBVIOUS
    <3>2. CASE m <= created
      <4>1. m # k
        BY <1>3, <3>2 DEF Msg
      <4> QED  BY <1>12, <3>1, <4>1 DEF Life, Once
    <3>3. CASE ~(m <= created)
      <4>1. v = t /\ i = Depth(t) + 1 /\ w = t /\ j = Depth(t) + 1
        BY <1>12, <3>1, <3>3
      <4>2. i = j /\ ~(i < j)
        BY <4>1
      <4> QED  BY <4>1, <4>2
    <3> QED  BY <3>2, <3>3
  <2>3. \A v \in Thread : (msgq[v] \cap dmsgq[v] = {} /\ sendlist[v] \cap (msgq[v] \cup dmsgq[v]) = {})'
    BY DEF Life, Once, queues
  <2> QED  BY <2>1, <2>2, <2>3 DEF Once
<1>15. Replied'
  <2>1. SUFFICES ASSUME NEW m \in Msg, ready[m]
                 PROVE  /\ m <= created' /\ ~Queued(m)'
                        /\ \A v \in Thread : \A i \in 1..Depth(v)' : Held(v, i, m)' => stack'[v][i].at = "RsWake"
    BY DEF Replied
  <2>2. m <= created /\ ~Queued(m) /\ m # k /\ m <= created'
    BY <1>3, <2>1 DEF Life, Replied, Msg
  <2> QED  BY <1>12, <1>13, <2>1, <2>2 DEF Life, Replied
<1>16. Awaited'
  <2>1. SUFFICES ASSUME NEW v \in Thread, NEW m \in Msg,
                        m \in sendlist[v] \/ (\E i \in 1..Depth(v)' : /\ stack'[v][i].msg = m
                                                                       /\ stack'[v][i].at = "RsReady")
                 PROVE  Waits(m)'
    BY DEF Awaited, queues
  <2>2. Waits(m) /\ m <= created
    <3>1. CASE m \in sendlist[v]
      BY <1>9, <2>1, <3>1 DEF Life, Awaited
    <3>2. ASSUME NEW i \in 1..Depth(v)', stack'[v][i].msg = m, stack'[v][i].at = "RsReady"
          PROVE  Waits(m) /\ m <= created
      <4>1. Held(v, i, m)'
        BY <3>2 DEF Held, Busy
      <4>2. stack'[v][i] # f
        BY <1>5, <3>2 DEF Starting
      <4>3. i \in 1..Depth(v) /\ Held(v, i, m) /\ stack[v][i].at = "RsReady" /\ m <= created
        BY <1>12, <3>2, <4>1, <4>2
      <4> QED  BY <4>3 DEF Life, Awaited, Held
    <3> QED  BY <2>1, <3>1, <3>2
  <2>3. info[m].from \in Thread /\ info'[m] = info[m]
    BY <1>1, <1>3, <2>2 DEF MsgsOK, Info
  <2>4. PICK w \in Thread : w = info[m].from
    BY <2>3
  <2>5. PICK i \in 1..Depth(w) : stack[w][i].msg = m /\ stack[w][i].at \in SendPoints
    BY <2>2, <2>4 DEF Waits, Depth
  <2>6. i \in 1..Depth(w)' /\ stack'[w][i].at \in SendPoints /\ stack'[w][i].msg = m
    BY <1>7, <2>5 DEF Persists
  <2>7. info'[m].from = w
    BY <2>3, <2>4
  <2> QED  BY <2>6, <2>7 DEF Waits, Depth
<1> QED  BY <1>11, <1>14, <1>15, <1>16 DEF Life

LEMMA FrameHomed ==
  ASSUME StackOK, Homed, NEW t \in Thread, NEW i \in 1..Depth(t), NEW f, f = stack[t][i], f.msg # NoMsg
  PROVE  /\ f.msg \in Msg /\ f.msg <= created
         /\ f.at \in Starting \cup SendPoints => info[f.msg].from = t
         /\ f.at \in Starting => f.to = HomeOf[info[f.msg].handler]
<1>1. f.msg \in Msg
  BY FrameIs DEF Frame
<1>2. LET g == stack[t][i]
      IN /\ g.msg <= created
         /\ g.at \in Starting \cup SendPoints => info[g.msg].from = t
         /\ g.at \in Starting => g.to = Home(g.msg)
  BY DEF Homed
<1> QED  BY <1>1, <1>2 DEF Home

LEMMA ArriveIs ==
  ASSUME MsgsOK, NEW m, Arrive(m)
  PROVE  /\ created' = created /\ arrived' = arrived + 1
         /\ \A k \in Msg : /\ info'[k].handler = info[k].handler /\ info'[k].from = info[k].from
                           /\ info'[k].delay = info[k].delay /\ info'[k].trigger = info[k].trigger
                           /\ info'[k].arrival = IF k = m THEN arrived + 1 ELSE info[k].arrival
BY DEF Arrive, MsgsOK, Info

\* A call of Post or Send is about a message that is nowhere else.
LEMMA StartingAlone ==
  ASSUME TypeInv, Life, Shape, NEW t \in Thread, Top(t).at \in Starting
  PROVE  LET m == Top(t).msg
         IN /\ m \in Msg /\ m <= created /\ ~Queued(m) /\ ~ready[m]
            /\ info[m].from = t /\ Top(t).to = Home(m)
            /\ \A v \in Thread : \A i \in 1..Depth(v) : Held(v, i, m) => v = t /\ i = Depth(t)
<1>1. StackOK
  BY DEF TypeInv
<1>2. PICK m : m = Top(t).msg
  OBVIOUS
<1>3. m \in Msg
  BY <1>1, <1>2, TopCarries, PointsAre DEF Starting
<1>4. PICK n \in Nat : n = Depth(t) /\ n \in 1..n /\ Top(t) = stack[t][n]
  BY <1>1, DepthIs
<1>5. Held(t, n, m) /\ stack[t][n].at \in Starting
  BY <1>2, <1>4 DEF Held, Busy, Starting
<1>6. ~Queued(m) /\ ~ready[m]
  BY <1>3, <1>4, <1>5 DEF Life, Once, Replied, Starting
<1>7. m # NoMsg
  BY <1>3 DEF Msg, NoMsg
<1>8. m <= created /\ info[m].from = t /\ Top(t).to = Home(m)
  BY <1>2, <1>4, <1>5, <1>7 DEF Life, Homed
<1>9. ASSUME NEW v \in Thread, NEW i \in 1..Depth(v), Held(v, i, m)
      PROVE  v = t /\ i = n
  <2>1. v = t
    BY <1>3, <1>4, <1>5, <1>9 DEF Life, Once
  <2>2. ~(i < n)
    BY <1>3, <1>4, <1>5, <1>9, <2>1 DEF Life, Once, Starting
  <2> QED  BY <1>4, <1>9, <2>1, <2>2
<1> QED  BY <1>2, <1>3, <1>4, <1>6, <1>8, <1>9

LEMMA PostPushLife ==
  ASSUME TypeInv, Shape, Life, NEW t \in Thread, PostPush(t)
  PROVE  Life'
<1>1. StackOK /\ MsgsOK /\ QueuesOK
  BY DEF TypeInv
<1>2. Pops(t) /\ Top(t).at = "PostPush"
  BY <1>1, PostPushStack
<1>3. PICK m, u : m = Top(t).msg /\ u = Top(t).to
  OBVIOUS
<1>4. /\ m \in Msg /\ m <= created /\ ~Queued(m) /\ ~ready[m] /\ u = Home(m) /\ u \in Thread
      /\ \A v \in Thread : \A i \in 1..Depth(v) : Held(v, i, m) => v = t /\ i = Depth(t)
  <2>1. Home(m) \in Thread
    BY <1>1, <1>2, <1>3, StartingAlone, HomeIsThread DEF Starting, Home, MsgsOK, Info
  <2> QED  BY <1>2, <1>3, <2>1, StartingAlone DEF Starting
<1>5. /\ created' = created
      /\ \A k \in Msg : info'[k].handler = info[k].handler /\ info'[k].from = info[k].from
  BY <1>1, ArriveIs DEF PostPush
<1>6. \/ msgq' = [msgq EXCEPT ![u] = msgq[u] \cup {m}] /\ dmsgq' = dmsgq
      \/ dmsgq' = [dmsgq EXCEPT ![u] = dmsgq[u] \cup {m}] /\ msgq' = msgq
  BY <1>1, <1>3, <1>4 DEF PostPush, QueuesOK
<1>7. sendlist' = sendlist /\ ready' = ready
  BY DEF PostPush
<1>8. \A v \in Thread : /\ msgq'[v] \subseteq msgq[v] \cup (IF v = u THEN {m} ELSE {})
                        /\ dmsgq'[v] \subseteq dmsgq[v] \cup (IF v = u THEN {m} ELSE {})
                        /\ m \in msgq[v] \cup dmsgq[v] \cup sendlist[v] => FALSE
                        /\ m \notin msgq'[v] \/ m \notin dmsgq'[v]
  BY <1>1, <1>4, <1>6 DEF QueuesOK, Queued
<1>9. \A v \in Thread : \A i \in 1..Depth(v)' : /\ i \in 1..Depth(v) /\ stack'[v][i] = stack[v][i]
                                                /\ v # t \/ i # Depth(t)
  BY <1>1, <1>2, PopsFrames
<1>10. \A v \in Thread : \A i \in 1..Depth(v) : stack[v][i].at \in SendPoints => Persists(v, i)
  BY <1>1, <1>2, PopsFrames DEF Persists, SendPoints
<1>11. Homed'
  <2>1. \A v \in Thread : \A k \in (msgq[v] \cup dmsgq[v] \cup sendlist[v])' : k <= created' /\ Home(k)' = v
    BY <1>1, <1>4, <1>5, <1>7, <1>8 DEF Life, Homed, Home, QueuesOK
  <2>2. \A v \in Thread : \A i \in 1..Depth(v)' :
          LET f == stack'[v][i]
          IN f.msg # NoMsg => /\ f.msg <= created'
                              /\ f.at \in Starting \cup SendPoints => info'[f.msg].from = v
                              /\ f.at \in Starting => f.to = HomeOf[info'[f.msg].handler]
    <3>1. SUFFICES ASSUME NEW v \in Thread, NEW i \in 1..Depth(v)', stack'[v][i].msg # NoMsg
                   PROVE  LET f == stack'[v][i]
                          IN /\ f.msg <= created'
                             /\ f.at \in Starting \cup SendPoints => info'[f.msg].from = v
                             /\ f.at \in Starting => f.to = HomeOf[info'[f.msg].handler]
      OBVIOUS
    <3>2. PICK f \in Frame : f = stack[v][i] /\ f = stack'[v][i] /\ i \in 1..Depth(v)
      BY <1>1, <1>9, <3>1, FrameIs
    <3>3. /\ f.msg \in Msg /\ f.msg <= created
          /\ f.at \in Starting \cup SendPoints => info[f.msg].from = v
          /\ f.at \in Starting => f.to = HomeOf[info[f.msg].handler]
      <4>1. Homed /\ f.msg # NoMsg
        BY <3>1, <3>2 DEF Life
      <4> QED  BY <1>1, <3>2, <4>1, FrameHomed
    <3> QED  BY <1>5, <3>2, <3>3
  <2> QED  BY <2>1, <2>2 DEF Homed, Home
<1>12. \A k \in Msg : Queued(k)' => Queued(k) \/ k = m
  BY <1>7, <1>8 DEF Queued
<1>13. ASSUME NEW k \in Msg, NEW v \in Thread, NEW i \in 1..Depth(v)', Held(v, i, k)'
       PROVE  k # m /\ i \in 1..Depth(v) /\ Held(v, i, k) /\ stack'[v][i] = stack[v][i]
  BY <1>4, <1>9, <1>13 DEF Held
<1>14. Once'
  <2>1. \A k \in Msg, v \in Thread : \A i \in 1..Depth(v)' : Held(v, i, k)' => ~Queued(k)'
    BY <1>12, <1>13 DEF Life, Once
  <2>2. \A k \in Msg, v, w \in Thread : \A i \in 1..Depth(v)', j \in 1..Depth(w)' :
          Held(v, i, k)' /\ Held(w, j, k)' =>
            v = w /\ (i < j => stack'[v][i].at = "RsReady" /\ stack'[w][j].at = "Code")
    BY <1>13 DEF Life, Once
  <2>3. \A v \in Thread : (msgq[v] \cap dmsgq[v] = {} /\ sendlist[v] \cap (msgq[v] \cup dmsgq[v]) = {})'
    BY <1>7, <1>8 DEF Life, Once
  <2> QED  BY <2>1, <2>2, <2>3 DEF Once
<1>15. Replied'
  BY <1>4, <1>5, <1>7, <1>12, <1>13 DEF Life, Replied
<1>16. Awaited'
  <2>1. SUFFICES ASSUME NEW v \in Thread, NEW k \in Msg,
                        k \in sendlist[v] \/ (\E i \in 1..Depth(v)' : /\ stack'[v][i].msg = k
                                                                       /\ stack'[v][i].at = "RsReady")
                 PROVE  Waits(k)'
    BY <1>7 DEF Awaited
  <2>2. Waits(k) /\ info[k].from \in Thread /\ info'[k].from = info[k].from
    BY <1>1, <1>5, <1>9, <2>1 DEF Life, Awaited, MsgsOK, Info
  <2> QED  BY <1>10, <2>2 DEF Persists, Waits, Depth
<1> QED  BY <1>11, <1>14, <1>15, <1>16 DEF Life

LEMMA SendPushLife ==
  ASSUME TypeInv, Shape, Life, NEW t \in Thread, SendPush(t)
  PROVE  Life'
<1>1. StackOK /\ MsgsOK /\ QueuesOK
  BY DEF TypeInv
<1>2. Moves(t, "SendWake") /\ Top(t).at = "SendPush"
  BY <1>1, SendPushStack
<1>3. PICK m, u : m = Top(t).msg /\ u = Top(t).to
  OBVIOUS
<1>4. /\ m \in Msg /\ m <= created /\ ~Queued(m) /\ ~ready[m] /\ u = Home(m) /\ u \in Thread
      /\ info[m].from = t
      /\ \A v \in Thread : \A i \in 1..Depth(v) : Held(v, i, m) => v = t /\ i = Depth(t)
  <2>1. Home(m) \in Thread
    BY <1>1, <1>2, <1>3, StartingAlone, HomeIsThread DEF Starting, Home, MsgsOK, Info
  <2> QED  BY <1>2, <1>3, <2>1, StartingAlone DEF Starting
<1>5. /\ created' = created
      /\ \A k \in Msg : info'[k].handler = info[k].handler /\ info'[k].from = info[k].from
  BY <1>1, ArriveIs DEF SendPush
<1>6. /\ sendlist' = [sendlist EXCEPT ![u] = sendlist[u] \cup {m}]
      /\ msgq' = msgq /\ dmsgq' = dmsgq /\ ready' = ready
  BY <1>1, <1>3, <1>4 DEF SendPush, QueuesOK
<1>7. \A v \in Thread : /\ sendlist'[v] \subseteq sendlist[v] \cup (IF v = u THEN {m} ELSE {})
                        /\ m \in msgq[v] \cup dmsgq[v] \cup sendlist[v] => FALSE
  BY <1>1, <1>4, <1>6 DEF QueuesOK, Queued
<1>8. PICK n \in Nat : n = Depth(t) /\ n \in 1..n /\ stack[t][n] = Top(t)
  BY <1>1, DepthIs
<1>9. /\ \A v \in Thread : \A i \in 1..Depth(v)' :
           \/ i \in 1..Depth(v) /\ stack'[v][i] = stack[v][i] /\ (v # t \/ i # n)
           \/ v = t /\ i = n /\ Becomes(Top(t), stack'[v][i], "SendWake")
      /\ \A v \in Thread : Depth(v)' = Depth(v)
  BY <1>1, <1>2, <1>8, MovesFrames
<1>10. /\ \A v \in Thread : \A i \in 1..Depth(v) : stack[v][i].at \in SendPoints => Persists(v, i)
       /\ n \in 1..Depth(t)' /\ stack'[t][n].at = "SendWake" /\ stack'[t][n].msg = m
  <2>1. stack'[t][n].at = "SendWake" /\ stack'[t][n].msg = m /\ n \in 1..Depth(t)'
    BY <1>2, <1>3, <1>8, <1>9 DEF Moves, Becomes
  <2>2. \A v \in Thread : \A i \in 1..Depth(v) : stack[v][i].at \in SendPoints => Persists(v, i)
    BY <1>2, <1>8, <1>9 DEF Persists, SendPoints
  <2> QED  BY <2>1, <2>2
<1>11. Homed'
  <2>1. \A v \in Thread : \A k \in (msgq[v] \cup dmsgq[v] \cup sendlist[v])' : k <= created' /\ Home(k)' = v
    BY <1>1, <1>4, <1>5, <1>6, <1>7 DEF Life, Homed, Home, QueuesOK
  <2>2. \A v \in Thread : \A i \in 1..Depth(v)' :
          LET f == stack'[v][i]
          IN f.msg # NoMsg => /\ f.msg <= created'
                              /\ f.at \in Starting \cup SendPoints => info'[f.msg].from = v
                              /\ f.at \in Starting => f.to = HomeOf[info'[f.msg].handler]
    <3>1. SUFFICES ASSUME NEW v \in Thread, NEW i \in 1..Depth(v)', stack'[v][i].msg # NoMsg
                   PROVE  LET f == stack'[v][i]
                          IN /\ f.msg <= created'
                             /\ f.at \in Starting \cup SendPoints => info'[f.msg].from = v
                             /\ f.at \in Starting => f.to = HomeOf[info'[f.msg].handler]
      OBVIOUS
    <3>2. CASE v = t /\ i = n
      BY <1>4, <1>5, <1>10, <3>2 DEF Starting
    <3>3. CASE ~(v = t /\ i = n)
      <4>1. PICK f \in Frame : f = stack[v][i] /\ f = stack'[v][i] /\ i \in 1..Depth(v)
        BY <1>1, <1>9, <3>1, <3>3, FrameIs
      <4>2. /\ f.msg \in Msg /\ f.msg <= created
            /\ f.at \in Starting \cup SendPoints => info[f.msg].from = v
            /\ f.at \in Starting => f.to = HomeOf[info[f.msg].handler]
        <5>1. Homed /\ f.msg # NoMsg
          BY <3>1, <4>1 DEF Life
        <5> QED  BY <1>1, <4>1, <5>1, FrameHomed
      <4> QED  BY <1>5, <4>1, <4>2
    <3> QED  BY <3>2, <3>3
  <2> QED  BY <2>1, <2>2 DEF Homed, Home
<1>12. \A k \in Msg : Queued(k)' => Queued(k) \/ k = m
  BY <1>6, <1>7 DEF Queued
<1>13. ASSUME NEW k \in Msg, NEW v \in Thread, NEW i \in 1..Depth(v)', Held(v, i, k)'
       PROVE  k # m /\ i \in 1..Depth(v) /\ Held(v, i, k) /\ stack'[v][i] = stack[v][i]
  <2>1. ~(v = t /\ i = n)
    BY <1>10, <1>13 DEF Held, Busy
  <2> QED  BY <1>4, <1>8, <1>9, <1>13, <2>1 DEF Held
<1>14. Once'
  <2>1. \A k \in Msg, v \in Thread : \A i \in 1..Depth(v)' : Held(v, i, k)' => ~Queued(k)'
    BY <1>12, <1>13 DEF Life, Once
  <2>2. \A k \in Msg, v, w \in Thread : \A i \in 1..Depth(v)', j \in 1..Depth(w)' :
          Held(v, i, k)' /\ Held(w, j, k)' =>
            v = w /\ (i < j => stack'[v][i].at = "RsReady" /\ stack'[w][j].at = "Code")
    BY <1>13 DEF Life, Once
  <2>3. \A v \in Thread : (msgq[v] \cap dmsgq[v] = {} /\ sendlist[v] \cap (msgq[v] \cup dmsgq[v]) = {})'
    BY <1>6, <1>7 DEF Life, Once
  <2> QED  BY <2>1, <2>2, <2>3 DEF Once
<1>15. Replied'
  BY <1>4, <1>5, <1>6, <1>12, <1>13 DEF Life, Replied
<1>16. Awaited'
  <2>1. SUFFICES ASSUME NEW v \in Thread, NEW k \in Msg,
                        k \in sendlist'[v] \/ (\E i \in 1..Depth(v)' : /\ stack'[v][i].msg = k
                                                                       /\ stack'[v][i].at = "RsReady")
                 PROVE  Waits(k)'
    BY DEF Awaited
  <2>2. CASE k = m
    <3>1. info'[k].from = t
      BY <1>4, <1>5, <2>2
    <3> QED  BY <1>10, <2>2, <3>1 DEF Waits, Depth, SendPoints
  <2>3. CASE k # m
    <3>1. k \in sendlist[v] \/ (\E i \in 1..Depth(v) : /\ stack[v][i].msg = k
                                                        /\ stack[v][i].at = "RsReady")
      BY <1>7, <1>9, <1>10, <2>1, <2>3
    <3>2. Waits(k) /\ info[k].from \in Thread /\ info'[k].from = info[k].from
      BY <1>1, <1>5, <3>1 DEF Life, Awaited, MsgsOK, Info
    <3> QED  BY <1>10, <3>2 DEF Persists, Waits, Depth
  <2> QED  BY <2>2, <2>3
<1> QED  BY <1>11, <1>14, <1>15, <1>16 DEF Life

\* ReceiveSends takes a message from sendlist_ and runs it.
LEMMA ServesLife ==
  ASSUME TypeInv, Life, NEW t \in Thread, NEW m \in sendlist[t], Serves(t, m),
         Top(t).at \notin SendPoints, sendlist' = [sendlist EXCEPT ![t] = sendlist[t] \ {m}],
         UNCHANGED <<msgq, dmsgq, ready, info, created>>
  PROVE  Life'
<1>1. StackOK /\ MsgsOK /\ QueuesOK
  BY DEF TypeInv
<1>2. m \in Msg /\ m <= created /\ Queued(m) /\ Home(m) = t
  BY <1>1 DEF QueuesOK, Life, Homed, Queued
<1>3. PICK n \in Nat : n = Depth(t)
  BY <1>1, DepthIs
<1>4. PICK f, g : f = CallOn(t, "RsReady", m) /\ g = CallOn(t, "Code", m)
  OBVIOUS
<1>5. f.at = "RsReady" /\ f.msg = m /\ g.at = "Code" /\ g.msg = m
  BY <1>4 DEF CallOn
<1>6. /\ \A v \in Thread : \A i \in 1..Depth(v)' :
           \/ i \in 1..Depth(v) /\ stack'[v][i] = stack[v][i]
           \/ v = t /\ i = n /\ stack'[v][i] = f
           \/ v = t /\ i = n + 1 /\ stack'[v][i] = g
      /\ \A v \in Thread : \A i \in 1..Depth(v) : stack[v][i].at \in SendPoints =>
           i \in 1..Depth(v)' /\ stack'[v][i] = stack[v][i]
  <2>1. \A v \in Thread : \A i \in 1..Depth(v)' :
           \/ i \in 1..Depth(v) /\ stack'[v][i] = stack[v][i]
           \/ v = t /\ i = n /\ stack'[v][i] = f
           \/ v = t /\ i = n + 1 /\ stack'[v][i] = g
    BY <1>1, <1>3, <1>4, ServesFrames
  <2>2. \A v \in Thread : \A i \in 1..Depth(v) : stack[v][i].at \in SendPoints =>
          i \in 1..Depth(v)' /\ stack'[v][i] = stack[v][i]
    BY <1>1, <1>3, ServesFrames
  <2> QED  BY <2>1, <2>2
<1>7. \A v \in Thread : sendlist'[v] \subseteq sendlist[v] /\ (v = t => m \notin sendlist'[v])
  BY <1>1 DEF QueuesOK
<1>8. \A k \in Msg : Queued(k)' => Queued(k) /\ k # m
  <2>1. \A v \in Thread : m \notin msgq[v] /\ m \notin dmsgq[v] /\ m \notin sendlist'[v]
    BY <1>2, <1>7 DEF Life, Homed, Once
  <2> QED  BY <1>7, <2>1 DEF Queued
<1>9. Homed'
  <2>1. \A v \in Thread : \A k \in (msgq[v] \cup dmsgq[v] \cup sendlist[v])' : k <= created' /\ Home(k)' = v
    BY <1>7 DEF Life, Homed, Home
  <2>2. \A v \in Thread : \A i \in 1..Depth(v)' :
          LET b == stack'[v][i]
          IN b.msg # NoMsg => /\ b.msg <= created
                              /\ b.at \in Starting \cup SendPoints => info[b.msg].from = v
                              /\ b.at \in Starting => b.to = Home(b.msg)
    BY <1>2, <1>5, <1>6 DEF Life, Homed, Starting, SendPoints
  <2> QED  BY <2>1, <2>2 DEF Homed, Home
<1>10. ASSUME NEW k \in Msg, NEW v \in Thread, NEW i \in 1..Depth(v)', Held(v, i, k)'
       PROVE  \/ k # m /\ i \in 1..Depth(v) /\ Held(v, i, k) /\ stack'[v][i] = stack[v][i]
              \/ k = m /\ v = t /\ i = n /\ stack'[v][i].at = "RsReady"
              \/ k = m /\ v = t /\ i = n + 1 /\ stack'[v][i].at = "Code"
  BY <1>2, <1>5, <1>6, <1>10 DEF Held, Life, Once
<1>11. Once'
  <2>1. \A k \in Msg, v \in Thread : \A i \in 1..Depth(v)' : Held(v, i, k)' => ~Queued(k)'
    BY <1>8, <1>10 DEF Life, Once
  <2>2. \A k \in Msg, v, w \in Thread : \A i \in 1..Depth(v)', j \in 1..Depth(w)' :
          Held(v, i, k)' /\ Held(w, j, k)' =>
            v = w /\ (i < j => stack'[v][i].at = "RsReady" /\ stack'[w][j].at = "Code")
    <3>1. SUFFICES ASSUME NEW k \in Msg, NEW v \in Thread, NEW w \in Thread,
                          NEW i \in 1..Depth(v)', NEW j \in 1..Depth(w)', Held(v, i, k)', Held(w, j, k)'
                   PROVE  v = w /\ (i < j => stack'[v][i].at = "RsReady" /\ stack'[w][j].at = "Code")
      OBVIOUS
    <3>2. CASE k = m
      BY <1>10, <3>1, <3>2
    <3>3. CASE k # m
      BY <1>10, <3>1, <3>3 DEF Life, Once
    <3> QED  BY <3>2, <3>3
  <2>3. \A v \in Thread : (msgq[v] \cap dmsgq[v] = {} /\ sendlist[v] \cap (msgq[v] \cup dmsgq[v]) = {})'
    BY <1>7 DEF Life, Once
  <2> QED  BY <2>1, <2>2, <2>3 DEF Once
<1>12. Replied'
  BY <1>2, <1>8, <1>10 DEF Life, Replied
<1>13. Awaited'
  <2>1. SUFFICES ASSUME NEW v \in Thread, NEW k \in Msg,
                        k \in sendlist'[v] \/ (\E i \in 1..Depth(v)' : /\ stack'[v][i].msg = k
                                                                       /\ stack'[v][i].at = "RsReady")
                 PROVE  Waits(k)'
    BY DEF Awaited
  <2>2. Waits(k)
    BY <1>2, <1>5, <1>6, <1>7, <2>1 DEF Life, Awaited
  <2>3. info[k].from \in Thread
    BY <1>1 DEF MsgsOK, Info
  <2> QED  BY <1>6, <2>2, <2>3 DEF Waits, Depth
<1> QED  BY <1>9, <1>11, <1>12, <1>13 DEF Life

LEMMA ReplyReadyLife ==
  ASSUME TypeInv, Life, NEW t \in Thread, ReplyReady(t)
  PROVE  Life'
<1>1. StackOK /\ MsgsOK /\ QueuesOK
  BY DEF TypeInv
<1>2. Moves(t, "RsWake") /\ Top(t).at = "RsReady"
  BY <1>1, ReplyReadyStack
<1>3. PICK m \in Msg : m = Top(t).msg
  BY <1>1, <1>2, TopCarries, PointsAre
<1>4. PICK n \in Nat : n = Depth(t) /\ n \in 1..n /\ stack[t][n] = Top(t)
  BY <1>1, DepthIs
<1>5. /\ \A v \in Thread : Depth(v)' = Depth(v)
      /\ \A v \in Thread : \A i \in 1..Depth(v) :
           \/ stack'[v][i] = stack[v][i] /\ (v # t \/ i # n)
           \/ v = t /\ i = n /\ Becomes(stack[v][i], stack'[v][i], "RsWake")
  BY <1>1, <1>2, <1>4, MovesFrames
<1>6. UNCHANGED <<queues, info, created>> /\ ready' = [ready EXCEPT ![m] = TRUE]
  BY <1>3 DEF ReplyReady, msgs
<1>7. Held(t, n, m) /\ stack[t][n].at = "RsReady"
  BY <1>2, <1>3, <1>4 DEF Held, Busy
<1>8. \A v \in Thread : \A i \in 1..Depth(v) : Held(v, i, m) => v = t /\ i = n
  <2>1. SUFFICES ASSUME NEW v \in Thread, NEW i \in 1..Depth(v), Held(v, i, m)
                 PROVE  v = t /\ i = n
    OBVIOUS
  <2>2. v = t
    BY <1>4, <1>7, <2>1 DEF Life, Once
  <2>3. ~(i < n)
    BY <1>4, <1>7, <2>1, <2>2 DEF Life, Once
  <2> QED  BY <1>4, <2>1, <2>2, <2>3
<1>9. m <= created /\ ~Queued(m)
  <2>1. stack[t][n].msg = m /\ m # NoMsg
    BY <1>7 DEF Held, Msg, NoMsg
  <2> QED  BY <1>1, <1>4, <1>7, <2>1, FrameHomed DEF Life, Once
<1>10. ASSUME NEW k \in Msg, NEW v \in Thread, NEW i \in 1..Depth(v), Held(v, i, k)'
       PROVE  \/ k # m /\ Held(v, i, k) /\ stack'[v][i] = stack[v][i]
              \/ k = m /\ v = t /\ i = n /\ stack'[v][i].at = "RsWake"
  BY <1>3, <1>4, <1>5, <1>8, <1>10 DEF Held, Becomes
<1>11. \A k \in Msg : Queued(k)' <=> Queued(k)
  BY <1>6 DEF Queued, queues
<1>12. Homed'
  <2>1. \A v \in Thread : \A i \in 1..Depth(v) :
          LET b == stack'[v][i]
          IN b.msg # NoMsg => /\ b.msg <= created
                              /\ b.at \in Starting \cup SendPoints => info[b.msg].from = v
                              /\ b.at \in Starting => b.to = Home(b.msg)
    BY <1>5 DEF Life, Homed, Starting, SendPoints, Becomes
  <2> QED  BY <1>5, <1>6, <2>1 DEF Life, Homed, Home, queues
<1>13. Once'
  <2>1. \A k \in Msg, v \in Thread : \A i \in 1..Depth(v) : Held(v, i, k)' => ~Queued(k)
    BY <1>9, <1>10 DEF Life, Once
  <2>2. \A k \in Msg, v, w \in Thread : \A i \in 1..Depth(v), j \in 1..Depth(w) :
          Held(v, i, k)' /\ Held(w, j, k)' =>
            v = w /\ (i < j => stack'[v][i].at = "RsReady" /\ stack'[w][j].at = "Code")
    BY <1>10 DEF Life, Once
  <2> QED  BY <1>5, <1>6, <1>11, <2>1, <2>2 DEF Life, Once, queues
<1>14. Replied'
  <2>1. SUFFICES ASSUME NEW k \in Msg, ready'[k]
                 PROVE  /\ k <= created /\ ~Queued(k)
                        /\ \A v \in Thread : \A i \in 1..Depth(v) : Held(v, i, k)' => stack'[v][i].at = "RsWake"
    BY <1>5, <1>6, <1>11 DEF Replied
  <2>2. CASE k = m
    BY <1>9, <1>10, <2>2
  <2>3. CASE k # m
    <3>1. ready[k]
      BY <1>1, <1>6, <2>1, <2>3 DEF TypeInv, SignalsOK
    <3> QED  BY <1>10, <2>3, <3>1 DEF Life, Replied
  <2> QED  BY <2>2, <2>3
<1>15. Awaited'
  <2>1. SUFFICES ASSUME NEW v \in Thread, NEW k \in Msg,
                        k \in sendlist[v] \/ (\E i \in 1..Depth(v) : /\ stack'[v][i].msg = k
                                                                      /\ stack'[v][i].at = "RsReady")
                 PROVE  Waits(k)'
    BY <1>5, <1>6 DEF Awaited, queues
  <2>2. Waits(k)
    BY <1>5, <2>1 DEF Life, Awaited, Becomes
  <2>3. info[k].from \in Thread
    BY <1>1 DEF MsgsOK, Info
  <2>4. \A v1 \in Thread : \A i \in 1..Depth(v1) : stack[v1][i].at \in SendPoints => stack'[v1][i] = stack[v1][i]
    BY <1>5, <1>7 DEF SendPoints
  <2> QED  BY <1>5, <1>6, <2>2, <2>3, <2>4 DEF Waits, Depth
<1> QED  BY <1>12, <1>13, <1>14, <1>15 DEF Life

\* Send returns when nobody holds the pointer to its flag any more.
LEMMA SendReturnLife ==
  ASSUME TypeInv, Life, NEW t \in Thread, SendReturn(t)
  PROVE  Life'
<1>1. StackOK /\ MsgsOK
  BY DEF TypeInv
<1>2. Pops(t) /\ Top(t).at = "SendLoop" /\ ready[Top(t).msg]
  BY <1>1, SendReturnStack DEF SendReturn
<1>3. /\ \A v \in Thread : \A i \in 1..Depth(v)' : i \in 1..Depth(v) /\ stack'[v][i] = stack[v][i]
      /\ \A v \in Thread : \A i \in 1..Depth(v) :
           (stack'[v][i] = stack[v][i] /\ i \in 1..Depth(v)') \/ stack[v][i] = Top(t)
  BY <1>1, <1>2, PopsFrames
<1>4. UNCHANGED <<queues, ready, info, created>>
  BY DEF SendReturn, msgs
<1>5. Fewer
  BY <1>3 DEF Fewer, Stems
<1>6. Homed' /\ Once' /\ Replied'
  BY <1>4, <1>5, FewerLife
<1>7. Awaited'
  <2>1. SUFFICES ASSUME NEW v \in Thread, NEW k \in Msg,
                        k \in sendlist[v] \/ (\E i \in 1..Depth(v)' : /\ stack'[v][i].msg = k
                                                                       /\ stack'[v][i].at = "RsReady")
                 PROVE  Waits(k)'
    BY <1>4 DEF Awaited, queues
  <2>2. Waits(k) /\ ~ready[k]
    BY <1>3, <2>1 DEF Life, Awaited, Replied, Queued, Held, Busy
  <2>3. info[k].from \in Thread /\ info'[k] = info[k]
    BY <1>1, <1>4 DEF MsgsOK, Info
  <2>4. PICK v1 \in Thread : v1 = info[k].from
    BY <2>3
  <2>5. PICK i \in 1..Depth(v1) : stack[v1][i].msg = k /\ stack[v1][i].at \in SendPoints
    BY <2>2, <2>4 DEF Waits, Depth
  <2>6. stack'[v1][i] = stack[v1][i] /\ i \in 1..Depth(v1)'
    BY <1>2, <1>3, <2>2, <2>5
  <2> QED  BY <2>3, <2>4, <2>5, <2>6 DEF Waits, Depth
<1> QED  BY <1>6, <1>7 DEF Life

\* Clear: what it drops from sendlist_ it answers.
LEMMA ClearLife ==
  ASSUME TypeInv, Life, Calm, NEW S \in SUBSET Msg, NEW on \in SUBSET Thread, Clear(S, on),
         UNCHANGED <<info, created>>
  PROVE  Life'
<1>1. QueuesOK /\ SignalsOK /\ MsgsOK
  BY DEF TypeInv
<1>2. \A v \in Thread :
        /\ msgq'[v] = IF v \in on THEN msgq[v] \ S ELSE msgq[v]
        /\ dmsgq'[v] = IF v \in on THEN dmsgq[v] \ S ELSE dmsgq[v]
        /\ sendlist'[v] = IF v \in on THEN sendlist[v] \ S ELSE sendlist[v]
  BY DEF Clear
<1>3. \A v \in Thread : msgq'[v] \subseteq msgq[v] /\ dmsgq'[v] \subseteq dmsgq[v] /\ sendlist'[v] \subseteq sendlist[v]
  BY <1>2
<1>4. \A k \in Msg : ready'[k] => ready[k] \/ \E v \in on : k \in sendlist[v] \cap S
  BY DEF Clear
<1>5. \A k \in Msg : Queued(k)' => Queued(k)
  BY <1>3 DEF Queued
<1>6. ASSUME NEW k \in Msg, NEW v \in Thread, NEW i \in 1..Depth(v)', Held(v, i, k)'
      PROVE  i \in 1..Depth(v) /\ Held(v, i, k) /\ stack[v][i].at = stack'[v][i].at
  BY <1>6 DEF Calm, Fewer, Stems, Held, Msg, NoMsg
<1>7. Homed'
  <2>1. \A v \in Thread : \A k \in (msgq[v] \cup dmsgq[v] \cup sendlist[v])' : k <= created' /\ Home(k)' = v
    BY <1>3 DEF Life, Homed, Home
  <2>2. \A v \in Thread : \A i \in 1..Depth(v)' :
          LET b == stack'[v][i]
          IN b.msg # NoMsg => /\ b.msg <= created
                              /\ b.at \in Starting \cup SendPoints => info[b.msg].from = v
                              /\ b.at \in Starting => b.to = Home(b.msg)
    BY DEF Calm, Fewer, Stems, Life, Homed, Starting, Busy
  <2> QED  BY <2>1, <2>2 DEF Homed, Home
<1>8. Once'
  <2>1. \A v \in Thread : (msgq[v] \cap dmsgq[v] = {} /\ sendlist[v] \cap (msgq[v] \cup dmsgq[v]) = {})'
    BY <1>3 DEF Life, Once
  <2> QED  BY <1>5, <1>6, <2>1 DEF Life, Once
<1>9. Replied'
  <2>1. SUFFICES ASSUME NEW k \in Msg, ready'[k]
                 PROVE  /\ k <= created /\ ~Queued(k)'
                        /\ \A v \in Thread : \A i \in 1..Depth(v)' : Held(v, i, k)' => stack'[v][i].at = "RsWake"
    BY DEF Replied
  <2>2. CASE ready[k]
    BY <1>5, <1>6, <2>2 DEF Life, Replied
  <2>3. ASSUME NEW v \in on, k \in sendlist[v] \cap S
        PROVE  /\ k <= created /\ ~Queued(k)'
               /\ \A w \in Thread : \A i \in 1..Depth(w)' : ~Held(w, i, k)'
    <3>1. k <= created /\ Queued(k) /\ Home(k) = v
      BY <2>3 DEF Life, Homed, Queued
    <3>2. \A w \in Thread : k \notin msgq[w] /\ k \notin dmsgq[w] /\ k \notin sendlist'[w]
      <4>1. SUFFICES ASSUME NEW w \in Thread, k \in msgq[w] \cup dmsgq[w] \cup sendlist'[w]
                     PROVE  FALSE
        OBVIOUS
      <4>2. w = v
        BY <1>3, <3>1, <4>1 DEF Life, Homed
      <4>3. k \notin sendlist'[v] /\ k \in sendlist[v] /\ v \in Thread
        BY <1>2, <2>3
      <4> QED  BY <4>1, <4>2, <4>3 DEF Life, Once
    <3>3. ~Queued(k)'
      BY <1>3, <3>2 DEF Queued
    <3> QED  BY <1>6, <3>1, <3>3 DEF Life, Once
  <2> QED  BY <1>4, <2>1, <2>2, <2>3
<1>10. Awaited'
  <2>1. SUFFICES ASSUME NEW t \in Thread, NEW m \in Msg,
                        m \in sendlist'[t] \/ (\E i \in 1..Depth(t)' : /\ stack'[t][i].msg = m
                                                                       /\ stack'[t][i].at = "RsReady")
                 PROVE  Waits(m)'
    BY DEF Awaited
  <2>2. Waits(m)
    BY <1>3, <2>1 DEF Calm, Fewer, Stems, Life, Awaited, Busy, Msg, NoMsg
  <2>3. info[m].from \in Thread
    BY <1>1 DEF MsgsOK, Info
  <2> QED  BY <2>2, <2>3 DEF Calm, Lasts, Persists, Waits, Depth
<1> QED  BY <1>7, <1>8, <1>9, <1>10 DEF Life

\* Get moves what is due to msgq_ and takes the oldest message.
LEMMA GetMessageIs ==
  ASSUME TypeInv, NEW t \in Thread, GetMessage(t)
  PROVE  /\ Top(t).at = "Queues" /\ Triggered(t) \subseteq dmsgq[t]
         /\ \E m \in (msgq[t] \cup Triggered(t)) \cap Msg :
              /\ Pushes(t, "Top", CallOn(t, "Code", m))
              /\ msgq'[t] = (msgq[t] \cup Triggered(t)) \ {m}
         /\ dmsgq'[t] = dmsgq[t] \ Triggered(t)
         /\ \A v \in Thread : v # t => msgq'[v] = msgq[v] /\ dmsgq'[v] = dmsgq[v]
         /\ \A k \in Msg : /\ info'[k].handler = info[k].handler /\ info'[k].from = info[k].from
                           /\ info'[k].delay = info[k].delay /\ info'[k].trigger = info[k].trigger
                           /\ k \notin Triggered(t) => info'[k].arrival = info[k].arrival
                           /\ k \in Triggered(t) => info'[k].arrival <= arrived'
         /\ arrived <= arrived'
         /\ UNCHANGED <<clock, sendlist, signals, created, objects, now>>
<1>1. StackOK /\ QueuesOK /\ MsgsOK
  BY DEF TypeInv
<1>2. PICK T : T = Triggered(t)
  OBVIOUS
<1>3. T \subseteq dmsgq[t] /\ T \subseteq Msg
  BY <1>1, <1>2 DEF Triggered, QueuesOK
<1>4. \E m \in (msgq[t] \cup T) \cap Msg :
        /\ Pushes(t, "Top", CallOn(t, "Code", m))
        /\ msgq' = [msgq EXCEPT ![t] = (msgq[t] \cup T) \ {m}]
  BY <1>1, <1>2, <1>3, GetMessageStack DEF QueuesOK
<1>5. dmsgq' = [dmsgq EXCEPT ![t] = dmsgq[t] \ T] /\ info' = Moved(t) /\ arrived' = arrived + Cardinality(T)
  BY <1>1, <1>2 DEF GetMessage, QueuesOK
<1>6. arrived \in Nat /\ Cardinality(T) \in Nat
  BY <1>1, <1>2, TriggeredCount DEF MsgsOK
<1>7. \A k \in Msg : info'[k] = IF k \in T THEN [info[k] EXCEPT !.arrival =
                                  arrived + Cardinality({n \in T : NotAfter(n, k)})]
                                ELSE info[k]
  BY <1>2, <1>5 DEF Moved
<1>8. \A k \in Msg : Cardinality({n \in T : NotAfter(n, k)}) <= Cardinality(T)
                     /\ Cardinality({n \in T : NotAfter(n, k)}) \in Nat
  <2>1. IsFiniteSet(T)
    <3>1. IsFiniteSet(Msg)
      BY ConstantsOK, FS_Interval DEF Msg
    <3> QED  BY <1>3, <3>1, FS_Subset
  <2>2. \A S \in SUBSET T : Cardinality(S) <= Cardinality(T) /\ Cardinality(S) \in Nat
    BY <2>1, FS_Subset, FS_CardinalityType
  <2>3. \A k \in Msg : {n \in T : NotAfter(n, k)} \in SUBSET T
    OBVIOUS
  <2> QED  BY <2>2, <2>3
<1>9. \A k \in Msg : /\ info'[k].handler = info[k].handler /\ info'[k].from = info[k].from
                     /\ info'[k].delay = info[k].delay /\ info'[k].trigger = info[k].trigger
                     /\ k \notin T => info'[k].arrival = info[k].arrival
                     /\ k \in T => info'[k].arrival = arrived + Cardinality({n \in T : NotAfter(n, k)})
  BY <1>1, <1>7 DEF MsgsOK, Info
<1>10. \A k \in T : info'[k].arrival <= arrived'
  <2>1. SUFFICES ASSUME NEW k \in T PROVE info'[k].arrival <= arrived'
    OBVIOUS
  <2>2. PICK c : c = Cardinality({n \in T : NotAfter(n, k)})
    OBVIOUS
  <2>3. k \in Msg /\ c <= Cardinality(T) /\ c \in Nat
    BY <1>3, <1>8, <2>2
  <2>4. info'[k].arrival = arrived + c
    BY <1>9, <2>2, <2>3
  <2> QED  BY <1>5, <1>6, <2>3, <2>4
<1>11. arrived <= arrived'
  BY <1>5, <1>6
<1>12. Top(t).at = "Queues" /\ UNCHANGED <<clock, sendlist, signals, created, objects, now>>
  BY DEF GetMessage, At
<1>13. \A v \in Thread : v # t => msgq'[v] = msgq[v] /\ dmsgq'[v] = dmsgq[v]
  BY <1>1, <1>4, <1>5 DEF QueuesOK
<1>14. dmsgq'[t] = dmsgq[t] \ T
  BY <1>1, <1>5 DEF QueuesOK
<1>15. \E m \in (msgq[t] \cup T) \cap Msg :
         Pushes(t, "Top", CallOn(t, "Code", m)) /\ msgq'[t] = (msgq[t] \cup T) \ {m}
  BY <1>1, <1>4 DEF QueuesOK
<1> QED  BY <1>2, <1>3, <1>9, <1>10, <1>11, <1>12, <1>13, <1>14, <1>15

LEMMA GetMessageLife ==
  ASSUME TypeInv, Life, NEW t \in Thread, GetMessage(t)
  PROVE  Life'
<1>1. StackOK /\ MsgsOK /\ QueuesOK
  BY DEF TypeInv
<1>2. PICK m \in (msgq[t] \cup Triggered(t)) \cap Msg :
        /\ Pushes(t, "Top", CallOn(t, "Code", m))
        /\ msgq'[t] = (msgq[t] \cup Triggered(t)) \ {m}
  BY GetMessageIs
<1>3. /\ dmsgq'[t] = dmsgq[t] \ Triggered(t) /\ Triggered(t) \subseteq dmsgq[t] /\ Top(t).at = "Queues"
      /\ \A v \in Thread : v # t => msgq'[v] = msgq[v] /\ dmsgq'[v] = dmsgq[v]
      /\ \A k \in Msg : info'[k].handler = info[k].handler /\ info'[k].from = info[k].from
      /\ UNCHANGED <<sendlist, ready, created>>
  BY GetMessageIs DEF signals
<1>4. m <= created /\ Queued(m) /\ Home(m) = t
  BY <1>2, <1>3 DEF Life, Homed, Queued
<1>5. PICK f : f = CallOn(t, "Code", m)
  OBVIOUS
<1>6. f.at = "Code" /\ f.msg = m
  BY <1>5 DEF CallOn
<1>7. \A v \in Thread : \A i \in 1..Depth(v)' :
        \/ i \in 1..Depth(v) /\ Stems(v, i)
        \/ v = t /\ i = Depth(t) + 1 /\ stack'[v][i] = f
  BY <1>1, <1>2, <1>3, <1>5, PushesFrames DEF Stems, Becomes, Busy, SendPoints
<1>8. \A v \in Thread : \A i \in 1..Depth(v) : stack[v][i].at \in SendPoints => Persists(v, i)
  BY <1>1, <1>2, <1>3, PushesFrames, DepthIs DEF Persists, Becomes, SendPoints
<1>9. \A v \in Thread : /\ msgq'[v] \cup dmsgq'[v] \subseteq (msgq[v] \cup dmsgq[v]) \ {m}
                        /\ msgq'[v] \cap dmsgq'[v] = {}
  <2>1. SUFFICES ASSUME NEW v \in Thread
                 PROVE  /\ msgq'[v] \cup dmsgq'[v] \subseteq (msgq[v] \cup dmsgq[v]) \ {m}
                        /\ msgq'[v] \cap dmsgq'[v] = {}
    OBVIOUS
  <2>2. msgq[v] \cap dmsgq[v] = {}
    BY DEF Life, Once
  <2>3. CASE v = t
    BY <1>2, <1>3, <2>2, <2>3
  <2>4. CASE v # t
    <3>1. m \notin msgq[v] \cup dmsgq[v]
      BY <1>4, <2>4 DEF Life, Homed
    <3> QED  BY <1>3, <2>2, <2>4, <3>1
  <2> QED  BY <2>3, <2>4
<1>10. \A k \in Msg : Queued(k)' => Queued(k) /\ k # m
  <2>1. \A v \in Thread : m \notin sendlist[v]
    <3>1. SUFFICES ASSUME NEW v \in Thread, m \in sendlist[v] PROVE FALSE
      OBVIOUS
    <3>2. v = t
      BY <1>4, <3>1 DEF Life, Homed
    <3> QED  BY <1>2, <1>3, <3>1, <3>2 DEF Life, Once
  <2> QED  BY <1>3, <1>9, <2>1 DEF Queued
<1>11. Homed'
  <2>1. \A v \in Thread : \A k \in (msgq[v] \cup dmsgq[v] \cup sendlist[v])' : k <= created' /\ Home(k)' = v
    BY <1>1, <1>3, <1>9 DEF Life, Homed, Home, QueuesOK
  <2>2. \A v \in Thread : \A i \in 1..Depth(v)' :
          LET b == stack'[v][i]
          IN b.msg # NoMsg => /\ b.msg <= created'
                              /\ b.at \in Starting \cup SendPoints => info'[b.msg].from = v
                              /\ b.at \in Starting => b.to = HomeOf[info'[b.msg].handler]
    <3>1. SUFFICES ASSUME NEW v \in Thread, NEW i \in 1..Depth(v)', stack'[v][i].msg # NoMsg
                   PROVE  LET b == stack'[v][i]
                          IN /\ b.msg <= created'
                             /\ b.at \in Starting \cup SendPoints => info'[b.msg].from = v
                             /\ b.at \in Starting => b.to = HomeOf[info'[b.msg].handler]
      OBVIOUS
    <3>2. CASE stack'[v][i] = f
      BY <1>3, <1>4, <1>6, <3>2 DEF Starting, SendPoints
    <3>3. CASE i \in 1..Depth(v) /\ Stems(v, i)
      <4>1. PICK b, c : b = stack'[v][i] /\ c = stack[v][i]
        OBVIOUS
      <4>2. /\ b.msg = c.msg /\ b.to = c.to /\ c.msg # NoMsg
            /\ b.at \in Starting => c.at \in Starting
            /\ b.at \in SendPoints => c.at \in SendPoints
        BY <3>1, <3>3, <4>1 DEF Stems, Starting, Busy
      <4>3. /\ c.msg \in Msg /\ c.msg <= created
            /\ c.at \in Starting \cup SendPoints => info[c.msg].from = v
            /\ c.at \in Starting => c.to = HomeOf[info[c.msg].handler]
        <5>1. Homed
          BY DEF Life
        <5> QED  BY <1>1, <3>3, <4>1, <4>2, <5>1, FrameHomed
      <4> QED  BY <1>3, <4>1, <4>2, <4>3
    <3> QED  BY <1>7, <3>1, <3>2, <3>3
  <2> QED  BY <2>1, <2>2 DEF Homed, Home
<1>12. ASSUME NEW k \in Msg, NEW v \in Thread, NEW i \in 1..Depth(v)', Held(v, i, k)'
       PROVE  \/ k # m /\ i \in 1..Depth(v) /\ Held(v, i, k) /\ stack[v][i].at = stack'[v][i].at
              \/ k = m /\ v = t /\ i = Depth(t) + 1
  BY <1>4, <1>6, <1>7, <1>12 DEF Stems, Held, Life, Once
<1>13. Once'
  <2>1. \A k \in Msg, v \in Thread : \A i \in 1..Depth(v)' : Held(v, i, k)' => ~Queued(k)'
    BY <1>10, <1>12 DEF Life, Once
  <2>2. \A k \in Msg, v, w \in Thread : \A i \in 1..Depth(v)', j \in 1..Depth(w)' :
          Held(v, i, k)' /\ Held(w, j, k)' =>
            v = w /\ (i < j => stack'[v][i].at = "RsReady" /\ stack'[w][j].at = "Code")
    <3>1. SUFFICES ASSUME NEW k \in Msg, NEW v \in Thread, NEW w \in Thread,
                          NEW i \in 1..Depth(v)', NEW j \in 1..Depth(w)', Held(v, i, k)', Held(w, j, k)'
                   PROVE  v = w /\ (i < j => stack'[v][i].at = "RsReady" /\ stack'[w][j].at = "Code")
      OBVIOUS
    <3>2. CASE k = m
      <4>1. v = t /\ w = t /\ i = Depth(t) + 1 /\ j = Depth(t) + 1
        BY <1>12, <3>1, <3>2
      <4>2. ~(i < j)
        BY <4>1
      <4> QED  BY <4>1, <4>2
    <3>3. CASE k # m
      BY <1>12, <3>1, <3>3 DEF Life, Once
    <3> QED  BY <3>2, <3>3
  <2>3. \A v \in Thread : (msgq[v] \cap dmsgq[v] = {} /\ sendlist[v] \cap (msgq[v] \cup dmsgq[v]) = {})'
    BY <1>3, <1>9 DEF Life, Once
  <2> QED  BY <2>1, <2>2, <2>3 DEF Once
<1>14. Replied'
  BY <1>3, <1>4, <1>10, <1>12 DEF Life, Replied
<1>15. Awaited'
  <2>1. SUFFICES ASSUME NEW v \in Thread, NEW k \in Msg,
                        k \in sendlist[v] \/ (\E i \in 1..Depth(v)' : /\ stack'[v][i].msg = k
                                                                       /\ stack'[v][i].at = "RsReady")
                 PROVE  Waits(k)'
    BY <1>3 DEF Awaited
  <2>2. Waits(k)
    BY <1>6, <1>7, <2>1 DEF Stems, Busy, Life, Awaited
  <2>3. info[k].from \in Thread /\ info'[k].from = info[k].from
    BY <1>1, <1>3 DEF MsgsOK, Info
  <2> QED  BY <1>8, <2>2, <2>3 DEF Persists, Waits, Depth
<1> QED  BY <1>11, <1>13, <1>14, <1>15 DEF Life

LEMMA RunLife ==
  ASSUME TypeInv, Shape, Life, NEW t \in Thread, Run(t)
  PROVE  Life'
<1>1. StackOK /\ QueuesOK
  BY DEF TypeInv
<1>2. CASE PostPush(t) \/ SendPush(t) \/ ReplyReady(t) \/ SendReturn(t) \/ GetMessage(t)
  BY <1>2, PostPushLife, SendPushLife, ReplyReadyLife, SendReturnLife, GetMessageLife
<1>3. CASE QuitWake(t)
  BY <1>1, <1>3, QuitWakeStack, PopsCalm, CalmLife DEF QuitWake, SendPoints, msgs
<1>4. CASE SendWake(t) \/ SendLoop(t) \/ SendWait(t)
  <2>1. Calm
    BY <1>1, <1>4, SendWakeStack, SendLoopStack, SendWaitStack, MovesCalm DEF SendPoints, Busy
  <2> QED  BY <1>4, <2>1, CalmLife DEF SendWake, SendLoop, SendWait, msgs, signals
<1>5. CASE GetNothing(t) \/ GetStop(t) \/ GetWait(t)
  <2>1. Calm
    BY <1>1, <1>5, GetNothingStack, GetStopStack, GetWaitStack, MovesCalm DEF SendPoints, Busy
  <2> QED  BY <1>5, <2>1, CalmLife DEF GetNothing, GetStop, GetWait, msgs, signals
<1>6. CASE SendReceiveSends(t)
  <2>1. Top(t).at = "SendRecv" /\ (Pushes(t, "SendWait", Call(t, "RsPop")) \/ Moves(t, "SendWait"))
    BY <1>1, <1>6, ReceiveSendsStack, PointsAre DEF SendReceiveSends
  <2>2. Calm
    BY <1>1, <2>1, PushesCalm, MovesCalm DEF SendPoints, Busy, Call
  <2> QED  BY <1>6, <2>2, CalmLife DEF SendReceiveSends, ReceiveSends, msgs, signals
<1>7. CASE GetReceiveSends(t)
  <2>1. Top(t).at = "Top" /\ (Pushes(t, "Queues", Call(t, "RsPop")) \/ Moves(t, "Queues"))
    BY <1>1, <1>7, ReceiveSendsStack, PointsAre DEF GetReceiveSends
  <2>2. Calm
    BY <1>1, <2>1, PushesCalm, MovesCalm DEF SendPoints, Busy, Call
  <2> QED  BY <1>7, <2>2, CalmLife DEF GetReceiveSends, ReceiveSends, msgs, signals
<1>8. CASE ReceiveFirst(t) \/ ReplyWake(t)
  <2>1. /\ Top(t).at \notin SendPoints
        /\ UNCHANGED <<msgq, dmsgq, ready, info, created>>
        /\ \/ Pops(t) /\ UNCHANGED sendlist
           \/ \E m \in sendlist[t] : Serves(t, m) /\ sendlist' = [sendlist EXCEPT ![t] = sendlist[t] \ {m}]
    BY <1>1, <1>8, ReceiveFirstStack, ReplyWakeStack DEF ReceiveFirst, ReplyWake, SendPoints, msgs
  <2>2. CASE Pops(t) /\ UNCHANGED sendlist
    BY <1>1, <2>1, <2>2, PopsCalm, CalmLife DEF queues
  <2> QED  BY <2>1, <2>2, ServesLife
<1> QED  BY <1>2, <1>3, <1>4, <1>5, <1>6, <1>7, <1>8 DEF Run

LEMMA ClientLife ==
  ASSUME TypeInv, Shape, Life, NEW t \in Thread, Client(t) \/ CodeReturn(t)
  PROVE  Life'
<1>1. StackOK /\ MsgsOK /\ now \in Nat
  BY DEF TypeInv, ClockOK
<1>2. ASSUME NEW h \in Handler, NEW d \in Delays \cup {Forever}, Post(t, h, d)
      PROVE  Life'
  <2>1. d \in Nat \cup {Forever} /\ HomeOf[h] \in Thread
    BY ConstantsOK, HomeIsThread
  <2>2. Pushes(t, "Code", CallOn(HomeOf[h], "PostPush", created + 1)) /\ Top(t).at = "Code" /\ NewMsg(t, h, d)
    BY <1>1, <1>2, <2>1, PostStack
  <2>3. UNCHANGED <<queues, ready>>
    BY <1>2 DEF Post, signals
  <2> QED  BY <2>1, <2>2, <2>3, CreateLife DEF Starting
<1>3. ASSUME NEW h \in Handler, SendHere(t, h)
      PROVE  Life'
  <2>1. /\ Pushes(t, "Code", CallOn(t, "Code", created + 1)) /\ Top(t).at = "Code"
        /\ NewMsg(t, h, Forever)
    BY <1>1, <1>3, SendHereStack
  <2>2. UNCHANGED <<queues, ready>>
    BY <1>3 DEF SendHere, signals
  <2>3. Forever \in Nat \cup {Forever} /\ "Code" \notin Starting
    BY DEF Starting
  <2> QED  BY <2>1, <2>2, <2>3, CreateLife
<1>4. ASSUME NEW h \in Handler, Send(t, h)
      PROVE  Life'
  <2>1. /\ Pushes(t, "Code", CallOn(HomeOf[h], "SendPush", created + 1)) /\ Top(t).at = "Code"
        /\ NewMsg(t, h, Forever) /\ HomeOf[h] \in Thread
    BY <1>1, <1>4, SendStack, HomeIsThread
  <2>2. UNCHANGED <<queues, ready>>
    BY <1>4 DEF Send, signals
  <2> QED  BY <2>1, <2>2, CreateLife DEF Starting
<1>5. ASSUME NEW h \in Handler, DestroyHandler(t, h)
      PROVE  Life'
  <2>1. UNCHANGED <<stack, info, created>> /\ exists \in SUBSET Thread
    BY <1>5 DEF DestroyHandler, msgs, TypeInv, ObjectsOK
  <2>2. Calm
    BY <2>1 DEF Calm, Fewer, Lasts, Stems, Persists, Depth
  <2>3. PICK S \in SUBSET Msg : Clear(S, exists)
    BY <1>5 DEF DestroyHandler
  <2> QED  BY <2>1, <2>2, <2>3, ClearLife
<1>6. ASSUME NEW u \in Worker, Quit(t, u)
      PROVE  Life'
  <2>1. Calm
    BY <1>1, <1>6, QuitStack, PushesCalm DEF CallOn, SendPoints
  <2> QED  BY <1>6, <2>1, CalmLife DEF Quit, msgs
<1>7. CASE CodeReturn(t)
  <2>1. Calm
    BY <1>1, <1>7, CodeReturnStack, PopsCalm DEF SendPoints
  <2> QED  BY <1>7, <2>1, CalmLife DEF CodeReturn, msgs, signals
<1> QED  BY <1>2, <1>3, <1>4, <1>5, <1>6, <1>7 DEF Client

LEMMA OwnerLife ==
  ASSUME TypeInv, Shape, Life, Deletion \/ (\E u \in Worker : DeleteThread(u)) \/ Tick
  PROVE  Life'
<1>1. StackOK
  BY DEF TypeInv
<1>2. ASSUME NEW u \in Worker, DeleteThread(u)
      PROVE  Life'
  <2>1. Calm
    BY <1>1, <1>2, DeleteThreadStack, PushesCalm DEF CallOn, SendPoints
  <2> QED  BY <1>2, <2>1, CalmLife DEF DeleteThread, msgs
<1>3. CASE StopWake \/ Join
  <2>1. Calm
    BY <1>1, <1>3, StopWakeStack, JoinStack, MovesCalm DEF SendPoints, Busy
  <2> QED  BY <1>3, <2>1, CalmLife DEF StopWake, Join, msgs, signals
<1>4. CASE DeleteClear
  <2>1. Calm /\ Main \in Thread /\ Top(Main) \in Frame
    BY <1>1, <1>4, DeleteClearStack, PopsCalm, TopIsFrame DEF SendPoints
  <2>2. {Top(Main).to} \in SUBSET Thread
    BY <2>1 DEF Frame
  <2>3. Clear(Msg, {Top(Main).to}) /\ UNCHANGED <<info, created>>
    BY <1>4 DEF DeleteClear, msgs
  <2>4. \A S \in SUBSET Thread : Clear(Msg, S) => Life'
    BY <2>1, <2>3, ClearLife
  <2> QED  BY <2>2, <2>3, <2>4
<1>5. CASE Tick
  <2>1. Calm
    BY <1>5 DEF Tick, Calm, Fewer, Lasts, Stems, Persists, Depth
  <2> QED  BY <1>5, <2>1, CalmLife DEF Tick, msgs, signals
<1> QED  BY <1>2, <1>3, <1>4, <1>5 DEF Deletion

LEMMA LifeInit == Init => Life
<1>1. SUFFICES ASSUME Init PROVE Life
  OBVIOUS
<1>2. \A t \in Thread : Depth(t) = 1 /\ stack[t][1].msg = NoMsg
  BY <1>1 DEF Init, Depth, Call
<1>3. \A m \in Msg : ~Queued(m) /\ ~ready[m] /\ m # NoMsg
  BY <1>1 DEF Init, Queued, Msg, NoMsg
<1>4. \A t \in Thread : msgq[t] = {} /\ dmsgq[t] = {} /\ sendlist[t] = {}
  BY <1>1 DEF Init
<1>5. Homed /\ Once /\ Replied /\ Awaited
  BY <1>2, <1>3, <1>4 DEF Homed, Once, Replied, Awaited, Held
<1> QED  BY <1>5 DEF Life

LEMMA LifeStep == TypeInv /\ Shape /\ Life /\ [Next]_vars => Life'
<1>1. ASSUME TypeInv, Shape, Life, Next
      PROVE  Life'
  BY <1>1, RunLife, ClientLife, OwnerLife DEF Next
<1>2. ASSUME TypeInv, Life, UNCHANGED vars
      PROVE  Life'
  <2>1. Calm
    BY <1>2 DEF vars, Calm, Fewer, Lasts, Stems, Persists, Depth
  <2> QED  BY <1>2, <2>1, CalmLife DEF vars, msgs, signals
<1> QED  BY <1>1, <1>2

----------------------------------------------------------------------------
(* Delayed messages.                                                       *)

\* No Get has read the clock in the future; what waits for no time is due at once; numbers of
\* arrival are taken in order.
Timed == /\ \A t \in Thread : clock[t].cur <= now
         /\ \A m \in Msg : /\ info[m].delay = Forever => info[m].trigger = 0
                           /\ info[m].arrival <= arrived
         /\ DelayedNotEarly /\ DelayedInOrder

\* A step that puts nothing in the queues of posted messages.
LEMMA QuietTimed ==
  ASSUME TypeInv, Life, Timed, now <= now', now' \in Nat, \A t \in Thread : clock'[t].cur <= now',
         arrived <= arrived', arrived' \in Nat,
         \A t \in Thread : msgq'[t] \subseteq msgq[t] /\ dmsgq'[t] \subseteq dmsgq[t],
         \A m \in Msg : /\ info'[m].delay = Forever => info'[m].trigger = 0
                        /\ info'[m].arrival <= arrived',
         \A t \in Thread : \A m \in msgq[t] \cup dmsgq[t] :
           info'[m].delay = info[m].delay /\ info'[m].trigger = info[m].trigger
           /\ info'[m].arrival = info[m].arrival
  PROVE  Timed'
<1>1. now \in Nat /\ \A m \in Msg : info[m].trigger \in Nat /\ info[m].arrival \in Nat
  BY DEF TypeInv, ClockOK, MsgsOK, Info
<1>2. \A t \in Thread : msgq[t] \subseteq Msg /\ dmsgq[t] \subseteq Msg
  BY DEF TypeInv, QueuesOK
<1>3. DelayedNotEarly'
  <2>1. SUFFICES ASSUME NEW t \in Thread, NEW m \in msgq'[t] PROVE info'[m].trigger <= now'
    BY DEF DelayedNotEarly
  <2>2. m \in Msg /\ info[m].trigger <= now /\ info'[m].trigger = info[m].trigger
    BY <1>2, <2>1 DEF Timed, DelayedNotEarly
  <2> QED  BY <1>1, <2>2
<1>4. DelayedInOrder'
  <2>1. SUFFICES ASSUME NEW t \in Thread, NEW m \in msgq'[t], NEW n \in dmsgq'[t],
                        info'[m].delay # Forever, info'[n].trigger <= info'[m].trigger
                 PROVE  info'[n].arrival > info'[m].arrival
    BY DEF DelayedInOrder
  <2>2. m \in msgq[t] /\ n \in dmsgq[t]
    BY <2>1
  <2>3. info[n].arrival > info[m].arrival
    BY <2>1, <2>2 DEF Timed, DelayedInOrder
  <2> QED  BY <2>2, <2>3
<1> QED  BY <1>3, <1>4 DEF Timed

\* A step that changes no message.
LEMMA SameTimed ==
  ASSUME TypeInv, Life, Timed, now <= now', now' \in Nat, \A t \in Thread : clock'[t].cur <= now',
         \A t \in Thread : msgq'[t] \subseteq msgq[t] /\ dmsgq'[t] \subseteq dmsgq[t],
         UNCHANGED <<info, arrived>>
  PROVE  Timed'
<1>1. arrived \in Nat
  BY DEF TypeInv, MsgsOK
<1>2. \A m \in Msg : /\ info'[m].delay = Forever => info'[m].trigger = 0
                     /\ info'[m].arrival <= arrived'
  BY DEF Timed
<1> QED  BY <1>1, <1>2, QuietTimed

LEMMA NewMsgTimed ==
  ASSUME TypeInv, Life, Timed, NEW t \in Thread, NEW h \in Handler, NEW d \in Nat \cup {Forever},
         NewMsg(t, h, d), UNCHANGED <<clock, queues, arrived, now>>
  PROVE  Timed'
<1>1. MsgsOK /\ now \in Nat /\ arrived \in Nat /\ QueuesOK
  BY DEF TypeInv, ClockOK, MsgsOK
<1>2. PICK k : k = created + 1
  OBVIOUS
<1>3. /\ created \in Nat /\ k \in Msg
      /\ \A m \in Msg : m <= created => info'[m] = info[m]
      /\ info'[k].delay = d /\ info'[k].arrival = 0
      /\ info'[k].trigger = IF d = Forever THEN 0 ELSE now + d
  <2>1. /\ created \in Nat /\ created + 1 \in Msg
        /\ \A m \in Msg : m <= created => info'[m] = info[m]
        /\ info'[created + 1].delay = d /\ info'[created + 1].arrival = 0
        /\ info'[created + 1].trigger = IF d = Forever THEN 0 ELSE now + d
    BY <1>1, NewMsgIs
  <2> QED  BY <1>2, <2>1
<1>4. \A m \in Msg : m # k => info'[m] = info[m]
  BY <1>1, <1>2 DEF NewMsg, MsgsOK
<1>5. \A m \in Msg : /\ info'[m].delay = Forever => info'[m].trigger = 0
                     /\ info'[m].arrival <= arrived
  BY <1>1, <1>3, <1>4 DEF Timed
<1>6. \A v \in Thread : \A m \in msgq[v] \cup dmsgq[v] : m \in Msg /\ m <= created
  BY <1>1 DEF Life, Homed, QueuesOK
<1>7. \A v \in Thread : \A m \in msgq[v] \cup dmsgq[v] : info'[m] = info[m]
  BY <1>3, <1>6
<1>8. \A v \in Thread : clock'[v].cur <= now'
  BY DEF Timed
<1> QED  BY <1>1, <1>5, <1>7, <1>8, QuietTimed DEF queues

LEMMA ArriveTimed ==
  ASSUME TypeInv, Timed, NEW m \in Msg, Arrive(m)
  PROVE  /\ arrived \in Nat /\ arrived' = arrived + 1
         /\ \A k \in Msg : /\ info'[k].delay = Forever => info'[k].trigger = 0
                           /\ info'[k].arrival <= arrived'
<1>1. MsgsOK /\ arrived \in Nat
  BY DEF TypeInv, MsgsOK
<1>2. arrived' = arrived + 1
      /\ \A k \in Msg : /\ info'[k].delay = info[k].delay /\ info'[k].trigger = info[k].trigger
                        /\ info'[k].arrival = IF k = m THEN arrived + 1 ELSE info[k].arrival
  BY <1>1, ArriveIs
<1>3. \A k \in Msg : info[k].arrival \in Nat /\ info[k].arrival <= arrived
  BY <1>1 DEF MsgsOK, Info, Timed
<1>4. \A k \in Msg : info'[k].arrival <= arrived'
  BY <1>1, <1>2, <1>3
<1> QED  BY <1>1, <1>2, <1>4 DEF Timed

LEMMA SendPushTimed ==
  ASSUME TypeInv, Shape, Life, Timed, NEW t \in Thread, SendPush(t)
  PROVE  Timed'
<1>1. StackOK /\ MsgsOK /\ QueuesOK /\ now \in Nat
  BY DEF TypeInv, ClockOK
<1>2. PICK m \in Msg : m = Top(t).msg /\ ~Queued(m)
  BY StartingAlone DEF SendPush, At, Starting
<1>3. Arrive(m) /\ UNCHANGED <<clock, msgq, dmsgq, now>>
  BY <1>2 DEF SendPush
<1>4. /\ arrived \in Nat /\ arrived' = arrived + 1
      /\ \A k \in Msg : /\ info'[k].delay = Forever => info'[k].trigger = 0
                        /\ info'[k].arrival <= arrived'
  BY <1>3, ArriveTimed
<1>5. \A v \in Thread : \A k \in msgq[v] \cup dmsgq[v] : k # m /\ k \in Msg
  BY <1>1, <1>2 DEF Queued, QueuesOK
<1>6. \A v \in Thread : \A k \in msgq[v] \cup dmsgq[v] :
        info'[k].delay = info[k].delay /\ info'[k].trigger = info[k].trigger
        /\ info'[k].arrival = info[k].arrival
  BY <1>1, <1>3, <1>5, ArriveIs
<1>7. \A v \in Thread : clock'[v].cur <= now'
  BY <1>3 DEF Timed
<1>8. arrived <= arrived' /\ arrived' \in Nat /\ now <= now' /\ now' \in Nat
  BY <1>1, <1>3, <1>4
<1> QED  BY <1>3, <1>4, <1>6, <1>7, <1>8, QuietTimed

LEMMA PostPushTimed ==
  ASSUME TypeInv, Shape, Life, Timed, NEW t \in Thread, PostPush(t)
  PROVE  Timed'
<1>1. StackOK /\ MsgsOK /\ QueuesOK /\ now \in Nat
  BY DEF TypeInv, ClockOK
<1>2. PICK m, u : m = Top(t).msg /\ u = Top(t).to
  OBVIOUS
<1>3. m \in Msg /\ ~Queued(m)
  BY <1>2, StartingAlone DEF PostPush, At, Starting
<1>4. Arrive(m) /\ UNCHANGED <<clock, now>>
  BY <1>2 DEF PostPush
<1>5. /\ arrived \in Nat /\ arrived' = arrived + 1
      /\ \A k \in Msg : /\ info'[k].delay = Forever => info'[k].trigger = 0
                        /\ info'[k].arrival <= arrived'
  BY <1>3, <1>4, ArriveTimed
<1>6. \A k \in Msg : /\ info'[k].delay = info[k].delay /\ info'[k].trigger = info[k].trigger
                     /\ k = m => info'[k].arrival = arrived + 1
                     /\ k # m => info'[k].arrival = info[k].arrival
  BY <1>1, <1>4, ArriveIs
<1>7. \A v \in Thread : \A k \in msgq[v] \cup dmsgq[v] : k # m /\ k \in Msg
  BY <1>1, <1>3 DEF Queued, QueuesOK
<1>8. \A k \in Msg : /\ info[k].trigger \in Nat /\ info[k].arrival \in Nat
                     /\ info[k].arrival <= arrived
  BY <1>1 DEF MsgsOK, Info, Timed
<1>9. \A v \in Thread : /\ msgq'[v] \subseteq msgq[v] \cup (IF info[m].delay = Forever THEN {m} ELSE {})
                        /\ dmsgq'[v] \subseteq dmsgq[v] \cup {m}
  BY <1>1, <1>2 DEF PostPush, QueuesOK
<1>10. DelayedNotEarly'
  <2>1. SUFFICES ASSUME NEW v \in Thread, NEW k \in msgq'[v] PROVE info'[k].trigger <= now
    BY <1>4 DEF DelayedNotEarly
  <2>2. CASE k \in msgq[v]
    BY <1>6, <1>7, <2>2 DEF Timed, DelayedNotEarly
  <2>3. CASE k = m /\ info[m].delay = Forever
    <3>1. info'[k].trigger = 0
      BY <1>3, <1>6, <2>3 DEF Timed
    <3> QED  BY <1>1, <3>1
  <2> QED  BY <1>9, <2>1, <2>2, <2>3
<1>11. DelayedInOrder'
  <2>1. SUFFICES ASSUME NEW v \in Thread, NEW k \in msgq'[v], NEW n \in dmsgq'[v],
                        info'[k].delay # Forever, info'[n].trigger <= info'[k].trigger
                 PROVE  info'[n].arrival > info'[k].arrival
    BY DEF DelayedInOrder
  <2>2. k \in msgq[v] /\ k \in Msg /\ k # m
    <3>1. k \in Msg
      BY <1>3, <1>7, <1>9, <2>1
    <3> QED  BY <1>6, <1>7, <1>9, <2>1, <3>1
  <2>3. CASE n = m
    BY <1>3, <1>5, <1>6, <1>8, <2>2, <2>3
  <2>4. CASE n \in dmsgq[v]
    BY <1>6, <1>7, <2>1, <2>2, <2>4 DEF Timed, DelayedInOrder
  <2> QED  BY <1>9, <2>1, <2>3, <2>4
<1> QED  BY <1>4, <1>5, <1>10, <1>11 DEF Timed

LEMMA GetMessageTimed ==
  ASSUME TypeInv, Life, Timed, NEW t \in Thread, GetMessage(t)
  PROVE  Timed'
<1>1. MsgsOK /\ MsgsOK' /\ QueuesOK /\ now \in Nat
  BY RunTypeB DEF TypeInv, ClockOK, RunB
<1>2. PICK T : T = Triggered(t)
  OBVIOUS
<1>3. /\ T \subseteq dmsgq[t] /\ msgq'[t] \subseteq msgq[t] \cup T /\ dmsgq'[t] = dmsgq[t] \ T
      /\ \A v \in Thread : v # t => msgq'[v] = msgq[v] /\ dmsgq'[v] = dmsgq[v]
      /\ \A k \in Msg : /\ info'[k].delay = info[k].delay /\ info'[k].trigger = info[k].trigger
                        /\ k \notin T => info'[k].arrival = info[k].arrival
                        /\ k \in T => info'[k].arrival <= arrived'
      /\ arrived <= arrived' /\ UNCHANGED <<clock, now>>
  BY <1>2, GetMessageIs
<1>4. \A k \in T : info[k].trigger <= clock[t].cur
  BY <1>2 DEF Triggered
<1>5. \A k \in dmsgq[t] \ T : ~(info[k].trigger <= clock[t].cur)
  BY <1>2 DEF Triggered
<1>6. \A k \in Msg : /\ info[k].trigger \in Nat /\ info[k].arrival \in Nat
                     /\ info[k].arrival <= arrived
  BY <1>1 DEF MsgsOK, Info, Timed
<1>7. clock[t].cur \in Nat /\ clock[t].cur <= now /\ arrived \in Nat /\ arrived' \in Nat
  BY <1>1 DEF TypeInv, ClockOK, Timed, MsgsOK
<1>8. \A k \in Msg : info'[k].arrival <= arrived'
  <2>1. SUFFICES ASSUME NEW k \in Msg, k \notin T PROVE info'[k].arrival <= arrived'
    BY <1>3
  <2>2. info'[k].arrival = info[k].arrival
    BY <1>3, <2>1
  <2> QED  BY <1>3, <1>6, <1>7, <2>2
<1>9. \A v \in Thread : msgq[v] \subseteq Msg /\ dmsgq[v] \subseteq Msg
  BY <1>1 DEF QueuesOK
<1>10. DelayedNotEarly'
  <2>1. SUFFICES ASSUME NEW v \in Thread, NEW k \in msgq'[v] PROVE info'[k].trigger <= now
    BY <1>3 DEF DelayedNotEarly
  <2>2. CASE k \in msgq[v]
    BY <1>3, <1>9, <2>2 DEF Timed, DelayedNotEarly
  <2>3. CASE k \in T
    <3>1. k \in Msg
      BY <1>3, <1>9, <2>3
    <3>2. info'[k].trigger = info[k].trigger /\ info[k].trigger \in Nat /\ info[k].trigger <= clock[t].cur
      BY <1>3, <1>4, <1>6, <2>3, <3>1
    <3> QED  BY <1>1, <1>7, <3>2
  <2> QED  BY <1>3, <2>1, <2>2, <2>3
<1>11. DelayedInOrder'
  <2>1. SUFFICES ASSUME NEW v \in Thread, NEW k \in msgq'[v], NEW n \in dmsgq'[v],
                        info'[k].delay # Forever, info'[n].trigger <= info'[k].trigger
                 PROVE  info'[n].arrival > info'[k].arrival
    BY DEF DelayedInOrder
  <2>2. n \in dmsgq[v] /\ n \in Msg /\ k \in Msg
    BY <1>3, <1>9, <2>1
  <2>3. n \notin T
    <3>1. SUFFICES ASSUME n \in T PROVE FALSE
      OBVIOUS
    <3>2. v # t /\ n \in dmsgq[t]
      BY <1>3, <2>1, <3>1
    <3> QED  BY <2>2, <3>2 DEF Life, Homed
  <2>4. CASE k \in T
    <3>1. v = t
      <4>1. SUFFICES ASSUME v # t PROVE FALSE
        OBVIOUS
      <4>2. k \in msgq[v] /\ k \in dmsgq[t]
        BY <1>3, <2>1, <2>4, <4>1
      <4> QED  BY <4>1, <4>2 DEF Life, Homed
    <3>2. ~(info[n].trigger <= clock[t].cur) /\ info[k].trigger <= clock[t].cur
      BY <1>4, <1>5, <2>2, <2>3, <2>4, <3>1
    <3>3. info[n].trigger <= info[k].trigger
      BY <1>3, <2>1, <2>2
    <3>4. info[n].trigger \in Nat /\ info[k].trigger \in Nat
      BY <1>6, <2>2
    <3> QED  BY <1>7, <3>2, <3>3, <3>4
  <2>5. CASE k \notin T
    <3>1. k \in msgq[v]
      BY <1>3, <2>1, <2>5
    <3>2. info[n].arrival > info[k].arrival
      BY <1>3, <2>1, <2>2, <3>1 DEF Timed, DelayedInOrder
    <3> QED  BY <1>3, <2>2, <2>3, <2>5, <3>2
  <2> QED  BY <2>4, <2>5
<1>12. \A v \in Thread : clock'[v].cur <= now'
  BY <1>3 DEF Timed
<1>13. \A k \in Msg : info'[k].delay = Forever => info'[k].trigger = 0
  BY <1>3 DEF Timed
<1> QED  BY <1>8, <1>10, <1>11, <1>12, <1>13 DEF Timed

LEMMA RunTimed ==
  ASSUME TypeInv, Shape, Life, Timed, NEW t \in Thread, Run(t)
  PROVE  Timed'
<1>1. ClockOK /\ now \in Nat
  BY DEF TypeInv, ClockOK
<1>2. CASE PostPush(t) \/ SendPush(t) \/ GetMessage(t)
  BY <1>2, PostPushTimed, SendPushTimed, GetMessageTimed
<1>3. CASE GetNothing(t) \/ GetStop(t) \/ GetWait(t)
  <2>1. \A v \in Thread : clock'[v].cur <= now
    <3>1. \A v \in Thread : clock'[v].cur = clock[v].cur \/ clock'[v].cur = now
      BY <1>1, <1>3 DEF GetNothing, GetStop, GetWait, ClockOK
    <3> QED  BY <1>1, <3>1 DEF Timed
  <2>2. UNCHANGED <<msgq, dmsgq, info, arrived, now>>
    BY <1>3 DEF GetNothing, GetStop, GetWait, queues, msgs
  <2> QED  BY <1>1, <2>1, <2>2, SameTimed
<1>4. CASE ~(PostPush(t) \/ SendPush(t) \/ GetMessage(t) \/ GetNothing(t) \/ GetStop(t) \/ GetWait(t))
  <2>1. UNCHANGED <<clock, msgq, dmsgq, info, arrived, now>>
    BY <1>4 DEF Run, QuitWake, SendWake, SendLoop, SendReceiveSends, GetReceiveSends, ReceiveSends,
       SendWait, SendReturn, ReceiveFirst, ReplyReady, ReplyWake, queues, msgs
  <2>2. \A v \in Thread : clock'[v].cur <= now
    BY <2>1 DEF Timed
  <2> QED  BY <1>1, <2>1, <2>2, SameTimed
<1> QED  BY <1>2, <1>3, <1>4

LEMMA ClearShrinks ==
  ASSUME QueuesOK, NEW S, NEW on, Clear(S, on)
  PROVE  \A v \in Thread : /\ msgq'[v] \subseteq msgq[v] /\ dmsgq'[v] \subseteq dmsgq[v]
                           /\ sendlist'[v] \subseteq sendlist[v]
BY DEF Clear

LEMMA RestTimed ==
  ASSUME TypeInv, Shape, Life, Timed,
         \/ \E t \in Thread : Client(t) \/ CodeReturn(t)
         \/ Deletion \/ (\E u \in Worker : DeleteThread(u)) \/ Tick \/ UNCHANGED vars
  PROVE  Timed'
<1>1. ClockOK /\ now \in Nat /\ QueuesOK
  BY DEF TypeInv, ClockOK
<1>2. \A v \in Thread : clock[v].cur \in Nat /\ clock[v].cur <= now
  BY <1>1 DEF ClockOK, Timed
<1>3. ASSUME NEW t \in Thread, NEW h \in Handler, NEW d \in Nat \cup {Forever}, NewMsg(t, h, d),
             UNCHANGED <<clock, queues, arrived, now>>
      PROVE  Timed'
  BY <1>3, NewMsgTimed
<1>4. ASSUME NEW t \in Thread, Client(t)
      PROVE  Timed'
  <2>1. ASSUME NEW h \in Handler, NEW d \in Delays \cup {Forever}, Post(t, h, d)
        PROVE  Timed'
    BY <1>3, <2>1, ConstantsOK DEF Post
  <2>2. ASSUME NEW h \in Handler, SendHere(t, h) \/ Send(t, h)
        PROVE  Timed'
    BY <1>3, <2>2 DEF SendHere, Send
  <2>3. ASSUME NEW h \in Handler, DestroyHandler(t, h)
        PROVE  Timed'
    <3>1. \A v \in Thread : msgq'[v] \subseteq msgq[v] /\ dmsgq'[v] \subseteq dmsgq[v]
      BY <1>1, <2>3, ClearShrinks DEF DestroyHandler
    <3>2. UNCHANGED <<clock, info, arrived, now>>
      BY <2>3 DEF DestroyHandler, msgs
    <3> QED  BY <1>1, <1>2, <3>1, <3>2, SameTimed
  <2>4. ASSUME NEW u \in Worker, Quit(t, u)
        PROVE  Timed'
    <3>1. UNCHANGED <<clock, msgq, dmsgq, info, arrived, now>>
      BY <2>4 DEF Quit, queues, msgs
    <3> QED  BY <1>1, <1>2, <3>1, SameTimed
  <2> QED  BY <1>4, <2>1, <2>2, <2>3, <2>4 DEF Client
<1>5. ASSUME NEW t \in Thread, CodeReturn(t)
      PROVE  Timed'
  <2>1. UNCHANGED <<msgq, dmsgq, info, arrived, now>>
    BY <1>5 DEF CodeReturn, queues, msgs
  <2>2. \A v \in Thread : clock'[v].cur <= now
    <3>1. \A v \in Thread : clock'[v].cur = clock[v].cur \/ clock'[v].cur = now
      BY <1>1, <1>5 DEF CodeReturn, ClockOK
    <3> QED  BY <1>1, <1>2, <3>1
  <2> QED  BY <1>1, <2>1, <2>2, SameTimed
<1>6. CASE DeleteClear
  <2>1. \A v \in Thread : msgq'[v] \subseteq msgq[v] /\ dmsgq'[v] \subseteq dmsgq[v]
    BY <1>1, <1>6, ClearShrinks DEF DeleteClear
  <2>2. UNCHANGED <<clock, info, arrived, now>>
    BY <1>6 DEF DeleteClear, msgs
  <2> QED  BY <1>1, <1>2, <2>1, <2>2, SameTimed
<1>7. CASE StopWake \/ Join \/ (\E u \in Worker : DeleteThread(u)) \/ UNCHANGED vars
  <2>1. UNCHANGED <<clock, msgq, dmsgq, info, arrived, now>>
    BY <1>7 DEF StopWake, Join, DeleteThread, queues, msgs, vars
  <2> QED  BY <1>1, <1>2, <2>1, SameTimed
<1>8. CASE Tick
  <2>1. now' = now + 1 /\ UNCHANGED <<clock, msgq, dmsgq, info, arrived>>
    BY <1>8 DEF Tick, queues, msgs
  <2>2. now <= now' /\ now' \in Nat /\ \A v \in Thread : clock[v].cur <= now'
    BY <1>1, <1>2, <2>1
  <2> QED  BY <2>1, <2>2, SameTimed
<1> QED  BY <1>4, <1>5, <1>6, <1>7, <1>8 DEF Deletion

LEMMA TimedInit == Init => Timed
BY ConstantsOK DEF Init, Timed, DelayedNotEarly, DelayedInOrder

LEMMA TimedStep == TypeInv /\ Shape /\ Life /\ Timed /\ [Next]_vars => Timed'
BY RunTimed, RestTimed DEF Next

----------------------------------------------------------------------------
(* The top frame after a step.                                             *)

LEMMA TopAfter ==
  ASSUME StackOK, NEW t \in Thread
  PROVE  /\ Others(t) => \A v \in Thread : v # t => Top(v)' = Top(v) /\ Depth(v)' = Depth(v)
         /\ \A p : Moves(t, p) =>
              Top(t)'.at = p /\ Top(t)'.to = Top(t).to /\ Top(t)'.msg = Top(t).msg
         /\ \A p, f : Pushes(t, p, f) => Top(t)' = f
         /\ \A m : Serves(t, m) => Top(t)' = CallOn(t, "Code", m)
         /\ Pops(t) => Top(t)' = stack[t][Depth(t) - 1]
<1>1. Depth(t) \in Nat /\ Top(t) = stack[t][Depth(t)]
  BY DepthIs
<1>2. Others(t) => \A v \in Thread : v # t => Top(v)' = Top(v) /\ Depth(v)' = Depth(v)
  BY DEF Others, Top, Depth
<1>3. Top(t)' = stack'[t][Depth(t)'] /\ Top(t) = stack[t][Depth(t)]
  BY DEF Top, Depth
<1>4. ASSUME NEW p, Moves(t, p)
      PROVE  Top(t)'.at = p /\ Top(t)'.to = Top(t).to /\ Top(t)'.msg = Top(t).msg
  BY <1>3, <1>4 DEF Moves, Becomes
<1>5. ASSUME NEW p, NEW f, Pushes(t, p, f)
      PROVE  Top(t)' = f
  BY <1>3, <1>5 DEF Pushes
<1>6. ASSUME NEW m, Serves(t, m)
      PROVE  Top(t)' = CallOn(t, "Code", m)
  BY <1>3, <1>6 DEF Serves
<1>7. ASSUME Pops(t)
      PROVE  Top(t)' = stack[t][Depth(t) - 1]
  <2>1. PICK n \in Nat : n = Depth(t)
    BY <1>1
  <2>2. Depth(t)' = n - 1 /\ n > 1
    BY <1>7, <2>1 DEF Pops
  <2>3. n - 1 \in 1..(n - 1)
    BY <2>2
  <2> QED  BY <1>3, <1>7, <2>1, <2>2, <2>3 DEF Pops, Rest
<1> QED  BY <1>2, <1>4, <1>5, <1>6, <1>7

\* A call returns to the code that made it, or ReceiveSends to the loop it is in.
LEMMA PopsTo ==
  ASSUME StackOK, Shape, NEW t \in Thread, Pops(t)
  PROVE  Top(t)'.at \in Below(Top(t).at) /\ Others(t)
<1>1. Depth(t) > 1
  BY DEF Pops
<1> QED  BY <1>1, BelowTop, TopAfter DEF Pops, Rest

Deleting == {"StopWake", "Join", "Delete"}
Keeps(t) == Others(t) /\ Top(t).at \notin {"Exited"} \cup Deleting /\ Top(t)'.at \notin Deleting

LEMMA MovesKeeps ==
  ASSUME StackOK, NEW t \in Thread, NEW p, Moves(t, p), p \notin Deleting,
         Top(t).at \notin {"Exited"} \cup Deleting
  PROVE  Keeps(t) /\ Top(t)'.at = p
BY TopAfter DEF Moves, Rest, Keeps

LEMMA PushesKeeps ==
  ASSUME StackOK, NEW t \in Thread, NEW p, NEW f, Pushes(t, p, f), f.at \notin Deleting,
         Top(t).at \notin {"Exited"} \cup Deleting
  PROVE  Keeps(t) /\ Top(t)' = f
BY TopAfter DEF Pushes, Rest, Keeps

LEMMA ServesKeeps ==
  ASSUME StackOK, NEW t \in Thread, NEW m, Serves(t, m), Top(t).at \notin {"Exited"} \cup Deleting
  PROVE  Keeps(t) /\ Top(t)'.at = "Code"
BY TopAfter DEF Serves, Rest, Keeps, CallOn, Deleting

LEMMA PopsKeeps ==
  ASSUME StackOK, Shape, NEW t \in Thread, Pops(t), Top(t).at \notin {"Exited"} \cup Deleting
  PROVE  Keeps(t) /\ Top(t)'.at \notin Starting
<1>1. Top(t)'.at \in Below(Top(t).at) /\ Others(t)
  BY PopsTo
<1>2. Below(Top(t).at) \cap (Deleting \cup Starting) = {}
  BY DEF Below, Deleting, Starting
<1> QED  BY <1>1, <1>2 DEF Keeps

LEMMA RunKeeps ==
  ASSUME TypeInv, Shape, NEW t \in Thread, Run(t)
  PROVE  Keeps(t) /\ Top(t)'.at \notin Starting
<1>1. StackOK /\ QueuesOK
  BY DEF TypeInv
<1>2. CASE PostPush(t) \/ QuitWake(t) \/ SendReturn(t)
  <2>1. Pops(t) /\ Top(t).at \in {"PostPush", "QuitWake", "SendLoop"}
    BY <1>1, <1>2, PostPushStack, QuitWakeStack, SendReturnStack
  <2> QED  BY <1>1, <2>1, PopsKeeps DEF Deleting
<1>3. CASE SendPush(t) \/ SendWake(t) \/ SendLoop(t) \/ SendWait(t) \/ ReplyReady(t)
  BY <1>1, <1>3, SendPushStack, SendWakeStack, SendLoopStack, SendWaitStack, ReplyReadyStack,
     MovesKeeps DEF Deleting, Starting
<1>4. CASE GetNothing(t) \/ GetStop(t) \/ GetWait(t)
  BY <1>1, <1>4, GetNothingStack, GetStopStack, GetWaitStack, MovesKeeps DEF Deleting, Starting
<1>5. CASE SendReceiveSends(t)
  <2>1. Top(t).at = "SendRecv" /\ (Pushes(t, "SendWait", Call(t, "RsPop")) \/ Moves(t, "SendWait"))
    BY <1>1, <1>5, ReceiveSendsStack, PointsAre DEF SendReceiveSends
  <2> QED  BY <1>1, <2>1, PushesKeeps, MovesKeeps DEF Call, Deleting, Starting
<1>6. CASE GetReceiveSends(t)
  <2>1. Top(t).at = "Top" /\ (Pushes(t, "Queues", Call(t, "RsPop")) \/ Moves(t, "Queues"))
    BY <1>1, <1>6, ReceiveSendsStack, PointsAre DEF GetReceiveSends
  <2> QED  BY <1>1, <2>1, PushesKeeps, MovesKeeps DEF Call, Deleting, Starting
<1>7. CASE ReceiveFirst(t) \/ ReplyWake(t)
  <2>1. /\ Top(t).at \in {"RsPop", "RsWake"}
        /\ Pops(t) \/ \E m \in sendlist[t] : Serves(t, m)
    BY <1>1, <1>7, ReceiveFirstStack, ReplyWakeStack
  <2>2. CASE Pops(t)
    BY <1>1, <2>1, <2>2, PopsKeeps DEF Deleting
  <2>3. ASSUME NEW m, Serves(t, m)
        PROVE  Keeps(t) /\ Top(t)'.at \notin Starting
    BY <1>1, <2>1, <2>3, ServesKeeps DEF Deleting, Starting
  <2> QED  BY <2>1, <2>2, <2>3
<1>8. CASE GetMessage(t)
  <2>1. PICK m, f : Pushes(t, "Top", f) /\ f = CallOn(t, "Code", m) /\ Top(t).at = "Queues"
    BY <1>1, <1>8, GetMessageStack
  <2>2. f.at = "Code"
    BY <2>1 DEF CallOn
  <2>3. Keeps(t) /\ Top(t)' = f
    BY <1>1, <2>1, <2>2, PushesKeeps DEF Deleting
  <2> QED  BY <2>2, <2>3 DEF Starting
<1> QED  BY <1>2, <1>3, <1>4, <1>5, <1>6, <1>7, <1>8 DEF Run

LEMMA ClientKeeps ==
  ASSUME TypeInv, Shape, NEW t \in Thread, Client(t) \/ CodeReturn(t)
  PROVE  /\ Keeps(t)
         /\ \/ Top(t)'.at \notin Starting
            \/ \E h \in Handler, d \in Delays \cup {Forever} : Post(t, h, d) \/ Send(t, h)
<1>1. StackOK /\ MsgsOK /\ now \in Nat
  BY DEF TypeInv, ClockOK
<1>2. ASSUME NEW h \in Handler, NEW d \in Delays \cup {Forever}, Post(t, h, d)
      PROVE  Keeps(t)
  <2>1. d \in Nat \cup {Forever}
    BY ConstantsOK
  <2> QED  BY <1>1, <1>2, <2>1, PostStack, PushesKeeps DEF CallOn, Deleting, Starting
<1>3. ASSUME NEW h \in Handler, SendHere(t, h)
      PROVE  Keeps(t) /\ Top(t)'.at \notin Starting
  <2>1. PICK m, f : Pushes(t, "Code", f) /\ f = CallOn(t, "Code", m) /\ Top(t).at = "Code"
    BY <1>1, <1>3, SendHereStack
  <2>2. f.at = "Code"
    BY <2>1 DEF CallOn
  <2>3. Keeps(t) /\ Top(t)' = f
    BY <1>1, <2>1, <2>2, PushesKeeps DEF Deleting
  <2> QED  BY <2>2, <2>3 DEF Starting
<1>4. ASSUME NEW h \in Handler, Send(t, h)
      PROVE  Keeps(t)
  BY <1>1, <1>4, SendStack, PushesKeeps DEF CallOn, Deleting, Starting
<1>5. ASSUME NEW h \in Handler, DestroyHandler(t, h)
      PROVE  Keeps(t) /\ Top(t)'.at \notin Starting
  BY <1>5 DEF DestroyHandler, Keeps, Others, Top, At, Deleting, Starting
<1>6. ASSUME NEW u \in Worker, Quit(t, u)
      PROVE  Keeps(t) /\ Top(t)'.at \notin Starting
  <2>1. PICK f : Pushes(t, "Code", f) /\ f = CallOn(u, "QuitWake", NoMsg) /\ Top(t).at = "Code"
    BY <1>1, <1>6, QuitStack
  <2>2. f.at = "QuitWake"
    BY <2>1 DEF CallOn
  <2>3. Keeps(t) /\ Top(t)' = f
    BY <1>1, <2>1, <2>2, PushesKeeps DEF Deleting
  <2> QED  BY <2>2, <2>3 DEF Starting
<1>7. CASE CodeReturn(t)
  BY <1>1, <1>7, CodeReturnStack, PopsKeeps DEF Deleting
<1> QED  BY <1>2, <1>3, <1>4, <1>5, <1>6, <1>7 DEF Client

----------------------------------------------------------------------------
(* Deleted threads.                                                        *)

\* A worker is deleted only when its Get has returned for good, and it does nothing any more.
Gone ==
  /\ Main \in exists
  /\ \A u \in Worker \ exists : At(u, "Exited")
  /\ Top(Main).at \in Deleting =>
       \E w \in Worker : Top(Main).to = w /\ (At(Main, "Delete") => At(w, "Exited"))

LEMMA KeepsGone ==
  ASSUME TypeInv, Gone, NEW t \in Thread, Keeps(t), exists \ Foreign \subseteq exists'
  PROVE  Gone'
<1>1. \A u \in Thread : At(u, "Exited") => At(u, "Exited")'
  BY TopAfter DEF TypeInv, Keeps, At
<1>2. Main \in exists'
  BY ConstantsOK DEF Gone
<1>3. ASSUME NEW u \in Worker, u \notin exists' PROVE At(u, "Exited")'
  BY <1>1, <1>3, ConstantsOK DEF Gone, Thread
<1>4. Top(Main)'.at \notin Deleting \/ Top(Main)' = Top(Main)
  BY TopAfter DEF TypeInv, Keeps, Thread
<1>5. ASSUME Top(Main)'.at \in Deleting
      PROVE  \E w \in Worker : Top(Main)'.to = w /\ (At(Main, "Delete")' => At(w, "Exited")')
  <2>1. Top(Main)' = Top(Main) /\ Top(Main).at \in Deleting
    BY <1>4, <1>5
  <2>2. PICK w \in Worker : Top(Main).to = w /\ (At(Main, "Delete") => At(w, "Exited"))
    BY <2>1 DEF Gone
  <2>3. w \in Thread
    BY DEF Thread
  <2> QED  BY <1>1, <2>1, <2>2, <2>3 DEF At
<1> QED  BY <1>2, <1>3, <1>5 DEF Gone

LEMMA GoneInit == Init => Gone
<1>1. SUFFICES ASSUME Init PROVE Gone
  OBVIOUS
<1>2. Top(Main).at = "Code"
  BY <1>1, ConstantsOK DEF Init, Top, Call, Thread
<1> QED  BY <1>1, <1>2 DEF Init, Gone, Deleting, At

LEMMA GoneStep == TypeInv /\ Shape /\ Gone /\ [Next]_vars => Gone'
<1>1. SUFFICES ASSUME TypeInv, Shape, Gone, [Next]_vars PROVE Gone'
  OBVIOUS
<1>2. StackOK /\ Main \in Thread /\ exists \subseteq Thread
  BY <1>1 DEF TypeInv, Thread, ObjectsOK
<1>3. ASSUME NEW t \in Thread, Run(t) PROVE Gone'
  <2>1. exists \ Foreign \subseteq exists'
    BY <1>3 DEF Run, PostPush, QuitWake, SendPush, SendWake, SendLoop, SendReceiveSends, SendWait,
       SendReturn, ReceiveFirst, ReplyReady, ReplyWake, GetReceiveSends, ReceiveSends, GetMessage,
       GetNothing, GetStop, GetWait, objects
  <2> QED  BY <1>1, <1>3, <2>1, RunKeeps, KeepsGone
<1>4. ASSUME NEW t \in Thread, Client(t) \/ CodeReturn(t) PROVE Gone'
  <2>1. exists' = exists
    BY <1>4 DEF Client, CodeReturn, Post, SendHere, Send, DestroyHandler, Quit, objects
  <2> QED  BY <1>1, <1>4, <2>1, ClientKeeps, KeepsGone
<1>5. ASSUME NEW u \in Worker, DeleteThread(u) PROVE Gone'
  <2>1. Pushes(Main, "Code", CallOn(u, "StopWake", NoMsg)) /\ Top(Main).at = "Code"
    BY <1>2, <1>5, DeleteThreadStack
  <2>2. Top(Main)' = CallOn(u, "StopWake", NoMsg) /\ \A v \in Thread : v # Main => Top(v)' = Top(v)
    BY <1>2, <2>1, TopAfter DEF Pushes, Rest
  <2>3. exists' = exists
    BY <1>5 DEF DeleteThread, objects
  <2>4. \A v \in Worker \ exists : At(v, "Exited")'
    BY <1>1, <2>2, ConstantsOK DEF Gone, At, Thread
  <2>5. Top(Main)'.to = u /\ ~At(Main, "Delete")'
    BY <2>2 DEF CallOn, At
  <2> QED  BY <1>1, <2>3, <2>4, <2>5 DEF Gone
<1>6. CASE StopWake
  <2>1. Moves(Main, "Join") /\ Top(Main).at = "StopWake"
    BY <1>2, <1>6, StopWakeStack
  <2>2. /\ Top(Main)'.at = "Join" /\ Top(Main)'.to = Top(Main).to
        /\ \A v \in Thread : v # Main => Top(v)' = Top(v)
    BY <1>2, <2>1, TopAfter DEF Moves, Rest
  <2>3. exists' = exists
    BY <1>6 DEF StopWake, objects
  <2>4. \A v \in Worker \ exists : At(v, "Exited")'
    BY <1>1, <2>2, ConstantsOK DEF Gone, At, Thread
  <2>5. \E w \in Worker : Top(Main)'.to = w /\ ~At(Main, "Delete")'
    BY <1>1, <2>1, <2>2 DEF Gone, Deleting, At
  <2> QED  BY <1>1, <2>3, <2>4, <2>5 DEF Gone
<1>7. CASE Join
  <2>1. Moves(Main, "Delete") /\ Top(Main).at = "Join" /\ At(Top(Main).to, "Exited")
    BY <1>2, <1>7, JoinStack DEF Join
  <2>2. /\ Top(Main)'.at = "Delete" /\ Top(Main)'.to = Top(Main).to
        /\ \A v \in Thread : v # Main => Top(v)' = Top(v)
    BY <1>2, <2>1, TopAfter DEF Moves, Rest
  <2>3. exists' = exists
    BY <1>7 DEF Join, objects
  <2>4. \A v \in Worker \ exists : At(v, "Exited")'
    BY <1>1, <2>2, ConstantsOK DEF Gone, At, Thread
  <2>5. Top(Main).to \in Worker
    BY <1>1, <2>1 DEF Gone, Deleting
  <2>6. PICK w \in Worker : w = Top(Main).to
    BY <2>5
  <2>7. At(w, "Exited")'
    BY <2>1, <2>2, <2>6, ConstantsOK DEF At, Thread
  <2> QED  BY <1>1, <2>2, <2>3, <2>4, <2>6, <2>7 DEF Gone
<1>8. CASE DeleteClear
  <2>1. Pops(Main) /\ Top(Main).at = "Delete" /\ exists' = exists \ {Top(Main).to}
    BY <1>2, <1>8, DeleteClearStack DEF DeleteClear
  <2>2. Top(Main)'.at \in Below("Delete") /\ \A v \in Thread : v # Main => Top(v)' = Top(v)
    BY <1>1, <1>2, <2>1, PopsTo, TopAfter
  <2>3. Top(Main)'.at \notin Deleting
    BY <2>2, BelowIs DEF Deleting
  <2>4. Top(Main).to \in Worker /\ At(Top(Main).to, "Exited")
    BY <1>1, <2>1 DEF Gone, Deleting, At
  <2>5. \A v \in Worker \ exists' : At(v, "Exited")
    BY <1>1, <2>1, <2>4 DEF Gone
  <2>6. \A v \in Worker \ exists' : At(v, "Exited")'
    BY <2>2, <2>5, ConstantsOK DEF At, Thread
  <2>7. Main \in exists'
    BY <1>1, <2>1, <2>4, ConstantsOK DEF Gone
  <2> QED  BY <2>3, <2>6, <2>7 DEF Gone, At, Deleting
<1>9. CASE Tick \/ UNCHANGED vars
  <2>1. UNCHANGED <<stack, exists>>
    BY <1>9 DEF Tick, vars, objects
  <2> QED  BY <1>1, <2>1 DEF Gone, At, Top
<1> QED  BY <1>1, <1>3, <1>4, <1>5, <1>6, <1>7, <1>8, <1>9 DEF Next, Deletion

----------------------------------------------------------------------------
(* Who is sent to.                                                         *)

Shrinks(u) == sendlist'[u] \subseteq sendlist[u] /\ (hasSends'[u] => hasSends[u])

LEMMA NextSendShrinks ==
  ASSUME TypeInv, NEW t \in Thread, NextSend(t)
  PROVE  \A u \in Thread : Shrinks(u)
<1>1. QueuesOK /\ SignalsOK
  BY DEF TypeInv
<1>2. CASE UNCHANGED sendlist /\ hasSends' = [hasSends EXCEPT ![t] = FALSE]
  BY <1>1, <1>2, Zenon DEF Shrinks, SignalsOK
<1>3. ASSUME NEW m, sendlist' = [sendlist EXCEPT ![t] = @ \ {m}], UNCHANGED hasSends
      PROVE  \A u \in Thread : Shrinks(u)
  BY <1>1, <1>3 DEF Shrinks, QueuesOK
<1> QED  BY <1>2, <1>3 DEF NextSend

LEMMA SendsShrink ==
  ASSUME TypeInv, [Next]_vars, NEW u \in Thread
  PROVE  Shrinks(u) \/ \E t \in Thread : SendPush(t) /\ Top(t).to = u
<1>1. QueuesOK /\ SignalsOK
  BY DEF TypeInv
<1>2. ASSUME NEW t \in Thread, SendPush(t), Top(t).to # u PROVE Shrinks(u)
  <2>1. sendlist'[u] = sendlist[u]
    BY <1>1, <1>2 DEF SendPush, QueuesOK
  <2>2. hasSends'[u] = hasSends[u]
    BY <1>1, <1>2, Zenon DEF SendPush, SignalsOK
  <2> QED  BY <2>1, <2>2 DEF Shrinks
<1>3. ASSUME NEW t \in Thread, ReceiveFirst(t) \/ ReplyWake(t) PROVE Shrinks(u)
  BY <1>3, NextSendShrinks DEF ReceiveFirst, ReplyWake
<1>4. ASSUME NEW t \in Thread, NEW h \in Handler, DestroyHandler(t, h) PROVE Shrinks(u)
  <2>1. UNCHANGED hasSends /\ sendlist'[u] \subseteq sendlist[u]
    BY <1>1, <1>4, ClearShrinks DEF DestroyHandler
  <2> QED  BY <2>1 DEF Shrinks
<1>5. ASSUME DeleteClear PROVE Shrinks(u)
  <2>1. UNCHANGED hasSends /\ sendlist'[u] \subseteq sendlist[u]
    BY <1>1, <1>5, ClearShrinks DEF DeleteClear
  <2> QED  BY <2>1 DEF Shrinks
<1>6. ASSUME UNCHANGED <<sendlist, hasSends>> PROVE Shrinks(u)
  BY <1>6 DEF Shrinks
<1>7. ASSUME NEW t \in Thread, Run(t), ~SendPush(t), ~ReceiveFirst(t), ~ReplyWake(t)
      PROVE  UNCHANGED <<sendlist, hasSends>>
  BY <1>7 DEF Run, PostPush, QuitWake, SendWake, SendLoop, SendReceiveSends, SendWait, SendReturn,
     ReplyReady, GetReceiveSends, ReceiveSends, GetMessage, GetNothing, GetStop, GetWait, queues, signals
<1>8. ASSUME NEW t \in Thread, Client(t) \/ CodeReturn(t)
      PROVE  UNCHANGED <<sendlist, hasSends>> \/ \E h \in Handler : DestroyHandler(t, h)
  BY <1>8 DEF Client, CodeReturn, Post, SendHere, Send, Quit, queues, signals
<1>9. ASSUME StopWake \/ Join \/ (\E w \in Worker : DeleteThread(w)) \/ Tick \/ UNCHANGED vars
      PROVE  UNCHANGED <<sendlist, hasSends>>
  BY <1>9 DEF StopWake, Join, DeleteThread, Tick, vars, queues, signals
<1> QED  BY <1>2, <1>3, <1>4, <1>5, <1>6, <1>7, <1>8, <1>9 DEF Next, Deletion

----------------------------------------------------------------------------
(* Threads nobody sends to.                                                *)

\* A foreign thread runs no handler: it is in its own code, or in one call. While it is in Send it
\* has a Thread object. Nothing is sent to a thread that is no worker.
Outside ==
  /\ \A t \in Foreign : \/ Depth(t) = 1 /\ At(t, "Code")
                        \/ Depth(t) = 2 /\ Top(t).at \in SendPoints \cup CallPoints
  /\ \A t \in Foreign : Top(t).at \in SendPoints => t \in exists
  /\ \A t \in Thread \ Worker : sendlist[t] = {} /\ ~hasSends[t]

LEMMA PopsOutside ==
  ASSUME TypeInv, Shape, Outside, NEW t \in Foreign, Pops(t)
  PROVE  Depth(t)' = 1 /\ At(t, "Code")'
<1>1. StackOK /\ t \in Thread
  BY DEF TypeInv, Thread
<1>2. Depth(t) = 2 /\ Top(t).at \in SendPoints \cup CallPoints
  BY DEF Outside, Pops
<1>3. Below(Top(t).at) = {"Code"}
  BY <1>2, BelowIs DEF SendPoints, CallPoints
<1>4. Top(t)'.at = "Code"
  BY <1>1, <1>3, PopsTo
<1> QED  BY <1>2, <1>4 DEF Pops, At

LEMMA MovesOutside ==
  ASSUME TypeInv, Outside, NEW t \in Foreign, NEW p, Moves(t, p), Top(t).at # "Code", p \in SendPoints
  PROVE  Depth(t)' = 2 /\ Top(t)'.at = p
<1>1. StackOK /\ t \in Thread
  BY DEF TypeInv, Thread
<1>2. Depth(t) = 2
  BY DEF Outside, At
<1> QED  BY <1>1, <1>2, TopAfter DEF Moves

LEMMA PushesOutside ==
  ASSUME TypeInv, Outside, NEW t \in Foreign, NEW p, NEW f, Pushes(t, p, f), Top(t).at = "Code"
  PROVE  Depth(t)' = 2 /\ Top(t)' = f
<1>1. StackOK /\ t \in Thread
  BY DEF TypeInv, Thread
<1>2. Depth(t) = 1
  BY DEF Outside, SendPoints, CallPoints
<1> QED  BY <1>1, <1>2, TopAfter DEF Pushes

\* What a foreign thread does.
LEMMA ForeignRun ==
  ASSUME TypeInv, Shape, Outside, NEW t \in Foreign, Run(t)
  PROVE  \/ Depth(t)' = 1 /\ At(t, "Code")'
         \/ Depth(t)' = 2 /\ Top(t)'.at \in SendPoints /\ t \in exists'
<1>1. StackOK /\ QueuesOK /\ t \in Thread
  BY DEF TypeInv, Thread
<1>2. Top(t).at \in {"Code"} \cup SendPoints \cup CallPoints
  BY DEF Outside, At
<1>3. CASE PostPush(t) \/ QuitWake(t) \/ SendReturn(t)
  <2>1. Pops(t)
    BY <1>1, <1>3, PostPushStack, QuitWakeStack, SendReturnStack
  <2> QED  BY <2>1, PopsOutside
<1>4. CASE SendPush(t)
  <2>1. Moves(t, "SendWake") /\ Top(t).at = "SendPush" /\ t \in exists'
    BY <1>1, <1>4, SendPushStack DEF SendPush
  <2> QED  BY <2>1, MovesOutside DEF SendPoints
<1>5. CASE SendWake(t) \/ SendLoop(t) \/ SendWait(t)
  <2>1. PICK p \in SendPoints : Moves(t, p) /\ Top(t).at \in SendPoints
    BY <1>1, <1>5, SendWakeStack, SendLoopStack, SendWaitStack DEF SendPoints
  <2>2. t \in exists'
    BY <1>5, <2>1 DEF Outside, SendWake, SendLoop, SendWait, objects
  <2> QED  BY <2>1, <2>2, MovesOutside DEF SendPoints
<1>6. CASE SendReceiveSends(t)
  <2>1. ~hasSends[t]
    BY <1>1, ConstantsOK DEF Outside
  <2>2. Moves(t, "SendWait") /\ Top(t).at = "SendRecv"
    BY <1>1, <1>6, <2>1, ReceiveSendsStack, PointsAre DEF SendReceiveSends
  <2>3. t \in exists'
    BY <1>6, <2>2 DEF Outside, SendReceiveSends, ReceiveSends, objects, SendPoints
  <2> QED  BY <2>2, <2>3, MovesOutside DEF SendPoints
<1>7. CASE ReceiveFirst(t) \/ ReplyReady(t) \/ ReplyWake(t) \/ GetReceiveSends(t) \/ GetMessage(t)
           \/ GetNothing(t) \/ GetStop(t) \/ GetWait(t)
  BY <1>2, <1>7 DEF ReceiveFirst, ReplyReady, ReplyWake, GetReceiveSends, ReceiveSends, GetMessage,
     GetNothing, GetStop, GetWait, At, SendPoints, CallPoints
<1> QED  BY <1>3, <1>4, <1>5, <1>6, <1>7 DEF Run

LEMMA ForeignCode ==
  ASSUME TypeInv, Shape, Outside, NEW t \in Foreign, Client(t) \/ CodeReturn(t)
  PROVE  Depth(t)' = 2 /\ Top(t)'.at \in CallPoints
<1>1. StackOK /\ MsgsOK /\ now \in Nat /\ t \in Thread /\ t \notin Worker
  BY ConstantsOK DEF TypeInv, ClockOK, Thread
<1>2. ASSUME NEW h \in Handler, NEW d \in Delays \cup {Forever}, Post(t, h, d)
      PROVE  Depth(t)' = 2 /\ Top(t)'.at \in CallPoints
  <2>1. d \in Nat \cup {Forever}
    BY ConstantsOK
  <2>2. PICK m, f : f = CallOn(HomeOf[h], "PostPush", m) /\ Pushes(t, "Code", f) /\ Top(t).at = "Code"
    BY <1>1, <1>2, <2>1, PostStack
  <2> QED  BY <2>2, PushesOutside DEF CallOn, CallPoints
<1>3. ASSUME NEW h \in Handler, SendHere(t, h) \/ DestroyHandler(t, h)
      PROVE  FALSE
  BY <1>1, <1>3, ConstantsOK DEF SendHere, DestroyHandler
<1>4. ASSUME NEW h \in Handler, Send(t, h)
      PROVE  Depth(t)' = 2 /\ Top(t)'.at \in CallPoints
  <2>1. PICK m, f : f = CallOn(HomeOf[h], "SendPush", m) /\ Pushes(t, "Code", f) /\ Top(t).at = "Code"
    BY <1>1, <1>4, SendStack
  <2> QED  BY <2>1, PushesOutside DEF CallOn, CallPoints
<1>5. ASSUME NEW u \in Worker, Quit(t, u)
      PROVE  Depth(t)' = 2 /\ Top(t)'.at \in CallPoints
  <2>1. PICK f : f = CallOn(u, "QuitWake", NoMsg) /\ Pushes(t, "Code", f) /\ Top(t).at = "Code"
    BY <1>1, <1>5, QuitStack
  <2> QED  BY <2>1, PushesOutside DEF CallOn, CallPoints
<1>6. CASE CodeReturn(t)
  BY <1>1, <1>6 DEF CodeReturn, Outside, At, SendPoints, CallPoints
<1> QED  BY <1>2, <1>3, <1>4, <1>5, <1>6 DEF Client

\* The Thread object that a Send made for a foreign thread goes only when that Send returns.
LEMMA ObjectStays ==
  ASSUME TypeInv, Shape, Gone, [Next]_vars, NEW t \in Foreign, t \in exists
  PROVE  t \in exists' \/ SendReturn(t)
<1>1. ASSUME NEW u \in Thread, Run(u) PROVE t \in exists' \/ SendReturn(t)
  BY <1>1 DEF Run, PostPush, QuitWake, SendPush, SendWake, SendLoop, SendReceiveSends, SendWait,
     SendReturn, ReceiveFirst, ReplyReady, ReplyWake, GetReceiveSends, ReceiveSends, GetMessage,
     GetNothing, GetStop, GetWait, objects
<1>2. ASSUME NEW u \in Thread, Client(u) \/ CodeReturn(u) PROVE exists' = exists
  BY <1>2 DEF Client, CodeReturn, Post, SendHere, Send, DestroyHandler, Quit, objects
<1>3. ASSUME StopWake \/ Join \/ (\E w \in Worker : DeleteThread(w)) \/ Tick \/ UNCHANGED vars
      PROVE  exists' = exists
  BY <1>3 DEF StopWake, Join, DeleteThread, Tick, vars, objects
<1>4. ASSUME DeleteClear PROVE t \in exists'
  <2>1. exists' = exists \ {Top(Main).to} /\ Top(Main).to \in Worker
    BY <1>4 DEF DeleteClear, Gone, At, Deleting
  <2> QED  BY <2>1, ConstantsOK
<1> QED  BY <1>1, <1>2, <1>3, <1>4 DEF Next, Deletion

LEMMA OutsideInit == Init => Outside
<1>1. SUFFICES ASSUME Init PROVE Outside
  OBVIOUS
<1>2. \A t \in Foreign : Depth(t) = 1 /\ At(t, "Code")
  BY <1>1, ConstantsOK DEF Init, Depth, At, Top, Call, Thread
<1>3. \A t \in Thread : sendlist[t] = {} /\ ~hasSends[t]
  BY <1>1 DEF Init
<1> QED  BY <1>2, <1>3 DEF Outside, At, SendPoints

LEMMA OutsideStep == TypeInv /\ Shape /\ Life /\ Gone /\ Outside /\ [Next]_vars => Outside'
<1>1. SUFFICES ASSUME TypeInv, Shape, Life, Gone, Outside, [Next]_vars PROVE Outside'
  OBVIOUS
<1>2. \A t \in Thread \ Worker : sendlist'[t] = {} /\ ~hasSends'[t]
  <2>1. SUFFICES ASSUME NEW t \in Thread, t \notin Worker PROVE sendlist'[t] = {} /\ ~hasSends'[t]
    OBVIOUS
  <2>2. ~\E u \in Thread : SendPush(u) /\ Top(u).to = t
    <3>1. SUFFICES ASSUME NEW u \in Thread, SendPush(u) PROVE Top(u).to \in Worker
      BY <2>1
    <3>2. Top(u).msg \in Msg /\ Top(u).to = Home(Top(u).msg)
      BY <1>1, <3>1, StartingAlone DEF SendPush, At, Starting
    <3> QED  BY <1>1, <3>2, ConstantsOK DEF Home, TypeInv, MsgsOK, Info
  <2> QED  BY <1>1, <2>1, <2>2, SendsShrink DEF Shrinks, Outside
<1>3. ASSUME NEW t \in Foreign
      PROVE  /\ \/ Depth(t)' = 1 /\ At(t, "Code")'
                \/ Depth(t)' = 2 /\ Top(t)'.at \in SendPoints \cup CallPoints
             /\ Top(t)'.at \in SendPoints => t \in exists'
  <2>1. t \in Thread /\ t # Main /\ Main \in Thread /\ StackOK
    BY <1>1, ConstantsOK DEF Thread, TypeInv
  <2>2. CASE Run(t)
    BY <1>1, <2>2, ForeignRun DEF At, SendPoints
  <2>3. CASE Client(t) \/ CodeReturn(t)
    BY <1>1, <2>3, ForeignCode DEF SendPoints, CallPoints
  <2>4. ASSUME Top(t)' = Top(t), Depth(t)' = Depth(t), ~SendReturn(t)
        PROVE  /\ \/ Depth(t)' = 1 /\ At(t, "Code")'
                  \/ Depth(t)' = 2 /\ Top(t)'.at \in SendPoints \cup CallPoints
               /\ Top(t)'.at \in SendPoints => t \in exists'
    BY <1>1, <2>4, ObjectStays DEF Outside, At
  <2>5. CASE ~Run(t) /\ ~Client(t) /\ ~CodeReturn(t)
    <3>1. ~SendReturn(t)
      BY <2>5 DEF Run
    <3>2. ASSUME NEW u \in Thread, Run(u) \/ Client(u) \/ CodeReturn(u)
          PROVE  Others(u) /\ u # t
      BY <1>1, <2>5, <3>2, RunKeeps, ClientKeeps DEF Keeps
    <3>3. ASSUME Deletion \/ \E w \in Worker : DeleteThread(w)
          PROVE  Others(Main)
      BY <2>1, <3>3, StopWakeStack, JoinStack, DeleteClearStack, DeleteThreadStack
         DEF Deletion, Moves, Pops, Pushes, Rest
    <3>4. ASSUME Tick \/ UNCHANGED vars PROVE UNCHANGED stack
      BY <3>4 DEF Tick, vars
    <3>5. Top(t)' = Top(t) /\ Depth(t)' = Depth(t)
      <4>1. \A u \in Thread : Others(u) /\ u # t => Top(t)' = Top(t) /\ Depth(t)' = Depth(t)
        BY <2>1, TopAfter
      <4>2. UNCHANGED stack => Top(t)' = Top(t) /\ Depth(t)' = Depth(t)
        BY DEF Top, Depth
      <4> QED  BY <1>1, <2>1, <3>2, <3>3, <3>4, <4>1, <4>2 DEF Next
    <3> QED  BY <2>4, <3>1, <3>5
  <2> QED  BY <2>2, <2>3, <2>5
<1> QED  BY <1>2, <1>3 DEF Outside

----------------------------------------------------------------------------
(* Destroyed handlers.                                                     *)

\* The handler of a message that will run, or that a call is about to queue, exists.
Alive ==
  /\ \A m \in Msg : Queued(m) => info[m].handler \in handlers
  /\ \A t \in Thread : Top(t).at \in Starting => info[Top(t).msg].handler \in handlers

Begun(m) == \E t \in Thread : Top(t).at \in Starting /\ Top(t).msg = m

LEMMA LiveMsg ==
  ASSUME TypeInv, Shape, Life, Alive, NEW m \in Msg, Queued(m) \/ Begun(m)
  PROVE  m <= created /\ info[m].handler \in handlers
<1>1. CASE Queued(m)
  BY <1>1 DEF Queued, Life, Homed, Alive
<1>2. CASE Begun(m)
  BY <1>2, StartingAlone DEF Begun, Alive
<1> QED  BY <1>1, <1>2

\* A step that destroys nothing and calls neither Post nor Send.
LEMMA KeepsAlive ==
  ASSUME TypeInv, Shape, Life, Alive, UNCHANGED handlers,
         \A m \in Msg : Queued(m)' => Queued(m) \/ Begun(m),
         \A t \in Thread : Top(t)'.at \in Starting => Top(t)' = Top(t),
         \A m \in Msg : m <= created => info'[m].handler = info[m].handler
  PROVE  Alive'
<1>1. \A m \in Msg : Queued(m)' => info'[m].handler \in handlers
  BY LiveMsg
<1>2. ASSUME NEW t \in Thread, Top(t)'.at \in Starting
      PROVE  info'[Top(t)'.msg].handler \in handlers
  <2>1. PICK m : m = Top(t).msg
    OBVIOUS
  <2>2. Top(t).at \in Starting /\ Top(t)'.msg = m
    BY <1>2, <2>1
  <2>3. m \in Msg /\ m <= created
    BY <2>1, <2>2, StartingAlone
  <2>4. info[m].handler \in handlers
    BY <2>1, <2>2 DEF Alive
  <2> QED  BY <2>2, <2>3, <2>4
<1> QED  BY <1>1, <1>2 DEF Alive

\* The messages in the queues after a step were there before, or it pushed them.
LEMMA RunQueued ==
  ASSUME TypeInv, NEW t \in Thread, Run(t), NEW m \in Msg, Queued(m)'
  PROVE  Queued(m) \/ Begun(m)
<1>1. QueuesOK
  BY DEF TypeInv
<1>2. CASE PostPush(t)
  <2>1. PICK k, u : k = Top(t).msg /\ u = Top(t).to /\ Top(t).at = "PostPush"
    BY <1>2 DEF PostPush, At
  <2>2. \A v \in Thread : /\ msgq'[v] \cup dmsgq'[v] \subseteq msgq[v] \cup dmsgq[v] \cup {k}
                          /\ sendlist'[v] = sendlist[v]
    BY <1>1, <1>2, <2>1 DEF PostPush, QueuesOK
  <2> QED  BY <2>1, <2>2 DEF Queued, Begun, Starting
<1>3. CASE SendPush(t)
  <2>1. PICK k, u : k = Top(t).msg /\ u = Top(t).to /\ Top(t).at = "SendPush"
    BY <1>3 DEF SendPush, At
  <2>2. \A v \in Thread : /\ msgq'[v] = msgq[v] /\ dmsgq'[v] = dmsgq[v]
                          /\ sendlist'[v] \subseteq sendlist[v] \cup {k}
    BY <1>1, <1>3, <2>1 DEF SendPush, QueuesOK
  <2> QED  BY <2>1, <2>2 DEF Queued, Begun, Starting
<1>4. CASE GetMessage(t)
  <2>1. \A v \in Thread : /\ msgq'[v] \cup dmsgq'[v] \subseteq msgq[v] \cup dmsgq[v]
                          /\ sendlist'[v] = sendlist[v]
    BY <1>4, GetMessageIs
  <2> QED  BY <2>1 DEF Queued
<1>5. CASE ReceiveFirst(t) \/ ReplyWake(t)
  <2>1. UNCHANGED <<msgq, dmsgq>> /\ \A v \in Thread : sendlist'[v] \subseteq sendlist[v]
    BY <1>5, NextSendShrinks DEF ReceiveFirst, ReplyWake, Shrinks
  <2> QED  BY <2>1 DEF Queued
<1>6. CASE ~PostPush(t) /\ ~SendPush(t) /\ ~GetMessage(t) /\ ~ReceiveFirst(t) /\ ~ReplyWake(t)
  <2>1. UNCHANGED queues
    BY <1>6 DEF Run, QuitWake, SendWake, SendLoop, SendReceiveSends, SendWait, SendReturn,
       ReplyReady, GetReceiveSends, ReceiveSends, GetNothing, GetStop, GetWait, queues
  <2> QED  BY <2>1 DEF Queued, queues
<1> QED  BY <1>2, <1>3, <1>4, <1>5, <1>6

LEMMA RunAlive ==
  ASSUME TypeInv, Shape, Life, Alive, NEW t \in Thread, Run(t)
  PROVE  Alive'
<1>1. StackOK /\ MsgsOK
  BY DEF TypeInv
<1>2. \A m \in Msg : Queued(m)' => Queued(m) \/ Begun(m)
  BY RunQueued
<1>3. \A v \in Thread : Top(v)'.at \in Starting => Top(v)' = Top(v)
  BY <1>1, RunKeeps, TopAfter DEF Keeps
<1>4. \A m \in Msg : info'[m].handler = info[m].handler
  <2>1. CASE PostPush(t) \/ SendPush(t)
    <3>1. \E m : Arrive(m)
      BY <2>1 DEF PostPush, SendPush
    <3> QED  BY <1>1, <3>1, ArriveIs
  <2>2. CASE GetMessage(t)
    BY <2>2, GetMessageIs
  <2>3. CASE ~PostPush(t) /\ ~SendPush(t) /\ ~GetMessage(t)
    BY <2>3 DEF Run, QuitWake, SendWake, SendLoop, SendReceiveSends, SendWait, SendReturn,
       ReceiveFirst,
       ReplyWake, ReplyReady, GetReceiveSends, ReceiveSends, GetNothing, GetStop, GetWait, msgs
  <2> QED  BY <2>1, <2>2, <2>3
<1>5. UNCHANGED handlers
  BY DEF Run, PostPush, QuitWake, SendPush, SendWake, SendLoop, SendReceiveSends, SendWait,
     SendReturn, ReceiveFirst, ReplyReady, ReplyWake, GetReceiveSends, ReceiveSends, GetMessage,
     GetNothing, GetStop, GetWait, objects
<1> QED  BY <1>2, <1>3, <1>4, <1>5, KeepsAlive

\* Post or Send: the handler exists, and so does the message from now on.
LEMMA CallAlive ==
  ASSUME TypeInv, Shape, Life, Alive, NEW t \in Thread, NEW h \in Handler, NEW d \in Nat \cup {Forever},
         NewMsg(t, h, d), NEW u, NEW p,
         Pushes(t, "Code", CallOn(u, p, created + 1)), UNCHANGED <<queues, handlers>>
  PROVE  Alive'
<1>1. StackOK /\ MsgsOK /\ now \in Nat
  BY DEF TypeInv, ClockOK
<1>2. PICK k : k = created + 1
  OBVIOUS
<1>3. /\ created \in Nat /\ k \in Msg /\ info'[k].handler = h
      /\ \A m \in Msg : m <= created => info'[m] = info[m]
  <2>1. /\ created \in Nat /\ created + 1 \in Msg /\ info'[created + 1].handler = h
        /\ \A m \in Msg : m <= created => info'[m] = info[m]
    BY <1>1, NewMsgIs
  <2> QED  BY <1>2, <2>1
<1>4. h \in handlers
  BY DEF NewMsg
<1>5. \A m \in Msg : Queued(m)' => info'[m].handler \in handlers
  <2>1. \A m \in Msg : Queued(m)' => Queued(m)
    BY DEF Queued, queues
  <2> QED  BY <1>3, <2>1, LiveMsg
<1>6. Top(t)'.msg = k /\ \A v \in Thread : v # t => Top(v)' = Top(v)
  <2>1. Top(t)' = CallOn(u, p, k) /\ Others(t)
    BY <1>1, <1>2, TopAfter DEF Pushes, Rest
  <2> QED  BY <1>1, <2>1, TopAfter DEF CallOn
<1>7. ASSUME NEW v \in Thread, v # t, Top(v)'.at \in Starting
      PROVE  info'[Top(v)'.msg].handler \in handlers
  <2>1. PICK m : m = Top(v).msg
    OBVIOUS
  <2>2. Top(v).at \in Starting /\ Top(v)'.msg = m
    BY <1>6, <1>7, <2>1
  <2>3. m \in Msg /\ m <= created
    BY <2>1, <2>2, StartingAlone
  <2>4. info[m].handler \in handlers
    BY <2>1, <2>2 DEF Alive
  <2> QED  BY <1>3, <2>2, <2>3, <2>4
<1>8. info'[Top(t)'.msg].handler \in handlers
  BY <1>3, <1>4, <1>6
<1> QED  BY <1>5, <1>7, <1>8 DEF Alive

\* ~MessageHandler finds every message: they are in the queue of its own thread, which exists.
LEMMA DestroyAlive ==
  ASSUME TypeInv, Shape, Life, Gone, Alive, NEW t \in Thread, NEW h \in Handler, DestroyHandler(t, h)
  PROVE  Alive'
<1>1. QueuesOK
  BY DEF TypeInv
<1>2. t \in exists
  <2>1. t \in Worker /\ ~At(t, "Exited")
    BY ConstantsOK DEF DestroyHandler, At
  <2> QED  BY <2>1 DEF Gone
<1>3. PICK S : S = {m \in Msg : m <= created /\ info[m].handler = h}
  OBVIOUS
<1>4. Clear(S, exists) /\ handlers' = handlers \ {h} /\ UNCHANGED <<stack, info>>
  BY <1>3 DEF DestroyHandler, msgs
<1>5. \A u \in Thread : /\ msgq'[u] = IF u \in exists THEN msgq[u] \ S ELSE msgq[u]
                        /\ dmsgq'[u] = IF u \in exists THEN dmsgq[u] \ S ELSE dmsgq[u]
                        /\ sendlist'[u] = IF u \in exists THEN sendlist[u] \ S ELSE sendlist[u]
  BY <1>4 DEF Clear
<1>6. ASSUME NEW m \in Msg, Queued(m)' PROVE info'[m].handler \in handlers'
  <2>1. PICK u \in Thread : m \in msgq'[u] \cup dmsgq'[u] \cup sendlist'[u]
    BY <1>6 DEF Queued
  <2>2. m \in msgq[u] \cup dmsgq[u] \cup sendlist[u]
    BY <1>5, <2>1
  <2>3. m <= created /\ HomeOf[info[m].handler] = u /\ info[m].handler \in handlers
    BY <2>2 DEF Life, Homed, Home, Queued, Alive
  <2>4. info[m].handler # h
    <3>1. SUFFICES ASSUME info[m].handler = h PROVE FALSE
      OBVIOUS
    <3>2. u = t /\ m \in S
      BY <1>3, <2>3, <3>1 DEF DestroyHandler
    <3> QED  BY <1>2, <1>5, <2>1, <3>2
  <2> QED  BY <1>4, <2>3, <2>4
<1>7. ASSUME NEW u \in Thread, Top(u)'.at \in Starting
      PROVE  info'[Top(u)'.msg].handler \in handlers'
  <2>1. Top(u)' = Top(u)
    BY <1>4 DEF Top
  <2>2. info[Top(u).msg].handler # h /\ info[Top(u).msg].handler \in handlers
    BY <1>7, <2>1 DEF DestroyHandler, At, Starting, Alive
  <2> QED  BY <1>4, <2>1, <2>2
<1> QED  BY <1>6, <1>7 DEF Alive

LEMMA ClientAlive ==
  ASSUME TypeInv, Shape, Life, Gone, Alive, NEW t \in Thread, Client(t) \/ CodeReturn(t)
  PROVE  Alive'
<1>1. StackOK /\ MsgsOK /\ now \in Nat
  BY DEF TypeInv, ClockOK
<1>2. ASSUME NEW h \in Handler, NEW d \in Delays \cup {Forever}, Post(t, h, d)
      PROVE  Alive'
  <2>1. d \in Nat \cup {Forever}
    BY ConstantsOK
  <2>2. Pushes(t, "Code", CallOn(HomeOf[h], "PostPush", created + 1)) /\ NewMsg(t, h, d)
    BY <1>1, <1>2, <2>1, PostStack
  <2>3. UNCHANGED <<queues, handlers>>
    BY <1>2 DEF Post, objects
  <2> QED  BY <2>1, <2>2, <2>3, CallAlive
<1>3. ASSUME NEW h \in Handler, Send(t, h)
      PROVE  Alive'
  <2>1. Pushes(t, "Code", CallOn(HomeOf[h], "SendPush", created + 1)) /\ NewMsg(t, h, Forever)
    BY <1>1, <1>3, SendStack
  <2>2. UNCHANGED <<queues, handlers>>
    BY <1>3 DEF Send, objects
  <2> QED  BY <2>1, <2>2, CallAlive
<1>4. ASSUME NEW h \in Handler, SendHere(t, h)
      PROVE  Alive'
  <2>1. Pushes(t, "Code", CallOn(t, "Code", created + 1)) /\ NewMsg(t, h, Forever)
    BY <1>1, <1>4, SendHereStack
  <2>2. UNCHANGED <<queues, handlers>>
    BY <1>4 DEF SendHere, objects
  <2> QED  BY <2>1, <2>2, CallAlive
<1>5. ASSUME NEW h \in Handler, DestroyHandler(t, h)
      PROVE  Alive'
  BY <1>5, DestroyAlive
<1>6. CASE CodeReturn(t) \/ \E u \in Worker : Quit(t, u)
  <2>1. UNCHANGED <<queues, info, handlers>>
    BY <1>6 DEF CodeReturn, Quit, objects, msgs
  <2>2. Top(t)'.at \notin Starting
    <3>1. ASSUME NEW h \in Handler, NEW d, Post(t, h, d) \/ Send(t, h) PROVE created' = created + 1
      BY <3>1 DEF Post, Send, NewMsg
    <3>2. created' = created /\ created \in Nat
      BY <1>1, <1>6 DEF CodeReturn, Quit, msgs, MsgsOK
    <3>3. created' # created + 1
      BY <3>2
    <3> QED  BY <3>1, <3>3, ClientKeeps
  <2>3. \A v \in Thread : Top(v)'.at \in Starting => Top(v)' = Top(v)
    BY <1>1, <2>2, ClientKeeps, TopAfter DEF Keeps
  <2> QED  BY <2>1, <2>3, KeepsAlive DEF Queued, queues
<1> QED  BY <1>2, <1>3, <1>4, <1>5, <1>6 DEF Client

LEMMA OwnerAlive ==
  ASSUME TypeInv, Shape, Life, Alive,
         Deletion \/ (\E u \in Worker : DeleteThread(u)) \/ Tick \/ UNCHANGED vars
  PROVE  Alive'
<1>1. StackOK /\ QueuesOK /\ Main \in Thread
  BY DEF TypeInv, Thread
<1>2. UNCHANGED <<info, handlers>>
  BY DEF Deletion, StopWake, Join, DeleteClear, DeleteThread, Tick, vars, msgs, objects
<1>3. \A m \in Msg : Queued(m)' => Queued(m)
  <2>1. CASE DeleteClear
    BY <1>1, <2>1, ClearShrinks DEF DeleteClear, Queued
  <2>2. CASE ~DeleteClear
    BY <2>2 DEF Deletion, StopWake, Join, DeleteThread, Tick, vars, queues, Queued
  <2> QED  BY <2>1, <2>2
<1>4. \A v \in Thread : Top(v)'.at \in Starting => Top(v)' = Top(v)
  <2>1. CASE StopWake \/ Join
    <3>1. \E p \in {"Join", "Delete"} : Moves(Main, p)
      BY <1>1, <2>1, StopWakeStack, JoinStack
    <3> QED  BY <1>1, <3>1, TopAfter DEF Moves, Rest, Starting
  <2>2. CASE DeleteClear
    <3>1. Pops(Main) /\ Top(Main).at = "Delete"
      BY <1>1, <2>2, DeleteClearStack
    <3>2. Top(Main)'.at = "Code" /\ Others(Main)
      BY <1>1, <3>1, PopsTo, BelowIs
    <3> QED  BY <1>1, <3>2, TopAfter DEF Starting
  <2>3. ASSUME NEW u \in Worker, DeleteThread(u)
        PROVE  \A v \in Thread : Top(v)'.at \in Starting => Top(v)' = Top(v)
    <3>1. PICK f : f = CallOn(u, "StopWake", NoMsg) /\ Pushes(Main, "Code", f)
      BY <1>1, <2>3, DeleteThreadStack
    <3>2. Top(Main)' = f /\ f.at = "StopWake" /\ Others(Main)
      BY <1>1, <3>1, TopAfter DEF Pushes, Rest, CallOn
    <3> QED  BY <1>1, <3>2, TopAfter DEF Starting
  <2>4. CASE Tick \/ UNCHANGED vars
    BY <2>4 DEF Tick, vars, Top
  <2> QED  BY <2>1, <2>2, <2>3, <2>4 DEF Deletion
<1> QED  BY <1>2, <1>3, <1>4, KeepsAlive

LEMMA AliveInit == Init => Alive
<1>1. SUFFICES ASSUME Init PROVE Alive
  OBVIOUS
<1>2. \A m \in Msg : ~Queued(m)
  BY <1>1 DEF Init, Queued
<1>3. \A t \in Thread : Top(t).at \in {"Top", "Code"}
  BY <1>1 DEF Init, Top, Call
<1> QED  BY <1>2, <1>3 DEF Alive, Starting

LEMMA AliveStep == TypeInv /\ Shape /\ Life /\ Gone /\ Alive /\ [Next]_vars => Alive'
BY RunAlive, ClientAlive, OwnerAlive DEF Next

----------------------------------------------------------------------------
(* A message runs only in a handler that exists.                           *)

CallsAlive(t) == Depth(t)' > Depth(t) =>
                   (Top(t)'.at = "Code" => info'[Top(t)'.msg].handler \in handlers)

LEMMA StepCallsAlive ==
  ASSUME TypeInv, Shape, Life, Alive, [Next]_vars, NEW t \in Thread
  PROVE  CallsAlive(t)
<1>1. StackOK /\ QueuesOK /\ MsgsOK /\ Main \in Thread /\ now \in Nat
  BY DEF TypeInv, Thread, ClockOK
<1>2. SUFFICES ASSUME Depth(t)' > Depth(t), Top(t)'.at = "Code"
               PROVE  info'[Top(t)'.msg].handler \in handlers
  BY DEF CallsAlive
<1>3. Depth(t) \in Nat
  BY <1>1, DepthIs
<1>4. ASSUME NEW u \in Thread, Others(u) PROVE u = t
  <2>1. u # t => Depth(t)' = Depth(t)
    BY <1>4 DEF Others, Depth
  <2> QED  BY <1>2, <1>3, <2>1
<1>5. ASSUME NEW u \in Thread, Pops(u) PROVE FALSE
  <2>1. u = t
    BY <1>4, <1>5 DEF Pops, Rest
  <2> QED  BY <1>2, <1>3, <1>5, <2>1 DEF Pops
<1>6. ASSUME NEW u \in Thread, NEW p, Moves(u, p) PROVE FALSE
  <2>1. u = t
    BY <1>4, <1>6 DEF Moves, Rest
  <2> QED  BY <1>2, <1>3, <1>6, <2>1 DEF Moves
<1>7. ASSUME NEW u \in Thread, NEW p, NEW f, Pushes(u, p, f) PROVE u = t /\ Top(t)' = f /\ f.at = "Code"
  <2>1. u = t
    BY <1>4, <1>7 DEF Pushes, Rest
  <2> QED  BY <1>1, <1>2, <1>7, <2>1, TopAfter
<1>8. UNCHANGED stack => FALSE
  BY <1>2, <1>3 DEF Depth
<1>9. ASSUME NEW u \in Thread, GetMessage(u) PROVE info'[Top(t)'.msg].handler \in handlers
  <2>1. PICK m \in (msgq[u] \cup Triggered(u)) \cap Msg : Pushes(u, "Top", CallOn(u, "Code", m))
    BY <1>9, GetMessageIs
  <2>2. Top(t)'.msg = m
    BY <1>7, <2>1 DEF CallOn
  <2>3. Queued(m) /\ info'[m].handler = info[m].handler
    BY <1>9, <2>1, GetMessageIs DEF Queued
  <2> QED  BY <2>2, <2>3 DEF Alive
<1>10. ASSUME NEW u \in Thread, ReceiveFirst(u) \/ ReplyWake(u)
       PROVE  info'[Top(t)'.msg].handler \in handlers
  <2>1. PICK m \in sendlist[u] : Serves(u, m)
    BY <1>1, <1>5, <1>10, ReceiveFirstStack, ReplyWakeStack
  <2>2. u = t
    BY <1>4, <2>1 DEF Serves, Rest
  <2>3. Top(t)'.msg = m
    BY <1>1, <2>1, <2>2, TopAfter DEF CallOn
  <2>4. m \in Msg /\ Queued(m) /\ UNCHANGED info
    BY <1>1, <1>10 DEF QueuesOK, Queued, ReceiveFirst, ReplyWake, msgs
  <2> QED  BY <2>3, <2>4 DEF Alive
<1>11. ASSUME NEW u \in Thread, NEW h \in Handler, SendHere(u, h)
       PROVE  info'[Top(t)'.msg].handler \in handlers
  <2>1. Pushes(u, "Code", CallOn(u, "Code", created + 1)) /\ NewMsg(u, h, Forever)
    BY <1>1, <1>11, SendHereStack
  <2>2. Top(t)'.msg = created + 1
    BY <1>7, <2>1 DEF CallOn
  <2>3. info'[created + 1].handler = h
    BY <1>1, <2>1, NewMsgIs
  <2> QED  BY <2>1, <2>2, <2>3 DEF NewMsg
<1>12. ASSUME NEW u \in Thread, Run(u) PROVE info'[Top(t)'.msg].handler \in handlers
  <2>1. CASE PostPush(u) \/ QuitWake(u) \/ SendReturn(u)
    BY <1>1, <1>5, <2>1, PostPushStack, QuitWakeStack, SendReturnStack
  <2>2. CASE SendPush(u) \/ SendWake(u) \/ SendLoop(u) \/ SendWait(u) \/ ReplyReady(u)
    BY <1>1, <1>6, <2>2, SendPushStack, SendWakeStack, SendLoopStack, SendWaitStack, ReplyReadyStack
  <2>3. CASE GetNothing(u) \/ GetStop(u) \/ GetWait(u)
    BY <1>1, <1>6, <2>3, GetNothingStack, GetStopStack, GetWaitStack
  <2>4. CASE SendReceiveSends(u)
    <3>1. Pushes(u, "SendWait", Call(u, "RsPop")) \/ Moves(u, "SendWait")
      BY <1>1, <2>4, ReceiveSendsStack, PointsAre DEF SendReceiveSends
    <3> QED  BY <1>6, <1>7, <3>1 DEF Call
  <2>5. CASE GetReceiveSends(u)
    <3>1. Pushes(u, "Queues", Call(u, "RsPop")) \/ Moves(u, "Queues")
      BY <1>1, <2>5, ReceiveSendsStack, PointsAre DEF GetReceiveSends
    <3> QED  BY <1>6, <1>7, <3>1 DEF Call
  <2> QED  BY <1>9, <1>10, <1>12, <2>1, <2>2, <2>3, <2>4, <2>5 DEF Run
<1>13. ASSUME NEW u \in Thread, Client(u) \/ CodeReturn(u) PROVE info'[Top(t)'.msg].handler \in handlers
  <2>1. ASSUME NEW h \in Handler, NEW d \in Delays \cup {Forever}, Post(u, h, d) PROVE FALSE
    <3>1. d \in Nat \cup {Forever}
      BY ConstantsOK
    <3>2. PICK f : f = CallOn(HomeOf[h], "PostPush", created + 1) /\ Pushes(u, "Code", f)
      BY <1>1, <2>1, <3>1, PostStack
    <3>3. f.at # "Code"
      BY <3>2 DEF CallOn
    <3> QED  BY <1>7, <3>2, <3>3
  <2>2. ASSUME NEW h \in Handler, Send(u, h) PROVE FALSE
    <3>1. PICK f : f = CallOn(HomeOf[h], "SendPush", created + 1) /\ Pushes(u, "Code", f)
      BY <1>1, <2>2, SendStack
    <3>2. f.at # "Code"
      BY <3>1 DEF CallOn
    <3> QED  BY <1>7, <3>1, <3>2
  <2>3. ASSUME NEW h \in Handler, DestroyHandler(u, h) PROVE FALSE
    BY <1>8, <2>3 DEF DestroyHandler
  <2>4. ASSUME NEW w \in Worker, Quit(u, w) PROVE FALSE
    <3>1. PICK f : f = CallOn(w, "QuitWake", NoMsg) /\ Pushes(u, "Code", f)
      BY <1>1, <2>4, QuitStack
    <3>2. f.at # "Code"
      BY <3>1 DEF CallOn
    <3> QED  BY <1>7, <3>1, <3>2
  <2>5. CASE CodeReturn(u)
    BY <1>1, <1>5, <2>5, CodeReturnStack
  <2> QED  BY <1>11, <1>13, <2>1, <2>2, <2>3, <2>4, <2>5 DEF Client
<1>14. ASSUME Deletion \/ (\E w \in Worker : DeleteThread(w)) \/ Tick \/ UNCHANGED vars PROVE FALSE
  <2>1. CASE StopWake \/ Join
    BY <1>1, <1>6, <2>1, StopWakeStack, JoinStack
  <2>2. CASE DeleteClear
    BY <1>1, <1>5, <2>2, DeleteClearStack
  <2>3. ASSUME NEW w \in Worker, DeleteThread(w) PROVE FALSE
    <3>1. PICK f : f = CallOn(w, "StopWake", NoMsg) /\ Pushes(Main, "Code", f)
      BY <1>1, <2>3, DeleteThreadStack
    <3>2. f.at # "Code"
      BY <3>1 DEF CallOn
    <3> QED  BY <1>1, <1>7, <3>1, <3>2
  <2>4. CASE Tick \/ UNCHANGED vars
    BY <1>8, <2>4 DEF Tick, vars
  <2> QED  BY <1>14, <2>1, <2>2, <2>3, <2>4 DEF Deletion
<1> QED  BY <1>12, <1>13, <1>14 DEF Next

----------------------------------------------------------------------------
(* Wake-ups.                                                               *)

\* Between its look at the lists and its Wait, or in it.
Dozing == {"Queues", "Stop", "Wait", "SendWait"}
Asleep == {"SendRecv", "SendWait"}

SendComing(t) == \E u \in Thread : Top(u).at = "SendWake" /\ Top(u).to = t
StopComing(t) == \E u \in Thread : Top(u).at \in {"QuitWake", "StopWake"} /\ Top(u).to = t
ReplyComing(m) == \E u \in Thread : Top(u).at = "RsWake" /\ Top(u).msg = m

\* has_sends_ is set while something is in sendlist_.
Seen(t) == sendlist[t] # {} => hasSends[t]

\* What Get or Send has not seen when it goes to sleep has raised the signal or will.
Dozes(t) ==
  /\ Top(t).at \in Dozing /\ sendlist[t] # {} => wake[t] \/ SendComing(t)
  /\ Top(t).at \in {"Stop", "Wait"} =>
       (msgq[t] # {} \/ (dmsgq[t] # {} /\ clock[t].delay = Forever) => wake[t])
  /\ Top(t).at = "Wait" /\ fStop[t] => wake[t] \/ StopComing(t)

\* A Send that has its reply and will wait has a signal raised, or one is coming, or a Send
\* further up took it and gives it back when it returns.
WaitedAbove(t, i) == \E j \in 1..Depth(t) : i < j /\ stack[t][j].at \in SendPoints /\ stack[t][j].waited
Answered(t) == \A i \in 1..Depth(t) :
  stack[t][i].at \in Asleep /\ ready[stack[t][i].msg] =>
    wake[t] \/ ReplyComing(stack[t][i].msg) \/ WaitedAbove(t, i)

Woken == \A t \in Thread : Seen(t) /\ Dozes(t) /\ Answered(t)

LEMMA WokenMeans ==
  ASSUME TypeInv, Life, Woken
  PROVE  NoLostWakeup
<1>1. SUFFICES ASSUME NEW t \in Thread, ~wake[t]
               PROVE  /\ At(t, "Wait") => /\ msgq[t] = {}
                                          /\ (dmsgq[t] # {} => clock[t].delay # Forever)
                                          /\ (sendlist[t] # {} \/ fStop[t] => WakeUpComing(t))
                      /\ At(t, "SendWait") =>
                           (sendlist[t] # {} \/ ready[Top(t).msg] => WakeUpComing(t))
  BY DEF NoLostWakeup
<1>2. StackOK /\ Dozes(t) /\ Answered(t)
  BY DEF Woken, TypeInv
<1>3. SendComing(t) \/ StopComing(t) => WakeUpComing(t)
  BY DEF SendComing, StopComing, WakeUpComing, At
<1>4. CASE At(t, "Wait")
  BY <1>1, <1>2, <1>3, <1>4 DEF Dozes, Dozing, At
<1>5. CASE At(t, "SendWait")
  <2>1. ASSUME ready[Top(t).msg] PROVE WakeUpComing(t)
    <3>1. PICK n \in Nat : n = Depth(t) /\ n >= 1 /\ Top(t) = stack[t][n]
      BY <1>2, DepthIs
    <3>2. n \in 1..n /\ ~\E j \in 1..n : n < j
      BY <3>1
    <3>3. ReplyComing(Top(t).msg)
      BY <1>1, <1>2, <1>5, <2>1, <3>1, <3>2 DEF Answered, Asleep, At, WaitedAbove
    <3>4. Top(t).msg # NoMsg /\ Homed
      BY <1>2, <1>5, TopCarries, PointsAre DEF At, Msg, NoMsg, Life
    <3>5. info[Top(t).msg].from = t
      BY <1>2, <1>5, <3>1, <3>2, <3>4, FrameHomed DEF At, SendPoints
    <3> QED  BY <3>3, <3>5 DEF ReplyComing, WakeUpComing, At
  <2>2. ASSUME sendlist[t] # {} PROVE WakeUpComing(t)
    BY <1>1, <1>2, <1>3, <1>5, <2>2 DEF Dozes, Dozing, At
  <2> QED  BY <1>5, <2>1, <2>2 DEF At
<1> QED  BY <1>4, <1>5 DEF At

\* has_sends_ is reset only when sendlist_ is empty.
LEMMA SeenStep ==
  ASSUME TypeInv, Woken, [Next]_vars, NEW u \in Thread
  PROVE  Seen(u)'
<1>1. QueuesOK /\ SignalsOK /\ Seen(u)
  BY DEF TypeInv, Woken
<1>2. ASSUME NEW t \in Thread, SendPush(t), Top(t).to = u PROVE Seen(u)'
  <2>1. hasSends'[u]
    BY <1>1, <1>2, Zenon DEF SendPush, SignalsOK
  <2> QED  BY <2>1 DEF Seen
<1>3. ASSUME Shrinks(u), hasSends'[u] = hasSends[u] PROVE Seen(u)'
  BY <1>1, <1>3 DEF Seen, Shrinks
<1>4. ASSUME NEW t \in Thread, NextSend(t) PROVE Seen(u)'
  <2>1. CASE UNCHANGED hasSends
    BY <1>3, <1>4, <2>1, NextSendShrinks
  <2>2. CASE sendlist[t] = {} /\ UNCHANGED sendlist /\ hasSends' = [hasSends EXCEPT ![t] = FALSE]
    <3>1. u # t => hasSends'[u] = hasSends[u]
      BY <1>1, <2>2, Zenon DEF SignalsOK
    <3> QED  BY <1>1, <2>2, <3>1 DEF Seen
  <2> QED  BY <1>4, <2>1, <2>2 DEF NextSend
<1>5. ASSUME NEW t \in Thread, Run(t), ~SendPush(t), ~ReceiveFirst(t), ~ReplyWake(t)
      PROVE  UNCHANGED hasSends
  BY <1>5 DEF Run, PostPush, QuitWake, SendWake, SendLoop, SendReceiveSends, SendWait, SendReturn,
     ReplyReady, GetReceiveSends, ReceiveSends, GetMessage, GetNothing, GetStop, GetWait, signals
<1>6. ASSUME NEW t \in Thread, Client(t) \/ CodeReturn(t) PROVE UNCHANGED hasSends
  BY <1>6 DEF Client, CodeReturn, Post, SendHere, Send, DestroyHandler, Quit, signals
<1>7. ASSUME Deletion \/ (\E w \in Worker : DeleteThread(w)) \/ Tick \/ UNCHANGED vars
      PROVE  UNCHANGED hasSends
  BY <1>7 DEF Deletion, StopWake, Join, DeleteClear, DeleteThread, Tick, vars, signals
<1>8. ASSUME NEW t \in Thread, SendPush(t), Top(t).to # u PROVE hasSends'[u] = hasSends[u]
  BY <1>1, <1>8, Zenon DEF SendPush, SignalsOK
<1>9. CASE \E t \in Thread : SendPush(t) /\ Top(t).to = u
  BY <1>2, <1>9
<1>10. CASE ~\E t \in Thread : SendPush(t) /\ Top(t).to = u
  <2>1. Shrinks(u)
    BY <1>10, SendsShrink
  <2>2. hasSends'[u] = hasSends[u] \/ \E t \in Thread : NextSend(t)
    BY <1>5, <1>6, <1>7, <1>8, <1>10 DEF Next, ReceiveFirst, ReplyWake
  <2> QED  BY <1>3, <1>4, <2>1, <2>2
<1> QED  BY <1>9, <1>10

----------------------------------------------------------------------------
(* A step of thread t and the other threads.                               *)

\* What a step of t takes from the other threads, and what it owes them.
Leaves(t) ==
  /\ Others(t)
  /\ \A v \in Thread : v # t =>
       /\ wake[v] => wake'[v]
       /\ sendlist'[v] \subseteq sendlist[v] \/ (Top(t)'.at = "SendWake" /\ Top(t)'.to = v)
       /\ \/ wake'[v]
          \/ /\ msgq'[v] \subseteq msgq[v] /\ dmsgq'[v] \subseteq dmsgq[v]
             /\ clock'[v].delay = clock[v].delay
       /\ fStop'[v] => fStop[v] \/ (Top(t)'.at \in {"QuitWake", "StopWake"} /\ Top(t)'.to = v)
  /\ Top(t).at \in {"SendWake", "QuitWake", "StopWake"} => wake'[Top(t).to]
Replies(t) ==
  /\ Top(t).at = "RsWake" => wake'[info[Top(t).msg].from]
  /\ \A m \in Msg : ready'[m] => \/ ready[m] \/ wake'[info[m].from]
                                 \/ Top(t)'.at = "RsWake" /\ Top(t)'.msg = m

LEMMA OthersDoze ==
  ASSUME TypeInv, Woken, NEW t \in Thread, Leaves(t), NEW v \in Thread, v # t
  PROVE  Dozes(v)'
<1>1. StackOK /\ Dozes(v)
  BY DEF TypeInv, Woken
<1>2. \A u \in Thread : u # t => Top(u)' = Top(u)
  BY <1>1, TopAfter DEF Leaves
<1>3. SendComing(v) => wake'[v] \/ SendComing(v)'
  BY <1>2 DEF SendComing, Leaves
<1>4. StopComing(v) => wake'[v] \/ StopComing(v)'
  BY <1>2 DEF StopComing, Leaves
<1>5. Top(v)'.at \in Dozing /\ sendlist'[v] # {} => wake'[v] \/ SendComing(v)'
  <2>1. Top(t)'.at = "SendWake" /\ Top(t)'.to = v => SendComing(v)'
    BY DEF SendComing
  <2> QED  BY <1>1, <1>2, <1>3, <2>1 DEF Dozes, Leaves
<1>6. Top(v)'.at \in {"Stop", "Wait"} =>
        (msgq'[v] # {} \/ (dmsgq'[v] # {} /\ clock'[v].delay = Forever) => wake'[v])
  BY <1>1, <1>2 DEF Dozes, Leaves
<1>7. Top(v)'.at = "Wait" /\ fStop'[v] => wake'[v] \/ StopComing(v)'
  <2>1. Top(t)'.at \in {"QuitWake", "StopWake"} /\ Top(t)'.to = v => StopComing(v)'
    BY DEF StopComing
  <2> QED  BY <1>1, <1>2, <1>4, <2>1 DEF Dozes, Leaves
<1> QED  BY <1>5, <1>6, <1>7 DEF Dozes

LEMMA AwakeDozes ==
  ASSUME NEW t \in Thread, Top(t)'.at \notin Dozing
  PROVE  Dozes(t)'
BY DEF Dozes, Dozing

\* The reply of a frame of v comes, or has come.
LEMMA ReplyStep ==
  ASSUME TypeInv, Life, NEW t \in Thread, Others(t), Replies(t),
         NEW v \in Thread, NEW i \in 1..Depth(v), stack[v][i].at \in SendPoints, NEW m,
         m = stack[v][i].msg
  PROVE  /\ ReplyComing(m) => wake'[v] \/ ReplyComing(m)'
         /\ ready'[m] => ready[m] \/ wake'[v] \/ ReplyComing(m)'
<1>1. StackOK /\ Homed
  BY DEF TypeInv, Life
<1>2. m # NoMsg
  BY <1>1, FrameIs, PointsAre DEF Frame, SendPoints
<1>3. m \in Msg /\ info[m].from = v
  BY <1>1, <1>2, FrameHomed
<1>4. \A u \in Thread : u # t => Top(u)' = Top(u)
  BY <1>1, TopAfter
<1>5. ReplyComing(m) => wake'[v] \/ ReplyComing(m)'
  BY <1>3, <1>4 DEF ReplyComing, Replies
<1>6. Top(t)'.at = "RsWake" /\ Top(t)'.msg = m => ReplyComing(m)'
  BY DEF ReplyComing
<1> QED  BY <1>3, <1>5, <1>6 DEF Replies

LEMMA OthersAnswered ==
  ASSUME TypeInv, Life, Woken, NEW t \in Thread, Leaves(t), Replies(t), NEW v \in Thread, v # t
  PROVE  Answered(v)'
<1>1. Answered(v) /\ Others(t) /\ (wake[v] => wake'[v])
  BY DEF Woken, Leaves
<1>2. Depth(v)' = Depth(v) /\ stack'[v] = stack[v]
  BY <1>1 DEF Others, Depth
<1>3. SUFFICES ASSUME NEW i \in 1..Depth(v), stack[v][i].at \in Asleep, ready'[stack[v][i].msg]
               PROVE  wake'[v] \/ ReplyComing(stack[v][i].msg)' \/ WaitedAbove(v, i)'
  BY <1>2 DEF Answered
<1>4. PICK m : m = stack[v][i].msg
  OBVIOUS
<1>5. /\ ReplyComing(m) => wake'[v] \/ ReplyComing(m)'
      /\ ready'[m] => ready[m] \/ wake'[v] \/ ReplyComing(m)'
  <2>1. stack[v][i].at \in SendPoints
    BY <1>3 DEF Asleep, SendPoints
  <2> QED  BY <1>1, <1>3, <1>4, <2>1, ReplyStep
<1>6. WaitedAbove(v, i) => WaitedAbove(v, i)'
  BY <1>2 DEF WaitedAbove
<1>7. ReplyComing(m)' => ReplyComing(stack[v][i].msg)'
  BY <1>2, <1>4 DEF ReplyComing
<1> QED  BY <1>1, <1>3, <1>4, <1>5, <1>6, <1>7 DEF Answered

----------------------------------------------------------------------------
(* A step of thread t and its own frames.                                  *)

\* No Send of t falls asleep with its reply; what its Sends took from the signal is remembered.
Stays(t) ==
  /\ \A i \in 1..Depth(t)' : stack'[t][i].at \in Asleep =>
       \/ ~ready'[stack'[t][i].msg]
       \/ i \in 1..Depth(t) /\ stack[t][i].at \in Asleep /\ stack[t][i].msg = stack'[t][i].msg
  /\ \A j \in 1..Depth(t) : stack[t][j].at \in SendPoints /\ stack[t][j].waited =>
       \/ wake'[t]
       \/ j \in 1..Depth(t)' /\ stack'[t][j].at \in SendPoints /\ stack'[t][j].waited

LEMMA MovesStay ==
  ASSUME StackOK, NEW t \in Thread, NEW p, Moves(t, p),
         p \in Asleep => Top(t).at \in Asleep \/ ~ready'[Top(t).msg],
         Top(t).at \in SendPoints => p \in SendPoints
  PROVE  Stays(t)
<1>1. /\ Depth(t)' = Depth(t)
      /\ \A i \in 1..Depth(t) :
           \/ stack'[t][i] = stack[t][i]
           \/ i = Depth(t) /\ stack[t][i] = Top(t) /\ Becomes(Top(t), stack'[t][i], p)
  BY MovesFrames
<1>2. \A i \in 1..Depth(t)' : stack'[t][i].at \in Asleep =>
       \/ ~ready'[stack'[t][i].msg]
       \/ i \in 1..Depth(t) /\ stack[t][i].at \in Asleep /\ stack[t][i].msg = stack'[t][i].msg
  BY <1>1 DEF Becomes
<1>3. \A j \in 1..Depth(t) : stack[t][j].at \in SendPoints /\ stack[t][j].waited =>
        j \in 1..Depth(t)' /\ stack'[t][j].at \in SendPoints /\ stack'[t][j].waited
  BY <1>1 DEF Becomes
<1> QED  BY <1>2, <1>3 DEF Stays

LEMMA PushesStay ==
  ASSUME StackOK, NEW t \in Thread, NEW p, NEW f, Pushes(t, p, f), f.at \notin Asleep,
         p \in Asleep => Top(t).at \in Asleep,
         Top(t).at \in SendPoints => p \in SendPoints
  PROVE  Stays(t)
<1>1. /\ Depth(t)' = Depth(t) + 1 /\ Depth(t) \in Nat
      /\ \A i \in 1..Depth(t) :
           \/ stack'[t][i] = stack[t][i]
           \/ i = Depth(t) /\ stack[t][i] = Top(t) /\ Becomes(Top(t), stack'[t][i], p)
      /\ \A i \in 1..Depth(t)' : i \in 1..Depth(t) \/ stack'[t][i] = f
  BY PushesFrames, DepthIs
<1>2. \A i \in 1..Depth(t)' : stack'[t][i].at \in Asleep =>
        i \in 1..Depth(t) /\ stack[t][i].at \in Asleep /\ stack[t][i].msg = stack'[t][i].msg
  BY <1>1 DEF Becomes
<1>3. \A j \in 1..Depth(t) : stack[t][j].at \in SendPoints /\ stack[t][j].waited =>
        j \in 1..Depth(t)' /\ stack'[t][j].at \in SendPoints /\ stack'[t][j].waited
  BY <1>1 DEF Becomes
<1> QED  BY <1>2, <1>3 DEF Stays

LEMMA ServesStay ==
  ASSUME StackOK, NEW t \in Thread, NEW m, Serves(t, m), Top(t).at \notin SendPoints
  PROVE  Stays(t)
<1>1. /\ Depth(t)' = Depth(t) + 1 /\ Depth(t) \in Nat
      /\ \A i \in 1..Depth(t) :
           \/ stack'[t][i] = stack[t][i]
           \/ i = Depth(t) /\ stack[t][i] = Top(t) /\ stack'[t][i] = CallOn(t, "RsReady", m)
      /\ \A i \in 1..Depth(t)' : i \in 1..Depth(t) \/ stack'[t][i] = CallOn(t, "Code", m)
  BY ServesFrames, DepthIs
<1>2. \A i \in 1..Depth(t)' : stack'[t][i].at \in Asleep =>
        i \in 1..Depth(t) /\ stack[t][i].at \in Asleep /\ stack[t][i].msg = stack'[t][i].msg
  BY <1>1 DEF CallOn, Asleep
<1>3. \A j \in 1..Depth(t) : stack[t][j].at \in SendPoints /\ stack[t][j].waited =>
        j \in 1..Depth(t)' /\ stack'[t][j].at \in SendPoints /\ stack'[t][j].waited
  BY <1>1
<1> QED  BY <1>2, <1>3 DEF Stays

LEMMA PopsStay ==
  ASSUME StackOK, NEW t \in Thread, Pops(t),
         Top(t).at \in SendPoints /\ Top(t).waited => wake'[t]
  PROVE  Stays(t)
<1>1. /\ \A i \in 1..Depth(t) : \/ stack'[t][i] = stack[t][i] /\ i \in 1..Depth(t)'
                                \/ i = Depth(t) /\ stack[t][i] = Top(t)
      /\ \A i \in 1..Depth(t)' : i \in 1..Depth(t) /\ stack'[t][i] = stack[t][i]
  BY PopsFrames
<1> QED  BY <1>1 DEF Stays

LEMMA OwnAnswered ==
  ASSUME TypeInv, Life, Woken, NEW t \in Thread, Others(t), Replies(t), Stays(t), wake[t] => wake'[t]
  PROVE  Answered(t)'
<1>1. Answered(t)
  BY DEF Woken
<1>2. SUFFICES ASSUME NEW i \in 1..Depth(t)', stack'[t][i].at \in Asleep, ready'[stack'[t][i].msg]
               PROVE  wake'[t] \/ ReplyComing(stack[t][i].msg)' \/ WaitedAbove(t, i)'
  BY DEF Answered
<1>3. i \in 1..Depth(t) /\ stack[t][i].at \in Asleep /\ stack[t][i].msg = stack'[t][i].msg
  BY <1>2 DEF Stays
<1>4. PICK m : m = stack[t][i].msg
  OBVIOUS
<1>5. /\ ReplyComing(m) => wake'[t] \/ ReplyComing(m)'
      /\ ready'[m] => ready[m] \/ wake'[t] \/ ReplyComing(m)'
  <2>1. stack[t][i].at \in SendPoints
    BY <1>3 DEF Asleep, SendPoints
  <2> QED  BY <1>3, <1>4, <2>1, ReplyStep
<1>6. WaitedAbove(t, i) => wake'[t] \/ WaitedAbove(t, i)'
  BY DEF WaitedAbove, Stays
<1>7. ReplyComing(m)' => ReplyComing(stack[t][i].msg)'
  BY <1>3, <1>4 DEF ReplyComing
<1> QED  BY <1>1, <1>2, <1>3, <1>4, <1>5, <1>6, <1>7 DEF Answered

LEMMA StepWoken ==
  ASSUME TypeInv, Life, Woken, [Next]_vars, NEW t \in Thread, Leaves(t), Replies(t),
         Dozes(t)', Answered(t)'
  PROVE  Woken'
<1>1. \A v \in Thread : Seen(v)'
  BY SeenStep
<1>2. \A v \in Thread : v # t => Dozes(v)'
  BY OthersDoze
<1>3. \A v \in Thread : v # t => Answered(v)'
  BY OthersAnswered
<1> QED  BY <1>1, <1>2, <1>3 DEF Woken

\* A step after which t is awake.
LEMMA AwakeWoken ==
  ASSUME TypeInv, Life, Woken, [Next]_vars, NEW t \in Thread, Leaves(t), Replies(t), Stays(t),
         wake[t] => wake'[t], Top(t)'.at \notin Dozing
  PROVE  Woken'
<1>1. Dozes(t)'
  BY AwakeDozes
<1>2. Answered(t)'
  BY OwnAnswered DEF Leaves
<1> QED  BY <1>1, <1>2, StepWoken

\* A step that touches neither the lists nor the signals of other threads, and answers nobody.
LEMMA PlainStep ==
  ASSUME TypeInv, NEW t \in Thread, Others(t), Top(t).at \notin {"SendWake", "QuitWake", "StopWake", "RsWake"},
         UNCHANGED <<sendlist, fStop, ready>>,
         \A v \in Thread : v # t => /\ wake'[v] = wake[v] /\ msgq'[v] = msgq[v] /\ dmsgq'[v] = dmsgq[v]
                                    /\ clock'[v].delay = clock[v].delay
  PROVE  Leaves(t) /\ Replies(t)
BY DEF Leaves, Replies

----------------------------------------------------------------------------
(* Every action keeps Woken.                                               *)

LEMMA Raised ==
  ASSUME TypeInv, NEW u \in Thread, wake' = [wake EXCEPT ![u] = TRUE]
  PROVE  wake'[u] /\ \A v \in Thread : wake[v] => wake'[v]
BY Zenon DEF TypeInv, SignalsOK

\* A step that only raises signals, and adds to queues whose signal it raises.
LEMMA RaisingStep ==
  ASSUME TypeInv, NEW t \in Thread, Others(t), UNCHANGED <<sendlist, fStop, ready, clock>>,
         \A v \in Thread : /\ wake[v] => wake'[v]
                           /\ wake'[v] \/ (msgq'[v] = msgq[v] /\ dmsgq'[v] = dmsgq[v]),
         Top(t).at \in {"SendWake", "QuitWake", "StopWake"} => wake'[Top(t).to],
         Top(t).at = "RsWake" => wake'[info[Top(t).msg].from]
  PROVE  Leaves(t) /\ Replies(t)
BY DEF Leaves, Replies

LEMMA PostPushWoken ==
  ASSUME TypeInv, Shape, Life, Woken, [Next]_vars, NEW t \in Thread, PostPush(t)
  PROVE  Woken'
<1>1. StackOK /\ QueuesOK
  BY DEF TypeInv
<1>2. Pops(t) /\ Top(t).at = "PostPush"
  BY <1>1, PostPushStack
<1>3. Top(t)'.at \in Below("PostPush") /\ Others(t)
  BY <1>1, <1>2, PopsTo
<1>4. Top(t)'.at \notin Dozing
  BY <1>3, BelowIs DEF Dozing
<1>5. PICK u : u = Top(t).to
  OBVIOUS
<1>6. u \in Thread /\ wake' = [wake EXCEPT ![u] = TRUE] /\ UNCHANGED <<sendlist, fStop, ready, clock>>
  BY <1>1, <1>5, TopIsFrame DEF PostPush, Frame
<1>7. wake'[u] /\ \A v \in Thread : wake[v] => wake'[v]
  BY <1>6, Raised
<1>8. \A v \in Thread : v # u => msgq'[v] = msgq[v] /\ dmsgq'[v] = dmsgq[v]
  BY <1>1, <1>5 DEF PostPush, QueuesOK
<1>9. Leaves(t) /\ Replies(t)
  BY <1>2, <1>3, <1>6, <1>7, <1>8, RaisingStep
<1>10. Stays(t)
  BY <1>1, <1>2, PopsStay DEF SendPoints
<1> QED  BY <1>4, <1>7, <1>9, <1>10, AwakeWoken

LEMMA QuitWakeWoken ==
  ASSUME TypeInv, Shape, Life, Woken, [Next]_vars, NEW t \in Thread, QuitWake(t)
  PROVE  Woken'
<1>1. StackOK /\ QueuesOK
  BY DEF TypeInv
<1>2. Pops(t) /\ Top(t).at = "QuitWake"
  BY <1>1, QuitWakeStack
<1>3. Top(t)'.at \in Below("QuitWake") /\ Others(t)
  BY <1>1, <1>2, PopsTo
<1>4. Top(t)'.at \notin Dozing
  BY <1>3, BelowIs DEF Dozing
<1>5. PICK u : u = Top(t).to
  OBVIOUS
<1>6. u \in Thread /\ wake' = [wake EXCEPT ![u] = TRUE] /\ UNCHANGED <<queues, fStop, ready, clock>>
  BY <1>1, <1>5, TopIsFrame DEF QuitWake, Frame
<1>7. wake'[u] /\ \A v \in Thread : wake[v] => wake'[v]
  BY <1>6, Raised
<1>8. Leaves(t) /\ Replies(t)
  BY <1>2, <1>3, <1>5, <1>6, <1>7, RaisingStep DEF queues
<1>9. Stays(t)
  BY <1>1, <1>2, PopsStay DEF SendPoints
<1> QED  BY <1>4, <1>7, <1>8, <1>9, AwakeWoken

LEMMA SendWakeWoken ==
  ASSUME TypeInv, Life, Woken, [Next]_vars, NEW t \in Thread, SendWake(t)
  PROVE  Woken'
<1>1. StackOK /\ QueuesOK
  BY DEF TypeInv
<1>2. Moves(t, "SendLoop") /\ Top(t).at = "SendWake" /\ Others(t)
  BY <1>1, SendWakeStack DEF Moves, Rest
<1>3. Top(t)'.at \notin Dozing
  BY <1>1, <1>2, TopAfter DEF Dozing
<1>4. PICK u : u = Top(t).to
  OBVIOUS
<1>5. u \in Thread /\ wake' = [wake EXCEPT ![u] = TRUE] /\ UNCHANGED <<queues, fStop, ready, clock>>
  BY <1>1, <1>4, TopIsFrame DEF SendWake, Frame
<1>6. wake'[u] /\ \A v \in Thread : wake[v] => wake'[v]
  BY <1>5, Raised
<1>7. Leaves(t) /\ Replies(t)
  BY <1>2, <1>4, <1>5, <1>6, RaisingStep DEF queues
<1>8. Stays(t)
  BY <1>1, <1>2, MovesStay DEF SendPoints, Asleep
<1> QED  BY <1>3, <1>6, <1>7, <1>8, AwakeWoken

\* Send's last WakeUp gives back what its Waits took.
LEMMA SendReturnWoken ==
  ASSUME TypeInv, Shape, Life, Woken, [Next]_vars, NEW t \in Thread, SendReturn(t)
  PROVE  Woken'
<1>1. StackOK /\ SignalsOK
  BY DEF TypeInv
<1>2. Pops(t) /\ Top(t).at = "SendLoop"
  BY <1>1, SendReturnStack
<1>3. Top(t)'.at \in Below("SendLoop") /\ Others(t)
  BY <1>1, <1>2, PopsTo
<1>4. Top(t)'.at \notin Dozing
  BY <1>3, BelowIs DEF Dozing
<1>5. wake' = [wake EXCEPT ![t] = @ \/ Top(t).waited] /\ UNCHANGED <<queues, fStop, ready, clock>>
  BY DEF SendReturn
<1>6. /\ \A v \in Thread : v # t => wake'[v] = wake[v]
      /\ wake[t] => wake'[t]
      /\ Top(t).waited => wake'[t]
  BY <1>1, <1>5, Zenon DEF SignalsOK
<1>7. \A v \in Thread : wake[v] => wake'[v]
  BY <1>6
<1>8. Leaves(t) /\ Replies(t)
  BY <1>2, <1>3, <1>5, <1>7, RaisingStep DEF queues
<1>9. Stays(t)
  BY <1>1, <1>2, <1>6, PopsStay
<1> QED  BY <1>4, <1>6, <1>8, <1>9, AwakeWoken

\* The AutoThread's socket server is new: no Send of this thread took a wake-up from it.
LEMMA SendPushWoken ==
  ASSUME TypeInv, Shape, Life, Gone, Outside, Woken, [Next]_vars, NEW t \in Thread, SendPush(t)
  PROVE  Woken'
<1>1. StackOK /\ SignalsOK /\ QueuesOK
  BY DEF TypeInv
<1>2. Moves(t, "SendWake") /\ Top(t).at = "SendPush" /\ Others(t)
  BY <1>1, SendPushStack DEF Moves, Rest
<1>3. Top(t)'.at = "SendWake" /\ Top(t)'.to = Top(t).to
  BY <1>1, <1>2, TopAfter
<1>4. wake' = [wake EXCEPT ![t] = @ /\ t \in exists] /\ UNCHANGED <<msgq, dmsgq, fStop, ready, clock>>
  BY DEF SendPush
<1>5. /\ \A v \in Thread : v # t => wake'[v] = wake[v]
      /\ t \in exists /\ wake[t] => wake'[t]
  BY <1>1, <1>4, Zenon DEF SignalsOK
<1>6. \A v \in Thread : v # Top(t).to => sendlist'[v] = sendlist[v]
  BY <1>1 DEF SendPush, QueuesOK
<1>7. Leaves(t) /\ Replies(t)
  <2>1. \A v \in Thread : v # t => (wake[v] => wake'[v])
    BY <1>5
  <2>2. \A v \in Thread : sendlist'[v] \subseteq sendlist[v] \/ (Top(t)'.at = "SendWake" /\ Top(t)'.to = v)
    BY <1>3, <1>6
  <2>3. \A v \in Thread : /\ msgq'[v] \subseteq msgq[v] /\ dmsgq'[v] \subseteq dmsgq[v]
                          /\ clock'[v].delay = clock[v].delay /\ (fStop'[v] => fStop[v])
    BY <1>4
  <2>4. ready' = ready
    BY <1>4
  <2>5. Leaves(t)
    BY <1>2, <2>1, <2>2, <2>3 DEF Leaves
  <2> QED  BY <1>2, <2>4, <2>5 DEF Replies
<1>8. Stays(t)
  BY <1>1, <1>2, MovesStay DEF SendPoints, Asleep
<1>9. CASE t \in exists
  BY <1>3, <1>5, <1>7, <1>8, <1>9, AwakeWoken DEF Dozing
<1>10. CASE t \notin exists
  <2>1. t \in Foreign
    BY <1>2, <1>10 DEF Gone, At, Thread
  <2>2. Depth(t) = 2
    BY <1>2, <2>1 DEF Outside, At
  <2>3. stack[t][1].at \in Below("SendPush")
    BY <1>1, <1>2, <2>2, BelowTop
  <2>4. stack[t][1].at = "Code" /\ 1 \in 1..Depth(t)
    BY <2>2, <2>3, BelowIs
  <2>5. stack'[t][1].at = "Code"
    BY <1>2, <2>2, <2>4 DEF Moves, Rest
  <2>6. stack'[t][2].at = "SendWake" /\ Depth(t)' = 2
    BY <1>2, <2>2 DEF Moves, Becomes
  <2>7. \A i \in 1..2 : i = 1 \/ i = 2
    OBVIOUS
  <2>8. Answered(t)'
    BY <2>5, <2>6, <2>7 DEF Answered, Asleep
  <2>9. Dozes(t)'
    BY <1>3, AwakeDozes DEF Dozing
  <2> QED  BY <1>7, <2>8, <2>9, StepWoken
<1> QED  BY <1>9, <1>10

LEMMA SendLoopWoken ==
  ASSUME TypeInv, Life, Woken, [Next]_vars, NEW t \in Thread, SendLoop(t)
  PROVE  Woken'
<1>1. StackOK
  BY DEF TypeInv
<1>2. Moves(t, "SendRecv") /\ Top(t).at = "SendLoop" /\ Others(t)
  BY <1>1, SendLoopStack DEF Moves, Rest
<1>3. Top(t)'.at \notin Dozing
  BY <1>1, <1>2, TopAfter DEF Dozing
<1>4. ~ready'[Top(t).msg] /\ UNCHANGED <<wake, queues, fStop, ready, clock>>
  BY DEF SendLoop, signals
<1>5. Leaves(t) /\ Replies(t)
  BY <1>2, <1>4, PlainStep DEF queues
<1>6. Stays(t)
  BY <1>1, <1>2, <1>4, MovesStay DEF SendPoints, Asleep
<1> QED  BY <1>3, <1>4, <1>5, <1>6, AwakeWoken

\* A Wait that takes the signal of Sends further down remembers it.
LEMMA SendWaitWoken ==
  ASSUME TypeInv, Life, Woken, [Next]_vars, NEW t \in Thread, SendWait(t)
  PROVE  Woken'
<1>1. StackOK /\ SignalsOK
  BY DEF TypeInv
<1>2. Moves(t, "SendLoop") /\ Top(t).at = "SendWait" /\ Others(t) /\ stack'[t][Depth(t)].waited
  BY <1>1, SendWaitStack DEF Moves, Rest
<1>3. Top(t)'.at = "SendLoop"
  BY <1>1, <1>2, TopAfter
<1>4. wake' = [wake EXCEPT ![t] = FALSE] /\ UNCHANGED <<queues, fStop, ready, clock>>
  BY DEF SendWait
<1>5. \A v \in Thread : v # t => wake'[v] = wake[v]
  BY <1>1, <1>4, Zenon DEF SignalsOK
<1>6. Leaves(t) /\ Replies(t)
  BY <1>2, <1>4, <1>5, PlainStep DEF queues
<1>7. PICK n \in Nat : n = Depth(t) /\ n >= 1
  BY <1>1, DepthIs
<1>8. Depth(t)' = n /\ stack'[t][n].at = "SendLoop" /\ stack'[t][n].waited /\ n \in 1..n
  BY <1>2, <1>7 DEF Moves, Becomes
<1>9. Answered(t)'
  <2>1. SUFFICES ASSUME NEW i \in 1..n, stack'[t][i].at \in Asleep PROVE WaitedAbove(t, i)'
    BY <1>8 DEF Answered
  <2>2. i < n
    <3>1. i # n
      BY <1>8, <2>1 DEF Asleep
    <3> QED  BY <3>1
  <2> QED  BY <1>8, <2>2 DEF WaitedAbove, SendPoints
<1>10. Dozes(t)'
  BY <1>3, AwakeDozes DEF Dozing
<1> QED  BY <1>6, <1>9, <1>10, StepWoken

\* ReceiveSends returns, or is not entered, only with sendlist_ empty.
LEMMA EmptyDozes ==
  ASSUME NEW t \in Thread, Top(t)'.at \in {"Queues", "SendWait"}, sendlist'[t] = {}
  PROVE  Dozes(t)'
BY DEF Dozes

LEMMA ReceiveSendsWoken ==
  ASSUME TypeInv, Life, Woken, [Next]_vars, NEW t \in Thread,
         SendReceiveSends(t) \/ GetReceiveSends(t)
  PROVE  Woken'
<1>1. StackOK /\ Seen(t)
  BY DEF TypeInv, Woken
<1>2. PICK from, to : /\ ReceiveSends(t, from, to)
                      /\ \/ from = "SendRecv" /\ to = "SendWait"
                         \/ from = "Top" /\ to = "Queues"
  BY DEF SendReceiveSends, GetReceiveSends
<1>3. /\ Top(t).at = from
      /\ IF hasSends[t] THEN Pushes(t, to, Call(t, "RsPop")) ELSE Moves(t, to)
  BY <1>1, <1>2, ReceiveSendsStack, PointsAre
<1>4. UNCHANGED <<wake, queues, fStop, ready, clock>> /\ Others(t)
  BY <1>2, <1>3 DEF ReceiveSends, signals, Pushes, Moves, Rest
<1>5. Leaves(t) /\ Replies(t)
  BY <1>2, <1>3, <1>4, PlainStep DEF queues
<1>6. CASE hasSends[t]
  <2>1. PICK f : f = Call(t, "RsPop") /\ Pushes(t, to, f)
    BY <1>3, <1>6
  <2>2. f.at = "RsPop" /\ Top(t)' = f
    BY <1>1, <2>1, TopAfter DEF Call
  <2>3. Stays(t)
    BY <1>1, <1>2, <1>3, <2>1, <2>2, PushesStay DEF SendPoints, Asleep
  <2> QED  BY <1>4, <1>5, <2>2, <2>3, AwakeWoken DEF Dozing
<1>7. CASE ~hasSends[t]
  <2>1. Moves(t, to) /\ sendlist'[t] = {}
    BY <1>1, <1>3, <1>4, <1>7 DEF Seen, queues
  <2>2. Top(t)'.at \in {"Queues", "SendWait"}
    BY <1>1, <1>2, <2>1, TopAfter
  <2>3. Stays(t)
    BY <1>1, <1>2, <1>3, <2>1, MovesStay DEF SendPoints, Asleep
  <2>4. Answered(t)'
    BY <1>4, <1>5, <2>3, OwnAnswered
  <2> QED  BY <1>5, <2>1, <2>2, <2>4, EmptyDozes, StepWoken
<1> QED  BY <1>6, <1>7

LEMMA NextSendWoken ==
  ASSUME TypeInv, Shape, Life, Woken, [Next]_vars, NEW t \in Thread, ReceiveFirst(t) \/ ReplyWake(t)
  PROVE  Woken'
<1>1. StackOK /\ QueuesOK
  BY DEF TypeInv
<1>2. /\ Top(t).at \in {"RsPop", "RsWake"}
      /\ \/ Pops(t) /\ sendlist[t] = {} /\ UNCHANGED sendlist
         \/ \E m \in sendlist[t] : Serves(t, m)
  BY <1>1, ReceiveFirstStack, ReplyWakeStack
<1>3. Others(t)
  BY <1>2 DEF Pops, Serves, Rest
<1>4. /\ UNCHANGED <<msgq, dmsgq, fStop, ready, clock>>
      /\ \A v \in Thread : sendlist'[v] \subseteq sendlist[v]
  BY NextSendShrinks DEF ReceiveFirst, ReplyWake, Shrinks
<1>5. /\ \A v \in Thread : wake[v] => wake'[v]
      /\ Top(t).at = "RsWake" => wake'[info[Top(t).msg].from]
  <2>1. CASE ReceiveFirst(t)
    BY <2>1 DEF ReceiveFirst, At
  <2>2. CASE ReplyWake(t)
    <3>1. PICK u : u = info[Top(t).msg].from
      OBVIOUS
    <3>2. Top(t).msg \in Msg
      BY <1>1, <2>2, TopCarries, PointsAre DEF ReplyWake, At
    <3>3. u \in Thread
      BY <3>1, <3>2 DEF TypeInv, MsgsOK, Info
    <3>4. wake' = [wake EXCEPT ![u] = TRUE]
      BY <2>2, <3>1 DEF ReplyWake
    <3> QED  BY <3>1, <3>3, <3>4, Raised
  <2> QED  BY <2>1, <2>2
<1>6. Leaves(t) /\ Replies(t)
  BY <1>2, <1>3, <1>4, <1>5 DEF Leaves, Replies
<1>7. CASE Pops(t) /\ sendlist[t] = {} /\ UNCHANGED sendlist
  <2>1. Top(t)'.at \in Below(Top(t).at)
    BY <1>1, <1>7, PopsTo
  <2>2. Top(t)'.at \in {"Queues", "SendWait"} /\ sendlist'[t] = {}
    BY <1>2, <1>7, <2>1, BelowIs
  <2>3. Stays(t)
    BY <1>1, <1>2, <1>7, PopsStay DEF SendPoints
  <2>4. Answered(t)'
    BY <1>3, <1>5, <1>6, <2>3, OwnAnswered
  <2> QED  BY <1>6, <2>2, <2>4, EmptyDozes, StepWoken
<1>8. ASSUME NEW m \in sendlist[t], Serves(t, m)
      PROVE  Woken'
  <2>1. Top(t)'.at = "Code"
    BY <1>1, <1>8, TopAfter DEF CallOn
  <2>2. Stays(t)
    BY <1>1, <1>2, <1>8, ServesStay DEF SendPoints
  <2> QED  BY <1>5, <1>6, <2>1, <2>2, AwakeWoken DEF Dozing
<1> QED  BY <1>2, <1>7, <1>8

LEMMA ReplyReadyWoken ==
  ASSUME TypeInv, Life, Woken, [Next]_vars, NEW t \in Thread, ReplyReady(t)
  PROVE  Woken'
<1>1. StackOK /\ SignalsOK
  BY DEF TypeInv
<1>2. Moves(t, "RsWake") /\ Top(t).at = "RsReady" /\ Others(t)
  BY <1>1, ReplyReadyStack DEF Moves, Rest
<1>3. Top(t)'.at = "RsWake" /\ Top(t)'.msg = Top(t).msg
  BY <1>1, <1>2, TopAfter
<1>4. UNCHANGED <<wake, queues, fStop, clock>> /\ ready' = [ready EXCEPT ![Top(t).msg] = TRUE]
  BY DEF ReplyReady
<1>5. \A m \in Msg : m # Top(t).msg => ready'[m] = ready[m]
  BY <1>1, <1>4, Zenon DEF SignalsOK
<1>6. Leaves(t) /\ Replies(t)
  BY <1>2, <1>3, <1>4, <1>5 DEF Leaves, Replies, queues
<1>7. Stays(t)
  BY <1>1, <1>2, MovesStay DEF SendPoints, Asleep
<1> QED  BY <1>3, <1>4, <1>6, <1>7, AwakeWoken DEF Dozing

----------------------------------------------------------------------------
(* Get and the clients.                                                    *)

LEMMA GetMessageWoken ==
  ASSUME TypeInv, Life, Woken, [Next]_vars, NEW t \in Thread, GetMessage(t)
  PROVE  Woken'
<1>1. StackOK /\ UNCHANGED <<clock, sendlist, fStop, wake, ready>>
  BY DEF TypeInv, GetMessage, signals
<1>2. Top(t).at = "Queues" /\ \A v \in Thread : v # t => msgq'[v] = msgq[v] /\ dmsgq'[v] = dmsgq[v]
  BY GetMessageIs
<1>3. PICK m : Pushes(t, "Top", CallOn(t, "Code", m))
  BY GetMessageIs
<1>4. PICK f : f = CallOn(t, "Code", m) /\ Pushes(t, "Top", f)
  BY <1>3
<1>5. f.at = "Code"
  BY <1>4 DEF CallOn
<1>6. Top(t)' = f /\ Others(t)
  BY <1>1, <1>4, TopAfter DEF Pushes, Rest
<1>7. Leaves(t) /\ Replies(t)
  BY <1>1, <1>2, <1>6, PlainStep
<1>8. Stays(t)
  BY <1>1, <1>2, <1>4, <1>5, PushesStay DEF SendPoints, Asleep
<1> QED  BY <1>1, <1>5, <1>6, <1>7, <1>8, AwakeWoken DEF Dozing

\* Get waits without limit only when no delayed message is left.
LEMMA GetNothingWoken ==
  ASSUME TypeInv, Life, Woken, [Next]_vars, NEW t \in Thread, GetNothing(t)
  PROVE  Woken'
<1>1. StackOK /\ ClockOK /\ QueuesOK /\ MsgsOK /\ Dozes(t)
  BY DEF TypeInv, Woken
<1>2. Moves(t, "Stop") /\ Top(t).at = "Queues" /\ Others(t)
  BY <1>1, GetNothingStack DEF Moves, Rest
<1>3. Top(t)'.at = "Stop"
  BY <1>1, <1>2, TopAfter
<1>4. /\ UNCHANGED <<wake, queues, fStop, ready>>
      /\ \E d \in DelayNext(t) : clock' = [clock EXCEPT ![t].delay = d]
      /\ msgq[t] = {} /\ Triggered(t) = {}
  BY DEF GetNothing, signals
<1>5. PICK d \in DelayNext(t) : clock' = [clock EXCEPT ![t].delay = d]
  BY <1>4
<1>6. clock'[t].delay = d /\ \A v \in Thread : v # t => clock'[v] = clock[v]
  BY <1>1, <1>5 DEF ClockOK
<1>7. Leaves(t) /\ Replies(t)
  BY <1>2, <1>4, <1>6, PlainStep DEF queues
<1>8. Stays(t)
  BY <1>1, <1>2, MovesStay DEF SendPoints, Asleep
<1>9. dmsgq[t] # {} => d # Forever
  <2>1. SUFFICES ASSUME dmsgq[t] # {} PROVE d # Forever
    OBVIOUS
  <2>2. PICK m \in dmsgq[t] : d = info[m].trigger - clock[t].cur
    BY <1>5, <2>1 DEF DelayNext
  <2>3. m \in Msg /\ info[m].trigger \in Nat /\ clock[t].cur \in Nat
    BY <1>1, <2>2 DEF QueuesOK, MsgsOK, Info, ClockOK
  <2>4. ~(info[m].trigger <= clock[t].cur)
    BY <1>4, <2>2 DEF Triggered
  <2> QED  BY <2>2, <2>3, <2>4 DEF Forever
<1>10. Dozes(t)'
  <2>1. Top(t)'.at \in Dozing /\ sendlist'[t] # {} => wake'[t] \/ SendComing(t)'
    <3>1. SendComing(t) => SendComing(t)'
      <4>1. \A u \in Thread : Top(u).at = "SendWake" => Top(u)' = Top(u)
        BY <1>1, <1>2, TopAfter
      <4> QED  BY <4>1 DEF SendComing
    <3> QED  BY <1>1, <1>2, <1>4, <3>1 DEF Dozes, Dozing, queues
  <2> QED  BY <1>3, <1>4, <1>6, <1>9, <2>1 DEF Dozes, queues
<1>11. Answered(t)'
  BY <1>2, <1>4, <1>7, <1>8, OwnAnswered
<1> QED  BY <1>7, <1>10, <1>11, StepWoken

LEMMA GetStopWoken ==
  ASSUME TypeInv, Life, Woken, [Next]_vars, NEW t \in Thread, GetStop(t)
  PROVE  Woken'
<1>1. StackOK /\ ClockOK /\ Dozes(t)
  BY DEF TypeInv, Woken
<1>2. Top(t).at = "Stop" /\ UNCHANGED <<wake, queues, fStop, ready>>
  BY DEF GetStop, At, signals
<1>3. CASE fStop[t]
  <2>1. Moves(t, "Exited") /\ Others(t) /\ UNCHANGED clock
    BY <1>1, <1>3, GetStopStack DEF Moves, Rest, GetStop
  <2>2. Top(t)'.at = "Exited"
    BY <1>1, <2>1, TopAfter
  <2>3. Leaves(t) /\ Replies(t)
    BY <1>2, <2>1, PlainStep DEF queues
  <2>4. Stays(t)
    BY <1>1, <1>2, <2>1, MovesStay DEF SendPoints, Asleep
  <2> QED  BY <1>2, <2>2, <2>3, <2>4, AwakeWoken DEF Dozing
<1>4. CASE ~fStop[t]
  <2>1. Moves(t, "Wait") /\ Others(t)
    BY <1>1, <1>4, GetStopStack DEF Moves, Rest
  <2>2. Top(t)'.at = "Wait"
    BY <1>1, <2>1, TopAfter
  <2>3. PICK d : d = IF clock[t].delay = Forever THEN Forever ELSE now + clock[t].delay
    OBVIOUS
  <2>4. clock' = [clock EXCEPT ![t].delay = d]
    BY <1>1, <1>4, <2>3 DEF GetStop, ClockOK
  <2>5. clock'[t].delay = d /\ \A v \in Thread : v # t => clock'[v] = clock[v]
    BY <1>1, <2>4 DEF ClockOK
  <2>6. d = Forever => clock[t].delay = Forever
    <3>1. now \in Nat /\ clock[t].delay \in Nat \cup {Forever}
      BY <1>1 DEF ClockOK
    <3> QED  BY <2>3, <3>1 DEF Forever
  <2>7. Leaves(t) /\ Replies(t)
    BY <1>2, <2>1, <2>5, PlainStep DEF queues
  <2>8. Stays(t)
    BY <1>1, <1>2, <2>1, MovesStay DEF SendPoints, Asleep
  <2>9. Dozes(t)'
    <3>1. SendComing(t) => SendComing(t)'
      <4>1. \A u \in Thread : Top(u).at = "SendWake" => Top(u)' = Top(u)
        BY <1>1, <1>2, <2>1, TopAfter
      <4> QED  BY <4>1 DEF SendComing
    <3> QED  BY <1>1, <1>2, <1>4, <2>2, <2>5, <2>6, <3>1 DEF Dozes, Dozing, queues
  <2>10. Answered(t)'
    BY <1>2, <2>1, <2>7, <2>8, OwnAnswered
  <2> QED  BY <2>7, <2>9, <2>10, StepWoken
<1> QED  BY <1>3, <1>4

\* The Wait of Get is at the bottom of its stack: no Send is left below it to miss the signal.
LEMMA GetWaitWoken ==
  ASSUME TypeInv, Shape, Life, Woken, [Next]_vars, NEW t \in Thread, GetWait(t)
  PROVE  Woken'
<1>1. StackOK /\ ClockOK /\ SignalsOK
  BY DEF TypeInv
<1>2. Moves(t, "Top") /\ Top(t).at = "Wait" /\ Others(t)
  BY <1>1, GetWaitStack DEF Moves, Rest
<1>3. Top(t)'.at = "Top"
  BY <1>1, <1>2, TopAfter
<1>4. /\ wake' = [wake EXCEPT ![t] = FALSE] /\ UNCHANGED <<queues, fStop, ready>>
      /\ clock' = [clock EXCEPT ![t] = [cur |-> now, delay |-> Forever]]
  BY DEF GetWait
<1>5. \A v \in Thread : v # t => wake'[v] = wake[v]
  BY <1>1, <1>4, Zenon DEF SignalsOK
<1>6. \A v \in Thread : v # t => clock'[v] = clock[v]
  BY <1>1, <1>4 DEF ClockOK
<1>7. Leaves(t) /\ Replies(t)
  BY <1>2, <1>4, <1>5, <1>6, PlainStep DEF queues
<1>8. Answered(t)'
  <2>1. PICK n \in Nat : n = Depth(t) /\ n >= 1
    BY <1>1, DepthIs
  <2>2. ~(n > 1)
    BY <1>1, <1>2, <2>1, BelowTop, BelowIs
  <2>3. n = 1
    BY <2>1, <2>2
  <2>4. Depth(t)' = 1 /\ stack'[t][1].at = "Top" /\ \A i \in 1..1 : i = 1
    BY <1>2, <2>1, <2>3 DEF Moves, Becomes
  <2> QED  BY <2>4 DEF Answered, Asleep
<1>9. Dozes(t)'
  BY <1>3, AwakeDozes DEF Dozing
<1> QED  BY <1>7, <1>8, <1>9, StepWoken

\* A client that calls Post or Send has touched nothing yet.
LEMMA ClientCallWoken ==
  ASSUME TypeInv, Life, Woken, [Next]_vars, NEW t \in Thread, NEW f, Pushes(t, "Code", f),
         Top(t).at = "Code", f.at \in {"PostPush", "SendPush", "Code"},
         UNCHANGED <<wake, queues, fStop, ready, clock>>
  PROVE  Woken'
<1>1. StackOK
  BY DEF TypeInv
<1>2. Top(t)' = f /\ Others(t)
  BY <1>1, TopAfter DEF Pushes, Rest
<1>3. Leaves(t) /\ Replies(t)
  BY <1>2, PlainStep DEF queues
<1>4. Stays(t)
  BY <1>1, PushesStay DEF SendPoints, Asleep
<1> QED  BY <1>2, <1>3, <1>4, AwakeWoken DEF Dozing

LEMMA CallsWoken ==
  ASSUME TypeInv, Life, Woken, [Next]_vars, NEW t \in Thread,
         \/ \E h \in Handler, d \in Delays \cup {Forever} : Post(t, h, d)
         \/ \E h \in Handler : SendHere(t, h) \/ Send(t, h)
  PROVE  Woken'
<1>1. StackOK /\ MsgsOK /\ now \in Nat
  BY DEF TypeInv, ClockOK
<1>2. UNCHANGED <<wake, queues, fStop, ready, clock>>
  BY DEF Post, SendHere, Send, signals
<1>3. \E f : Pushes(t, "Code", f) /\ Top(t).at = "Code" /\ f.at \in {"PostPush", "SendPush", "Code"}
  <2>1. ASSUME NEW h \in Handler, NEW d \in Delays \cup {Forever}, Post(t, h, d)
        PROVE  Pushes(t, "Code", CallOn(HomeOf[h], "PostPush", created + 1)) /\ Top(t).at = "Code"
    <3>1. d \in Nat \cup {Forever}
      BY ConstantsOK
    <3> QED  BY <1>1, <2>1, <3>1, PostStack
  <2>2. \A u, m : /\ CallOn(u, "PostPush", m).at = "PostPush" /\ CallOn(u, "Code", m).at = "Code"
                  /\ CallOn(u, "SendPush", m).at = "SendPush"
    BY DEF CallOn
  <2>3. ASSUME NEW h \in Handler, SendHere(t, h)
        PROVE  Pushes(t, "Code", CallOn(t, "Code", created + 1)) /\ Top(t).at = "Code"
    BY <1>1, <2>3, SendHereStack
  <2>4. ASSUME NEW h \in Handler, Send(t, h)
        PROVE  Pushes(t, "Code", CallOn(HomeOf[h], "SendPush", created + 1)) /\ Top(t).at = "Code"
    BY <1>1, <2>4, SendStack
  <2> QED  BY <2>1, <2>2, <2>3, <2>4, ZenonT(40)
<1> QED  BY <1>2, <1>3, ClientCallWoken

\* fStop_ is set and the WakeUp follows.
LEMMA StoppingWoken ==
  ASSUME TypeInv, Life, Woken, [Next]_vars, NEW t \in Thread, NEW u \in Worker,
         NEW f, Pushes(t, "Code", f), Top(t).at = "Code", f.at \in {"QuitWake", "StopWake"}, f.to = u,
         fStop' = [fStop EXCEPT ![u] = TRUE], UNCHANGED <<wake, queues, ready, clock>>
  PROVE  Woken'
<1>1. StackOK /\ SignalsOK
  BY DEF TypeInv
<1>2. Top(t)' = f /\ Others(t)
  BY <1>1, TopAfter DEF Pushes, Rest
<1>3. \A v \in Thread : v # u => fStop'[v] = fStop[v]
  BY <1>1, Zenon DEF SignalsOK
<1>4. Leaves(t) /\ Replies(t)
  BY <1>2, <1>3 DEF Leaves, Replies, queues
<1>5. Stays(t)
  BY <1>1, PushesStay DEF SendPoints, Asleep
<1> QED  BY <1>2, <1>4, <1>5, AwakeWoken DEF Dozing

LEMMA QuitWoken ==
  ASSUME TypeInv, Life, Woken, [Next]_vars, NEW u \in Worker,
         \/ DeleteThread(u)
         \/ \E t \in Thread : Quit(t, u)
  PROVE  Woken'
<1>1. StackOK
  BY DEF TypeInv
<1>2. CASE DeleteThread(u)
  <2>1. PICK f : /\ f = CallOn(u, "StopWake", NoMsg) /\ Pushes(Main, "Code", f)
                 /\ Top(Main).at = "Code" /\ Main \in Thread
    BY <1>1, <1>2, DeleteThreadStack
  <2>2. f.at = "StopWake" /\ f.to = u
    BY <2>1 DEF CallOn
  <2>3. fStop' = [fStop EXCEPT ![u] = TRUE] /\ UNCHANGED <<wake, queues, ready, clock>>
    BY <1>2 DEF DeleteThread
  <2> QED  BY <2>1, <2>2, <2>3, StoppingWoken
<1>3. ASSUME NEW t \in Thread, Quit(t, u) PROVE Woken'
  <2>1. PICK f : f = CallOn(u, "QuitWake", NoMsg) /\ Pushes(t, "Code", f) /\ Top(t).at = "Code"
    BY <1>1, <1>3, QuitStack
  <2>2. f.at = "QuitWake" /\ f.to = u
    BY <2>1 DEF CallOn
  <2>3. fStop' = [fStop EXCEPT ![u] = TRUE] /\ UNCHANGED <<wake, queues, ready, clock>>
    BY <1>3 DEF Quit
  <2> QED  BY <2>1, <2>2, <2>3, StoppingWoken
<1> QED  BY <1>2, <1>3

\* Clear wakes the senders that it releases.
LEMMA ClearReleases ==
  ASSUME TypeInv, NEW S, NEW on, Clear(S, on)
  PROVE  /\ \A v \in Thread : wake[v] => wake'[v]
         /\ \A m \in Msg : ready'[m] => ready[m] \/ wake'[info[m].from]
<1>1. \A m \in Msg : info[m].from \in Thread
  BY DEF TypeInv, MsgsOK, Info
<1>2. PICK sent : /\ ready' = [m \in Msg |-> ready[m] \/ m \in sent]
                  /\ wake' = [u \in Thread |-> wake[u] \/ \E m \in sent : info[m].from = u]
  BY DEF Clear
<1>3. \A v \in Thread : wake[v] => wake'[v]
  BY <1>2, Zenon
<1>4. \A m \in Msg : ready'[m] => ready[m] \/ m \in sent
  BY <1>2, Zenon
<1>5. \A m \in Msg : m \in sent => wake'[info[m].from]
  BY <1>1, <1>2, Zenon
<1> QED  BY <1>3, <1>4, <1>5

LEMMA ClearsWoken ==
  ASSUME TypeInv, Life, Woken, [Next]_vars, NEW t \in Thread, Others(t), Stays(t), NEW S, NEW on,
         Clear(S, on), UNCHANGED <<fStop, clock>>, Top(t).at \in {"Code", "Delete"},
         Top(t)'.at = "Code"
  PROVE  Woken'
<1>1. \A v \in Thread : /\ msgq'[v] \subseteq msgq[v] /\ dmsgq'[v] \subseteq dmsgq[v]
                        /\ sendlist'[v] \subseteq sendlist[v]
  BY ClearShrinks DEF TypeInv
<1>2. /\ \A v \in Thread : wake[v] => wake'[v]
      /\ \A m \in Msg : ready'[m] => ready[m] \/ wake'[info[m].from]
  BY ClearReleases
<1>3. Leaves(t)
  BY <1>1, <1>2 DEF Leaves
<1>4. Replies(t)
  BY <1>2 DEF Replies
<1> QED  BY <1>2, <1>3, <1>4, AwakeWoken DEF Dozing

LEMMA DestroyWoken ==
  ASSUME TypeInv, Shape, Life, Woken, [Next]_vars, NEW t \in Thread, NEW h \in Handler,
         DestroyHandler(t, h)
  PROVE  Woken'
<1>1. StackOK /\ UNCHANGED <<stack, fStop, clock>> /\ Top(t).at = "Code"
  BY DEF TypeInv, DestroyHandler, At
<1>2. PICK S, on : Clear(S, on)
  BY DEF DestroyHandler
<1>3. Others(t) /\ Top(t)' = Top(t) /\ Depth(t)' = Depth(t)
  BY <1>1 DEF Others, Top, Depth
<1>4. Stays(t)
  BY <1>1, <1>3 DEF Stays
<1> QED  BY <1>1, <1>2, <1>3, <1>4, ClearsWoken

LEMMA CodeReturnWoken ==
  ASSUME TypeInv, Shape, Life, Woken, [Next]_vars, NEW t \in Thread, CodeReturn(t)
  PROVE  Woken'
<1>1. StackOK /\ ClockOK
  BY DEF TypeInv
<1>2. Pops(t) /\ Top(t).at = "Code"
  BY <1>1, CodeReturnStack
<1>3. Top(t)'.at \in Below("Code") /\ Others(t)
  BY <1>1, <1>2, PopsTo
<1>4. Top(t)'.at \notin Dozing
  BY <1>3, BelowIs DEF Dozing
<1>5. UNCHANGED <<wake, queues, fStop, ready>>
  BY DEF CodeReturn, signals
<1>6. clock' = clock \/ clock' = [clock EXCEPT ![t].cur = now]
  BY DEF CodeReturn
<1>7. \A v \in Thread : clock'[v].delay = clock[v].delay
  BY <1>1, <1>6 DEF ClockOK
<1>8. Leaves(t) /\ Replies(t)
  BY <1>2, <1>3, <1>5, <1>7, PlainStep DEF queues
<1>9. Stays(t)
  BY <1>1, <1>2, PopsStay DEF SendPoints
<1> QED  BY <1>4, <1>5, <1>8, <1>9, AwakeWoken

LEMMA DeletionWoken ==
  ASSUME TypeInv, Shape, Life, Woken, [Next]_vars, Deletion
  PROVE  Woken'
<1>1. StackOK
  BY DEF TypeInv
<1>2. CASE StopWake
  <2>1. Main \in Thread /\ Moves(Main, "Join") /\ Top(Main).at = "StopWake" /\ Others(Main)
    BY <1>1, <1>2, StopWakeStack DEF Moves, Rest
  <2>2. Top(Main)'.at = "Join"
    BY <1>1, <2>1, TopAfter
  <2>3. PICK u : u = Top(Main).to
    OBVIOUS
  <2>4. u \in Thread /\ wake' = [wake EXCEPT ![u] = TRUE] /\ UNCHANGED <<queues, fStop, ready, clock>>
    BY <1>1, <1>2, <2>1, <2>3, TopIsFrame DEF StopWake, Frame
  <2>5. wake'[u] /\ \A v \in Thread : wake[v] => wake'[v]
    BY <2>4, Raised
  <2>6. Leaves(Main) /\ Replies(Main)
    BY <2>1, <2>3, <2>4, <2>5, RaisingStep DEF queues
  <2>7. Stays(Main)
    BY <1>1, <2>1, MovesStay DEF SendPoints, Asleep
  <2> QED  BY <2>1, <2>2, <2>5, <2>6, <2>7, AwakeWoken DEF Dozing
<1>3. CASE Join
  <2>1. Main \in Thread /\ Moves(Main, "Delete") /\ Top(Main).at = "Join" /\ Others(Main)
    BY <1>1, <1>3, JoinStack DEF Moves, Rest
  <2>2. Top(Main)'.at = "Delete"
    BY <1>1, <2>1, TopAfter
  <2>3. UNCHANGED <<wake, queues, fStop, ready, clock>>
    BY <1>3 DEF Join, signals
  <2>4. Leaves(Main) /\ Replies(Main)
    BY <2>1, <2>3, PlainStep DEF queues
  <2>5. Stays(Main)
    BY <1>1, <2>1, MovesStay DEF SendPoints, Asleep
  <2> QED  BY <2>1, <2>2, <2>3, <2>4, <2>5, AwakeWoken DEF Dozing
<1>4. CASE DeleteClear
  <2>1. Main \in Thread /\ Pops(Main) /\ Top(Main).at = "Delete"
    BY <1>1, <1>4, DeleteClearStack
  <2>2. Top(Main)'.at \in Below("Delete") /\ Others(Main)
    BY <1>1, <2>1, PopsTo
  <2>3. Top(Main)'.at = "Code"
    BY <2>2, BelowIs
  <2>4. PICK S, on : Clear(S, on)
    BY <1>4 DEF DeleteClear
  <2>5. UNCHANGED <<fStop, clock>>
    BY <1>4 DEF DeleteClear
  <2>6. Stays(Main)
    BY <1>1, <2>1, PopsStay DEF SendPoints
  <2> QED  BY <2>1, <2>2, <2>3, <2>4, <2>5, <2>6, ClearsWoken
<1> QED  BY <1>2, <1>3, <1>4 DEF Deletion

LEMMA StillWoken ==
  ASSUME Woken, UNCHANGED <<stack, clock, queues, signals>>
  PROVE  Woken'
BY DEF Woken, Seen, Dozes, Answered, SendComing, StopComing, ReplyComing, WaitedAbove, Top, Depth,
   queues, signals

LEMMA WokenInit == Init => Woken
<1>1. SUFFICES ASSUME Init PROVE Woken
  OBVIOUS
<1>2. \A t \in Thread : sendlist[t] = {} /\ \A m \in Msg : ~ready[m]
  BY <1>1 DEF Init
<1>3. \A t \in Thread : Depth(t) = 1 /\ Top(t) = stack[t][1] /\ stack[t][1].at \in {"Top", "Code"}
  BY <1>1 DEF Init, Depth, Top, Call
<1>4. \A i \in 1..1 : i = 1
  OBVIOUS
<1> QED  BY <1>2, <1>3, <1>4 DEF Woken, Seen, Dozes, Dozing, Answered, Asleep

LEMMA WokenStep == TypeInv /\ Shape /\ Life /\ Gone /\ Outside /\ Woken /\ [Next]_vars => Woken'
<1>1. SUFFICES ASSUME TypeInv, Shape, Life, Gone, Outside, Woken, [Next]_vars PROVE Woken'
  OBVIOUS
<1>2. ASSUME NEW t \in Thread, Run(t) PROVE Woken'
  BY <1>1, <1>2, PostPushWoken, QuitWakeWoken, SendPushWoken, SendWakeWoken, SendLoopWoken,
     ReceiveSendsWoken, SendWaitWoken, SendReturnWoken, NextSendWoken, ReplyReadyWoken,
     GetMessageWoken, GetNothingWoken, GetStopWoken, GetWaitWoken DEF Run
<1>3. ASSUME NEW t \in Thread, Client(t) PROVE Woken'
  BY <1>1, <1>3, CallsWoken, DestroyWoken, QuitWoken DEF Client
<1>4. ASSUME NEW t \in Thread, CodeReturn(t) PROVE Woken'
  BY <1>1, <1>4, CodeReturnWoken
<1>5. CASE Deletion \/ \E u \in Worker : DeleteThread(u)
  BY <1>1, <1>5, DeletionWoken, QuitWoken
<1>6. CASE Tick \/ UNCHANGED vars
  BY <1>1, <1>6, StillWoken DEF Tick, vars
<1> QED  BY <1>1, <1>2, <1>3, <1>4, <1>5, <1>6 DEF Next

----------------------------------------------------------------------------
(* What the threads and their queues promise.                              *)

LEMMA FullInv == Spec => [](TypeInv /\ Shape /\ Life /\ Timed /\ Gone /\ Outside /\ Alive /\ Woken)
BY TypeInvInit, TypeInvNext, ShapeInit, ShapeStep, LifeInit, LifeStep, TimedInit, TimedStep,
   GoneInit,
   GoneStep, OutsideInit, OutsideStep, AliveInit, AliveStep, WokenInit, WokenStep, PTL DEF Spec

\* Whatever the threads do, and although has_sends_, fStop_ and the flag of a Send are read
\* without a lock, a thread that sleeps in Get or in Send has nothing to run and no reply, or
\* somebody is about to raise its signal.
THEOREM WakeupsKept == Spec => []NoLostWakeup
BY FullInv, WokenMeans, PTL

\* ReceiveSends and Clear write to the flag that _SendMessage points to only while the Send
\* whose local it is waits, and a Send whose flag is set is in no queue and in no ReceiveSends.
THEOREM FlagsFindTheirSend == Spec => []ReadyPointsToWaitingSend
BY FullInv, LifeMeans, PTL

\* However Sends nest in ReceiveSends and whatever Clear and a deletion drop, a Send that is
\* told to return has had its handler run to its end, or will never have it run.
THEOREM SendSynchronous == Spec => []SendIsSynchronous
BY FullInv, LifeMeans, PTL

\* PostDelayed with any delays: Get moves no message to msgq_ before its time.
THEOREM NotEarly == Spec => []DelayedNotEarly
BY FullInv, PTL DEF Timed

\* PostDelayed with any delays: Get releases what its threads posted in the order of the
\* times, except what was posted after a later one had been released.
THEOREM InOrder == Spec => []DelayedInOrder
BY FullInv, PTL DEF Timed

\* Once ~MessageHandler has run, no queue and no Send runs a message of that handler.
THEOREM NoCallOnDestroyed == Spec => NoCallAfterDestroy
<1>1. TypeInv /\ Shape /\ Life /\ Alive /\ [Next]_vars =>
        [\A t \in Thread : Len(stack'[t]) > Len(stack[t]) =>
           LET top == stack'[t][Len(stack'[t])]
           IN top.at = "Code" => info'[top.msg].handler \in handlers]_vars
  <2>1. ASSUME TypeInv, Shape, Life, Alive, [Next]_vars, NEW t \in Thread,
               Len(stack'[t]) > Len(stack[t])
        PROVE  LET top == stack'[t][Len(stack'[t])]
               IN top.at = "Code" => info'[top.msg].handler \in handlers
    BY <2>1, StepCallsAlive DEF CallsAlive, Depth, Top
  <2> QED  BY <2>1
<1> QED  BY <1>1, FullInv, PTL DEF NoCallAfterDestroy, Spec
=============================================================================
