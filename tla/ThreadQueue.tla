---------------------------- MODULE ThreadQueue ----------------------------
(***************************************************************************)
(* talk_base::MessageQueue and talk_base::Thread (base/messagequeue.cc,    *)
(* base/thread.cc) with the wake-up flag of the socket server a thread     *)
(* waits in (base/physicalsocketserver.cc).  Every cross-thread call of    *)
(* the program goes through this module: Post, PostDelayed and Send put a  *)
(* message in the queue of another thread, whose Get loop runs it.         *)
(*                                                                         *)
(* A thread is a stack of frames, one per call in progress: Get, the       *)
(* ReceiveSends it makes, the handler that a message runs, the Send that   *)
(* the handler makes, and the ReceiveSends which that Send makes while it  *)
(* waits.  One step runs the top frame of one thread from one access to    *)
(* shared data to the next.  A handler is arbitrary client code: it posts, *)
(* sends, quits a thread, destroys a handler and returns, in any order.    *)
(***************************************************************************)
EXTENDS Integers, Sequences, FiniteSets

CONSTANTS
  Worker,      \* threads started with Start(): they run ProcessMessages(kForever)
  Main,        \* the wrapped thread that owns the workers and deletes them
  Foreign,     \* OS threads without a Thread object: a Send gives them an AutoThread
  Handler,     \* the MessageHandler objects
  HomeOf,      \* the worker on which each handler is used and destroyed
  CanPost,     \* pairs <<t, u>>: code on thread t calls u->Post or u->PostDelayed
  CanSend,     \* pairs <<t, u>>: code on thread t calls u->Send
  Before,      \* pairs <<t, u>>: Main deletes worker t before worker u
  MayQuit,     \* workers on which client code calls Quit()
  Doomed,      \* handlers that their owners destroy while the threads run
  Delays,      \* the delays PostDelayed is called with
  MaxMsgs,     \* bound: messages created
  MaxTime      \* bound: the last value of the clock, which stands for all later times

Msg == 1..MaxMsgs
Thread == Worker \cup {Main} \cup Foreign

ASSUME ConstantsOK ==
  /\ MaxMsgs \in Nat /\ MaxTime \in Nat
  /\ Delays \subseteq Nat
  /\ Main \notin Worker /\ Main \notin Foreign /\ Worker \cap Foreign = {}
  /\ Handler # {} /\ HomeOf \in [Handler -> Worker]
  /\ CanPost \subseteq Thread \X Worker /\ CanSend \subseteq Thread \X Worker
  /\ MayQuit \subseteq Worker /\ Doomed \subseteq Handler

NoMsg == 0
Forever == -1

GetPoints == {"Top", "Queues", "Stop", "Wait", "Exited"}        \* MessageQueue::Get
ReceivePoints == {"RsPop", "RsReady", "RsWake"}                 \* Thread::ReceiveSends
SendPoints == {"SendWake", "SendLoop", "SendRecv", "SendWait"}  \* Thread::Send, queued
CallPoints == {"PostPush", "SendPush", "QuitWake",              \* Post, Send, Quit
               "StopWake", "Join", "Delete"}                    \* Thread::~Thread
Points == GetPoints \cup ReceivePoints \cup SendPoints \cup CallPoints \cup {"Code"}

\* Points of a call that is about a message.
Carrying == SendPoints \cup {"RsReady", "RsWake", "PostPush", "SendPush"}

\* to: the thread a call is made on; waited: the local of Send.
Frame == {f \in [at: Points, msg: Msg \cup {NoMsg}, to: Thread, waited: BOOLEAN] :
            f.at \in Carrying => f.msg # NoMsg}

Info == [handler: Handler, from: Thread, delay: Int, trigger: Nat, arrival: Nat]

VARIABLES
  stack,       \* the frames of each thread
  clock,       \* of each thread's Get: msCurrent, and cmsNext, then when its Wait ends
  msgq,        \* msgq_: messages ready to run
  dmsgq,       \* dmsgq_: delayed messages
  sendlist,    \* sendlist_: messages sent and not yet received
  hasSends,    \* has_sends_, read without the lock
  fStop,       \* fStop_, read without the lock
  wake,        \* the socket server's signal is raised (Signaler::fSignaled_)
  ready,       \* the sender's local "ready" that _SendMessage points to
  info,        \* what a message carries: its handler, its sender, its delay and trigger
               \* time, its arrival number in its queue
  created,     \* messages created so far
  arrived,     \* arrivals in a queue so far
  exists,      \* threads whose Thread object exists
  handlers,    \* handlers not yet destroyed
  now          \* Time()

queues == <<msgq, dmsgq, sendlist>>
signals == <<hasSends, fStop, wake, ready>>
msgs == <<info, created, arrived>>
objects == <<exists, handlers>>
vars == <<stack, clock, queues, signals, msgs, objects, now>>

----------------------------------------------------------------------------
(* The stack of a thread.                                                  *)

Depth(t) == Len(stack[t])
Top(t) == stack[t][Len(stack[t])]
At(t, point) == Top(t).at = point

Call(t, point) == [at |-> point, msg |-> NoMsg, to |-> t, waited |-> FALSE]
CallOn(u, point, m) == [at |-> point, msg |-> m, to |-> u, waited |-> FALSE]

\* The top frame moves on to a point / and makes a call / returns to the frame below.
GoTo(s, point) == [s EXCEPT ![Len(s)].at = point]
Goto(t, point) == stack' = [stack EXCEPT ![t] = GoTo(@, point)]
CallFrom(t, point, frame) == stack' = [stack EXCEPT ![t] = Append(GoTo(@, point), frame)]
Return(t) == stack' = [stack EXCEPT ![t] = SubSeq(@, 1, Len(@) - 1)]

\* ReceiveSends enters crit_ again after a handler and keeps it until it has
\* woken the sender: nobody else can enter it meanwhile.
Locked(t) == At(t, "RsWake")

----------------------------------------------------------------------------
Init ==
  /\ stack = [t \in Thread |-> <<Call(t, IF t \in Worker THEN "Top" ELSE "Code")>>]
  /\ clock = [t \in Thread |-> [cur |-> 0, delay |-> Forever]]
  /\ msgq = [t \in Thread |-> {}]
  /\ dmsgq = [t \in Thread |-> {}]
  /\ sendlist = [t \in Thread |-> {}]
  /\ hasSends = [t \in Thread |-> FALSE]
  /\ fStop = [t \in Thread |-> FALSE]
  /\ wake = [t \in Thread |-> FALSE]
  /\ ready = [m \in Msg |-> FALSE]
  /\ info = [m \in Msg |-> [handler |-> CHOOSE h \in Handler : TRUE, from |-> Main,
                            delay |-> Forever, trigger |-> 0, arrival |-> 0]]
  /\ created = 0 /\ arrived = 0 /\ now = 0
  /\ exists = Worker \cup {Main}
  /\ handlers = Handler

----------------------------------------------------------------------------
(* Post, PostDelayed: fStop_ is read before the lock is taken.             *)

NewMsg(t, h, delay) ==
  /\ created < MaxMsgs
  /\ h \in handlers
  /\ HomeOf[h] \in exists
  /\ created' = created + 1
  /\ info' = [info EXCEPT ![created + 1] =
       [handler |-> h, from |-> t, delay |-> delay, arrival |-> 0,
        trigger |-> IF delay = Forever THEN 0 ELSE now + delay]]

\* Without a delay: Post; with one: PostDelayed.
Post(t, h, delay) ==
  /\ At(t, "Code") /\ <<t, HomeOf[h]>> \in CanPost /\ ~fStop[HomeOf[h]]
  /\ delay # Forever => now + delay <= MaxTime
  /\ NewMsg(t, h, delay)
  /\ CallFrom(t, "Code", CallOn(HomeOf[h], "PostPush", created + 1))
  /\ UNCHANGED <<clock, queues, signals, arrived, objects, now>>

\* A queue receives a message.
Arrive(m) ==
  /\ arrived' = arrived + 1
  /\ info' = [info EXCEPT ![m].arrival = arrived + 1]
  /\ UNCHANGED created

\* The push and the WakeUp are made under crit_.
PostPush(t) ==
  LET m == Top(t).msg
      u == Top(t).to
  IN /\ At(t, "PostPush") /\ ~Locked(u)
     /\ Arrive(m)
     /\ IF info[m].delay = Forever
        THEN msgq' = [msgq EXCEPT ![u] = @ \cup {m}] /\ UNCHANGED dmsgq
        ELSE dmsgq' = [dmsgq EXCEPT ![u] = @ \cup {m}] /\ UNCHANGED msgq
     /\ wake' = [wake EXCEPT ![u] = TRUE]
     /\ Return(t)
     /\ UNCHANGED <<clock, sendlist, hasSends, fStop, ready, objects, now>>

----------------------------------------------------------------------------
(* Send: runs the handler at once on the thread's own messages; otherwise  *)
(* queues it and waits, receiving what is sent to the caller meanwhile.    *)

SendHere(t, h) ==
  /\ At(t, "Code") /\ <<t, t>> \in CanSend /\ HomeOf[h] = t /\ ~fStop[t]
  /\ NewMsg(t, h, Forever)
  /\ CallFrom(t, "Code", CallOn(t, "Code", created + 1))
  /\ UNCHANGED <<clock, queues, signals, arrived, objects, now>>

Send(t, h) ==
  /\ At(t, "Code") /\ <<t, HomeOf[h]>> \in CanSend /\ HomeOf[h] # t /\ ~fStop[HomeOf[h]]
  /\ NewMsg(t, h, Forever)
  /\ CallFrom(t, "Code", CallOn(HomeOf[h], "SendPush", created + 1))
  /\ UNCHANGED <<clock, queues, signals, arrived, objects, now>>

\* A foreign thread first gets an AutoThread, an object on the stack of Send, whose
\* new socket server has no signal raised.
SendPush(t) ==
  LET m == Top(t).msg
      u == Top(t).to
  IN /\ At(t, "SendPush") /\ ~Locked(u)
     /\ exists' = exists \cup {t}
     /\ wake' = [wake EXCEPT ![t] = @ /\ t \in exists]
     /\ Arrive(m)
     /\ sendlist' = [sendlist EXCEPT ![u] = @ \cup {m}]
     /\ hasSends' = [hasSends EXCEPT ![u] = TRUE]
     /\ Goto(t, "SendWake")
     /\ UNCHANGED <<clock, msgq, dmsgq, fStop, ready, handlers, now>>

SendWake(t) ==
  /\ At(t, "SendWake")
  /\ wake' = [wake EXCEPT ![Top(t).to] = TRUE]
  /\ Goto(t, "SendLoop")
  /\ UNCHANGED <<clock, queues, hasSends, fStop, ready, msgs, objects, now>>

\* while (!ready) { ReceiveSends(); Wait(kForever) }
SendLoop(t) ==
  /\ At(t, "SendLoop") /\ ~ready[Top(t).msg]
  /\ Goto(t, "SendRecv")
  /\ UNCHANGED <<clock, queues, signals, msgs, objects, now>>

SendWait(t) ==
  /\ At(t, "SendWait") /\ wake[t]
  /\ wake' = [wake EXCEPT ![t] = FALSE]
  /\ stack' = [stack EXCEPT ![t][Len(stack[t])] =
       [@ EXCEPT !.at = "SendLoop", !.waited = TRUE]]
  /\ UNCHANGED <<clock, queues, hasSends, fStop, ready, msgs, objects, now>>

\* Fault: the last WakeUp of Send is left out.
SendReturnNoWake(t) ==
  /\ At(t, "SendLoop") /\ ready[Top(t).msg]
  /\ exists' = exists \ (Foreign \cap {t})
  /\ Return(t)
  /\ UNCHANGED <<clock, queues, signals, msgs, handlers, now>>

\* Fault: Send takes the first wake-up for the reply.
SendReturnEarly(t) ==
  /\ At(t, "SendLoop") /\ (ready[Top(t).msg] \/ Top(t).waited)
  /\ wake' = [wake EXCEPT ![t] = @ \/ Top(t).waited]
  /\ exists' = exists \ (Foreign \cap {t})
  /\ Return(t)
  /\ UNCHANGED <<clock, queues, hasSends, fStop, ready, msgs, handlers, now>>

\* Its Waits may have swallowed wake-ups meant for the thread's other loops.
SendReturn(t) ==
  /\ At(t, "SendLoop") /\ ready[Top(t).msg]
  /\ wake' = [wake EXCEPT ![t] = @ \/ Top(t).waited]
  /\ exists' = exists \ (Foreign \cap {t})
  /\ Return(t)
  /\ UNCHANGED <<clock, queues, hasSends, fStop, ready, msgs, handlers, now>>

----------------------------------------------------------------------------
(* ReceiveSends, called by Get and by Send on the current thread.          *)

\* has_sends_ is read before the lock is taken.
ReceiveSends(t, from, to) ==
  /\ At(t, from)
  /\ IF hasSends[t] THEN CallFrom(t, to, Call(t, "RsPop")) ELSE Goto(t, to)
  /\ UNCHANGED <<clock, queues, signals, msgs, objects, now>>

GetReceiveSends(t) == ReceiveSends(t, "Top", "Queues")
SendReceiveSends(t) == ReceiveSends(t, "SendRecv", "SendWait")

\* The loop's head, under crit_: run the oldest sent message, or leave.
NextSend(t) ==
  \/ /\ sendlist[t] = {}
     /\ hasSends' = [hasSends EXCEPT ![t] = FALSE]
     /\ Return(t)
     /\ UNCHANGED sendlist
  \/ \E m \in sendlist[t] :
       /\ \A n \in sendlist[t] : info[m].arrival <= info[n].arrival
       /\ sendlist' = [sendlist EXCEPT ![t] = @ \ {m}]
       /\ stack' = [stack EXCEPT ![t] =
            Append([@ EXCEPT ![Len(@)] = CallOn(t, "RsReady", m)], CallOn(t, "Code", m))]
       /\ UNCHANGED hasSends

ReceiveFirst(t) ==
  /\ At(t, "RsPop")
  /\ NextSend(t)
  /\ UNCHANGED <<clock, msgq, dmsgq, fStop, wake, ready, msgs, objects, now>>

\* After the handler, crit_ is entered again and the sender's flag is set; it is
\* the sender's stack that holds the flag, and the sender does not take the lock.
ReplyReady(t) ==
  /\ At(t, "RsReady")
  /\ ready' = [ready EXCEPT ![Top(t).msg] = TRUE]
  /\ Goto(t, "RsWake")
  /\ UNCHANGED <<clock, queues, hasSends, fStop, wake, msgs, objects, now>>

ReplyWake(t) ==
  /\ At(t, "RsWake")
  /\ wake' = [wake EXCEPT ![info[Top(t).msg].from] = TRUE]
  /\ NextSend(t)
  /\ UNCHANGED <<clock, msgq, dmsgq, fStop, ready, msgs, objects, now>>

----------------------------------------------------------------------------
(* Get, in the loop of ProcessMessages.                                    *)

\* Faults: the time is compared with the next tick; the scan meets the last posted first.
TriggeredEarly(t) == {m \in dmsgq[t] : info[m].trigger <= clock[t].cur + 1}
TriggeredLast(t) == {m \in dmsgq[t] : /\ info[m].trigger <= clock[t].cur
                                      /\ \A n \in dmsgq[t] : info[n].arrival <= info[m].arrival}

\* The delayed messages whose time has come, by the time this Get last read.
Triggered(t) == {m \in dmsgq[t] : info[m].trigger <= clock[t].cur}

\* dmsgq_ is a priority queue: by trigger time, then in the order of posting.
NotAfter(m, n) == \/ info[m].trigger < info[n].trigger
                  \/ info[m].trigger = info[n].trigger /\ info[m].arrival <= info[n].arrival

\* They go to the end of msgq_ in that order.
Moved(t) == [m \in Msg |->
  IF m \in Triggered(t)
  THEN [info[m] EXCEPT !.arrival =
          arrived + Cardinality({n \in Triggered(t) : NotAfter(n, m)})]
  ELSE info[m]]

GetMessage(t) ==
  /\ At(t, "Queues")
  /\ \E m \in msgq[t] \cup Triggered(t) :
       /\ \A n \in msgq[t] \cup Triggered(t) : Moved(t)[m].arrival <= Moved(t)[n].arrival
       /\ msgq' = [msgq EXCEPT ![t] = (@ \cup Triggered(t)) \ {m}]
       /\ CallFrom(t, "Top", CallOn(t, "Code", m))
  /\ dmsgq' = [dmsgq EXCEPT ![t] = @ \ Triggered(t)]
  /\ info' = Moved(t)
  /\ arrived' = arrived + Cardinality(Triggered(t))
  /\ UNCHANGED <<clock, sendlist, signals, created, objects, now>>

\* Faults: Get waits without looking at the delayed messages; it takes the delay from the
\* present time, as TimeUntil would, and not from the time it compared them with.
DelayNextNone(t) == {Forever}
DelayNextFromNow(t) ==
  IF dmsgq[t] = {} THEN {Forever}
  ELSE {info[m].trigger - now :
          m \in {n \in dmsgq[t] : \A k \in dmsgq[t] : NotAfter(n, k)}}

\* cmsDelayNext: how long to wait for the next delayed message.
DelayNext(t) ==
  IF dmsgq[t] = {} THEN {Forever}
  ELSE {info[m].trigger - clock[t].cur :
          m \in {n \in dmsgq[t] : \A k \in dmsgq[t] : NotAfter(n, k)}}

GetNothing(t) ==
  /\ At(t, "Queues") /\ msgq[t] \cup Triggered(t) = {}
  /\ \E d \in DelayNext(t) : clock' = [clock EXCEPT ![t].delay = d]
  /\ Goto(t, "Stop")
  /\ UNCHANGED <<queues, signals, msgs, objects, now>>

GetStop(t) ==
  /\ At(t, "Stop")
  /\ IF fStop[t]
     THEN Goto(t, "Exited") /\ UNCHANGED clock
     ELSE /\ Goto(t, "Wait")
          /\ clock' = [clock EXCEPT ![t].delay = IF @ = Forever THEN Forever ELSE now + @]
  /\ UNCHANGED <<queues, signals, msgs, objects, now>>

TimedOut(t) == clock[t].delay # Forever /\ (clock[t].delay <= now \/ now = MaxTime)

GetWait(t) ==
  /\ At(t, "Wait") /\ (wake[t] \/ TimedOut(t))
  /\ wake' = [wake EXCEPT ![t] = FALSE]
  /\ clock' = [clock EXCEPT ![t] = [cur |-> now, delay |-> Forever]]
  /\ Goto(t, "Top")
  /\ UNCHANGED <<queues, hasSends, fStop, ready, msgs, objects, now>>

----------------------------------------------------------------------------
(* Client code: the end of a handler, Quit, the destruction of a handler,  *)
(* the deletion of a worker.                                               *)

\* The handler of a posted message returns to ProcessMessages, whose next Get reads
\* the clock; that of a sent message to ReceiveSends, which does not.
CodeReturn(t) ==
  /\ At(t, "Code") /\ Depth(t) > 1
  /\ Return(t)
  /\ clock' = IF stack[t][Depth(t) - 1].at = "Top" THEN [clock EXCEPT ![t].cur = now]
              ELSE clock
  /\ UNCHANGED <<queues, signals, msgs, objects, now>>

\* Fault: Quit does not wake the thread up.
QuitNoWake(t, u) ==
  /\ At(t, "Code") /\ u \in MayQuit \cap exists /\ ~fStop[u]
  /\ fStop' = [fStop EXCEPT ![u] = TRUE]
  /\ UNCHANGED <<stack, clock, queues, hasSends, wake, ready, msgs, objects, now>>

Quit(t, u) ==
  /\ At(t, "Code") /\ u \in MayQuit \cap exists /\ ~fStop[u]
  /\ fStop' = [fStop EXCEPT ![u] = TRUE]
  /\ CallFrom(t, "Code", CallOn(u, "QuitWake", NoMsg))
  /\ UNCHANGED <<clock, queues, hasSends, wake, ready, msgs, objects, now>>

QuitWake(t) ==
  /\ At(t, "QuitWake")
  /\ wake' = [wake EXCEPT ![Top(t).to] = TRUE]
  /\ Return(t)
  /\ UNCHANGED <<clock, queues, hasSends, fStop, ready, msgs, objects, now>>

\* Faults: a cleared Send is dropped without releasing its sender; it stays in the list;
\* only sendlist_ is cleared.
ClearForgetsSenders(S, onQueues) ==
  LET left(q) == [u \in Thread |-> IF u \in onQueues THEN q[u] \ S ELSE q[u]]
  IN /\ msgq' = left(msgq)
     /\ dmsgq' = left(dmsgq)
     /\ sendlist' = left(sendlist)
     /\ UNCHANGED <<ready, wake>>

ClearKeepsSends(S, onQueues) ==
  LET sent == S \cap UNION {sendlist[u] : u \in onQueues}
      left(q) == [u \in Thread |-> IF u \in onQueues THEN q[u] \ S ELSE q[u]]
  IN /\ msgq' = left(msgq)
     /\ dmsgq' = left(dmsgq)
     /\ sendlist' = sendlist
     /\ ready' = [m \in Msg |-> ready[m] \/ m \in sent]
     /\ wake' = [u \in Thread |-> wake[u] \/ \E m \in sent : info[m].from = u]

ClearOnlySends(S, onQueues) ==
  LET sent == S \cap UNION {sendlist[u] : u \in onQueues}
      left(q) == [u \in Thread |-> IF u \in onQueues THEN q[u] \ S ELSE q[u]]
  IN /\ sendlist' = left(sendlist)
     /\ ready' = [m \in Msg |-> ready[m] \/ m \in sent]
     /\ wake' = [u \in Thread |-> wake[u] \/ \E m \in sent : info[m].from = u]
     /\ UNCHANGED <<msgq, dmsgq>>

\* Thread::Clear drops the messages that match and releases their senders.
Clear(S, onQueues) ==
  LET sent == S \cap UNION {sendlist[u] : u \in onQueues}
      left(q) == [u \in Thread |-> IF u \in onQueues THEN q[u] \ S ELSE q[u]]
  IN /\ msgq' = left(msgq)
     /\ dmsgq' = left(dmsgq)
     /\ sendlist' = left(sendlist)
     /\ ready' = [m \in Msg |-> ready[m] \/ m \in sent]
     /\ wake' = [u \in Thread |-> wake[u] \/ \E m \in sent : info[m].from = u]

\* ~MessageHandler: MessageQueueManager clears it from every queue.  Its owner
\* destroys it on its own thread, when nobody is still calling Post with it.
DestroyHandler(t, h) ==
  /\ At(t, "Code") /\ HomeOf[h] = t /\ h \in handlers \cap Doomed
  /\ \A u \in exists : ~Locked(u)
  /\ \A u \in Thread : At(u, "PostPush") \/ At(u, "SendPush") =>
       info[Top(u).msg].handler # h
  /\ Clear({m \in Msg : m <= created /\ info[m].handler = h}, exists)
  /\ handlers' = handlers \ {h}
  /\ UNCHANGED <<stack, clock, hasSends, fStop, msgs, exists, now>>

\* ~Thread: Stop (Quit, Join), then Clear(NULL).
DeleteThread(u) ==
  /\ At(Main, "Code") /\ u \in exists \cap Worker
  /\ \A v \in Worker : <<v, u>> \in Before => v \notin exists
  /\ fStop' = [fStop EXCEPT ![u] = TRUE]
  /\ CallFrom(Main, "Code", CallOn(u, "StopWake", NoMsg))
  /\ UNCHANGED <<clock, queues, hasSends, wake, ready, msgs, objects, now>>

StopWake ==
  /\ At(Main, "StopWake")
  /\ wake' = [wake EXCEPT ![Top(Main).to] = TRUE]
  /\ Goto(Main, "Join")
  /\ UNCHANGED <<clock, queues, hasSends, fStop, ready, msgs, objects, now>>

Join ==
  /\ At(Main, "Join") /\ At(Top(Main).to, "Exited")
  /\ Goto(Main, "Delete")
  /\ UNCHANGED <<clock, queues, signals, msgs, objects, now>>

\* The owner deletes a thread when no call on it still has its push to make.
DeleteClear ==
  /\ At(Main, "Delete")
  /\ \A v \in Thread : At(v, "PostPush") \/ At(v, "SendPush") => Top(v).to # Top(Main).to
  /\ Clear(Msg, {Top(Main).to})
  /\ exists' = exists \ {Top(Main).to}
  /\ Return(Main)
  /\ UNCHANGED <<clock, hasSends, fStop, msgs, handlers, now>>

Tick == /\ now < MaxTime
        /\ now' = now + 1
        /\ UNCHANGED <<stack, clock, queues, signals, msgs, objects>>

----------------------------------------------------------------------------
\* What the code of the queue does by itself, and what its clients choose to do.
Run(t) ==
  \/ PostPush(t) \/ QuitWake(t)
  \/ SendPush(t) \/ SendWake(t) \/ SendLoop(t) \/ SendReceiveSends(t)
  \/ SendWait(t) \/ SendReturn(t)
  \/ ReceiveFirst(t) \/ ReplyReady(t) \/ ReplyWake(t)
  \/ GetReceiveSends(t) \/ GetMessage(t) \/ GetNothing(t) \/ GetStop(t) \/ GetWait(t)

Client(t) ==
  \/ \E h \in Handler, d \in Delays \cup {Forever} : Post(t, h, d)
  \/ \E h \in Handler : SendHere(t, h) \/ Send(t, h) \/ DestroyHandler(t, h)
  \/ \E u \in Worker : Quit(t, u)

Deletion == StopWake \/ Join \/ DeleteClear

Next == \/ \E t \in Thread : Run(t) \/ Client(t) \/ CodeReturn(t)
        \/ \E u \in Worker : DeleteThread(u)
        \/ Deletion
        \/ Tick

Spec == Init /\ [][Next]_vars

\* Threads are scheduled, handlers return, time passes; nothing makes a client act.
Step(t) == Run(t) \/ CodeReturn(t) \/ (t = Main /\ Deletion)
Fairness == (\A t \in Thread : WF_vars(Step(t))) /\ WF_vars(Tick)

FairSpec == Spec /\ Fairness

----------------------------------------------------------------------------
(* Properties.                                                             *)

\* Every variable keeps its type.
TypeOK ==
  /\ stack \in [Thread -> Seq(Frame)]
  /\ \A t \in Thread : stack[t] # <<>>
  /\ clock \in [Thread -> [cur: Nat, delay: Nat \cup {Forever}]]
  /\ msgq \in [Thread -> SUBSET Msg]
  /\ dmsgq \in [Thread -> SUBSET Msg]
  /\ sendlist \in [Thread -> SUBSET Msg]
  /\ hasSends \in [Thread -> BOOLEAN]
  /\ fStop \in [Thread -> BOOLEAN]
  /\ wake \in [Thread -> BOOLEAN]
  /\ ready \in [Msg -> BOOLEAN]
  /\ info \in [Msg -> Info]
  /\ created \in 0..MaxMsgs /\ arrived \in Nat /\ now \in Nat
  /\ exists \in SUBSET Thread
  /\ handlers \in SUBSET Handler

\* Somebody is about to raise the signal of t.
WakeUpComing(t) ==
  \E u \in Thread :
    \/ (At(u, "SendWake") \/ At(u, "QuitWake") \/ At(u, "StopWake")) /\ Top(u).to = t
    \/ At(u, "RsWake") /\ info[Top(u).msg].from = t

\* The lock-free reads of has_sends_, fStop_ and ready lose no wake-up: a thread sleeps
\* in Get or in Send only when nothing it waits for has happened, or a WakeUp is coming.
\* (Send's last WakeUp, thread.cc "Our Wait loop above may have consumed some WakeUp
\* events", is there for this.)
NoLostWakeup ==
  \A t \in Thread : ~wake[t] =>
    /\ At(t, "Wait") => /\ msgq[t] = {}
                        /\ (dmsgq[t] # {} => clock[t].delay # Forever)
                        /\ (sendlist[t] # {} \/ fStop[t] => WakeUpComing(t))
    /\ At(t, "SendWait") =>
         (sendlist[t] # {} \/ ready[Top(t).msg] => WakeUpComing(t))

\* The flag that _SendMessage points to lives on the sender's stack: as long as a thread
\* holds the pointer, in its sendlist_ or in ReceiveSends, the sender is still in that Send.
ReadyPointsToWaitingSend ==
  \A t \in Thread, m \in Msg :
    m \in sendlist[t] \/ (\E i \in 1..Depth(t) : /\ stack[t][i].msg = m
                                                 /\ stack[t][i].at = "RsReady")
    => /\ ~ready[m]
       /\ LET s == stack[info[m].from]
          IN \E i \in 1..Len(s) : s[i].msg = m /\ s[i].at \in SendPoints

\* Send is synchronous: once the sender may go on, its handler neither runs nor will run.
SendIsSynchronous ==
  \A m \in Msg : ready[m] =>
    \A t \in Thread :
      /\ m \notin sendlist[t]
      /\ \A i \in 1..Depth(t) : stack[t][i].at = "Code" => stack[t][i].msg # m

\* No message runs in a handler that has been destroyed: ~MessageHandler clears it from
\* every list of every queue (messagehandler.cc).
NoCallAfterDestroy ==
  [][\A t \in Thread : Len(stack'[t]) > Len(stack[t]) =>
       LET top == stack'[t][Len(stack'[t])]
       IN top.at = "Code" => info'[top.msg].handler \in handlers]_vars

\* No delayed message is released before its time.
DelayedNotEarly ==
  \A t \in Thread : \A m \in msgq[t] : info[m].trigger <= now

\* Delayed messages are released by trigger time, although the scan of Get compares them
\* with an earlier reading of the clock: one that is still waiting behind a released one
\* of the same or a later time was posted after that release.
DelayedInOrder ==
  \A t \in Thread : \A m \in msgq[t], n \in dmsgq[t] :
    info[m].delay # Forever /\ info[n].trigger <= info[m].trigger
    => info[n].arrival > info[m].arrival

InSend(m) == \E t \in Thread : \E i \in 1..Depth(t) :
               stack[t][i].at \in SendPoints /\ stack[t][i].msg = m

\* A Send on another thread returns, also when the threads send to each other and when
\* the receiver is deleted meanwhile.  (A message is sent once and there are finitely
\* many: that none is in a Send again and again says that every Send returns.)
SendReturns == []<>(\A m \in Msg : ~InSend(m))

Queued(m) == \E t \in Thread : m \in msgq[t] \cup dmsgq[t] \cup sendlist[t]

\* A message that was queued does not stay in a queue for ever: again and again all of
\* the finitely many messages are out of the queues.
NothingStays == []<>(\A m \in Msg : ~Queued(m))

\* thread.cc, ReceiveSends: "thread sending exits: We don't allow this": the Thread whose
\* socket server ReceiveSends wakes up exists.
WakeTargetExists ==
  \A t \in Thread : At(t, "RsWake") => info[Top(t).msg].from \in exists
=============================================================================
