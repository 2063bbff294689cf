---------------------------- MODULE MCThreadQueue ----------------------------
(* Small instances of ThreadQueue: two workers a and b, the main thread and  *)
(* in one instance a foreign thread.                                         *)
EXTENDS ThreadQueue, TLC

CONSTANTS a, b, main, ext, ha, hb

\* One handler per worker, used and destroyed on it.
Home2 == (ha :> a) @@ (hb :> b)
Home1 == (ha :> a)

\* Every thread posts to every worker / the main thread posts to one.
PostAll == {a, b, main} \X {a, b}
PostTimers == {a, main} \X {a}
PostToOne == {<<main, a>>}

\* The workers send to each other, and the main thread to one of them.
Mutual == {<<a, b>>, <<b, a>>, <<main, a>>}
\* Sends go one way; the owner deletes the sending worker first.
OneWay == {<<a, b>>, <<main, b>>, <<b, b>>}
SenderFirst == {<<a, b>>}
FromForeign == {<<ext, a>>}
==============================================================================
