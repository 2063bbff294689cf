---------------------------- MODULE ByteStream ----------------------------
(* What a PseudoTcp connection promises its two users: each reads the bytes *)
(* that the other wrote, in the order they were written, with none missing  *)
(* and none twice.  Byte k of a stream is written k.                        *)
EXTENDS Naturals, Sequences

CONSTANTS End,      \* the two ends
          Peer      \* the other end of an end

VARIABLES written,  \* how many bytes each end has written
          got       \* the bytes each end has read

vars == <<written, got>>

FirstBytes(n) == [i \in 1..n |-> i]

Init == /\ written = [e \in End |-> 0]
        /\ got = [e \in End |-> <<>>]

Write(e) == /\ written'[e] \in Nat /\ written'[e] > written[e]
            /\ written' = [written EXCEPT ![e] = written'[e]]
            /\ UNCHANGED got

Read(e) == /\ \E n \in Len(got[e]) + 1 .. written[Peer[e]] :
                got' = [got EXCEPT ![e] = FirstBytes(n)]
           /\ UNCHANGED written

Next == \E e \in End : Write(e) \/ Read(e)

Spec == Init /\ [][Next]_vars
=============================================================================
