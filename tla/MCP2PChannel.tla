---------------------------- MODULE MCP2PChannel ----------------------------
(* Small instances of P2PChannel: two ports and one or two remote addresses. *)
EXTENDS P2PChannel, TLC

CONSTANTS p1, p2, r1, r2, n1, n2

\* Both ports on one network, so that the connections can prune each other, or on two.
OneNet == (p1 :> n1) @@ (p2 :> n1)
TwoNets == (p1 :> n1) @@ (p2 :> n2)

\* p1's connections are preferred to p2's, and r1's to r2's.
Prefs == [c \in Pair |-> (IF c[1] = p1 THEN 2 ELSE 0) + (IF c[2] = r1 THEN 1 ELSE 0)]
=============================================================================
