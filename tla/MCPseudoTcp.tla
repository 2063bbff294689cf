---------------------------- MODULE MCPseudoTcp ----------------------------
(* Small instances of PseudoTcp: two ends a and b.                           *)
EXTENDS PseudoTcp, TLC

CONSTANTS a, b

Pair == (a :> b) @@ (b :> a)
\* How many bytes the users of a and b write.
OneWay == (a :> 4) @@ (b :> 0)
Back == (a :> 0) @@ (b :> 2)
==============================================================================
