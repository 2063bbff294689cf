----------------------------- MODULE MCTransport -----------------------------
(* Small instances of Transport: the components rtp and rtcp.                *)
EXTENDS Transport, TLC

CONSTANTS rtp, rtcp
==============================================================================
