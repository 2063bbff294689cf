------------------------------ MODULE MCSession ------------------------------
(* Small instances of Session: the sides a and b, contents audio and video.  *)
EXTENDS Session, TLC

CONSTANTS a, b, audio, video
==============================================================================
