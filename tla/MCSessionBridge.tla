--------------------------- MODULE MCSessionBridge ---------------------------
(***************************************************************************)
(* Small instances of SessionBridge for TLC.                               *)
(***************************************************************************)
EXTENDS SessionBridge, TLC

CONSTANTS w1, w2
=============================================================================
