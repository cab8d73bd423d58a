---------------------------- MODULE MCTmuxInput ----------------------------
(***************************************************************************)
(* Small instances of TmuxInput for TLC.                                   *)
(***************************************************************************)
EXTENDS TmuxInput
=============================================================================
