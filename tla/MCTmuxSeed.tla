----------------------------- MODULE MCTmuxSeed -----------------------------
(***************************************************************************)
(* Small instances of TmuxSeed for TLC.                                    *)
(***************************************************************************)
EXTENDS TmuxSeed
=============================================================================
