----------------------------- MODULE MCAppUpdate -----------------------------
(***************************************************************************)
(* The instance of AppUpdate for TLC.                                      *)
(***************************************************************************)
EXTENDS AppUpdate
=============================================================================
