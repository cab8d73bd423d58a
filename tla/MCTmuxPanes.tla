---------------------------- MODULE MCTmuxPanes ----------------------------
(***************************************************************************)
(* Small instances of TmuxPanes for TLC.                                   *)
(***************************************************************************)
EXTENDS TmuxPanes, TLC

\* Panes and windows have no identity of their own.
Symmetry == Permutations(Panes) \cup Permutations(Windows)
=============================================================================
