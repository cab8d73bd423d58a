------------------------ MODULE MCSessionEventQueue ------------------------
(***************************************************************************)
(* Small instances of SessionEventQueue for TLC.                           *)
(***************************************************************************)
EXTENDS SessionEventQueue, TLC

CONSTANTS pane, local, ssh, reader, c1

\* The SSH worker pushes the output of a tmux pane it projects; a reader thread
\* pushes the output of a local session.
MCSessionsOf == (ssh :> {pane}) @@ (reader :> {local})

\* Two threads push events of the same session.
MCSharedSession == (ssh :> {pane}) @@ (reader :> {pane})
=============================================================================
