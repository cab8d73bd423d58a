------------------------- MODULE MCRecordingPipeline -------------------------
(***************************************************************************)
(* Small instances of RecordingPipeline for TLC.                           *)
(***************************************************************************)
EXTENDS RecordingPipeline
=============================================================================
