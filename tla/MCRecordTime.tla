---------------------------- MODULE MCRecordTime ----------------------------
(* A counter of six units: frames one or two units apart are told from a   *)
(* wrap, frames three apart are not.  It may stand anywhere when the       *)
(* backend starts, so that two wraps fit into the seven units of time.  A  *)
(* line is under way for at most one unit, and the buffer holds one unit   *)
(* more than the window.                                                   *)
EXTENDS RecordTime

MCHalf == 3
MCWindow == 1
MCHeld == 2
MCMaxBuffered == 3
MCMaxDelay == 1
MCEpoch == 20
MCMaxTime == 27
MCMaxBoots == 1

=============================================================================
