----------------------------- MODULE MCDetection -----------------------------
(* Two layouts (the receiver's 256- and 128-value frames, as 4 and 2       *)
(* subcarriers), timestamps far enough apart for a frame to leave the      *)
(* snapshot and stay in the buffer of two; three firings, so that an id    *)
(* can be given out, deleted, lost to a failed commit and given out again. *)
EXTENDS Detection

MCTimes == {0, 2}
MCWidths == {2, 4}
MCWindow == 1
MCHeld == 2
MCMaxBuffered == 2
MCMaxFirings == 3

=============================================================================
