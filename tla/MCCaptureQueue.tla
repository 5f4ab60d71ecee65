--------------------------- MODULE MCCaptureQueue ---------------------------
(* The data path on a queue of two: deep enough that an eviction and a     *)
(* receive can meet, that the queue can be drained in the middle of an     *)
(* eviction, and that order among waiting frames means something; six      *)
(* frames fill it, overrun it and refill it.                               *)
EXTENDS CaptureQueue

MCQueueDepth == 2
MCMaxFrames == 6

=============================================================================
