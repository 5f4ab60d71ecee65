----------------------------- MODULE MCPipeline -----------------------------
(* Queues of two and one, four frames and three readings: each queue can   *)
(* overflow twice before its consumer runs, while a shutdown waits for     *)
(* room in one or the other and InfluxDB comes and goes.                   *)
EXTENDS Pipeline

MCQueueSize == [k \in Kinds |-> IF k = "csi" THEN 2 ELSE 1]
MCMaxFrames == [k \in Kinds |-> IF k = "csi" THEN 4 ELSE 3]

=============================================================================
