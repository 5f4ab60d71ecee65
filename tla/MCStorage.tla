----------------------------- MODULE MCStorage -----------------------------
(* Two series and three readings, so that the latest two may be of one     *)
(* series; a CSI reading is old after a day, the bucket keeps two; one     *)
(* retry; exports write row groups of two.                                 *)
EXTENDS Storage

MCSeries == {1, 2}
MCCsiDays == 1
MCBucketDays == 2
MCMaxRetries == 1
MCBatchRows == 2
MCMaxDay == 6
MCMaxReadings == 3
MCMaxFaults == 2

=============================================================================
