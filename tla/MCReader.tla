------------------------------ MODULE MCReader ------------------------------
(* Three messages of every kind the checks tell apart, and four changes:   *)
(* the broker goes and comes back while the receiver's status changes.     *)
EXTENDS Reader

MCMaxRows == 3
MCMaxChanges == 4

=============================================================================
