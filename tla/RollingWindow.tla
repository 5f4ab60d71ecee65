--------------------------- MODULE RollingWindow ---------------------------
(***************************************************************************)
(* The rolling buffers of app/detection.py: DetectionManager._prune and    *)
(* the cutoff of _snapshot_csi and _snapshot_smoke, as operators on a      *)
(* sequence of records with a timestamp field t, oldest arrival first.     *)
(* Pruning looks only at the front of the sequence and only relative to    *)
(* the record that arrived last, as the code does.                         *)
(***************************************************************************)
EXTENDS Naturals, Integers, Sequences

(* Faulty variant: the record on the cutoff is dropped too. *)
DropExpired_Inclusive(s, cutoff) ==
    SelectSeq(s, LAMBDA r : r.t > cutoff)

(* Pops from the front while the front is older than the cutoff. *)
DropExpired(s, cutoff) ==
    LET fresh == {i \in DOMAIN s : s[i].t >= cutoff}
        first == CHOOSE i \in fresh : \A j \in fresh : i <= j
    IN  IF fresh = {} THEN <<>> ELSE SubSeq(s, first, Len(s))

(* Faulty variant: one record too many is kept. *)
DropExcess_OffByOne(s, limit) ==
    IF Len(s) <= limit + 1 THEN s ELSE SubSeq(s, Len(s) - limit, Len(s))

(* Pops from the front while there are more than limit records. *)
DropExcess(s, limit) ==
    IF Len(s) <= limit THEN s ELSE SubSeq(s, Len(s) - limit + 1, Len(s))

(* _prune of one buffer: held is the window times _WINDOW_SLACK. *)
Prune(s, held, limit) ==
    IF s = <<>> THEN s
    ELSE DropExcess(DropExpired(s, s[Len(s)].t - held), limit)

(* add_csi, add_smoke: append, then prune. *)
Add(s, r, held, limit) == Prune(Append(s, r), held, limit)

(* The records a snapshot takes: those within the window of the last one.  *)
Snapshot(s, window) ==
    IF s = <<>> THEN s
    ELSE SelectSeq(s, LAMBDA r : r.t >= s[Len(s)].t - window)

=============================================================================
