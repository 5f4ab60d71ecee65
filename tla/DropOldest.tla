----------------------------- MODULE DropOldest -----------------------------
(***************************************************************************)
(* What a bounded drop-oldest queue promises, whoever implements it: the   *)
(* receiver's FreeRTOS queue (csi_recv_mqtt/main/main.c), the backend's    *)
(* CSI and smoke queues (app/mqtt_reader.py) and the per-client WebSocket  *)
(* queues (app/websocket_manager.py).                                      *)
(*                                                                         *)
(* Items are numbered in the order in which they are pushed.  The content  *)
(* of such a queue is always an interval lo .. hi - 1 of those numbers, so *)
(* two numbers describe it: an implementation that reorders, duplicates or *)
(* loses an item from the middle has no such interval to map to.           *)
(***************************************************************************)
EXTENDS Naturals

CONSTANT Capacity          (* the most items that may wait, at least one *)

VARIABLES
    lo,     (* the oldest item still waiting, hi when none is             *)
    hi,     (* the next item to be pushed                                 *)
    out,    (* the item handed to the consumer last, 0 when none was      *)
    claim   (* the producer's business with a full queue: "none", "full"  *)
            (* (it found the queue full), "made" (it has since tried to   *)
            (* take the oldest item out, and may push)                    *)

dvars == <<lo, hi, out, claim>>

DOInit ==
    /\ lo = 1
    /\ hi = 1
    /\ out = 0
    /\ claim = "none"

(* The producer adds an item; there is room for it. *)
Push ==
    /\ claim \in {"none", "made"}
    /\ hi - lo < Capacity
    /\ hi' = hi + 1
    /\ claim' = "none"
    /\ UNCHANGED <<lo, out>>

(* The producer finds the queue full: only now may an item be discarded. *)
FindFull ==
    /\ claim = "none"
    /\ hi - lo = Capacity
    /\ claim' = "full"
    /\ UNCHANGED <<lo, hi, out>>

(* One item, the oldest, is discarded for the item that waits for room. *)
Discard ==
    /\ claim = "full"
    /\ lo < hi
    /\ lo' = lo + 1
    /\ claim' = "made"
    /\ UNCHANGED <<hi, out>>

(* The consumer emptied the queue in the meantime: nothing to discard. *)
NothingToDiscard ==
    /\ claim = "full"
    /\ lo = hi
    /\ claim' = "made"
    /\ UNCHANGED <<lo, hi, out>>

(* FindFull, Discard and Push in one step, for a producer that cannot be   *)
(* interrupted between them.                                               *)
Replace ==
    /\ claim = "none"
    /\ hi - lo = Capacity
    /\ lo' = lo + 1
    /\ hi' = hi + 1
    /\ UNCHANGED <<out, claim>>

(* The consumer takes the oldest item. *)
Take ==
    /\ lo < hi
    /\ out' = lo
    /\ lo' = lo + 1
    /\ UNCHANGED <<hi, claim>>

DONext == Push \/ FindFull \/ Discard \/ NothingToDiscard \/ Replace \/ Take

DOSpec == DOInit /\ [][DONext]_dvars

=============================================================================
