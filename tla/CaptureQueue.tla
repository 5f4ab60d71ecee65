---------------------------- MODULE CaptureQueue ----------------------------
(***************************************************************************)
(* The data path of the MQTT receiver, csi_recv_mqtt/main/main.c: the CSI  *)
(* callback csi_rx_cb runs on the Wi-Fi task, formats each frame into a    *)
(* buffer it allocates and puts the buffer on s_csi_q; publisher_task      *)
(* takes buffers off the queue, hands them to esp-mqtt and frees them.     *)
(* The two tasks run on different cores and share nothing but the queue:   *)
(* there is no lock around the send, evict, send-again sequence of         *)
(* csi_rx_cb, so the publisher may take a buffer between any two of them.  *)
(*                                                                         *)
(* A frame is named by its number among the frames that were formatted;    *)
(* its buffer is named by the same number.  What the line says is left     *)
(* out, and so is the housekeeping of the publisher's loop (BrokerLink).   *)
(***************************************************************************)
EXTENDS Naturals, Sequences

CONSTANTS
    QueueDepth,   (* CFG_CSI_QUEUE_DEPTH *)
    MaxFrames     (* bound: frames accepted before the sender falls silent *)

ASSUME CaptureAssumption ==
    /\ QueueDepth \in Nat \ {0}     (* gen_config.py accepts 1 .. 1024 *)
    /\ MaxFrames \in Nat            (* below 2^32: the counters never wrap *)

VARIABLES
    queue,        (* s_csi_q: the buffers waiting, oldest first            *)
    heap,         (* buffers allocated and not yet freed                   *)
    formatted,    (* frames formatted so far: the newest one's number      *)
    wifiAt,       (* where csi_rx_cb stands; it holds a buffer unless idle *)
    pubAt,        (* where publisher_task stands in its loop               *)
    msg,          (* the buffer publisher_task received last, 0 for none   *)
    brokerConn,   (* s_broker_conn, written by the esp-mqtt task           *)
    seen, published, pubFailed, dropped, overrun, peak   (* the counters *)

counters == <<seen, published, pubFailed, dropped, overrun, peak>>
vars == <<queue, heap, formatted, wifiAt, pubAt, msg, brokerConn, counters>>

Elements(s) == {s[i] : i \in DOMAIN s}

(* The buffers the two tasks hold outside the queue. *)
WifiHolds == IF wifiAt = "idle" THEN {} ELSE {formatted}
PublisherHolds == IF pubAt \in {"publish", "free"} THEN {msg} ELSE {}

(* The number of the next frame to be put on the queue. *)
NextPush == IF wifiAt = "idle" THEN formatted + 1 ELSE formatted

Init ==
    /\ queue = <<>>
    /\ heap = {}
    /\ formatted = 0
    /\ wifiAt = "idle"
    /\ pubAt = "receive"
    /\ msg = 0
    /\ brokerConn = FALSE
    /\ seen = 0 /\ published = 0 /\ pubFailed = 0
    /\ dropped = 0 /\ overrun = 0 /\ peak = 0

-----------------------------------------------------------------------------
(* The Wi-Fi task: csi_rx_cb *)

(* A frame of the sender is accepted and lost at once: malloc failed, or   *)
(* the line overflowed its buffer, which is freed before returning.        *)
RxDropped ==
    /\ wifiAt = "idle"
    /\ seen < MaxFrames
    /\ seen' = seen + 1
    /\ dropped' = dropped + 1
    /\ UNCHANGED <<queue, heap, formatted, wifiAt, pubAt, msg, brokerConn,
                   published, pubFailed, overrun, peak>>

(* A frame of the sender is accepted and formatted into a new buffer. *)
RxFormatted ==
    /\ wifiAt = "idle"
    /\ seen < MaxFrames
    /\ seen' = seen + 1
    /\ formatted' = formatted + 1
    /\ heap' = heap \cup {formatted + 1}
    /\ wifiAt' = "send"
    /\ UNCHANGED <<queue, pubAt, msg, brokerConn,
                   published, pubFailed, dropped, overrun, peak>>

(* xQueueSend with no wait fails only when the queue is full. *)
SendOk ==
    /\ wifiAt = "send"
    /\ Len(queue) < QueueDepth
    /\ queue' = Append(queue, formatted)
    /\ wifiAt' = "idle"
    /\ UNCHANGED <<heap, formatted, pubAt, msg, brokerConn, counters>>

(* Faulty variant: a full queue is tried again without making room. *)
SendFull_NoEviction ==
    /\ wifiAt = "send"
    /\ Len(queue) = QueueDepth
    /\ wifiAt' = "resend"
    /\ UNCHANGED <<queue, heap, formatted, pubAt, msg, brokerConn, counters>>

SendFull ==
    /\ wifiAt = "send"
    /\ Len(queue) = QueueDepth
    /\ wifiAt' = "evict"
    /\ UNCHANGED <<queue, heap, formatted, pubAt, msg, brokerConn, counters>>

(* Faulty variant: the evicted buffer is not freed. *)
Evict_Leak ==
    /\ wifiAt = "evict"
    /\ queue # <<>>
    /\ queue' = Tail(queue)
    /\ overrun' = overrun + 1
    /\ wifiAt' = "resend"
    /\ UNCHANGED <<heap, formatted, pubAt, msg, brokerConn,
                   seen, published, pubFailed, dropped, peak>>

(* Faulty variant: the newest waiting packet makes room. *)
Evict_Newest ==
    /\ wifiAt = "evict"
    /\ queue # <<>>
    /\ heap' = heap \ {queue[Len(queue)]}
    /\ queue' = SubSeq(queue, 1, Len(queue) - 1)
    /\ overrun' = overrun + 1
    /\ wifiAt' = "resend"
    /\ UNCHANGED <<formatted, pubAt, msg, brokerConn,
                   seen, published, pubFailed, dropped, peak>>

(* xQueueReceive of the oldest packet, to make room. *)
Evict ==
    /\ wifiAt = "evict"
    /\ queue # <<>>
    /\ heap' = heap \ {Head(queue)}
    /\ queue' = Tail(queue)
    /\ overrun' = overrun + 1
    /\ wifiAt' = "resend"
    /\ UNCHANGED <<formatted, pubAt, msg, brokerConn,
                   seen, published, pubFailed, dropped, peak>>

(* Faulty variant: the overrun is counted whether or not it happened. *)
EvictEmpty_Counted ==
    /\ wifiAt = "evict"
    /\ queue = <<>>
    /\ overrun' = overrun + 1
    /\ wifiAt' = "resend"
    /\ UNCHANGED <<queue, heap, formatted, pubAt, msg, brokerConn,
                   seen, published, pubFailed, dropped, peak>>

(* The publisher drained the queue between the failed send and here. *)
EvictEmpty ==
    /\ wifiAt = "evict"
    /\ queue = <<>>
    /\ wifiAt' = "resend"
    /\ UNCHANGED <<queue, heap, formatted, pubAt, msg, brokerConn, counters>>

(* Faulty variant: the second send puts the packet at the front. *)
Resend_ToFront ==
    /\ wifiAt = "resend"
    /\ wifiAt' = "idle"
    /\ Len(queue) < QueueDepth
    /\ queue' = <<formatted>> \o queue
    /\ UNCHANGED <<heap, formatted, pubAt, msg, brokerConn, counters>>

(* The second xQueueSend; if it fails too, the new frame is the one lost. *)
Resend ==
    /\ wifiAt = "resend"
    /\ wifiAt' = "idle"
    /\ IF Len(queue) < QueueDepth
       THEN /\ queue' = Append(queue, formatted)
            /\ UNCHANGED <<heap, dropped>>
       ELSE /\ heap' = heap \ {formatted}
            /\ dropped' = dropped + 1
            /\ UNCHANGED queue
    /\ UNCHANGED <<formatted, pubAt, msg, brokerConn,
                   seen, published, pubFailed, overrun, peak>>

WifiStep == SendOk \/ SendFull \/ Evict \/ EvictEmpty \/ Resend

-----------------------------------------------------------------------------
(* The publisher task *)

Receive ==
    /\ pubAt = "receive"
    /\ queue # <<>>
    /\ msg' = Head(queue)
    /\ queue' = Tail(queue)
    /\ pubAt' = "publish"
    /\ UNCHANGED <<heap, formatted, wifiAt, brokerConn, counters>>

(* Nothing arrived for PUBLISHER_POLL_MS. *)
ReceiveTimeout ==
    /\ pubAt = "receive"
    /\ queue = <<>>
    /\ pubAt' = "housekeep"
    /\ UNCHANGED <<queue, heap, formatted, wifiAt, msg, brokerConn, counters>>

PublishOk ==
    /\ pubAt = "publish"
    /\ brokerConn
    /\ published' = published + 1
    /\ pubAt' = "free"
    /\ UNCHANGED <<queue, heap, formatted, wifiAt, msg, brokerConn,
                   seen, pubFailed, dropped, overrun, peak>>

(* There is no connection, or esp-mqtt refuses the message (its outbox is  *)
(* full, or the connection went after s_broker_conn was read).             *)
PublishFailed ==
    /\ pubAt = "publish"
    /\ pubFailed' = pubFailed + 1
    /\ pubAt' = "free"
    /\ UNCHANGED <<queue, heap, formatted, wifiAt, msg, brokerConn,
                   seen, published, dropped, overrun, peak>>

(* Faulty variant: only a published buffer is freed. *)
FreeMsg_IfConnected ==
    /\ pubAt = "free"
    /\ heap' = IF brokerConn THEN heap \ {msg} ELSE heap
    /\ pubAt' = "housekeep"
    /\ UNCHANGED <<queue, formatted, wifiAt, msg, brokerConn, counters>>

FreeMsg ==
    /\ pubAt = "free"
    /\ heap' = heap \ {msg}
    /\ pubAt' = "housekeep"
    /\ UNCHANGED <<queue, formatted, wifiAt, msg, brokerConn, counters>>

(* Faulty variant: the packet just taken is counted as still waiting. *)
Housekeep_PeakOffByOne ==
    /\ pubAt = "housekeep"
    /\ peak' = IF Len(queue) + 1 > peak THEN Len(queue) + 1 ELSE peak
    /\ pubAt' = "receive"
    /\ UNCHANGED <<queue, heap, formatted, wifiAt, msg, brokerConn,
                   seen, published, pubFailed, dropped, overrun>>

(* The rest of the loop's body, of which the queue sees only the depth. *)
Housekeep ==
    /\ pubAt = "housekeep"
    /\ peak' = IF Len(queue) > peak THEN Len(queue) ELSE peak
    /\ pubAt' = "receive"
    /\ UNCHANGED <<queue, heap, formatted, wifiAt, msg, brokerConn,
                   seen, published, pubFailed, dropped, overrun>>

PublisherStep ==
    \/ Receive \/ ReceiveTimeout \/ PublishOk \/ PublishFailed
    \/ FreeMsg \/ Housekeep

-----------------------------------------------------------------------------
(* The esp-mqtt task: MQTT_EVENT_CONNECTED and MQTT_EVENT_DISCONNECTED,    *)
(* as far as the data path can see them.                                   *)
BrokerEvent ==
    /\ brokerConn' \in BOOLEAN
    /\ UNCHANGED <<queue, heap, formatted, wifiAt, pubAt, msg, counters>>

Next == RxDropped \/ RxFormatted \/ WifiStep \/ PublisherStep \/ BrokerEvent

Spec == Init /\ [][Next]_vars

(* FreeRTOS runs a ready task: csi_rx_cb never blocks, and the publisher's *)
(* every wait has a timeout.                                               *)
FairSpec == Spec /\ WF_vars(WifiStep) /\ WF_vars(PublisherStep)

-----------------------------------------------------------------------------
(* Properties *)

TypeOK ==
    /\ queue \in Seq(Nat) /\ Len(queue) <= QueueDepth
    /\ heap \subseteq 1 .. formatted
    /\ formatted \in 0 .. seen /\ seen \in 0 .. MaxFrames
    /\ wifiAt \in {"idle", "send", "evict", "resend"}
    /\ pubAt \in {"receive", "publish", "free", "housekeep"}
    /\ msg \in Nat
    /\ brokerConn \in BOOLEAN
    /\ published \in Nat /\ pubFailed \in Nat /\ dropped \in Nat
    /\ overrun \in Nat /\ peak \in 0 .. QueueDepth

(* Every buffer that is allocated has exactly one owner, the queue or one  *)
(* of the two tasks, and every buffer a task can reach is allocated: none  *)
(* leaks, none is freed twice, none is published after it was freed, even  *)
(* when the publisher drains the queue in the middle of an eviction.       *)
BufferOwnership ==
    /\ heap = Elements(queue) \cup WifiHolds \cup PublisherHolds
    /\ WifiHolds \cap (Elements(queue) \cup PublisherHolds) = {}
    /\ PublisherHolds \cap Elements(queue) = {}

(* Each accepted frame is accounted for exactly once: it waits, is in a    *)
(* task's hands, or was counted as published, failed, dropped or overrun.  *)
(* (Heartbeats report these counters to tell a slow broker from a dead one.) *)
FramesAccountedFor ==
    seen = published + pubFailed + dropped + overrun + Len(queue)
           + (IF wifiAt = "idle" THEN 0 ELSE 1)
           + (IF pubAt = "publish" THEN 1 ELSE 0)

(* "The oldest is dropped": once the callback has tried to make room, the  *)
(* new frame has room, whatever the publisher did meanwhile.  It rests on  *)
(* csi_rx_cb being the queue's only producer.                              *)
NewestGetsRoom == wifiAt = "resend" => Len(queue) < QueueDepth

(* Frames leave in the order of capture: what the publisher holds or last  *)
(* sent is older than all that waits, which is older than the frame being  *)
(* queued, and what waits has no gap.                                      *)
CaptureOrder ==
    /\ \A i \in 1 .. Len(queue) - 1 : queue[i + 1] = queue[i] + 1
    /\ queue # <<>> => msg < Head(queue)
    /\ queue # <<>> /\ wifiAt # "idle" => queue[Len(queue)] = formatted - 1

(* The drop-oldest promise, by refinement. *)
Oldest == INSTANCE DropOldest WITH
    Capacity <- QueueDepth,
    hi <- NextPush,
    lo <- IF queue # <<>> THEN Head(queue) ELSE NextPush,
    out <- msg,
    claim <- IF wifiAt = "evict" THEN "full"
             ELSE IF wifiAt = "resend" THEN "made" ELSE "none"

(* The send, evict, send-again sequence and the publisher's receive        *)
(* together behave as a drop-oldest queue: a frame is discarded only for a *)
(* frame that found the queue full, and it is the oldest one.              *)
ImplementsDropOldest == Oldest!DOSpec

(* No buffer stays allocated forever: the queue drains whatever the broker *)
(* connection does.                                                        *)
BuffersComeBack == \A f \in 1 .. MaxFrames : f \in heap ~> f \notin heap

=============================================================================
