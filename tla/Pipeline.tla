------------------------------ MODULE Pipeline ------------------------------
(***************************************************************************)
(* The backend's path from the MQTT reader to its sinks, and its shutdown: *)
(* app/mqtt_reader.py (the network thread parses a frame or a smoke        *)
(* reading and has the event loop put it on a bounded queue), app/main.py  *)
(* (consume_queue, consume_smoke_queue and on_shutdown) and                *)
(* app/influxdb_client.py (a batch that another thread writes).            *)
(*                                                                         *)
(* Three threads: paho's, the event loop's, and the one of the write API.  *)
(* The event loop takes one callback or task at a time; the consumers      *)
(* suspend only in queue.get(), on_shutdown only where it awaits.          *)
(*                                                                         *)
(* The items of a queue are numbered in the order in which they were put   *)
(* on it; on_shutdown's sentinel is one of them.  The event loop runs the  *)
(* hand-overs in the order in which the reader scheduled them.  What the   *)
(* consumers do besides storing is in ConnectionManager and Detection, the *)
(* status task in Reader, the cleanup task in Storage.                     *)
(***************************************************************************)
EXTENDS Naturals, Sequences

Kinds == {"csi", "smoke"}

CONSTANTS
    QueueSize,    (* maxsize of each queue                                 *)
    MaxFrames     (* bound: frames and readings received                   *)

ASSUME PipelineAssumption ==
    /\ QueueSize \in [Kinds -> Nat \ {0}]
    /\ MaxFrames \in [Kinds -> Nat]

VARIABLES
    scheduled,    (* hand-overs by call_soon_threadsafe, per queue         *)
    enqueued,     (* hand-overs the event loop has run                     *)
    sentinel,     (* the sentinel's number, 0 before it was put            *)
    queue,        (* the queues, oldest item first                         *)
    taken,        (* the item each consumer took last                      *)
    batch,        (* the write API has accepted records not yet written    *)
    influxUp,     (* InfluxDB answers                                      *)
    network,      (* paho's thread: "run", "stopped"                       *)
    consumer,     (* the consumers: "run", "cancelled", "ended"            *)
    detection,    (* run_trigger_loop: "run", "dead" (raised), "ended"     *)
    storesOpen,   (* the SQLite stores                                     *)
    shutdown      (* where on_shutdown stands: "no", "put csi", "put       *)
                  (* smoke", "csi", "smoke", "detection", "reader",        *)
                  (* "stores", "influx", and at its end "done" or, with an *)
                  (* exception, "failed"                                   *)

queues == <<scheduled, enqueued, sentinel, queue, taken>>
influx == <<batch, influxUp>>
others == <<network, detection, storesOpen>>
vars == <<queues, influx, others, consumer, shutdown>>

Init ==
    /\ scheduled = [k \in Kinds |-> 0] /\ enqueued = [k \in Kinds |-> 0]
    /\ sentinel = [k \in Kinds |-> 0]
    /\ queue = [k \in Kinds |-> <<>>] /\ taken = [k \in Kinds |-> 0]
    /\ batch = FALSE /\ influxUp \in BOOLEAN
    /\ network = "run" /\ consumer = [k \in Kinds |-> "run"]
    /\ detection = "run"
    /\ storesOpen = TRUE
    /\ shutdown = "no"

(* on_shutdown's last part has no await in it: the event loop runs nothing *)
(* else until it is over, and nothing at all afterwards.                   *)
LoopRuns == shutdown \in {"no", "put csi", "put smoke", "csi", "smoke", "detection"}

(* The items that were put on a queue. *)
Items(k) == enqueued[k] + (IF sentinel[k] = 0 THEN 0 ELSE 1)

-----------------------------------------------------------------------------
(* Frames and readings *)

(* paho's thread: _on_message parsed one. *)
Receive(k) ==
    /\ network = "run"
    /\ scheduled[k] < MaxFrames[k]
    /\ scheduled' = [scheduled EXCEPT ![k] = @ + 1]
    /\ UNCHANGED <<enqueued, sentinel, queue, taken, influx, others, consumer, shutdown>>

(* Faulty variant: a record for a full queue is dropped. *)
Enqueued_DropNewest(k) ==
    IF Len(queue[k]) < QueueSize[k] THEN Append(queue[k], Items(k) + 1) ELSE queue[k]

(* Faulty variant: the oldest record makes room one record too late. *)
Enqueued_OffByOne(k) ==
    Append(IF Len(queue[k]) <= QueueSize[k] THEN queue[k] ELSE Tail(queue[k]),
           Items(k) + 1)

(* put_nowait, and if it raises QueueFull, get_nowait and put_nowait. *)
Enqueued(k) ==
    Append(IF Len(queue[k]) < QueueSize[k] THEN queue[k] ELSE Tail(queue[k]),
           Items(k) + 1)

(* The event loop: _safe_enqueue, _safe_smoke_enqueue. *)
SafeEnqueue(k) ==
    /\ LoopRuns
    /\ enqueued[k] < scheduled[k]
    /\ queue' = [queue EXCEPT ![k] = Enqueued(k)]
    /\ enqueued' = [enqueued EXCEPT ![k] = @ + 1]
    /\ UNCHANGED <<scheduled, sentinel, taken, influx, others, consumer, shutdown>>

(* The event loop: a consumer gets the oldest item. *)
Get(k) ==
    /\ LoopRuns
    /\ consumer[k] = "run"
    /\ queue[k] # <<>>
    /\ taken' = [taken EXCEPT ![k] = Head(queue[k])]
    /\ queue' = [queue EXCEPT ![k] = Tail(@)]
    /\ UNCHANGED <<scheduled, enqueued, sentinel, influxUp, others, shutdown>>

(* One round of consume_queue or consume_smoke_queue.  A record is stored  *)
(* only while InfluxDB answers a ping.                                     *)
Consume(k) ==
    /\ Get(k)
    /\ Head(queue[k]) # sentinel[k]
    /\ batch' = (batch \/ influxUp)
    /\ UNCHANGED consumer

(* "Shutdown sentinel": the consumer returns. *)
TakeSentinel(k) ==
    /\ Get(k)
    /\ Head(queue[k]) = sentinel[k]
    /\ consumer' = [consumer EXCEPT ![k] = "ended"]
    /\ UNCHANGED batch

(* The write API's thread writes the batch, or gives it up: see Storage.   *)
WriteBatch ==
    /\ batch
    /\ batch' = FALSE
    /\ UNCHANGED <<queues, influxUp, others, consumer, shutdown>>

InfluxFlips ==
    /\ influxUp' = ~ influxUp
    /\ UNCHANGED <<queues, batch, others, consumer, shutdown>>

(* The trigger loop's task ends with an exception: see Detection, where    *)
(* LoopOutlivesTriggers fails.                                             *)
DetectionDies ==
    /\ LoopRuns
    /\ detection = "run"
    /\ detection' = "dead"
    /\ UNCHANGED <<queues, influx, network, storesOpen, consumer, shutdown>>

-----------------------------------------------------------------------------
(* on_shutdown *)

Cancelled(k) == [consumer EXCEPT ![k] = IF @ = "run" THEN "cancelled" ELSE @]

(* Faulty variant: the consumer is cancelled before the sentinel is put. *)
BeginShutdown_CancelFirst ==
    /\ shutdown = "no"
    /\ shutdown' = "put csi"
    /\ consumer' = Cancelled("csi")
    /\ UNCHANGED <<queues, influx, others>>

BeginShutdown ==
    /\ shutdown = "no"
    /\ shutdown' = "put csi"
    /\ UNCHANGED <<queues, influx, others, consumer>>

(* await queue.put(None) returns once there is room.  While on_shutdown    *)
(* waits, the sentinel may be taken, or dropped as the oldest item.        *)
Put(k) ==
    /\ Len(queue[k]) < QueueSize[k]
    /\ queue' = [queue EXCEPT ![k] = Append(@, Items(k) + 1)]
    /\ sentinel' = [sentinel EXCEPT ![k] = Items(k) + 1]
    /\ UNCHANGED <<scheduled, enqueued, taken, influx, others>>

PutSentinel ==
    /\ shutdown = "put csi"
    /\ Put("csi")
    /\ shutdown' = "put smoke"
    /\ UNCHANGED consumer

(* ... and without a suspension the first consumer is cancelled. *)
PutSmokeSentinel ==
    /\ shutdown = "put smoke"
    /\ Put("smoke")
    /\ shutdown' = "csi"
    /\ consumer' = Cancelled("csi")

(* A consumer that was cancelled is awaited, the next task cancelled. *)
ConsumerEnds ==
    /\ shutdown = "csi"
    /\ consumer' = [Cancelled("smoke") EXCEPT !["csi"] = "ended"]
    /\ shutdown' = "smoke"
    /\ UNCHANGED <<queues, influx, others>>

SmokeConsumerEnds ==
    /\ shutdown = "smoke"
    /\ consumer' = [consumer EXCEPT !["smoke"] = "ended"]
    /\ shutdown' = "detection"
    /\ UNCHANGED <<queues, influx, others>>

(* Faulty variant: the task is cancelled but not awaited. *)
CancelDetection_NoAwait ==
    /\ shutdown = "detection"
    /\ shutdown' = "reader"
    /\ UNCHANGED <<queues, influx, others, consumer>>

(* The trigger loop's task is cancelled and awaited.  If it has ended with *)
(* an exception, awaiting raises that, which is not a CancelledError.  The *)
(* status and cleanup tasks follow; they do not end by themselves.         *)
CancelDetection ==
    /\ shutdown = "detection"
    /\ IF detection = "dead"
       THEN /\ shutdown' = "failed"
            /\ UNCHANGED detection
       ELSE /\ shutdown' = "reader"
            /\ detection' = "ended"
    /\ UNCHANGED <<queues, influx, network, storesOpen, consumer>>

(* mqtt_reader.stop() joins paho's thread. *)
StopReader ==
    /\ shutdown = "reader"
    /\ shutdown' = "stores"
    /\ network' = "stopped"
    /\ UNCHANGED <<queues, influx, detection, storesOpen, consumer>>

CloseStores ==
    /\ shutdown = "stores"
    /\ shutdown' = "influx"
    /\ storesOpen' = FALSE
    /\ UNCHANGED <<queues, influx, network, detection, consumer>>

(* influx.flush() and influx.close() *)
CloseInflux ==
    /\ shutdown = "influx"
    /\ shutdown' = "done"
    /\ batch' = FALSE
    /\ UNCHANGED <<queues, influxUp, others, consumer>>

ShutdownStep ==
    \/ PutSentinel \/ PutSmokeSentinel \/ ConsumerEnds \/ SmokeConsumerEnds
    \/ CancelDetection \/ StopReader \/ CloseStores \/ CloseInflux

Next ==
    \/ \E k \in Kinds : Receive(k) \/ SafeEnqueue(k) \/ Consume(k) \/ TakeSentinel(k)
    \/ WriteBatch \/ InfluxFlips \/ DetectionDies
    \/ BeginShutdown \/ ShutdownStep

Spec == Init /\ [][Next]_vars

(* The event loop runs what is ready, the tasks before they are cancelled. *)
FairSpec ==
    /\ Spec
    /\ \A k \in Kinds : WF_vars(SafeEnqueue(k)) /\ WF_vars(Consume(k))
    /\ WF_vars(ShutdownStep)

-----------------------------------------------------------------------------
(* Properties *)

TypeOK ==
    /\ scheduled \in [Kinds -> Nat] /\ enqueued \in [Kinds -> Nat]
    /\ sentinel \in [Kinds -> Nat] /\ taken \in [Kinds -> Nat]
    /\ queue \in [Kinds -> Seq(Nat)]
    /\ \A k \in Kinds : /\ enqueued[k] <= scheduled[k] /\ scheduled[k] <= MaxFrames[k]
                        /\ Len(queue[k]) <= QueueSize[k]
    /\ batch \in BOOLEAN /\ influxUp \in BOOLEAN /\ storesOpen \in BOOLEAN
    /\ network \in {"run", "stopped"}
    /\ consumer \in [Kinds -> {"run", "cancelled", "ended"}]
    /\ detection \in {"run", "dead", "ended"}
    /\ shutdown \in {"no", "put csi", "put smoke", "csi", "smoke", "detection",
                     "reader", "stores", "influx", "done", "failed"}

(* The drop-oldest promise of each queue: between the failed put_nowait    *)
(* and the second one nothing else can run, so it never takes the way      *)
(* around.                                                                 *)
Oldest(k) == INSTANCE DropOldest WITH
    Capacity <- QueueSize[k],
    hi <- Items(k) + 1,
    lo <- IF queue[k] # <<>> THEN Head(queue[k]) ELSE Items(k) + 1,
    out <- taken[k],
    claim <- "none"

(* "a CSI flood can never evict smoke samples": records reach the sinks in *)
(* the order of reception; one is dropped only for one that found the same *)
(* queue full, and it is the oldest, also if that is the sentinel.         *)
ImplementsDropOldest ==
    /\ \A k \in Kinds : Oldest(k)!DOInit
    /\ [][\A k \in Kinds : [Oldest(k)!DONext]_(Oldest(k)!dvars)]_vars

(* No one uses what on_shutdown has closed: when the SQLite stores close,  *)
(* the trigger loop is over and no frame comes in any more; and when       *)
(* on_shutdown returns, no consumer is left that could fill another batch, *)
(* and the last one is written or given up.                                *)
NothingUsesWhatIsClosed ==
    /\ ~ storesOpen => detection # "run" /\ network = "stopped"
    /\ shutdown = "done" =>
           /\ \A k \in Kinds : consumer[k] = "ended"
           /\ ~ storesOpen /\ ~ batch

(* "Stop MQTT reader", "Close the detection SQLite store", "Flush and      *)
(* close InfluxDB": when on_shutdown is over, all of that was done.        *)
ShutdownCleansUp ==
    shutdown \in {"done", "failed"} =>
        network = "stopped" /\ ~ storesOpen /\ ~ batch

(* A shutdown that has begun ends, also when both queues were full and     *)
(* frames keep arriving while it waits for room.                           *)
ShutdownEnds == shutdown = "put csi" ~> shutdown \in {"done", "failed"}

(* The sinks catch up: a record that was received is taken, or has made    *)
(* room for a later one that is, unless the backend shuts down.            *)
FramesReachConsumer ==
    \A k \in Kinds : \A n \in 1 .. MaxFrames[k] :
        scheduled[k] >= n ~> taken[k] >= n \/ shutdown # "no"

=============================================================================
