------------------------------- MODULE Reader -------------------------------
(***************************************************************************)
(* app/mqtt_reader.py: the connection to the broker as paho's callbacks    *)
(* tell it, the rows and status messages that arrive, the replay of a      *)
(* recording, stop(); and the status that app/main.py and app/routes/ws.py *)
(* show to the browsers.                                                   *)
(*                                                                         *)
(* Two threads: the network thread (paho's, or the replay's) runs the      *)
(* callbacks one at a time; the event loop reads the status, and stops the *)
(* reader.  MqttStatus has a lock, so each update and each read is one     *)
(* step, but the browsers' status is made of two reads.                    *)
(*                                                                         *)
(* Where the records go is in Pipeline, their timestamps in RecordTime,    *)
(* the other end of the status topic in BrokerLink.  The broker keeps no   *)
(* session: with the connection the subscriptions are gone.  Counters that *)
(* are only displayed (reconnect_attempts, times of day) are left out.     *)
(***************************************************************************)
EXTENDS Naturals, Sequences

CONSTANTS
    MaxRows,      (* bound: data and smoke messages                        *)
    MaxChanges    (* bound: disturbances of the connection and changes of  *)
                  (* the receiver's retained status                        *)

ASSUME ReaderAssumption == {MaxRows, MaxChanges} \subseteq Nat

VARIABLES
    mode,         (* "live", or "replay" (replay_csv is set)               *)
    network,      (* the network thread: "new", "run", "dead" (it raised), *)
                  (* "ended"                                               *)
    link,         (* paho's connection: "down", "up", "closing"            *)
    stage,        (* stop(): "no", "marked", "joining", "returned"         *)
    connected, error, online,            (* MqttStatus *)
    packets, dropped,                    (* MqttStatus, smoke_packets with *)
                                         (* packets                        *)
    brokerUp, retained, subscribed,      (* the broker: reachable, retained*)
    inbox,                               (* status, subscription, status   *)
                                         (* messages on their way          *)
    snap,         (* the snapshot the event loop holds, or "none"          *)
    shown,        (* the status the browsers saw last                      *)
    changes,      (* disturbances so far                                   *)
    handled, skipped,  (* history: messages handled, and of these the ones *)
                       (* that are not the sender's data                   *)
    seenUp        (* history: there was a connection                       *)

broker == <<brokerUp, retained>>
session == <<link, subscribed, inbox, seenUp>>
counts == <<packets, dropped, handled, skipped>>
display == <<snap, shown>>
vars == <<mode, network, stage, connected, error, online, broker, session,
          counts, display, changes>>

(* transport_state *)
TransportState ==
    IF connected THEN "connected"
    ELSE IF error THEN "reconnecting" ELSE "disconnected"

Init ==
    /\ mode \in {"live", "replay"}
    /\ network = "new" /\ link = "down" /\ stage = "no"
    /\ connected = FALSE /\ error = FALSE /\ online = "unknown"
    /\ packets = 0 /\ dropped = 0 /\ handled = 0 /\ skipped = 0
    /\ brokerUp \in BOOLEAN /\ retained \in {"unknown", "online", "offline"}
    /\ subscribed = FALSE /\ inbox = <<>> /\ seenUp = FALSE
    /\ snap = "none" /\ shown = [mqtt |-> "disconnected", online |-> "unknown"]
    /\ changes = 0

-----------------------------------------------------------------------------
(* The broker and the receiver *)

Change ==
    /\ changes < MaxChanges
    /\ changes' = changes + 1

BrokerFlips ==
    /\ Change \/ (~ brokerUp /\ UNCHANGED changes)
    /\ brokerUp' = ~ brokerUp
    /\ UNCHANGED <<mode, network, stage, connected, error, online, retained,
                   session, counts, display>>

(* The receiver, or its last will, publishes a retained status. *)
PublishStatus(s) ==
    /\ Change
    /\ retained' = s
    /\ inbox' = IF subscribed THEN Append(inbox, s) ELSE inbox
    /\ UNCHANGED <<mode, network, stage, connected, error, online, brokerUp,
                   link, subscribed, seenUp, counts, display>>

-----------------------------------------------------------------------------
(* Connection *)

(* start(): loop_start. *)
Start ==
    /\ mode = "live" /\ network = "new"
    /\ network' = "run"
    /\ UNCHANGED <<mode, stage, connected, error, online, broker, session,
                   counts, display, changes>>

(* Faulty variant: the topics are subscribed on the first connection only. *)
Subscribe_Once == subscribed' = ~ seenUp

(* client.subscribe in _on_connect *)
Subscribe == subscribed' = TRUE

(* _on_connect; the broker answers the subscription with what it retains.  *)
OnConnect ==
    /\ mode = "live" /\ network = "run" /\ link = "down" /\ brokerUp
    /\ stage \in {"no", "marked"}
    /\ link' = "up" /\ seenUp' = TRUE
    /\ Subscribe
    /\ inbox' = IF subscribed' /\ retained # "unknown" THEN <<retained>>
                ELSE <<>>
    /\ connected' = TRUE /\ error' = FALSE
    /\ UNCHANGED <<mode, network, stage, online, broker, counts, display,
                   changes>>

(* _on_connect with a failure *)
OnRefused ==
    /\ mode = "live" /\ network = "run" /\ link = "down" /\ brokerUp
    /\ stage \in {"no", "marked"}
    /\ Change
    /\ connected' = FALSE /\ error' = TRUE
    /\ UNCHANGED <<mode, network, stage, online, broker, session, counts,
                   display>>

(* Faulty variant: after stop() has begun there is nothing to report. *)
Disconnected_Ignored ==
    IF stage = "no" THEN connected' = FALSE /\ error' = TRUE
    ELSE UNCHANGED <<connected, error>>

(* Faulty variant: the reason is not kept. *)
Disconnected_NoReason == connected' = FALSE /\ UNCHANGED error

(* What _on_disconnect records: no error for a stop of our own. *)
Disconnected ==
    /\ connected' = FALSE
    /\ error' = (error \/ stage = "no")

(* _on_disconnect, when the connection broke or was closed. *)
OnDisconnect ==
    /\ \/ link = "up" /\ ~ brokerUp /\ UNCHANGED changes
       \/ link = "up" /\ brokerUp /\ Change
       \/ link = "closing" /\ UNCHANGED changes
    /\ network = "run"
    /\ link' = "down" /\ subscribed' = FALSE /\ inbox' = <<>>
    /\ Disconnected
    /\ UNCHANGED <<mode, network, stage, online, broker, seenUp, counts, display>>

-----------------------------------------------------------------------------
(* Messages *)

(* A data message, by what the checks of _on_message, _process_line and    *)
(* _process_row look at, in this order; fields stands for what CSIRecord   *)
(* validates.  A counter that does not parse matters for a row without a   *)
(* stamp; with one it is among the fields.                                 *)
Row == [text : {"retained", "blank", "foreign", "unreadable", "csi"},
        columns : {"s3", "c5c6", "other"},
        data : {"list", "scalar", "broken"},
        len : {"right", "wrong", "not a number"},
        stamp : {"stamped", "counted", "neither"},
        mac : {"sender", "other"},
        fields : {"valid", "invalid"}]

Outcome(r) ==
    CASE r.text \in {"retained", "blank", "foreign"} -> "skip"
      [] r.text = "unreadable" \/ r.columns = "other" -> "drop"
      [] r.data # "list" -> "drop"
      [] r.len = "not a number" -> "raise"
      [] r.len = "wrong" -> "drop"
      [] r.stamp = "neither" -> "raise"
      [] r.mac = "other" -> "skip"
      [] r.fields = "invalid" -> "drop"
      [] OTHER -> "queue"

RowOutcomes == {Outcome(r) : r \in Row}

(* A recording: rows of another type are passed over. *)
ReplayOutcomes == {Outcome(r) : r \in {q \in Row : q.text \in {"foreign", "csi"}}}

(* A smoke message: _process_smoke_line catches what it parses. *)
Smoke == [text : {"retained", "blank", "unreadable", "csv"},
          columns : {"bme", "legacy", "other"}, fields : {"valid", "invalid"}]

SmokeOutcome(r) ==
    CASE r.text \in {"retained", "blank"} -> "skip"
      [] r.text = "unreadable" \/ r.columns = "other" -> "drop"
      [] r.fields = "invalid" -> "drop"
      [] OTHER -> "queue"

SmokeOutcomes == {SmokeOutcome(r) : r \in Smoke}

(* Faulty variant: the processing and the callback both count a bad line. *)
Count_DropTwice(outcome) ==
    /\ handled' = handled + 1
    /\ packets' = IF outcome = "queue" THEN packets + 1 ELSE packets
    /\ dropped' = IF outcome = "drop" THEN dropped + 2 ELSE dropped
    /\ skipped' = IF outcome = "skip" THEN skipped + 1 ELSE skipped

(* The record is handed to the event loop and counted, or the line is      *)
(* counted as dropped, or neither.                                         *)
Count(outcome) ==
    /\ handled' = handled + 1
    /\ packets' = IF outcome = "queue" THEN packets + 1 ELSE packets
    /\ dropped' = IF outcome = "drop" THEN dropped + 1 ELSE dropped
    /\ skipped' = IF outcome = "skip" THEN skipped + 1 ELSE skipped

(* Faulty variant: an exception leaves the callback. *)
Dispatch_Uncaught(outcome) ==
    /\ Count(outcome)
    /\ network' = IF outcome = "raise" THEN "dead" ELSE network

(* Faulty variant: an exception is logged and nothing else. *)
Dispatch_LogOnly(outcome) == Count(outcome) /\ UNCHANGED network

(* _on_message catches what the processing raises and counts the line.     *)
Dispatch(outcome) ==
    /\ Count(IF outcome = "raise" THEN "drop" ELSE outcome)
    /\ UNCHANGED network

OnMessage ==
    /\ mode = "live" /\ network = "run" /\ link = "up" /\ subscribed
    /\ handled < MaxRows
    /\ \E outcome \in RowOutcomes \cup SmokeOutcomes : Dispatch(outcome)
    /\ UNCHANGED <<mode, stage, connected, error, online, broker, session,
                   display, changes>>

(* _handle_status_payload; other payloads change nothing. *)
OnStatus ==
    /\ mode = "live" /\ network = "run" /\ link = "up"
    /\ inbox # <<>>
    /\ online' = Head(inbox)
    /\ inbox' = Tail(inbox)
    /\ UNCHANGED <<mode, network, stage, connected, error, broker, link,
                   subscribed, seenUp, counts, display, changes>>

-----------------------------------------------------------------------------
(* Replay: _run_replay *)

ReplayMissing ==
    /\ mode = "replay" /\ network = "new"
    /\ network' = "ended" /\ error' = TRUE
    /\ UNCHANGED <<mode, stage, connected, online, broker, session, counts,
                   display, changes>>

ReplayBegins ==
    /\ mode = "replay" /\ network = "new"
    /\ network' = "run"
    /\ connected' = TRUE /\ error' = FALSE
    /\ UNCHANGED <<mode, stage, online, broker, session, counts, display,
                   changes>>

(* Nothing catches an exception: it ends the thread. *)
ReplayRow ==
    /\ mode = "replay" /\ network = "run" /\ stage = "no"
    /\ handled < MaxRows
    /\ \E outcome \in ReplayOutcomes :
        /\ Count(outcome)
        /\ network' = IF outcome = "raise" THEN "dead" ELSE network
    /\ UNCHANGED <<mode, stage, connected, error, online, broker, session,
                   display, changes>>

(* The file is at its end, or the stop event is set. *)
ReplayEnds ==
    /\ mode = "replay" /\ network = "run"
    /\ network' = "ended" /\ connected' = FALSE
    /\ UNCHANGED <<mode, stage, error, online, broker, session, counts,
                   display, changes>>

-----------------------------------------------------------------------------
(* The event loop *)

(* broadcast_status and the greeting: snapshot(), then transport_state().  *)
TakeSnapshot ==
    /\ stage = "no" /\ snap = "none"
    /\ snap' = online
    /\ UNCHANGED <<mode, network, stage, connected, error, online, broker,
                   session, counts, shown, changes>>

Show ==
    /\ stage = "no" /\ snap # "none"
    /\ shown' = [mqtt |-> TransportState, online |-> snap]
    /\ snap' = "none"
    /\ UNCHANGED <<mode, network, stage, connected, error, online, broker,
                   session, counts, changes>>

(* stop(): the stop event, or _stopping and connected = False ... *)
StopBegins ==
    /\ stage = "no" /\ network # "new"
    /\ IF mode = "live"
       THEN stage' = "marked" /\ connected' = FALSE
       ELSE stage' = "joining" /\ UNCHANGED connected
    /\ UNCHANGED <<mode, network, error, online, broker, session, counts,
                   display, changes>>

(* ... client.disconnect() ... *)
Disconnect ==
    /\ stage = "marked"
    /\ stage' = "joining"
    /\ link' = IF link = "up" THEN "closing" ELSE link
    /\ UNCHANGED <<mode, network, connected, error, online, broker, subscribed,
                   inbox, seenUp, counts, display, changes>>

(* ... and the network thread is joined, paho's by loop_stop. *)
Join ==
    /\ stage = "joining"
    /\ \/ mode = "live" /\ link = "down" /\ network' = "ended"
       \/ mode = "replay" /\ network # "run" /\ UNCHANGED network
    /\ stage' = "returned"
    /\ UNCHANGED <<mode, connected, error, online, broker, session, counts,
                   display, changes>>

Next ==
    \/ BrokerFlips \/ \E s \in {"online", "offline"} : PublishStatus(s)
    \/ Start \/ OnConnect \/ OnRefused \/ OnDisconnect
    \/ OnMessage \/ OnStatus
    \/ ReplayMissing \/ ReplayBegins \/ ReplayRow \/ ReplayEnds
    \/ TakeSnapshot \/ Show \/ StopBegins \/ Disconnect \/ Join

Spec == Init /\ [][Next]_vars

(* paho's thread runs its callbacks and retries, a broker that is down     *)
(* comes back, the status task keeps broadcasting.                         *)
FairSpec ==
    /\ Spec
    /\ WF_vars(Start) /\ WF_vars(OnConnect) /\ WF_vars(OnDisconnect)
    /\ WF_vars(OnStatus) /\ WF_vars(TakeSnapshot) /\ WF_vars(Show)
    /\ WF_vars(~ brokerUp /\ BrokerFlips)

-----------------------------------------------------------------------------
(* Properties *)

TypeOK ==
    /\ mode \in {"live", "replay"}
    /\ network \in {"new", "run", "dead", "ended"}
    /\ link \in {"down", "up", "closing"}
    /\ stage \in {"no", "marked", "joining", "returned"}
    /\ {connected, error, brokerUp, subscribed, seenUp} \subseteq BOOLEAN
    /\ {online, retained} \subseteq {"unknown", "online", "offline"}
    /\ {packets, dropped, skipped} \subseteq 0 .. handled /\ handled \in Nat
    /\ inbox \in Seq({"online", "offline"})
    /\ snap \in {"none", "unknown", "online", "offline"}
    /\ shown \in [mqtt : {"connected", "reconnecting", "disconnected"},
                  online : {"unknown", "online", "offline"}]
    /\ changes \in 0 .. MaxChanges

(* Every message of the sender is counted once, as a packet or as dropped, *)
(* whichever check it fails and also if the processing raises; only the    *)
(* row that ended a replay is in neither count.                            *)
RowsAccountedFor ==
    packets + dropped + skipped + (IF network = "dead" THEN 1 ELSE 0) = handled

(* "An uncaught exception here would kill paho's network thread and leave  *)
(* the reader permanently deaf": a live reader that says it is connected   *)
(* has a running thread, a connection and its subscriptions; one that lost *)
(* a connection says "reconnecting", not "disconnected", until it is       *)
(* stopped; and one that was stopped does not say that it is connected,    *)
(* whatever callback ran during the stop.  Of the receiver it says what    *)
(* the broker retains, or that is the last status on its way, also if it   *)
(* was changed while there was no connection.                              *)
StatusTellsTheLink ==
    mode = "live" =>
        /\ connected => network = "run" /\ link # "down" /\ subscribed
        /\ stage = "no" /\ seenUp => TransportState # "disconnected"
        /\ stage = "returned" => ~ connected
        /\ subscribed /\ retained # "unknown" =>
               retained = IF inbox = <<>> THEN online ELSE inbox[Len(inbox)]

(* When the disturbances are over, the browsers are shown, for good, that  *)
(* the reader is connected and whether the receiver is online, although    *)
(* the subscriptions went with each lost connection and the status that is *)
(* broadcast is put together from two moments.                             *)
BrowsersSeeTheReceiver ==
    <>[](mode = "live" /\ stage = "no" =>
            shown = [mqtt |-> "connected", online |-> retained])

=============================================================================
