----------------------------- MODULE BrokerLink -----------------------------
(***************************************************************************)
(* The MQTT receiver's link to its broker, csi_recv_mqtt/main/main.c: the  *)
(* housekeeping part of publisher_task, which resolves the broker's name   *)
(* and starts the client, and mqtt_event_handler, which runs on esp-mqtt's *)
(* own task and asks for another lookup through the flag s_uri_dirty.      *)
(*                                                                         *)
(* External, modelled from how main.c uses them: the esp-mqtt client       *)
(* (reconnects on its own every 5 s, raises DISCONNECTED after every       *)
(* attempt that fails, keeps QoS 1 messages in an outbox in RAM until they *)
(* are acknowledged and resends them on a later connection, in any order;  *)
(* that its api lock makes publisher_task's calls wait for a handler would *)
(* only take interleavings away and is left out),                          *)
(* the resolver, the Wi-Fi driver and the broker (one session per client   *)
(* id: a second one ends the first and publishes its will).                *)
(*                                                                         *)
(* A status message is known by its kind: "online" (publish_online, the    *)
(* only one with csv_header), "beat" (publish_heartbeat), "offline" (will).*)
(* The frames themselves are left out: see CaptureQueue.                   *)
(***************************************************************************)
EXTENDS Naturals

CONSTANTS
    Addresses,      (* the addresses the broker's host may be given        *)
    NoAddress,      (* s_broker_uri is empty                               *)
    HeartbeatOn,    (* CFG_STATUS_INTERVAL_S > 0                           *)
    MaxDisruptions  (* bound: moves, losses of Wi-Fi and reboots, in total *)

ASSUME LinkAssumption ==
    /\ NoAddress \notin Addresses
    /\ HeartbeatOn \in BOOLEAN
    /\ MaxDisruptions \in Nat

VARIABLES
    (* the device *)
    pub,         (* where publisher_task stands; "boot": not yet created   *)
    answer,      (* the address the last successful lookup gave            *)
    uri,         (* s_broker_uri, and s_broker_ip inside it                *)
    uriDirty,    (* s_uri_dirty                                            *)
    brokerConn,  (* s_broker_conn                                          *)
    owed,        (* history: a disconnect no lookup has been begun after   *)
    (* esp-mqtt *)
    link,        (* "none" (s_mqtt is NULL), "wait", "up", and while the   *)
                 (* handler has yet to run: "hello" and "greet" of         *)
                 (* CONNECTED, "lost" and "cleared" of DISCONNECTED        *)
    clientUri,   (* the URI it uses for its next attempt                   *)
    outbox,      (* kinds of the status messages not yet acknowledged      *)
    late,        (* history: heartbeats it was handed while it waited to   *)
                 (* connect again, since it was connected last             *)
    (* the rest of the world *)
    wifiUp,      (* the station is associated and has an address           *)
    host,        (* CFG_MQTT_BROKER_HOST: an address, or NoAddress for a   *)
                 (* name                                                   *)
    brokerAt,    (* where the broker is                                    *)
    session,     (* the broker's session for the client: "none", "open",   *)
                 (* "half" (broken, which the broker has not noticed)      *)
    retained,    (* the status a late subscriber is given                  *)
    disruptions

publisher == <<pub, answer, uri>>
client == <<link, clientUri, outbox, late>>
world == <<wifiUp, host, brokerAt, session, retained, disruptions>>
vars == <<publisher, uriDirty, brokerConn, owed, client, world>>

Init ==
    /\ pub = "boot" /\ answer = NoAddress /\ uri = NoAddress
    /\ uriDirty = FALSE /\ brokerConn = FALSE /\ owed = FALSE
    /\ link = "none" /\ clientUri = NoAddress /\ outbox = {} /\ late = 0
    /\ wifiUp = FALSE
    /\ host \in Addresses \cup {NoAddress}
    /\ brokerAt \in Addresses
    /\ session = "none"
    /\ retained = "none"
    /\ disruptions = 0

Alive == {"online", "beat"}

-----------------------------------------------------------------------------
(* publisher_task, from the end of its receive to the end of its loop *)

(* app_main creates the task once there is an address, or after 60 s. *)
StartPublisher ==
    /\ pub = "boot"
    /\ pub' = "tick"
    /\ UNCHANGED <<answer, uri, uriDirty, brokerConn, owed, client, world>>

(* No client yet: the lookup is tried every 5 s. *)
TickNoClient ==
    /\ pub = "tick" /\ link = "none"
    /\ pub' = "lookup"
    /\ UNCHANGED <<answer, uri, uriDirty, brokerConn, owed, client, world>>

(* The flag is cleared first, so that a disconnect during the lookup is    *)
(* seen on the next round.                                                 *)
TickDirty ==
    /\ pub = "tick" /\ link # "none" /\ uriDirty
    /\ uriDirty' = FALSE
    /\ pub' = "lookup"
    /\ UNCHANGED <<answer, uri, brokerConn, owed, client, world>>

TickQuiet ==
    /\ pub = "tick"
    /\ IF link = "none" THEN TRUE ELSE ~ uriDirty
    /\ pub' = "status"
    /\ UNCHANGED <<answer, uri, uriDirty, brokerConn, owed, client, world>>

(* refresh_broker_uri: resolve_host is called ... *)
BeginLookup ==
    /\ pub = "lookup"
    /\ pub' = "asking"
    /\ owed' = FALSE
    /\ UNCHANGED <<answer, uri, uriDirty, brokerConn, client, world>>

(* ... and answers some time later, by mDNS or by DNS, or fails.  An       *)
(* address needs no lookup.                                                *)
LookupOk ==
    /\ pub = "asking"
    /\ \/ host # NoAddress /\ answer' = host
       \/ host = NoAddress /\ wifiUp /\ answer' = brokerAt
    /\ pub' = "answered"
    /\ UNCHANGED <<uri, uriDirty, brokerConn, owed, client, world>>

(* The previous URI is kept. *)
LookupFails ==
    /\ pub = "asking" /\ host = NoAddress
    /\ pub' = "refreshed"
    /\ UNCHANGED <<answer, uri, uriDirty, brokerConn, owed, client, world>>

(* Faulty variant: set_uri is called whether or not there is a client. *)
ApplyAnswer_NoNullCheck ==
    /\ pub = "answered"
    /\ uri' = answer
    /\ pub' = IF answer # uri THEN "setUri" ELSE "refreshed"
    /\ UNCHANGED <<answer, uriDirty, brokerConn, owed, client, world>>

(* Only an address that differs is written to s_broker_ip and s_broker_uri. *)
ApplyAnswer ==
    /\ pub = "answered"
    /\ uri' = answer
    /\ pub' = IF answer # uri /\ link # "none" THEN "setUri" ELSE "refreshed"
    /\ UNCHANGED <<answer, uriDirty, brokerConn, owed, client, world>>

(* Faulty variant: a client that is connected is not told. *)
SetUri_UnlessConnected ==
    /\ pub = "setUri"
    /\ clientUri' = IF brokerConn THEN clientUri ELSE uri
    /\ pub' = "refreshed"
    /\ UNCHANGED <<answer, uri, uriDirty, brokerConn, owed, link, outbox, late, world>>

(* esp_mqtt_client_set_uri *)
SetUri ==
    /\ pub = "setUri"
    /\ clientUri' = uri
    /\ pub' = "refreshed"
    /\ UNCHANGED <<answer, uri, uriDirty, brokerConn, owed, link, outbox, late, world>>

(* Faulty variant: the flag is cleared after the lookup, not before it. *)
Refreshed_ClearsFlag ==
    /\ pub = "refreshed"
    /\ uriDirty' = FALSE
    /\ IF link = "none" /\ uri # NoAddress
       THEN link' = "wait" /\ clientUri' = uri
       ELSE UNCHANGED <<link, clientUri>>
    /\ pub' = "status"
    /\ UNCHANGED <<answer, uri, brokerConn, owed, outbox, late, world>>

(* mqtt_start, if there is no client and there is an address at last.  A   *)
(* failure in there aborts the program: see Reboot.                        *)
Refreshed ==
    /\ pub = "refreshed"
    /\ IF link = "none" /\ uri # NoAddress
       THEN link' = "wait" /\ clientUri' = uri
       ELSE UNCHANGED <<link, clientUri>>
    /\ pub' = "status"
    /\ UNCHANGED <<answer, uri, uriDirty, brokerConn, owed, outbox, late, world>>

(* s_broker_conn is set, and the interval has elapsed. *)
HeartbeatDue ==
    /\ pub = "status"
    /\ HeartbeatOn /\ brokerConn
    /\ pub' = "beat"
    /\ UNCHANGED <<answer, uri, uriDirty, brokerConn, owed, client, world>>

NoHeartbeat ==
    /\ pub = "status"
    /\ pub' = "tick"
    /\ UNCHANGED <<answer, uri, uriDirty, brokerConn, owed, client, world>>

(* Faulty variant: the heartbeat is not published with the retain flag. *)
Heartbeat_NotRetained ==
    /\ pub = "beat"
    /\ pub' = "tick"
    /\ UNCHANGED <<answer, uri, uriDirty, brokerConn, owed, client, world>>

(* publish_heartbeat: esp-mqtt takes the message, also if the connection   *)
(* has gone in the meantime.                                               *)
Heartbeat ==
    /\ pub = "beat"
    /\ outbox' = outbox \cup {"beat"}
    /\ late' = IF link = "wait" THEN late + 1 ELSE late
    /\ pub' = "tick"
    /\ UNCHANGED <<answer, uri, uriDirty, brokerConn, owed, link, clientUri, world>>

HeartbeatRefused ==
    /\ pub = "beat"
    /\ pub' = "tick"
    /\ UNCHANGED <<answer, uri, uriDirty, brokerConn, owed, client, world>>

PublisherStep ==
    \/ StartPublisher \/ TickNoClient \/ TickDirty \/ TickQuiet
    \/ BeginLookup \/ LookupOk \/ LookupFails \/ ApplyAnswer \/ SetUri
    \/ Refreshed \/ HeartbeatDue \/ NoHeartbeat \/ Heartbeat \/ HeartbeatRefused

-----------------------------------------------------------------------------
(* esp-mqtt's task and the broker *)

Reachable == wifiUp /\ clientUri = brokerAt

(* Faulty variant: the will is not published with the retain flag. *)
LastWill_NotRetained == retained

(* cfg.session.last_will: what the broker retains when a session breaks. *)
LastWill == "offline"

(* The attempt succeeds; the handler has yet to be told. *)
Connect ==
    /\ link = "wait" /\ Reachable
    /\ link' = "hello"
    /\ late' = 0
    /\ session' = "open"
    /\ retained' = IF session = "half" THEN LastWill ELSE retained
    /\ UNCHANGED <<publisher, uriDirty, brokerConn, owed, clientUri, outbox,
                   wifiUp, host, brokerAt, disruptions>>

(* The client gives up an attempt, or a connection. *)
Disconnect ==
    /\ link' = "lost"
    /\ owed' = TRUE
    /\ UNCHANGED <<publisher, uriDirty, brokerConn, clientUri, outbox, late, world>>

ConnectFails == link = "wait" /\ Disconnect

LinkLost == link = "up" /\ session # "open" /\ Disconnect

(* MQTT_EVENT_CONNECTED *)
OnConnected ==
    /\ link = "hello"
    /\ brokerConn' = TRUE
    /\ link' = "greet"
    /\ UNCHANGED <<publisher, uriDirty, owed, clientUri, outbox, late, world>>

(* publish_online, at its end. *)
PublishOnline ==
    /\ link = "greet"
    /\ link' = "up"
    /\ outbox' \in {outbox, outbox \cup {"online"}}   (* refused or taken *)
    /\ UNCHANGED <<publisher, uriDirty, brokerConn, owed, clientUri, late, world>>

(* Faulty variant: only the lookup is asked for. *)
OnDisconnected_KeepsConn ==
    /\ link = "lost"
    /\ link' = "cleared"
    /\ UNCHANGED <<publisher, uriDirty, brokerConn, owed, clientUri, outbox, late, world>>

(* MQTT_EVENT_DISCONNECTED: first the one flag ... *)
OnDisconnected ==
    /\ link = "lost"
    /\ brokerConn' = FALSE
    /\ link' = "cleared"
    /\ UNCHANGED <<publisher, uriDirty, owed, clientUri, outbox, late, world>>

(* Faulty variant: the lookup is left to the next start of the client. *)
AskForLookup_Never ==
    /\ link = "cleared"
    /\ link' = "wait"
    /\ UNCHANGED <<publisher, uriDirty, brokerConn, owed, clientUri, outbox, late, world>>

(* ... then the other; publisher_task may run between them. *)
AskForLookup ==
    /\ link = "cleared"
    /\ uriDirty' = TRUE
    /\ link' = "wait"
    /\ UNCHANGED <<publisher, brokerConn, owed, clientUri, outbox, late, world>>

HandlerStep == OnConnected \/ PublishOnline \/ OnDisconnected \/ AskForLookup

(* A status message reaches the broker; its acknowledgement may be lost,   *)
(* and then it will be sent again.                                         *)
Deliver(m) ==
    /\ m \in outbox /\ session = "open"
    /\ retained' = m
    /\ outbox' \in {outbox, outbox \ {m}}
    /\ UNCHANGED <<publisher, uriDirty, brokerConn, owed, link, clientUri, late,
                   wifiUp, host, brokerAt, session, disruptions>>

(* The broker notices that the client is gone: its will is published. *)
BrokerNotices ==
    /\ session = "half"
    /\ session' = "none"
    /\ retained' = LastWill
    /\ UNCHANGED <<publisher, uriDirty, brokerConn, owed, client,
                   wifiUp, host, brokerAt, disruptions>>

-----------------------------------------------------------------------------
(* Disruptions *)

Broken == IF session = "open" THEN "half" ELSE session

Disrupt ==
    /\ disruptions < MaxDisruptions
    /\ disruptions' = disruptions + 1
    /\ session' = Broken
    /\ UNCHANGED retained

MoveBroker(a) ==
    /\ Disrupt
    /\ a # brokerAt
    /\ brokerAt' = a
    /\ UNCHANGED <<publisher, uriDirty, brokerConn, owed, client, wifiUp, host>>

(* WIFI_EVENT_STA_DISCONNECTED; the handler calls esp_wifi_connect. *)
LoseWifi ==
    /\ Disrupt
    /\ wifiUp
    /\ wifiUp' = FALSE
    /\ UNCHANGED <<publisher, uriDirty, brokerConn, owed, client, host, brokerAt>>

(* IP_EVENT_STA_GOT_IP *)
GotIp ==
    /\ ~ wifiUp
    /\ wifiUp' = TRUE
    /\ UNCHANGED <<publisher, uriDirty, brokerConn, owed, client,
                   host, brokerAt, session, retained, disruptions>>

(* The device loses power or aborts, and starts again with empty RAM. *)
Reboot ==
    /\ Disrupt
    /\ pub' = "boot" /\ answer' = NoAddress /\ uri' = NoAddress
    /\ uriDirty' = FALSE /\ brokerConn' = FALSE /\ owed' = FALSE
    /\ link' = "none" /\ clientUri' = NoAddress /\ outbox' = {} /\ late' = 0
    /\ wifiUp' = FALSE
    /\ UNCHANGED <<host, brokerAt>>

Next ==
    \/ PublisherStep
    \/ Connect \/ ConnectFails \/ LinkLost \/ HandlerStep
    \/ \E m \in Alive : Deliver(m)
    \/ BrokerNotices
    \/ \E a \in Addresses : MoveBroker(a)
    \/ LoseWifi \/ GotIp \/ Reboot

Spec == Init /\ [][Next]_vars

(* The tasks run; every connection attempt ends; what is retried (lookup,  *)
(* heartbeat, connection attempt) is not unlucky for ever; what is         *)
(* delivered late is delivered; Wi-Fi comes back.                          *)
FairSpec ==
    /\ Spec
    /\ WF_vars(PublisherStep) /\ SF_vars(TickNoClient)
    /\ SF_vars(LookupOk) /\ SF_vars(HeartbeatDue) /\ SF_vars(Heartbeat)
    /\ SF_vars(Connect) /\ WF_vars(Connect \/ ConnectFails)
    /\ WF_vars(HandlerStep) /\ WF_vars(LinkLost)
    /\ \A m \in Alive : WF_vars(Deliver(m))
    /\ WF_vars(BrokerNotices) /\ WF_vars(GotIp)

-----------------------------------------------------------------------------
(* Properties *)

TypeOK ==
    /\ pub \in {"boot", "tick", "lookup", "asking", "answered", "setUri",
                "refreshed", "status", "beat"}
    /\ pub = "setUri" => link # "none"        (* set_uri has a client *)
    /\ answer \in Addresses \cup {NoAddress}
    /\ uri \in Addresses \cup {NoAddress}
    /\ clientUri \in Addresses \cup {NoAddress}
    /\ uriDirty \in BOOLEAN /\ brokerConn \in BOOLEAN
    /\ owed \in BOOLEAN /\ wifiUp \in BOOLEAN
    /\ link \in {"none", "wait", "hello", "greet", "up", "lost", "cleared"}
    /\ outbox \subseteq Alive /\ late \in Nat
    /\ host \in Addresses \cup {NoAddress} /\ brokerAt \in Addresses
    /\ session \in {"none", "open", "half"}
    /\ retained \in Alive \cup {"none", "offline"}
    /\ disruptions \in 0 .. MaxDisruptions

(* "The name is re-resolved on every disconnect": a disconnect after which *)
(* no lookup has been begun is still flagged, or its lookup is the next    *)
(* thing publisher_task does, or the handler is about to flag it; one that *)
(* falls into a lookup is not lost.                                        *)
EveryDisconnectIsFollowedUp ==
    owed => uriDirty \/ pub = "lookup" \/ link \in {"lost", "cleared"}

(* The client is pointed at the address last resolved, and was never       *)
(* started without one, whatever happened to the link during the lookup.   *)
ClientFollowsUri ==
    /\ link # "none" => uri # NoAddress
    /\ link # "none" /\ pub # "setUri" => clientUri = uri

(* A device shown online has a session whose will shall correct that: one  *)
(* that died does not stay online, also when it rebooted and came back.    *)
OnlineIsBackedByWill == retained \in Alive => session # "none"

(* publisher_task tests s_broker_conn before it publishes, and it may be   *)
(* cleared in between; esp-mqtt keeps in RAM what it is handed.  While it  *)
(* waits to reconnect, for however long and with however many failed       *)
(* attempts, that happens at most once: heartbeats do not pile up.         *)
AtMostOneLateHeartbeat == late <= 1

Findable == host \in {NoAddress, brokerAt}

(* Once the disruptions end the device is connected for good, wherever the *)
(* broker's host has moved in the meantime; one that was configured with   *)
(* an address needs the broker there.                                      *)
ReconnectsForGood == <>[](Findable => session = "open" /\ brokerConn)

(* ... and a late subscriber sees it online, even if esp-mqtt refused the  *)
(* message of the connect handler: a heartbeat repairs that.               *)
ShownOnlineForGood == <>[](Findable => retained \in Alive)

(* "The csv_header field lets a subscriber map CSV columns to names": so   *)
(* the retained status of a device that is online carries it.              *)
LateSubscriberGetsHeader == retained \in Alive => retained = "online"

=============================================================================
