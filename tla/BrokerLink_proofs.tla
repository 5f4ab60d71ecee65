-------------------------- MODULE BrokerLink_proofs --------------------------
(***************************************************************************)
(* Proofs about BrokerLink, for any set of addresses, with or without      *)
(* heartbeats, and for any number of disruptions.                          *)
(*                                                                         *)
(* Most of the safety properties are nearly inductive as they stand: what  *)
(* they lack is that the answer publisher_task is about to apply is an     *)
(* address.  That heartbeats do not pile up needs more: s_broker_conn is   *)
(* set only while there is a connection or the handler has yet to clear    *)
(* it, and once a heartbeat was late, no other is on its way and the flag  *)
(* is clear until the client is connected again.                           *)
(***************************************************************************)
EXTENDS BrokerLink, TLAPS

(* s_broker_conn may outlive the connection, until the handler ran. *)
FlagNeedsLink == brokerConn => link \in {"greet", "up", "lost"}

(* After a late heartbeat there is none to come before the next connection. *)
LateIsTheLast ==
    \/ late = 0
    \/ /\ late = 1
       /\ pub # "beat" /\ ~ brokerConn /\ link \in {"wait", "lost", "cleared"}

IInv ==
    /\ TypeOK
    /\ EveryDisconnectIsFollowedUp
    /\ ClientFollowsUri
    /\ OnlineIsBackedByWill
    /\ pub = "answered" => answer # NoAddress
    /\ FlagNeedsLink
    /\ LateIsTheLast

(* The inductive invariant holds at the start ... *)
LEMMA InitInv == Init => IInv
<1> SUFFICES ASSUME Init PROVE IInv
    OBVIOUS
<1> USE LinkAssumption DEF Init, Alive
<1>0. /\ uriDirty \in BOOLEAN /\ brokerConn \in BOOLEAN
      /\ owed \in BOOLEAN /\ wifiUp \in BOOLEAN
    BY Zenon
<1>n. 0 \in 0 .. MaxDisruptions
    OBVIOUS
<1>1. TypeOK
    BY <1>0, <1>n, Zenon DEF TypeOK
<1>2. /\ EveryDisconnectIsFollowedUp /\ FlagNeedsLink /\ LateIsTheLast
      /\ ClientFollowsUri /\ OnlineIsBackedByWill
    BY DEF EveryDisconnectIsFollowedUp, FlagNeedsLink, LateIsTheLast,
           ClientFollowsUri, OnlineIsBackedByWill
<1> QED
    BY <1>1, <1>2 DEF IInv

(* ... and every step keeps it. *)
LEMMA StepInv == IInv /\ [Next]_vars => IInv'
<1> SUFFICES ASSUME IInv, [Next]_vars PROVE IInv'
    OBVIOUS
<1> USE LinkAssumption
    DEF IInv, TypeOK, EveryDisconnectIsFollowedUp, ClientFollowsUri,
        OnlineIsBackedByWill, FlagNeedsLink, LateIsTheLast, Alive,
        publisher, client, world
<1>u. CASE UNCHANGED vars
    BY <1>u DEF vars
<1>1. CASE StartPublisher
    BY <1>1 DEF StartPublisher
<1>2. CASE TickNoClient
    BY <1>2 DEF TickNoClient
<1>3. CASE TickDirty
  <2>0. (/\ uriDirty \in BOOLEAN /\ brokerConn \in BOOLEAN
         /\ owed \in BOOLEAN /\ wifiUp \in BOOLEAN)'
    BY <1>3, Zenon DEF TickDirty
  <2>1. TypeOK'
    BY <1>3, <2>0, Zenon DEF TickDirty
  <2>2. (EveryDisconnectIsFollowedUp /\ FlagNeedsLink /\ LateIsTheLast)'
    BY <1>3 DEF TickDirty
  <2>3. (ClientFollowsUri /\ OnlineIsBackedByWill)'
    BY <1>3 DEF TickDirty
  <2>4. (pub = "answered" => answer # NoAddress)'
    BY <1>3 DEF TickDirty
  <2> QED
    BY <2>1, <2>2, <2>3, <2>4
<1>4. CASE TickQuiet
    BY <1>4 DEF TickQuiet
<1>5. CASE BeginLookup
  <2>0. (/\ uriDirty \in BOOLEAN /\ brokerConn \in BOOLEAN
         /\ owed \in BOOLEAN /\ wifiUp \in BOOLEAN)'
    BY <1>5, Zenon DEF BeginLookup
  <2>1. TypeOK'
    BY <1>5, <2>0, Zenon DEF BeginLookup
  <2>2. (EveryDisconnectIsFollowedUp /\ FlagNeedsLink /\ LateIsTheLast)'
    BY <1>5 DEF BeginLookup
  <2>3. (ClientFollowsUri /\ OnlineIsBackedByWill)'
    BY <1>5 DEF BeginLookup
  <2>4. (pub = "answered" => answer # NoAddress)'
    BY <1>5 DEF BeginLookup
  <2> QED
    BY <2>1, <2>2, <2>3, <2>4
<1>6. CASE LookupOk
    BY <1>6 DEF LookupOk
<1>7. CASE LookupFails
    BY <1>7 DEF LookupFails
<1>8. CASE ApplyAnswer
    BY <1>8 DEF ApplyAnswer
<1>9. CASE SetUri
    BY <1>9 DEF SetUri
<1>10. CASE Refreshed
    BY <1>10 DEF Refreshed
<1>11. CASE HeartbeatDue
    BY <1>11 DEF HeartbeatDue
<1>12. CASE NoHeartbeat
    BY <1>12 DEF NoHeartbeat
<1>13. CASE Heartbeat
    BY <1>13 DEF Heartbeat
<1>14. CASE HeartbeatRefused
    BY <1>14 DEF HeartbeatRefused
<1>15. CASE Connect
    BY <1>15 DEF Connect, LastWill
<1>16. CASE ConnectFails
    BY <1>16 DEF ConnectFails, Disconnect
<1>17. CASE LinkLost
    BY <1>17 DEF LinkLost, Disconnect
<1>18. CASE OnConnected
    BY <1>18 DEF OnConnected
<1>19. CASE PublishOnline
    BY <1>19 DEF PublishOnline
<1>20. CASE OnDisconnected
  <2>0. (/\ uriDirty \in BOOLEAN /\ brokerConn \in BOOLEAN
         /\ owed \in BOOLEAN /\ wifiUp \in BOOLEAN)'
    BY <1>20, Zenon DEF OnDisconnected
  <2>1. TypeOK'
    BY <1>20, <2>0, Zenon DEF OnDisconnected
  <2>2. (EveryDisconnectIsFollowedUp /\ FlagNeedsLink /\ LateIsTheLast)'
    BY <1>20 DEF OnDisconnected
  <2>3. (ClientFollowsUri /\ OnlineIsBackedByWill)'
    BY <1>20 DEF OnDisconnected
  <2>4. (pub = "answered" => answer # NoAddress)'
    BY <1>20 DEF OnDisconnected
  <2> QED
    BY <2>1, <2>2, <2>3, <2>4
<1>21. CASE AskForLookup
    BY <1>21 DEF AskForLookup
<1>22. ASSUME NEW m \in Alive, Deliver(m) PROVE IInv'
    BY <1>22 DEF Deliver
<1>23. CASE BrokerNotices
    BY <1>23 DEF BrokerNotices, LastWill
<1>24. ASSUME NEW a \in Addresses, MoveBroker(a) PROVE IInv'
    BY <1>24 DEF MoveBroker, Disrupt, Broken
<1>25. CASE LoseWifi
  <2>0. (/\ uriDirty \in BOOLEAN /\ brokerConn \in BOOLEAN
         /\ owed \in BOOLEAN /\ wifiUp \in BOOLEAN)'
    BY <1>25, Zenon DEF LoseWifi, Disrupt, Broken
  <2>n. disruptions' \in 0 .. MaxDisruptions /\ session' \in {"none", "open", "half"}
    BY <1>25 DEF LoseWifi, Disrupt, Broken
  <2>l. late' \in Nat
    BY <1>25 DEF LoseWifi, Disrupt, Broken
  <2>1. TypeOK'
    BY <1>25, <2>0, <2>n, <2>l, Zenon DEF LoseWifi, Disrupt, Broken
  <2>2. (EveryDisconnectIsFollowedUp /\ FlagNeedsLink /\ LateIsTheLast)'
    BY <1>25 DEF LoseWifi, Disrupt, Broken
  <2>3. (ClientFollowsUri /\ OnlineIsBackedByWill)'
    BY <1>25 DEF LoseWifi, Disrupt, Broken
  <2>4. (pub = "answered" => answer # NoAddress)'
    BY <1>25 DEF LoseWifi, Disrupt, Broken
  <2> QED
    BY <2>1, <2>2, <2>3, <2>4
<1>26. CASE GotIp
    BY <1>26 DEF GotIp
<1>27. CASE Reboot
  <2>0. (/\ uriDirty \in BOOLEAN /\ brokerConn \in BOOLEAN
         /\ owed \in BOOLEAN /\ wifiUp \in BOOLEAN)'
    BY <1>27, Zenon DEF Reboot, Disrupt, Broken
  <2>n. disruptions' \in 0 .. MaxDisruptions /\ session' \in {"none", "open", "half"}
    BY <1>27 DEF Reboot, Disrupt, Broken
  <2>l. late' \in Nat
    BY <1>27 DEF Reboot, Disrupt, Broken
  <2>1. TypeOK'
    BY <1>27, <2>0, <2>n, <2>l, Zenon DEF Reboot, Disrupt, Broken
  <2>2. (EveryDisconnectIsFollowedUp /\ FlagNeedsLink /\ LateIsTheLast)'
    BY <1>27 DEF Reboot, Disrupt, Broken
  <2>3. (ClientFollowsUri /\ OnlineIsBackedByWill)'
    BY <1>27 DEF Reboot, Disrupt, Broken
  <2>4. (pub = "answered" => answer # NoAddress)'
    BY <1>27 DEF Reboot, Disrupt, Broken
  <2> QED
    BY <2>1, <2>2, <2>3, <2>4
<1> QED
    BY <1>u, <1>1, <1>2, <1>3, <1>4, <1>5, <1>6, <1>7, <1>8, <1>9, <1>10, <1>11, <1>12, <1>13, <1>14, <1>15, <1>16, <1>17, <1>18, <1>19, <1>20, <1>21, <1>22, <1>23, <1>24, <1>25, <1>26, <1>27
    DEF Next, PublisherStep, HandlerStep

(* The inductive invariant holds always. *)
LEMMA Invariance == Spec => []IInv
BY InitInv, StepInv, PTL DEF Spec

(* Types; in particular set_uri is only called once there is a client      *)
(* (main.c, refresh_broker_uri).                                           *)
THEOREM TypeCorrect == Spec => []TypeOK
<1>1. IInv => TypeOK
    BY DEF IInv
<1> QED
    BY <1>1, Invariance, PTL

(* While esp-mqtt waits to reconnect it is handed one heartbeat at most,   *)
(* whatever the order of publisher_task and the handler (main.c, the test  *)
(* of s_broker_conn before publish_heartbeat).                             *)
THEOREM HeartbeatsDoNotPileUp == Spec => []AtMostOneLateHeartbeat
<1>1. IInv => AtMostOneLateHeartbeat
    BY DEF IInv, LateIsTheLast, AtMostOneLateHeartbeat
<1> QED
    BY <1>1, Invariance, PTL

(* A disconnect is never forgotten, also one that falls into a lookup      *)
(* (main.c, publisher_task: the flag is cleared before the lookup).        *)
THEOREM DisconnectsFollowedUp == Spec => []EveryDisconnectIsFollowedUp
<1>1. IInv => EveryDisconnectIsFollowedUp
    BY DEF IInv
<1> QED
    BY <1>1, Invariance, PTL

(* The client has an address, and it is the one last resolved (main.c,     *)
(* refresh_broker_uri and the start of the client in publisher_task).      *)
THEOREM ClientIsPointedAtUri == Spec => []ClientFollowsUri
<1>1. IInv => ClientFollowsUri
    BY DEF IInv
<1> QED
    BY <1>1, Invariance, PTL

(* A retained "online" has a will behind it (main.c, mqtt_start). *)
THEOREM OnlineHasWill == Spec => []OnlineIsBackedByWill
<1>1. IInv => OnlineIsBackedByWill
    BY DEF IInv
<1> QED
    BY <1>1, Invariance, PTL

=============================================================================
