---------------------------- MODULE MCBrokerLink ----------------------------
(* Two addresses and four disruptions: the broker can move away and back  *)
(* while a lookup is under way, or the device reboot between two moves.    *)
EXTENDS BrokerLink

CONSTANTS a1, a2

MCAddresses == {a1, a2}
MCMaxDisruptions == 4

=============================================================================
