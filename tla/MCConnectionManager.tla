------------------------ MODULE MCConnectionManager ------------------------
(* Two connections with queues of two messages and four broadcasts: one    *)
(* queue can overflow while the other connection comes and goes.           *)
EXTENDS ConnectionManager

CONSTANTS c1, c2

MCConnections == {c1, c2}
MCQueueSize == 2
MCMaxBroadcasts == 4

=============================================================================
