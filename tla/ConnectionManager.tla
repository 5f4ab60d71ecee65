------------------------- MODULE ConnectionManager -------------------------
(***************************************************************************)
(* The backend's fan-out to browsers: app/websocket_manager.py (the set of *)
(* connections, one bounded queue and one sender task for each) and the    *)
(* endpoint of app/routes/ws.py that registers a connection, greets it and *)
(* waits until it is gone.                                                 *)
(*                                                                         *)
(* All of it runs on one event loop, so a step goes from one await to the  *)
(* next.  broadcast never suspends: it serves all connections in one step. *)
(* But between any two steps a connection may close, the endpoint and the  *)
(* sender may each find that out first, and each of them then calls        *)
(* disconnect.                                                             *)
(*                                                                         *)
(* The messages of a connection are numbered in the order in which they    *)
(* are broadcast to it; what they say is left out.  External: a send on a  *)
(* connection that has closed raises, one on an open connection arrives,   *)
(* and the server closes a connection once its endpoint has returned.      *)
(* The branches of broadcast that catch exceptions are left out: nothing   *)
(* raises between full() and put_nowait() without a suspension.            *)
(***************************************************************************)
EXTENDS Naturals, Sequences

CONSTANTS
    Connections,   (* WebSocket objects; a browser that returns is a new one *)
    QueueSize,     (* max_queue_size                                         *)
    MaxBroadcasts  (* bound: calls of broadcast                              *)

ASSUME ManagerAssumption ==
    /\ QueueSize \in Nat \ {0}
    /\ MaxBroadcasts \in Nat

VARIABLES
    registered,  (* the keys of _connections (and of _sender_tasks)        *)
    queue,       (* each connection's queue, oldest message first          *)
    sender,      (* where its _sender stands: "none" (not created), "get", *)
                 (* "send", "cancelled" (told to stop), "ended"            *)
    endpoint,    (* where its websocket_endpoint stands: "none", "welcome",*)
                 (* "status", "receive", "ended"                           *)
    socket,      (* "none", "open", "closed"                               *)
    pushed,      (* messages broadcast to it so far                        *)
    taken,       (* the message its sender took last                       *)
    received,    (* the message the browser received last                  *)
    broadcasts   (* calls of broadcast so far                              *)

vars == <<registered, queue, sender, endpoint, socket, pushed, taken,
          received, broadcasts>>

Init ==
    /\ registered = {}
    /\ queue = [c \in Connections |-> <<>>]
    /\ sender = [c \in Connections |-> "none"]
    /\ endpoint = [c \in Connections |-> "none"]
    /\ socket = [c \in Connections |-> "none"]
    /\ pushed = [c \in Connections |-> 0]
    /\ taken = [c \in Connections |-> 0]
    /\ received = [c \in Connections |-> 0]
    /\ broadcasts = 0

-----------------------------------------------------------------------------
(* ConnectionManager *)

(* connect: the connection is accepted, registered, and its sender created.*)
Connect(c) ==
    /\ endpoint[c] = "none"
    /\ registered' = registered \cup {c}
    /\ sender' = [sender EXCEPT ![c] = "get"]
    /\ endpoint' = [endpoint EXCEPT ![c] = "welcome"]
    /\ socket' = [socket EXCEPT ![c] = "open"]
    /\ UNCHANGED <<queue, pushed, taken, received, broadcasts>>

(* Faulty variant: the sender is forgotten, not cancelled. *)
Disconnect_NoCancel(c, state) ==
    /\ registered' = registered \ {c}
    /\ sender' = [sender EXCEPT ![c] = state]

(* disconnect, called where the sender's state is to become the given one  *)
(* unless there is a task to cancel.                                       *)
Disconnect(c, state) ==
    /\ registered' = registered \ {c}
    /\ sender' = [sender EXCEPT ![c] =
                      IF state \in {"get", "send"} THEN "cancelled" ELSE state]

(* Faulty variant: a message for a full queue is dropped, not the oldest.  *)
Enqueued_DropNewest(c) ==
    IF Len(queue[c]) = QueueSize THEN queue[c] ELSE Append(queue[c], pushed[c] + 1)

(* Faulty variant: the queue is taken for full one message too late. *)
Enqueued_OffByOne(c) ==
    Append(IF Len(queue[c]) > QueueSize THEN Tail(queue[c]) ELSE queue[c],
           pushed[c] + 1)

(* A connection's queue once the next message has been put on it. *)
Enqueued(c) ==
    Append(IF Len(queue[c]) = QueueSize THEN Tail(queue[c]) ELSE queue[c],
           pushed[c] + 1)

(* Faulty variant: what is put on a full queue replaces its last message.  *)
Broadcast_ReplacesLast ==
    /\ broadcasts < MaxBroadcasts
    /\ broadcasts' = broadcasts + 1
    /\ queue' = [c \in Connections |->
                     IF c \notin registered THEN queue[c]
                     ELSE IF Len(queue[c]) < QueueSize
                     THEN Append(queue[c], pushed[c] + 1)
                     ELSE [queue[c] EXCEPT ![QueueSize] = pushed[c] + 1]]
    /\ pushed' = [c \in Connections |->
                     IF c \in registered THEN pushed[c] + 1 ELSE pushed[c]]
    /\ UNCHANGED <<registered, sender, endpoint, socket, taken, received>>

(* broadcast: of a frame, a smoke sample, an alert or the status. *)
Broadcast ==
    /\ broadcasts < MaxBroadcasts
    /\ broadcasts' = broadcasts + 1
    /\ queue' = [c \in Connections |->
                     IF c \in registered THEN Enqueued(c) ELSE queue[c]]
    /\ pushed' = [c \in Connections |->
                     IF c \in registered THEN pushed[c] + 1 ELSE pushed[c]]
    /\ UNCHANGED <<registered, sender, endpoint, socket, taken, received>>

(* _sender: queue.get() returns. *)
SenderGet(c) ==
    /\ sender[c] = "get"
    /\ queue[c] # <<>>
    /\ taken' = [taken EXCEPT ![c] = Head(queue[c])]
    /\ queue' = [queue EXCEPT ![c] = Tail(queue[c])]
    /\ sender' = [sender EXCEPT ![c] = "send"]
    /\ UNCHANGED <<registered, endpoint, socket, pushed, received, broadcasts>>

(* _sender: send_text returns. *)
SenderSent(c) ==
    /\ sender[c] = "send"
    /\ socket[c] = "open"
    /\ received' = [received EXCEPT ![c] = taken[c]]
    /\ sender' = [sender EXCEPT ![c] = "get"]
    /\ UNCHANGED <<registered, queue, endpoint, socket, pushed, taken, broadcasts>>

(* Faulty variant: a failed send is skipped. *)
SenderFails_Continues(c) ==
    /\ sender[c] = "send"
    /\ socket[c] = "closed"
    /\ sender' = [sender EXCEPT ![c] = "get"]
    /\ UNCHANGED <<registered, queue, endpoint, socket, pushed, taken,
                   received, broadcasts>>

(* _sender: send_text raises; the finally clause disconnects. *)
SenderFails(c) ==
    /\ sender[c] = "send"
    /\ socket[c] = "closed"
    /\ Disconnect(c, "ended")
    /\ UNCHANGED <<queue, endpoint, socket, pushed, taken, received, broadcasts>>

(* _sender: the cancellation is delivered; disconnect once more. *)
SenderCancelled(c) ==
    /\ sender[c] = "cancelled"
    /\ Disconnect(c, "ended")
    /\ UNCHANGED <<queue, endpoint, socket, pushed, taken, received, broadcasts>>

-----------------------------------------------------------------------------
(* websocket_endpoint *)

(* The welcome message, then the status message, are sent. *)
Greet(c) ==
    /\ endpoint[c] \in {"welcome", "status"}
    /\ socket[c] = "open"
    /\ endpoint' = [endpoint EXCEPT ![c] =
                        IF endpoint[c] = "welcome" THEN "status" ELSE "receive"]
    /\ UNCHANGED <<registered, queue, sender, socket, pushed, taken, received,
                   broadcasts>>

(* One of them raises: this is before the try, so no one disconnects. *)
GreetFails(c) ==
    /\ endpoint[c] \in {"welcome", "status"}
    /\ socket[c] = "closed"
    /\ endpoint' = [endpoint EXCEPT ![c] = "ended"]
    /\ UNCHANGED <<registered, queue, sender, socket, pushed, taken, received,
                   broadcasts>>

(* receive_text, or the send of a pong, raises: the finally clause.  On an *)
(* open connection a message that is not text does that; other messages,   *)
(* and the timeout, change nothing.                                        *)
ReceiveFails(c) ==
    /\ endpoint[c] = "receive"
    /\ endpoint' = [endpoint EXCEPT ![c] = "ended"]
    /\ Disconnect(c, sender[c])
    /\ UNCHANGED <<queue, socket, pushed, taken, received, broadcasts>>

(* The server closes a connection whose endpoint has returned. *)
ServerCloses(c) ==
    /\ endpoint[c] = "ended"
    /\ socket[c] = "open"
    /\ socket' = [socket EXCEPT ![c] = "closed"]
    /\ UNCHANGED <<registered, queue, sender, endpoint, pushed, taken,
                   received, broadcasts>>

(* The browser leaves, or the network does. *)
Close(c) ==
    /\ socket[c] = "open"
    /\ socket' = [socket EXCEPT ![c] = "closed"]
    /\ UNCHANGED <<registered, queue, sender, endpoint, pushed, taken,
                   received, broadcasts>>

SenderStep(c) ==
    SenderGet(c) \/ SenderSent(c) \/ SenderFails(c) \/ SenderCancelled(c)

EndpointStep(c) == Greet(c) \/ GreetFails(c) \/ ReceiveFails(c)

Next ==
    \/ Broadcast
    \/ \E c \in Connections :
           \/ Connect(c) \/ SenderStep(c) \/ EndpointStep(c)
           \/ ServerCloses(c) \/ Close(c)

Spec == Init /\ [][Next]_vars

(* The event loop runs every task that is ready, and there is always       *)
(* something to broadcast: the status, every 5 s.  An open connection need *)
(* not fail.                                                               *)
FairSpec ==
    /\ Spec
    /\ WF_vars(Broadcast)
    /\ \A c \in Connections :
           /\ WF_vars(SenderStep(c))
           /\ WF_vars(Greet(c) \/ GreetFails(c))
           /\ WF_vars(socket[c] = "closed" /\ ReceiveFails(c))
           /\ WF_vars(ServerCloses(c))

-----------------------------------------------------------------------------
(* Properties *)

TypeOK ==
    /\ registered \subseteq Connections
    /\ queue \in [Connections -> Seq(Nat)]
    /\ \A c \in Connections : Len(queue[c]) <= QueueSize
    /\ sender \in [Connections -> {"none", "get", "send", "cancelled", "ended"}]
    /\ endpoint \in [Connections ->
                        {"none", "welcome", "status", "receive", "ended"}]
    /\ socket \in [Connections -> {"none", "open", "closed"}]
    /\ pushed \in [Connections -> Nat]
    /\ taken \in [Connections -> Nat]
    /\ received \in [Connections -> Nat]
    /\ broadcasts \in 0 .. MaxBroadcasts

(* A registered connection has a sender that drains its queue, and every   *)
(* other sender has been told to stop, whoever noticed the end first: no   *)
(* queue fills for nobody, no task outlives its connection.  A sender that *)
(* waits with nothing in its queue has sent the latest message.            *)
SendersServeTheRegistered ==
    \A c \in Connections :
        /\ c \in registered <=> sender[c] \in {"get", "send"}
        /\ sender[c] = "get" /\ queue[c] = <<>> => received[c] = pushed[c]

(* The drop-oldest promise, for each connection by itself.  Nothing can    *)
(* come between the test for a full queue and the put: Replace.            *)
Oldest(c) == INSTANCE DropOldest WITH
    Capacity <- QueueSize,
    hi <- pushed[c] + 1,
    lo <- IF queue[c] # <<>> THEN Head(queue[c]) ELSE pushed[c] + 1,
    out <- taken[c],
    claim <- "none"

(* "Slow clients drop oldest messages": a connection's messages arrive in  *)
(* the order of the broadcasts, without a gap but for those dropped from   *)
(* the front of a full queue, and one slow connection drops none of        *)
(* another's.  (DOSpec of every connection, in one box.)                   *)
ImplementsDropOldest ==
    /\ \A c \in Connections : Oldest(c)!DOInit
    /\ [][\A c \in Connections :
               [Oldest(c)!DONext]_(Oldest(c)!dvars)]_vars

(* A connection that has closed is forgotten, also when it closed before   *)
(* the endpoint's try (then the next broadcast's send is what notices it). *)
ClosedIsForgotten ==
    \A c \in Connections :
        c \in registered /\ socket[c] = "closed" /\ broadcasts < MaxBroadcasts
            ~> c \notin registered

(* "Keep the latest CSI frame": an open connection gets the latest message *)
(* broadcast to it, however slow it was.                                   *)
LatestArrives ==
    \A c \in Connections : \A n \in 1 .. MaxBroadcasts :
        pushed[c] = n ~> received[c] >= n \/ socket[c] = "closed"

=============================================================================
