---------------------- MODULE ConnectionManager_proofs ----------------------
(***************************************************************************)
(* Proofs about ConnectionManager, for any set of connections, any size of *)
(* their queues and any number of broadcasts.                              *)
(*                                                                         *)
(* A connection's queue always holds the last messages broadcast to it, as *)
(* many as it has: what is put on it, dropped from its front, or taken by  *)
(* its sender keeps that shape, and the drop-oldest promise is read off it.*)
(***************************************************************************)
EXTENDS ConnectionManager, SequenceTheorems, TLAPS

-----------------------------------------------------------------------------
(* A queue that drops its oldest item for a new one. *)

(* q holds the items up to number n, in order, and at most K of them. *)
Shaped(q, n, K) ==
    /\ q \in Seq(Nat)
    /\ Len(q) <= K
    /\ Len(q) <= n
    /\ \A i \in 1 .. Len(q) : q[i] = (n - Len(q)) + i

(* The first of them, or the one after n. *)
First(q, n) == IF q # <<>> THEN Head(q) ELSE n + 1

(* q after item n + 1 was put on it, the oldest item making room if need be. *)
Pushed(q, n, K) == Append(IF Len(q) = K THEN Tail(q) ELSE q, n + 1)

(* An empty queue has the shape, *)
LEMMA EmptyShaped ==
    ASSUME NEW n \in Nat, NEW K \in Nat \ {0}
    PROVE  Shaped(<<>>, n, K)
BY EmptySeq DEF Shaped

(* the shape gives the number of its first item, *)
LEMMA ShapedFirst ==
    ASSUME NEW q, NEW n \in Nat, NEW K \in Nat \ {0}, Shaped(q, n, K)
    PROVE  First(q, n) = (n - Len(q)) + 1
<1>1. CASE q = <<>>
    BY <1>1, EmptySeq DEF First
<1>2. CASE q # <<>>
  <2>1. Len(q) \in Nat /\ Len(q) >= 1
    BY <1>2, EmptySeq DEF Shaped
  <2>2. Head(q) = q[1]
    BY <1>2 DEF Shaped
  <2> QED
    BY <1>2, <2>1, <2>2 DEF Shaped, First
<1> QED
    BY <1>1, <1>2

(* taking that item keeps the shape, *)
LEMMA ShapedTail ==
    ASSUME NEW q, NEW n \in Nat, NEW K \in Nat \ {0}, Shaped(q, n, K), q # <<>>
    PROVE  Shaped(Tail(q), n, K) /\ Len(Tail(q)) = Len(q) - 1 /\ Len(q) \in Nat \ {0}
<1>1. /\ Tail(q) \in Seq(Nat) /\ Len(Tail(q)) = Len(q) - 1
      /\ \A i \in 1 .. Len(Tail(q)) : Tail(q)[i] = q[i + 1]
    BY HeadTailProperties DEF Shaped
<1>2. Len(q) \in Nat \ {0}
    BY EmptySeq DEF Shaped
<1>3. ASSUME NEW i \in 1 .. Len(Tail(q))
      PROVE  Tail(q)[i] = (n - Len(Tail(q))) + i
    BY <1>1, <1>2, <1>3 DEF Shaped
<1> QED
    BY <1>1, <1>2, <1>3 DEF Shaped

(* and so does putting the next item on it. *)
LEMMA ShapedNext ==
    ASSUME NEW q, NEW n \in Nat, NEW K \in Nat \ {0}, Shaped(q, n, K)
    PROVE  /\ Shaped(Pushed(q, n, K), n + 1, K)
           /\ Len(Pushed(q, n, K)) = IF Len(q) = K THEN Len(q) ELSE Len(q) + 1
           /\ Pushed(q, n, K) # <<>>
<1> DEFINE p == IF Len(q) = K THEN Tail(q) ELSE q
<1>0. K \in Nat \ {0} /\ Len(q) \in Nat
    BY DEF Shaped
<1>1. Shaped(p, n, K) /\ Len(p) = (IF Len(q) = K THEN Len(q) - 1 ELSE Len(q))
  <2>1. CASE Len(q) = K
    <3>1. q # <<>>
      BY <1>0, <2>1, EmptySeq
    <3> QED
      BY <2>1, <3>1, ShapedTail
  <2>2. CASE Len(q) # K
    BY <2>2
  <2> QED
    BY <2>1, <2>2
<1> HIDE DEF p
<1>2. Len(p) \in Nat /\ Len(p) < K /\ Len(p) <= n
    BY <1>0, <1>1 DEF Shaped
<1>3. /\ Append(p, n + 1) \in Seq(Nat)
      /\ Len(Append(p, n + 1)) = Len(p) + 1
      /\ \A i \in 1 .. Len(p) + 1 :
             Append(p, n + 1)[i] = IF i = Len(p) + 1 THEN n + 1 ELSE p[i]
    BY <1>1 DEF Shaped
<1>4. ASSUME NEW i \in 1 .. Len(p) + 1
      PROVE  Append(p, n + 1)[i] = ((n + 1) - (Len(p) + 1)) + i
  <2>1. CASE i = Len(p) + 1
    BY <1>2, <1>3, <2>1
  <2>2. CASE i \in 1 .. Len(p)
    <3>1. p[i] = (n - Len(p)) + i
      BY <1>1, <2>2 DEF Shaped
    <3> QED
      BY <1>2, <1>3, <2>2, <3>1
  <2> QED
    BY <1>2, <2>1, <2>2
<1>5. Shaped(Append(p, n + 1), n + 1, K)
    BY <1>2, <1>3, <1>4, <1>0 DEF Shaped
<1>6. Append(p, n + 1) # <<>>
    BY <1>2, <1>3, EmptySeq
<1>7. Pushed(q, n, K) = Append(p, n + 1)
    BY DEF Pushed, p
<1> QED
    BY <1>0, <1>1, <1>3, <1>5, <1>6, <1>7

-----------------------------------------------------------------------------
SendersKnown ==
    \A c \in Connections : c \in registered <=> sender[c] \in {"get", "send"}

(* Types, senders, and the shape of the queues. *)
Basics ==
    /\ TypeOK
    /\ SendersKnown
    /\ \A c \in Connections : Shaped(queue[c], pushed[c], QueueSize)
    /\ \A c \in Connections : endpoint[c] = "none" => sender[c] = "none"

(* A sender has sent what it took, and took the latest of an empty queue. *)
LatestSent(c) ==
    /\ endpoint[c] = "none" =>
           queue[c] = <<>> /\ pushed[c] = 0 /\ taken[c] = 0 /\ received[c] = 0
    /\ sender[c] \in {"get", "send"} /\ queue[c] = <<>> => taken[c] = pushed[c]
    /\ sender[c] = "get" => received[c] = taken[c]

IInv == Basics /\ \A c \in Connections : LatestSent(c)

(* The first part of the invariant holds at the start ... *)
LEMMA InitBasics == Init => Basics
<1> SUFFICES ASSUME Init PROVE Basics
    OBVIOUS
<1>1. TypeOK
    BY ManagerAssumption, EmptySeq DEF Init, TypeOK
<1>2. SendersKnown
    BY DEF Init, SendersKnown
<1>3. \A c \in Connections : Shaped(queue[c], pushed[c], QueueSize)
    BY EmptyShaped, ManagerAssumption DEF Init
<1> QED
    BY <1>1, <1>2, <1>3 DEF Init, Basics

(* ... and every step keeps it; *)
LEMMA StepBasics == Basics /\ [Next]_vars => Basics'
<1> SUFFICES ASSUME Basics, [Next]_vars PROVE Basics'
    OBVIOUS
<1> USE ManagerAssumption DEF Basics
<1>u. CASE UNCHANGED vars
    BY <1>u DEF vars, TypeOK, SendersKnown
<1>1. ASSUME NEW c \in Connections, Connect(c) PROVE Basics'
  <2>1. TypeOK'
    BY <1>1 DEF Connect, TypeOK
  <2>2. SendersKnown'
    BY <1>1 DEF Connect, TypeOK, SendersKnown
  <2> QED
    BY <1>1, <2>1, <2>2 DEF Connect, TypeOK
<1>2. CASE Broadcast
  <2>1. \A c \in Connections :
            /\ c \in registered => queue'[c] = Pushed(queue[c], pushed[c], QueueSize)
                                   /\ pushed'[c] = pushed[c] + 1
            /\ c \notin registered => queue'[c] = queue[c] /\ pushed'[c] = pushed[c]
            /\ pushed[c] \in Nat
    BY <1>2 DEF Broadcast, Enqueued, Pushed, TypeOK
  <2>2. \A c \in Connections : Shaped(queue'[c], pushed'[c], QueueSize)
    BY <2>1, ShapedNext
  <2>3. queue' \in [Connections -> Seq(Nat)] /\ pushed' \in [Connections -> Nat]
        /\ \A c \in Connections : Len(queue'[c]) <= QueueSize
    <3>1. \A c \in Connections : queue'[c] \in Seq(Nat) /\ Len(queue'[c]) <= QueueSize
      BY <2>2 DEF Shaped
    <3> QED
      BY <1>2, <2>1, <3>1 DEF Broadcast, TypeOK
  <2>4. broadcasts' \in 0 .. MaxBroadcasts
    BY <1>2 DEF Broadcast, TypeOK
  <2> QED
    BY <1>2, <2>2, <2>3, <2>4 DEF Broadcast, TypeOK, SendersKnown
<1>3. ASSUME NEW c \in Connections, SenderGet(c) PROVE Basics'
  <2>1. queue[c] # <<>> /\ Shaped(queue[c], pushed[c], QueueSize) /\ pushed[c] \in Nat
        /\ queue[c] \in Seq(Nat)
    BY <1>3 DEF SenderGet, TypeOK
  <2>2. Shaped(Tail(queue[c]), pushed[c], QueueSize) /\ Head(queue[c]) \in Nat
    BY <2>1, ShapedTail, HeadTailProperties
  <2>3. \A d \in Connections :
            queue'[d] = IF d = c THEN Tail(queue[c]) ELSE queue[d]
    BY <1>3 DEF SenderGet, TypeOK
  <2>4. \A d \in Connections : Shaped(queue'[d], pushed'[d], QueueSize)
    BY <1>3, <2>2, <2>3 DEF SenderGet
  <2>5. TypeOK'
    <3>1. Tail(queue[c]) \in Seq(Nat) /\ Len(Tail(queue[c])) <= QueueSize
      BY <2>2 DEF Shaped
    <3>2. queue' \in [Connections -> Seq(Nat)] /\ taken' \in [Connections -> Nat]
      BY <1>3, <2>2, <3>1 DEF SenderGet, TypeOK
    <3>3. \A d \in Connections : Len(queue'[d]) <= QueueSize
      BY <2>3, <3>1 DEF TypeOK
    <3> QED
      BY <1>3, <3>2, <3>3 DEF SenderGet, TypeOK
  <2>6. SendersKnown'
    BY <1>3 DEF SenderGet, TypeOK, SendersKnown
  <2> QED
    BY <1>3, <2>4, <2>5, <2>6 DEF SenderGet, TypeOK
<1>4. ASSUME NEW c \in Connections, SenderSent(c) PROVE Basics'
  <2>1. TypeOK'
    BY <1>4 DEF SenderSent, TypeOK
  <2>2. SendersKnown'
    BY <1>4 DEF SenderSent, TypeOK, SendersKnown
  <2> QED
    BY <1>4, <2>1, <2>2 DEF SenderSent, TypeOK
<1>5. ASSUME NEW c \in Connections, SenderFails(c) \/ SenderCancelled(c) PROVE Basics'
  <2>1. TypeOK'
    BY <1>5 DEF SenderFails, SenderCancelled, Disconnect, TypeOK
  <2>2. SendersKnown'
    BY <1>5 DEF SenderFails, SenderCancelled, Disconnect, TypeOK,
                SendersKnown
  <2> QED
    BY <1>5, <2>1, <2>2 DEF SenderFails, SenderCancelled, Disconnect, TypeOK
<1>6. ASSUME NEW c \in Connections, Greet(c) \/ GreetFails(c) PROVE Basics'
  <2>1. TypeOK'
    BY <1>6 DEF Greet, GreetFails, TypeOK
  <2> QED
    BY <1>6, <2>1 DEF Greet, GreetFails, TypeOK, SendersKnown
<1>7. ASSUME NEW c \in Connections, ReceiveFails(c) PROVE Basics'
  <2>1. TypeOK'
    BY <1>7 DEF ReceiveFails, Disconnect, TypeOK
  <2>2. SendersKnown'
    BY <1>7 DEF ReceiveFails, Disconnect, TypeOK, SendersKnown
  <2> QED
    BY <1>7, <2>1, <2>2 DEF ReceiveFails, Disconnect, TypeOK
<1>8. ASSUME NEW c \in Connections, Close(c) PROVE Basics'
    BY <1>8 DEF Close, TypeOK, SendersKnown
<1>9. ASSUME NEW c \in Connections, ServerCloses(c) PROVE Basics'
    BY <1>9 DEF ServerCloses, TypeOK, SendersKnown
<1> QED
    BY <1>u, <1>1, <1>2, <1>3, <1>4, <1>5, <1>6, <1>7, <1>8, <1>9
    DEF Next, SenderStep, EndpointStep

(* so does what was sent. *)
LEMMA StepLatest ==
    ASSUME IInv, [Next]_vars, NEW c \in Connections
    PROVE  LatestSent(c)'
<1> USE ManagerAssumption
<1>0. /\ TypeOK /\ SendersKnown /\ LatestSent(c)
      /\ Shaped(queue[c], pushed[c], QueueSize) /\ pushed[c] \in Nat
      /\ endpoint[c] = "none" => sender[c] = "none"
  BY DEF IInv, Basics, TypeOK
<1>1. CASE Broadcast
  <2>1. CASE c \in registered
    <3>1. queue'[c] = Pushed(queue[c], pushed[c], QueueSize)
      BY <1>1, <2>1 DEF Broadcast, Enqueued, Pushed
    <3>2. Pushed(queue[c], pushed[c], QueueSize) # <<>>
      BY <1>0, ShapedNext
    <3>3. queue'[c] # <<>>
      BY <3>1, <3>2
    <3> QED
      BY <1>0, <1>1, <2>1, <3>3 DEF Broadcast, LatestSent, SendersKnown
  <2>2. CASE c \notin registered
    BY <1>0, <1>1, <2>2 DEF Broadcast, LatestSent
  <2> QED
    BY <2>1, <2>2
<1>2. CASE Connect(c)
  BY <1>0, <1>2 DEF Connect, LatestSent, TypeOK
<1>3. CASE SenderGet(c)
  <2>1. queue[c] # <<>> /\ queue'[c] = Tail(queue[c]) /\ taken'[c] = Head(queue[c])
        /\ sender'[c] = "send" /\ UNCHANGED <<endpoint, pushed, received>>
    BY <1>0, <1>3 DEF SenderGet, TypeOK
  <2>2. endpoint[c] # "none"
    BY <1>0, <2>1 DEF LatestSent
  <2>3. ASSUME Tail(queue[c]) = <<>> PROVE Head(queue[c]) = pushed[c]
    <3>1. Len(Tail(queue[c])) = Len(queue[c]) - 1 /\ Len(queue[c]) \in Nat \ {0}
      BY <1>0, <2>1, ShapedTail
    <3>2. Len(queue[c]) = 1
      <4>1. Tail(queue[c]) \in Seq(Nat)
        BY <1>0, <2>1, ShapedTail DEF Shaped
      <4>2. Len(Tail(queue[c])) = 0
        BY <2>3, <4>1, EmptySeq
      <4> QED
        BY <3>1, <4>2
    <3>3. First(queue[c], pushed[c]) = (pushed[c] - Len(queue[c])) + 1
      BY <1>0, ShapedFirst
    <3> QED
      BY <1>0, <2>1, <3>2, <3>3 DEF First
  <2> QED
    BY <2>1, <2>2, <2>3 DEF LatestSent
<1>4. CASE SenderSent(c)
  BY <1>0, <1>4 DEF SenderSent, LatestSent, TypeOK
<1>5. CASE SenderFails(c) \/ SenderCancelled(c) \/ ReceiveFails(c)
  <2>1. sender'[c] \notin {"get", "send"} /\ UNCHANGED <<queue, pushed, taken, received>>
    BY <1>0, <1>5 DEF SenderFails, SenderCancelled, ReceiveFails, Disconnect, TypeOK
  <2>2. endpoint'[c] = "none" => endpoint[c] = "none"
    BY <1>0, <1>5 DEF SenderFails, SenderCancelled, ReceiveFails, TypeOK
  <2> QED
    BY <1>0, <2>1, <2>2 DEF LatestSent
<1>6. CASE Greet(c) \/ GreetFails(c) \/ ServerCloses(c) \/ Close(c)
  <2>1. endpoint'[c] = "none" => endpoint[c] = "none"
    BY <1>0, <1>6 DEF Greet, GreetFails, ServerCloses, Close, TypeOK
  <2> QED
    BY <1>0, <1>6, <2>1 DEF Greet, GreetFails, ServerCloses, Close, LatestSent
<1>7. ASSUME NEW d \in Connections, d # c,
             \/ Connect(d) \/ SenderStep(d) \/ EndpointStep(d)
             \/ ServerCloses(d) \/ Close(d)
      PROVE  LatestSent(c)'
  <2>1. /\ queue'[c] = queue[c] /\ pushed'[c] = pushed[c] /\ taken'[c] = taken[c]
        /\ received'[c] = received[c] /\ sender'[c] = sender[c]
        /\ endpoint'[c] = endpoint[c]
    BY <1>0, <1>7 DEF Connect, SenderStep, SenderGet, SenderSent, SenderFails,
       SenderCancelled, EndpointStep, Greet, GreetFails, ReceiveFails, Disconnect,
       ServerCloses, Close, TypeOK
  <2> QED
    BY <1>0, <2>1 DEF LatestSent
<1>8. CASE UNCHANGED vars
  BY <1>0, <1>8 DEF vars, LatestSent
<1> QED
  BY <1>1, <1>2, <1>3, <1>4, <1>5, <1>6, <1>7, <1>8 DEF Next, SenderStep, EndpointStep

(* So the inductive invariant holds always. *)
LEMMA Invariance == Spec => []IInv
<1>1. Init => IInv
    BY InitBasics DEF Init, IInv, LatestSent
<1>2. IInv /\ [Next]_vars => IInv'
    BY StepBasics, StepLatest DEF IInv
<1> QED
    BY <1>1, <1>2, PTL DEF Spec

(* Types, and the bound of the queues (websocket_manager.py, broadcast). *)
THEOREM TypeCorrect == Spec => []TypeOK
<1>1. IInv => TypeOK
    BY DEF IInv, Basics
<1> QED
    BY <1>1, Invariance, PTL

(* A connection is registered exactly as long as it has a sender that was  *)
(* not told to stop (websocket_manager.py, connect and disconnect), and a  *)
(* sender waits only when it has sent the latest message.                  *)
THEOREM SendersCorrect == Spec => []SendersServeTheRegistered
<1>1. IInv => SendersServeTheRegistered
    BY DEF IInv, Basics, SendersKnown, LatestSent, SendersServeTheRegistered
<1> QED
    BY <1>1, Invariance, PTL

-----------------------------------------------------------------------------
(* Refinement: the abstract queue of one connection. *)

(* Where the abstract queue of a connection begins. *)
LEMMA AbstractLo ==
    ASSUME IInv, NEW c \in Connections
    PROVE  /\ First(queue[c], pushed[c]) = (pushed[c] - Len(queue[c])) + 1
           /\ pushed[c] \in Nat /\ Len(queue[c]) \in Nat
           /\ Len(queue[c]) <= QueueSize
<1>1. Shaped(queue[c], pushed[c], QueueSize) /\ pushed[c] \in Nat
    BY DEF IInv, Basics, TypeOK
<1>2. First(queue[c], pushed[c]) = (pushed[c] - Len(queue[c])) + 1
    BY <1>1, ShapedFirst, ManagerAssumption
<1> QED
    BY <1>1, <1>2 DEF Shaped

(* Every step maps to a step of the abstract queue, or to a stutter. *)
LEMMA RefineStep ==
    ASSUME IInv, IInv', [Next]_vars, NEW c \in Connections
    PROVE  [Oldest(c)!DONext]_(Oldest(c)!dvars)
<1> USE DEF Oldest!DONext, Oldest!dvars
<1>0. /\ First(queue[c], pushed[c]) = (pushed[c] - Len(queue[c])) + 1
      /\ First(queue'[c], pushed'[c]) = (pushed'[c] - Len(queue'[c])) + 1
      /\ pushed[c] \in Nat /\ Len(queue[c]) \in Nat
      /\ Len(queue[c]) <= QueueSize /\ Shaped(queue[c], pushed[c], QueueSize)
      /\ QueueSize \in Nat \ {0}
  <2>1. Shaped(queue'[c], pushed'[c], QueueSize) /\ pushed'[c] \in Nat
    BY DEF IInv, Basics, TypeOK
  <2>2. First(queue'[c], pushed'[c]) = (pushed'[c] - Len(queue'[c])) + 1
    BY <2>1, ShapedFirst, ManagerAssumption
  <2> QED
    BY <2>2, AbstractLo, ManagerAssumption DEF IInv, Basics
<1>1. CASE queue'[c] = queue[c] /\ pushed'[c] = pushed[c] /\ taken'[c] = taken[c]
    BY <1>1
<1>2. CASE Broadcast /\ c \in registered
  <2>1. /\ queue'[c] = Pushed(queue[c], pushed[c], QueueSize) /\ pushed'[c] = pushed[c] + 1
        /\ taken'[c] = taken[c]
    BY <1>2 DEF Broadcast, Enqueued, Pushed
  <2>2. Len(queue'[c]) = IF Len(queue[c]) = QueueSize
                         THEN Len(queue[c]) ELSE Len(queue[c]) + 1
    BY <1>0, <2>1, ShapedNext
  <2>3. CASE Len(queue[c]) < QueueSize
    <3>1. Oldest(c)!Push
      BY <1>0, <2>1, <2>2, <2>3 DEF Oldest!Push, First
    <3> QED
      BY <3>1
  <2>4. CASE Len(queue[c]) = QueueSize
    <3>1. Oldest(c)!Replace
      BY <1>0, <2>1, <2>2, <2>4 DEF Oldest!Replace, First
    <3> QED
      BY <3>1
  <2> QED
    BY <1>0, <2>3, <2>4
<1>3. CASE SenderGet(c)
  <2>1. /\ queue[c] # <<>> /\ queue'[c] = Tail(queue[c])
        /\ pushed'[c] = pushed[c] /\ taken'[c] = Head(queue[c])
    BY <1>3 DEF SenderGet, IInv, Basics, TypeOK
  <2>2. Len(queue'[c]) = Len(queue[c]) - 1 /\ Len(queue[c]) >= 1
    BY <1>0, <2>1, ShapedTail
  <2>a. Head(queue[c]) = (pushed[c] - Len(queue[c])) + 1
    BY <1>0, <2>1 DEF First
  <2>b. First(queue'[c], pushed'[c]) = Head(queue[c]) + 1
    BY <1>0, <2>a, <2>1, <2>2
  <2>3. Oldest(c)!Take
    BY <1>0, <2>1, <2>2, <2>a, <2>b DEF Oldest!Take, First
  <2> QED
    BY <2>3
<1>4. ASSUME NEW d \in Connections, SenderGet(d), d # c
      PROVE  queue'[c] = queue[c] /\ pushed'[c] = pushed[c] /\ taken'[c] = taken[c]
    BY <1>4 DEF SenderGet, IInv, Basics, TypeOK
<1>5. CASE Broadcast /\ c \notin registered
    BY <1>1, <1>5 DEF Broadcast
<1>6. CASE UNCHANGED vars
    BY <1>1, <1>6 DEF vars
<1>7. ASSUME NEW d \in Connections,
             \/ Connect(d) \/ SenderSent(d) \/ SenderFails(d)
             \/ SenderCancelled(d) \/ EndpointStep(d)
             \/ ServerCloses(d) \/ Close(d)
      PROVE  UNCHANGED <<queue, pushed, taken>>
    BY <1>7 DEF Connect, SenderSent, SenderFails, SenderCancelled,
                EndpointStep, Greet, GreetFails, ReceiveFails,
                ServerCloses, Close
<1> QED
    BY <1>1, <1>2, <1>3, <1>4, <1>5, <1>6, <1>7 DEF Next, SenderStep

(* Every connection's queue is a drop-oldest queue of its own              *)
(* (websocket_manager.py, broadcast and _sender).                          *)
THEOREM Refinement == Spec => ImplementsDropOldest
<1>1. Init => \A c \in Connections : Oldest(c)!DOInit
  <2> SUFFICES ASSUME Init, NEW c \in Connections PROVE Oldest(c)!DOInit
    OBVIOUS
  <2>1. queue[c] = <<>> /\ pushed[c] = 0 /\ taken[c] = 0
    BY DEF Init
  <2> QED
    BY <2>1 DEF Oldest!DOInit
<1>2. IInv /\ IInv' /\ [Next]_vars =>
          [\A c \in Connections : [Oldest(c)!DONext]_(Oldest(c)!dvars)]_vars
    BY RefineStep
<1> QED
    BY <1>1, <1>2, Invariance, PTL DEF Spec, ImplementsDropOldest

=============================================================================
