-------------------------- MODULE Pipeline_proofs --------------------------
(***************************************************************************)
(* Proofs about Pipeline, for any sizes of the queues and numbers of       *)
(* frames and readings.                                                    *)
(*                                                                         *)
(* A queue always holds the last items put on it (Shaped), which           *)
(* gives the drop-oldest promise.  What on_shutdown closes is safe because *)
(* each of its stages tells what is already over: Stages says it for every *)
(* stage, which makes NothingUsesWhatIsClosed inductive.                   *)
(***************************************************************************)
EXTENDS Pipeline, SequenceTheorems, TLAPS

-----------------------------------------------------------------------------
(* A queue that drops its oldest item for a new one. *)

(* q holds the items up to number n, in order, and at most K of them. *)
Shaped(q, n, K) ==
    /\ q \in Seq(Nat)
    /\ Len(q) <= K
    /\ Len(q) <= n
    /\ \A i \in 1 .. Len(q) : q[i] = (n - Len(q)) + i

(* The first of them, or the one after n. *)
First(q, n) == IF q # <<>> THEN Head(q) ELSE n + 1

(* q after item n + 1 was put on it, the oldest item making room if need be. *)
Pushed(q, n, K) == Append(IF Len(q) = K THEN Tail(q) ELSE q, n + 1)

(* An empty queue has the shape, *)
LEMMA EmptyShaped ==
    ASSUME NEW n \in Nat, NEW K \in Nat \ {0}
    PROVE  Shaped(<<>>, n, K)
BY EmptySeq DEF Shaped

(* the shape gives the number of its first item, *)
LEMMA ShapedFirst ==
    ASSUME NEW q, NEW n \in Nat, NEW K \in Nat \ {0}, Shaped(q, n, K)
    PROVE  First(q, n) = (n - Len(q)) + 1
<1>1. CASE q = <<>>
    BY <1>1, EmptySeq DEF First
<1>2. CASE q # <<>>
  <2>1. Len(q) \in Nat /\ Len(q) >= 1
    BY <1>2, EmptySeq DEF Shaped
  <2>2. Head(q) = q[1]
    BY <1>2 DEF Shaped
  <2> QED
    BY <1>2, <2>1, <2>2 DEF Shaped, First
<1> QED
    BY <1>1, <1>2

(* taking that item keeps the shape, *)
LEMMA ShapedTail ==
    ASSUME NEW q, NEW n \in Nat, NEW K \in Nat \ {0}, Shaped(q, n, K), q # <<>>
    PROVE  Shaped(Tail(q), n, K) /\ Len(Tail(q)) = Len(q) - 1 /\ Len(q) \in Nat \ {0}
<1>1. /\ Tail(q) \in Seq(Nat) /\ Len(Tail(q)) = Len(q) - 1
      /\ \A i \in 1 .. Len(Tail(q)) : Tail(q)[i] = q[i + 1]
    BY HeadTailProperties DEF Shaped
<1>2. Len(q) \in Nat \ {0}
    BY EmptySeq DEF Shaped
<1>3. ASSUME NEW i \in 1 .. Len(Tail(q))
      PROVE  Tail(q)[i] = (n - Len(Tail(q))) + i
    BY <1>1, <1>2, <1>3 DEF Shaped
<1> QED
    BY <1>1, <1>2, <1>3 DEF Shaped

(* and so does putting the next item on it. *)
LEMMA ShapedNext ==
    ASSUME NEW q, NEW n \in Nat, NEW K \in Nat \ {0}, Shaped(q, n, K)
    PROVE  /\ Shaped(Pushed(q, n, K), n + 1, K)
           /\ Len(Pushed(q, n, K)) = IF Len(q) = K THEN Len(q) ELSE Len(q) + 1
           /\ Pushed(q, n, K) # <<>>
<1> DEFINE p == IF Len(q) = K THEN Tail(q) ELSE q
<1>0. K \in Nat \ {0} /\ Len(q) \in Nat
    BY DEF Shaped
<1>1. Shaped(p, n, K) /\ Len(p) = (IF Len(q) = K THEN Len(q) - 1 ELSE Len(q))
  <2>1. CASE Len(q) = K
    <3>1. q # <<>>
      BY <1>0, <2>1, EmptySeq
    <3> QED
      BY <2>1, <3>1, ShapedTail
  <2>2. CASE Len(q) # K
    BY <2>2
  <2> QED
    BY <2>1, <2>2
<1> HIDE DEF p
<1>2. Len(p) \in Nat /\ Len(p) < K /\ Len(p) <= n
    BY <1>0, <1>1 DEF Shaped
<1>3. /\ Append(p, n + 1) \in Seq(Nat)
      /\ Len(Append(p, n + 1)) = Len(p) + 1
      /\ \A i \in 1 .. Len(p) + 1 :
             Append(p, n + 1)[i] = IF i = Len(p) + 1 THEN n + 1 ELSE p[i]
    BY <1>1 DEF Shaped
<1>4. ASSUME NEW i \in 1 .. Len(p) + 1
      PROVE  Append(p, n + 1)[i] = ((n + 1) - (Len(p) + 1)) + i
  <2>1. CASE i = Len(p) + 1
    BY <1>2, <1>3, <2>1
  <2>2. CASE i \in 1 .. Len(p)
    <3>1. p[i] = (n - Len(p)) + i
      BY <1>1, <2>2 DEF Shaped
    <3> QED
      BY <1>2, <1>3, <2>2, <3>1
  <2> QED
    BY <1>2, <2>1, <2>2
<1>5. Shaped(Append(p, n + 1), n + 1, K)
    BY <1>2, <1>3, <1>4, <1>0 DEF Shaped
<1>6. Append(p, n + 1) # <<>>
    BY <1>2, <1>3, EmptySeq
<1>7. Pushed(q, n, K) = Append(p, n + 1)
    BY DEF Pushed, p
<1> QED
    BY <1>0, <1>1, <1>3, <1>5, <1>6, <1>7

-----------------------------------------------------------------------------
Stages ==
    /\ \A k \in Kinds : consumer[k] = "cancelled" => shutdown = k
    /\ shutdown = "no" => \A k \in Kinds : sentinel[k] = 0
    /\ shutdown = "put csi" => \A k \in Kinds : sentinel[k] = 0
    /\ shutdown = "put smoke" => sentinel["smoke"] = 0
    /\ shutdown = "smoke" => consumer["csi"] = "ended"
    /\ shutdown \in {"detection", "reader", "stores", "influx", "done"} =>
           \A k \in Kinds : consumer[k] = "ended"
    /\ shutdown \in {"reader", "stores", "influx", "done"} => detection # "run"
    /\ shutdown \in {"stores", "influx", "done"} <=> network = "stopped"
    /\ shutdown \in {"influx", "done"} <=> ~ storesOpen
    /\ shutdown = "done" => ~ batch

IInv ==
    /\ TypeOK
    /\ \A k \in Kinds : Shaped(queue[k], Items(k), QueueSize[k])
    /\ Stages

(* The inductive invariant holds at the start ... *)
LEMMA InitInv == Init => IInv
<1> SUFFICES ASSUME Init PROVE IInv
    OBVIOUS
<1>1. TypeOK
  <2>1. \A k \in Kinds : /\ scheduled[k] = 0 /\ enqueued[k] = 0 /\ Len(queue[k]) = 0
                         /\ QueueSize[k] \in Nat \ {0} /\ MaxFrames[k] \in Nat
    BY PipelineAssumption, EmptySeq DEF Init
  <2>2. queue \in [Kinds -> Seq(Nat)]
    BY EmptySeq DEF Init
  <2>3. \A k \in Kinds : /\ enqueued[k] <= scheduled[k] /\ scheduled[k] <= MaxFrames[k]
                         /\ Len(queue[k]) <= QueueSize[k]
    <3> SUFFICES ASSUME NEW k \in Kinds
                 PROVE  /\ enqueued[k] <= scheduled[k] /\ scheduled[k] <= MaxFrames[k]
                        /\ Len(queue[k]) <= QueueSize[k]
      OBVIOUS
    <3>1. /\ scheduled[k] = 0 /\ enqueued[k] = 0 /\ Len(queue[k]) = 0
          /\ QueueSize[k] \in Nat /\ MaxFrames[k] \in Nat
      BY <2>1
    <3> QED
      BY <3>1
  <2> QED
    BY <2>2, <2>3 DEF Init, TypeOK
<1>2. ASSUME NEW k \in Kinds PROVE Shaped(queue[k], Items(k), QueueSize[k])
  <2>1. queue[k] = <<>> /\ Items(k) = 0 /\ QueueSize[k] \in Nat \ {0}
    BY PipelineAssumption DEF Init, Items
  <2> QED
    BY <2>1, EmptyShaped
<1>3. Stages
    BY DEF Init, Stages, Kinds
<1> QED
    BY <1>1, <1>2, <1>3 DEF IInv

(* What is known of one queue. *)
LEMMA QueueFacts ==
    ASSUME IInv, NEW k \in Kinds
    PROVE  /\ Items(k) \in Nat /\ QueueSize[k] \in Nat \ {0}
           /\ Shaped(queue[k], Items(k), QueueSize[k])
           /\ queue[k] \in Seq(Nat) /\ Len(queue[k]) \in Nat
           /\ Len(queue[k]) <= QueueSize[k]
           /\ First(queue[k], Items(k)) = (Items(k) - Len(queue[k])) + 1
<1>1. enqueued[k] \in Nat /\ QueueSize[k] \in Nat \ {0} /\ queue[k] \in Seq(Nat)
    BY PipelineAssumption DEF IInv, TypeOK
<1>2. Items(k) \in Nat
    BY <1>1 DEF Items
<1>3. Shaped(queue[k], Items(k), QueueSize[k])
    BY DEF IInv
<1>4. First(queue[k], Items(k)) = (Items(k) - Len(queue[k])) + 1
    BY <1>1, <1>2, <1>3, ShapedFirst
<1> QED
    BY <1>1, <1>2, <1>3, <1>4 DEF Shaped

(* A queue after a hand-over, ... *)
LEMMA AfterEnqueue ==
    ASSUME IInv, NEW k \in Kinds, SafeEnqueue(k)
    PROVE  /\ queue' = [queue EXCEPT ![k] = Pushed(queue[k], Items(k), QueueSize[k])]
           /\ Items(k)' = Items(k) + 1
           /\ \A j \in Kinds : j # k => Items(j)' = Items(j)
<1>1. Enqueued(k) = Pushed(queue[k], Items(k), QueueSize[k])
    BY QueueFacts DEF Enqueued, Pushed
<1>2. /\ enqueued' = [enqueued EXCEPT ![k] = @ + 1] /\ sentinel' = sentinel
      /\ enqueued \in [Kinds -> Nat]
    BY DEF SafeEnqueue, IInv, TypeOK
<1>3. enqueued'[k] = enqueued[k] + 1 /\ \A j \in Kinds : j # k => enqueued'[j] = enqueued[j]
    BY <1>2
<1>4. Items(k)' = Items(k) + 1
    BY <1>2, <1>3 DEF Items
<1>5. \A j \in Kinds : j # k => Items(j)' = Items(j)
    BY <1>2, <1>3 DEF Items
<1> QED
    BY <1>1, <1>4, <1>5 DEF SafeEnqueue

(* after the sentinel was put on it, ... *)
LEMMA AfterPut ==
    ASSUME IInv, NEW k \in Kinds, Put(k), sentinel[k] = 0
    PROVE  /\ queue' = [queue EXCEPT ![k] = Pushed(queue[k], Items(k), QueueSize[k])]
           /\ Items(k)' = Items(k) + 1
           /\ \A j \in Kinds : j # k => Items(j)' = Items(j)
           /\ Len(queue[k]) < QueueSize[k]
           /\ sentinel' \in [Kinds -> Nat]
           /\ \A j \in Kinds : j # k => sentinel'[j] = sentinel[j]
<1>1. Append(queue[k], Items(k) + 1) = Pushed(queue[k], Items(k), QueueSize[k])
    BY QueueFacts DEF Put, Pushed
<1>2. /\ sentinel' = [sentinel EXCEPT ![k] = Items(k) + 1] /\ enqueued' = enqueued
      /\ sentinel \in [Kinds -> Nat] /\ enqueued \in [Kinds -> Nat]
      /\ Items(k) \in Nat
    BY QueueFacts DEF Put, IInv, TypeOK
<1>3. sentinel'[k] = Items(k) + 1 /\ \A j \in Kinds : j # k => sentinel'[j] = sentinel[j]
    BY <1>2
<1>4. Items(k)' = Items(k) + 1
    BY <1>2, <1>3 DEF Items
<1>5. \A j \in Kinds : j # k => Items(j)' = Items(j)
    BY <1>2, <1>3 DEF Items
<1>6. /\ queue' = [queue EXCEPT ![k] = Pushed(queue[k], Items(k), QueueSize[k])]
      /\ Len(queue[k]) < QueueSize[k]
    BY <1>1 DEF Put
<1>7. sentinel' \in [Kinds -> Nat]
    BY <1>2
<1> QED
    BY <1>3, <1>4, <1>5, <1>6, <1>7

(* and after a consumer got an item. *)
LEMMA AfterGet ==
    ASSUME IInv, NEW k \in Kinds, Get(k)
    PROVE  /\ queue' = [queue EXCEPT ![k] = Tail(queue[k])]
           /\ taken' = [taken EXCEPT ![k] = Head(queue[k])]
           /\ Head(queue[k]) \in Nat /\ queue[k] # <<>>
           /\ \A j \in Kinds : Items(j)' = Items(j)
<1>1. Head(queue[k]) \in Nat
    BY QueueFacts, HeadTailProperties DEF Get
<1> QED
    BY <1>1 DEF Get, Items

(* What happens to the queues keeps their shape. *)
LEMMA KeepsShape ==
    ASSUME IInv, NEW k \in Kinds,
           \/ queue' = [queue EXCEPT ![k] = Pushed(queue[k], Items(k), QueueSize[k])]
              /\ Items(k)' = Items(k) + 1
           \/ queue' = [queue EXCEPT ![k] = Tail(queue[k])]
              /\ queue[k] # <<>> /\ Items(k)' = Items(k),
           \A j \in Kinds : j # k => Items(j)' = Items(j)
    PROVE  /\ \A j \in Kinds : Shaped(queue'[j], Items(j)', QueueSize[j])
           /\ queue' \in [Kinds -> Seq(Nat)]
           /\ \A j \in Kinds : Len(queue'[j]) <= QueueSize[j]
<1>1. queue \in [Kinds -> Seq(Nat)]
    BY DEF IInv, TypeOK
<1>2. Shaped(queue'[k], Items(k)', QueueSize[k])
  <2>1. /\ Items(k) \in Nat /\ QueueSize[k] \in Nat \ {0}
        /\ Shaped(queue[k], Items(k), QueueSize[k])
    BY QueueFacts
  <2>2. Shaped(Pushed(queue[k], Items(k), QueueSize[k]), Items(k) + 1, QueueSize[k])
    BY <2>1, ShapedNext
  <2>3. queue[k] # <<>> => Shaped(Tail(queue[k]), Items(k), QueueSize[k])
    BY <2>1, ShapedTail
  <2> QED
    BY <1>1, <2>2, <2>3
<1>3. \A j \in Kinds : j # k => Shaped(queue'[j], Items(j)', QueueSize[j])
    BY <1>1, QueueFacts
<1>4. \A j \in Kinds : Shaped(queue'[j], Items(j)', QueueSize[j])
    BY <1>2, <1>3
<1>5. \A j \in Kinds : queue'[j] \in Seq(Nat) /\ Len(queue'[j]) <= QueueSize[j]
    BY <1>4 DEF Shaped
<1>6. queue' = [j \in Kinds |-> queue'[j]]
    BY <1>1
<1> QED
    BY <1>4, <1>5, <1>6

(* ... and every step keeps the invariant. *)
LEMMA StepInv == IInv /\ [Next]_vars => IInv'
<1> SUFFICES ASSUME IInv, [Next]_vars PROVE IInv'
    OBVIOUS
<1> USE PipelineAssumption
<1>0. TypeOK /\ Stages /\ \A k \in Kinds : Shaped(queue[k], Items(k), QueueSize[k])
    BY DEF IInv
<1>a. ASSUME UNCHANGED <<enqueued, sentinel, queue>>
      PROVE  \A k \in Kinds : Shaped(queue'[k], Items(k)', QueueSize[k])
    BY <1>0, <1>a DEF Items
<1>u. CASE UNCHANGED vars
    BY <1>0, <1>a, <1>u DEF vars, queues, influx, others, TypeOK, Stages, IInv
<1>1. ASSUME NEW k \in Kinds, Receive(k) PROVE IInv'
  <2>0. /\ scheduled' \in [Kinds -> Nat]
        /\ \A j \in Kinds : enqueued[j] <= scheduled'[j] /\ scheduled'[j] <= MaxFrames[j]
    <3>1. /\ scheduled' = [scheduled EXCEPT ![k] = @ + 1] /\ scheduled[k] < MaxFrames[k]
          /\ scheduled \in [Kinds -> Nat] /\ enqueued \in [Kinds -> Nat]
          /\ MaxFrames[k] \in Nat
          /\ \A j \in Kinds : enqueued[j] <= scheduled[j] /\ scheduled[j] <= MaxFrames[j]
      BY <1>0, <1>1 DEF Receive, TypeOK
    <3>2. ASSUME NEW j \in Kinds
          PROVE  enqueued[j] <= scheduled'[j] /\ scheduled'[j] <= MaxFrames[j]
      <4>1. CASE j = k
        BY <3>1, <4>1
      <4>2. CASE j # k
        BY <3>1, <4>2
      <4> QED
        BY <4>1, <4>2
    <3>3. scheduled' \in [Kinds -> Nat]
      BY <3>1
    <3> QED
      BY <3>2, <3>3
  <2>1. TypeOK'
    BY <1>0, <1>1, <2>0 DEF Receive, influx, others, TypeOK
  <2>2. Stages'
    BY <1>0, <1>1 DEF Receive, influx, others, Stages
  <2> QED
    BY <1>1, <1>a, <2>1, <2>2 DEF Receive, IInv
<1>2. ASSUME NEW k \in Kinds, SafeEnqueue(k) PROVE IInv'
  <2>1. /\ \A j \in Kinds : Shaped(queue'[j], Items(j)', QueueSize[j])
        /\ queue' \in [Kinds -> Seq(Nat)]
        /\ \A j \in Kinds : Len(queue'[j]) <= QueueSize[j]
    BY <1>2, AfterEnqueue, KeepsShape
  <2>a. /\ enqueued' \in [Kinds -> Nat]
        /\ \A j \in Kinds : enqueued'[j] <= scheduled[j]
    <3>1. /\ enqueued' = [enqueued EXCEPT ![k] = @ + 1] /\ enqueued[k] < scheduled[k]
          /\ scheduled \in [Kinds -> Nat] /\ enqueued \in [Kinds -> Nat]
          /\ \A j \in Kinds : enqueued[j] <= scheduled[j]
      BY <1>0, <1>2 DEF SafeEnqueue, TypeOK
    <3>2. ASSUME NEW j \in Kinds PROVE enqueued'[j] <= scheduled[j]
      <4>1. CASE j = k
        BY <3>1, <4>1
      <4>2. CASE j # k
        BY <3>1, <4>2
      <4> QED
        BY <4>1, <4>2
    <3>3. enqueued' \in [Kinds -> Nat]
      BY <3>1
    <3> QED
      BY <3>2, <3>3
  <2>2. TypeOK'
    BY <1>0, <1>2, <2>1, <2>a DEF SafeEnqueue, influx, others, TypeOK
  <2>3. Stages'
    BY <1>0, <1>2 DEF SafeEnqueue, influx, others, Stages
  <2> QED
    BY <2>1, <2>2, <2>3 DEF IInv
<1>3. ASSUME NEW k \in Kinds, Consume(k) \/ TakeSentinel(k) PROVE IInv'
  <2>0. Get(k)
    BY <1>3 DEF Consume, TakeSentinel
  <2>1. /\ \A j \in Kinds : Shaped(queue'[j], Items(j)', QueueSize[j])
        /\ queue' \in [Kinds -> Seq(Nat)]
        /\ \A j \in Kinds : Len(queue'[j]) <= QueueSize[j]
    BY <2>0, AfterGet, KeepsShape
  <2>2. taken' \in [Kinds -> Nat]
    BY <1>0, <2>0, AfterGet DEF TypeOK
  <2>3. batch' \in BOOLEAN /\ consumer' \in [Kinds -> {"run", "cancelled", "ended"}]
    BY <1>0, <1>3 DEF Consume, TakeSentinel, TypeOK
  <2>4. TypeOK'
    BY <1>0, <2>0, <2>1, <2>2, <2>3 DEF Get, others, TypeOK
  <2>5. /\ \A j \in Kinds : consumer'[j] = consumer[j] \/ consumer'[j] = "ended"
        /\ shutdown' = shutdown /\ shutdown # "done" /\ sentinel' = sentinel
        /\ detection' = detection /\ network' = network /\ storesOpen' = storesOpen
    BY <1>0, <1>3, <2>0 DEF Consume, TakeSentinel, Get, LoopRuns, others, TypeOK
  <2>6. Stages'
    BY <1>0, <2>5 DEF Stages, Kinds
  <2> QED
    BY <2>1, <2>4, <2>6 DEF IInv
<1>4. CASE WriteBatch
    BY <1>0, <1>4, <1>a DEF WriteBatch, queues, others, TypeOK, Stages, IInv
<1>5. CASE InfluxFlips
    BY <1>0, <1>5, <1>a DEF InfluxFlips, queues, others, TypeOK, Stages, IInv
<1>6. CASE DetectionDies
    BY <1>0, <1>6, <1>a DEF DetectionDies, LoopRuns, queues, influx, TypeOK, Stages, IInv
<1>7. CASE BeginShutdown
    BY <1>0, <1>7, <1>a DEF BeginShutdown, queues, influx, others, TypeOK, Stages, IInv, Kinds
<1>8. CASE PutSentinel \/ PutSmokeSentinel
  <2>1. PICK k \in Kinds :
            /\ Put(k) /\ sentinel[k] = 0
            /\ \/ k = "csi" /\ PutSentinel
               \/ k = "smoke" /\ PutSmokeSentinel
    BY <1>0, <1>8 DEF PutSentinel, PutSmokeSentinel, Stages, Kinds
  <2>2. /\ \A j \in Kinds : Shaped(queue'[j], Items(j)', QueueSize[j])
        /\ queue' \in [Kinds -> Seq(Nat)]
        /\ \A j \in Kinds : Len(queue'[j]) <= QueueSize[j]
    BY <2>1, AfterPut, KeepsShape
  <2>3. consumer' \in [Kinds -> {"run", "cancelled", "ended"}]
    BY <1>0, <1>8 DEF PutSentinel, PutSmokeSentinel, Cancelled, TypeOK
  <2>4. sentinel' \in [Kinds -> Nat] /\ \A j \in Kinds : j # k => sentinel'[j] = sentinel[j]
    BY <2>1, AfterPut
  <2>5. TypeOK'
    BY <1>0, <1>8, <2>1, <2>2, <2>3, <2>4
    DEF Put, PutSentinel, PutSmokeSentinel, influx, others, TypeOK
  <2>6. CASE k = "csi" /\ PutSentinel
    <3>1. sentinel'["smoke"] = sentinel["smoke"]
      BY <2>4, <2>6 DEF Kinds
    <3>2. /\ shutdown = "put csi" /\ shutdown' = "put smoke" /\ consumer' = consumer
          /\ batch' = batch /\ UNCHANGED others
      BY <2>1, <2>6 DEF Put, PutSentinel, influx
    <3>3. Stages'
      BY <1>0, <3>1, <3>2 DEF others, Stages, Kinds
    <3> QED
      BY <2>2, <2>5, <3>3 DEF IInv
  <2>7. CASE k = "smoke" /\ PutSmokeSentinel
    <3>1. /\ consumer'["smoke"] = consumer["smoke"] /\ consumer["smoke"] # "cancelled"
          /\ shutdown = "put smoke" /\ shutdown' = "csi"
          /\ batch' = batch /\ UNCHANGED others
      BY <1>0, <2>1, <2>7 DEF Put, PutSmokeSentinel, Cancelled, influx, Stages, Kinds, TypeOK
    <3>2. Stages'
      BY <1>0, <3>1 DEF others, Stages, Kinds
    <3> QED
      BY <2>2, <2>5, <3>2 DEF IInv
  <2> QED
    BY <2>1, <2>6, <2>7
<1>9. CASE ConsumerEnds
    BY <1>0, <1>9, <1>a
    DEF ConsumerEnds, Cancelled, queues, influx, others, TypeOK, Stages, Kinds, IInv
<1>10. CASE SmokeConsumerEnds
    BY <1>0, <1>10, <1>a
    DEF SmokeConsumerEnds, queues, influx, others, TypeOK, Stages, Kinds, IInv
<1>11. CASE CancelDetection
    BY <1>0, <1>11, <1>a
    DEF CancelDetection, queues, influx, others, TypeOK, Stages, Kinds, IInv
<1>12. CASE StopReader
    BY <1>0, <1>12, <1>a DEF StopReader, queues, influx, TypeOK, Stages, Kinds, IInv
<1>13. CASE CloseStores
    BY <1>0, <1>13, <1>a DEF CloseStores, queues, influx, TypeOK, Stages, Kinds, IInv
<1>14. CASE CloseInflux
    BY <1>0, <1>14, <1>a DEF CloseInflux, queues, others, TypeOK, Stages, Kinds, IInv
<1> QED
    BY <1>u, <1>1, <1>2, <1>3, <1>4, <1>5, <1>6, <1>7, <1>8, <1>9, <1>10,
       <1>11, <1>12, <1>13, <1>14 DEF Next, ShutdownStep

(* The inductive invariant holds always. *)
LEMMA Invariance == Spec => []IInv
BY InitInv, StepInv, PTL DEF Spec

(* Types, the bounds of the queues and the order of the counters           *)
(* (app/main.py, queue, smoke_queue; app/mqtt_reader.py, _safe_enqueue).   *)
THEOREM TypeCorrect == Spec => []TypeOK
<1>1. IInv => TypeOK
    BY DEF IInv
<1> QED
    BY <1>1, Invariance, PTL

(* Nothing that on_shutdown has closed is used again (app/main.py,         *)
(* on_shutdown).                                                           *)
THEOREM ShutdownIsOrderly == Spec => []NothingUsesWhatIsClosed
<1>1. IInv => NothingUsesWhatIsClosed
    BY DEF IInv, TypeOK, Stages, NothingUsesWhatIsClosed
<1> QED
    BY <1>1, Invariance, PTL

-----------------------------------------------------------------------------
(* What on_shutdown waits for *)

(* A consumer runs until its sentinel was put or it was told to stop. *)
RunsUntilTold ==
    \A k \in Kinds :
        sentinel[k] = 0 /\ shutdown \in {"no", "put csi", "put smoke"}
            => consumer[k] = "run"

(* While on_shutdown waits for room on a queue, its consumer makes some. *)
SomeoneMakesRoom ==
    /\ shutdown = "put csi" => consumer["csi"] = "run"
    /\ shutdown = "put smoke" => consumer["smoke"] = "run"

(* Items are numbered from 1. *)
LEMMA NextNumber == \A n \in Nat : n + 1 # 0
OBVIOUS

LEMMA ItemNumber == \A n, m \in Nat : m <= n => (n - m) + 1 # 0
OBVIOUS

LEMMA StepRuns == IInv /\ RunsUntilTold /\ [Next]_vars => RunsUntilTold'
<1> SUFFICES ASSUME IInv, RunsUntilTold, [Next]_vars, NEW k \in Kinds,
                    sentinel'[k] = 0, shutdown' \in {"no", "put csi", "put smoke"}
             PROVE  consumer'[k] = "run"
    BY DEF RunsUntilTold
<1>0. /\ sentinel \in [Kinds -> Nat]
      /\ consumer \in [Kinds -> {"run", "cancelled", "ended"}]
      /\ sentinel[k] = 0 /\ shutdown \in {"no", "put csi", "put smoke"}
            => consumer[k] = "run"
    BY DEF IInv, TypeOK, RunsUntilTold
<1>1. ASSUME NEW j \in Kinds, Receive(j) \/ SafeEnqueue(j) \/ Consume(j)
      PROVE  consumer'[k] = "run"
    BY <1>0, <1>1 DEF Receive, SafeEnqueue, Consume, Get
<1>2. ASSUME NEW j \in Kinds, TakeSentinel(j) PROVE consumer'[k] = "run"
  <2>1. CASE j = k
    (* A number on the queue is not 0, and 0 is no sentinel's. *)
    <3>1. queue[k] # <<>> /\ Head(queue[k]) = sentinel[k] /\ sentinel' = sentinel
      BY <1>2, <2>1 DEF TakeSentinel, Get
    <3>2. /\ Shaped(queue[k], Items(k), QueueSize[k]) /\ Items(k) \in Nat
          /\ Len(queue[k]) \in Nat
          /\ First(queue[k], Items(k)) = (Items(k) - Len(queue[k])) + 1
      BY QueueFacts
    <3>3. Head(queue[k]) = (Items(k) - Len(queue[k])) + 1
      BY <3>1, <3>2 DEF First
    <3>4. Len(queue[k]) <= Items(k)
      BY <3>2 DEF Shaped
    <3>5. Head(queue[k]) # 0
      BY <3>2, <3>3, <3>4, ItemNumber
    <3>6. sentinel[k] = 0
      BY <3>1
    <3> QED
      BY <3>1, <3>5, <3>6, Zenon
  <2>2. CASE j # k
    BY <1>0, <1>2, <2>2 DEF TakeSentinel, Get
  <2> QED
    BY <2>1, <2>2
<1>3. CASE WriteBatch \/ InfluxFlips \/ DetectionDies \/ BeginShutdown
    BY <1>0, <1>3 DEF WriteBatch, InfluxFlips, DetectionDies, BeginShutdown, queues
<1>4. CASE PutSentinel
  <2>1. /\ sentinel' = [sentinel EXCEPT !["csi"] = Items("csi") + 1]
        /\ shutdown = "put csi" /\ consumer' = consumer
    BY <1>4 DEF PutSentinel, Put
  <2>2. Items("csi") \in Nat
    BY QueueFacts DEF Kinds
  <2>3. sentinel'["csi"] # 0
    <3>1. sentinel'["csi"] = Items("csi") + 1
      BY <1>0, <2>1 DEF Kinds
    <3> QED
      BY <2>2, <3>1, NextNumber
  <2>4. k # "csi"
    BY <2>3
  <2> QED
    BY <1>0, <2>1, <2>4
<1>5. CASE \/ PutSmokeSentinel \/ ConsumerEnds \/ SmokeConsumerEnds
           \/ CancelDetection \/ StopReader \/ CloseStores \/ CloseInflux
    BY <1>5 DEF PutSmokeSentinel, ConsumerEnds, SmokeConsumerEnds,
       CancelDetection, StopReader, CloseStores, CloseInflux
<1>6. CASE UNCHANGED vars
    BY <1>0, <1>6 DEF vars, queues
<1> QED
    BY <1>1, <1>2, <1>3, <1>4, <1>5, <1>6 DEF Next, ShutdownStep

(* on_shutdown never waits for room on a queue that no one empties: until  *)
(* the sentinel is on it, its consumer runs (app/main.py, on_shutdown).    *)
(* With the fairness of the event loop this is why a shutdown gets past    *)
(* queue.put(None), which ShutdownEnds needs.                              *)
THEOREM RoomIsMade == Spec => []SomeoneMakesRoom
<1>1. Init => RunsUntilTold
    BY DEF Init, RunsUntilTold
<1>2. IInv /\ RunsUntilTold => SomeoneMakesRoom
    BY DEF IInv, Stages, RunsUntilTold, SomeoneMakesRoom, Kinds
<1> QED
    BY <1>1, <1>2, StepRuns, Invariance, PTL DEF Spec

-----------------------------------------------------------------------------
(* Refinement *)

(* An item that was put on a queue was pushed on the abstract one, or      *)
(* replaced its oldest item.                                               *)
LEMMA RefinePush ==
    ASSUME IInv, IInv', NEW k \in Kinds,
           queue'[k] = Pushed(queue[k], Items(k), QueueSize[k]),
           Items(k)' = Items(k) + 1, taken'[k] = taken[k]
    PROVE  Oldest(k)!DONext
<1>1. /\ Items(k) \in Nat /\ QueueSize[k] \in Nat \ {0}
      /\ Len(queue[k]) \in Nat /\ Len(queue[k]) <= QueueSize[k]
      /\ Shaped(queue[k], Items(k), QueueSize[k])
      /\ First(queue[k], Items(k)) = (Items(k) - Len(queue[k])) + 1
    BY QueueFacts
<1>2. /\ Shaped(queue'[k], Items(k) + 1, QueueSize[k])
      /\ Len(queue'[k]) = IF Len(queue[k]) = QueueSize[k]
                          THEN Len(queue[k]) ELSE Len(queue[k]) + 1
  <2>1. /\ Shaped(Pushed(queue[k], Items(k), QueueSize[k]), Items(k) + 1, QueueSize[k])
        /\ Len(Pushed(queue[k], Items(k), QueueSize[k])) =
               IF Len(queue[k]) = QueueSize[k] THEN Len(queue[k]) ELSE Len(queue[k]) + 1
    BY <1>1, ShapedNext
  <2> QED
    BY <2>1
<1>3. First(queue'[k], Items(k) + 1) = ((Items(k) + 1) - Len(queue'[k])) + 1
    BY <1>1, <1>2, ShapedFirst
<1>4. CASE Len(queue[k]) < QueueSize[k]
  <2>1. First(queue'[k], Items(k) + 1) = First(queue[k], Items(k))
    BY <1>1, <1>2, <1>3, <1>4
  <2>2. (Items(k) + 1) - First(queue[k], Items(k)) < QueueSize[k]
    BY <1>1, <1>4
  <2>3. Oldest(k)!Push
    BY <1>1, <2>1, <2>2 DEF Oldest!Push, First
  <2> QED
    BY <2>3 DEF Oldest!DONext
<1>5. CASE Len(queue[k]) = QueueSize[k]
  <2>1. First(queue'[k], Items(k) + 1) = First(queue[k], Items(k)) + 1
    BY <1>1, <1>2, <1>3, <1>5
  <2>2. (Items(k) + 1) - First(queue[k], Items(k)) = QueueSize[k]
    BY <1>1, <1>5
  <2>3. Oldest(k)!Replace
    BY <1>1, <2>1, <2>2 DEF Oldest!Replace, First
  <2> QED
    BY <2>3 DEF Oldest!DONext
<1> QED
    BY <1>1, <1>4, <1>5

(* Every step maps to a step of the abstract queue, or to a stutter. *)
LEMMA RefineStep ==
    ASSUME IInv, IInv', [Next]_vars, NEW k \in Kinds
    PROVE  [Oldest(k)!DONext]_(Oldest(k)!dvars)
<1>0. /\ queue \in [Kinds -> Seq(Nat)] /\ taken \in [Kinds -> Nat]
      /\ enqueued \in [Kinds -> Nat] /\ sentinel \in [Kinds -> Nat]
    BY DEF IInv, TypeOK
<1>1. CASE queue'[k] = queue[k] /\ Items(k)' = Items(k) /\ taken'[k] = taken[k]
    BY <1>1 DEF Oldest!dvars
<1>2. ASSUME NEW j \in Kinds, SafeEnqueue(j) PROVE [Oldest(k)!DONext]_(Oldest(k)!dvars)
  <2>1. taken' = taken
    BY <1>2 DEF SafeEnqueue
  <2>2. CASE j = k
    <3>1. queue'[k] = Pushed(queue[k], Items(k), QueueSize[k]) /\ Items(k)' = Items(k) + 1
      BY <1>0, <1>2, <2>2, AfterEnqueue
    <3> QED
      BY <2>1, <3>1, RefinePush
  <2>3. CASE j # k
    BY <1>0, <1>1, <1>2, <2>1, <2>3, AfterEnqueue
  <2> QED
    BY <2>2, <2>3
<1>3. ASSUME NEW j \in Kinds, Put(j), sentinel[j] = 0
      PROVE  [Oldest(k)!DONext]_(Oldest(k)!dvars)
  <2>1. taken' = taken
    BY <1>3 DEF Put
  <2>2. CASE j = k
    <3>1. queue'[k] = Pushed(queue[k], Items(k), QueueSize[k]) /\ Items(k)' = Items(k) + 1
      BY <1>0, <1>3, <2>2, AfterPut
    <3> QED
      BY <2>1, <3>1, RefinePush
  <2>3. CASE j # k
    BY <1>0, <1>1, <1>3, <2>1, <2>3, AfterPut
  <2> QED
    BY <2>2, <2>3
<1>4. ASSUME NEW j \in Kinds, Get(j) PROVE [Oldest(k)!DONext]_(Oldest(k)!dvars)
  <2>1. /\ queue' = [queue EXCEPT ![j] = Tail(queue[j])] /\ queue[j] # <<>>
        /\ taken' = [taken EXCEPT ![j] = Head(queue[j])] /\ Items(k)' = Items(k)
    BY <1>4, AfterGet
  <2>2. CASE j = k
    <3>0. /\ Items(k) \in Nat /\ QueueSize[k] \in Nat \ {0} /\ Len(queue[k]) \in Nat
          /\ Shaped(queue[k], Items(k), QueueSize[k])
          /\ First(queue[k], Items(k)) = (Items(k) - Len(queue[k])) + 1
      BY QueueFacts
    <3>1. queue'[k] = Tail(queue[k]) /\ queue[k] # <<>> /\ taken'[k] = Head(queue[k])
      BY <1>0, <2>1, <2>2
    <3>2. /\ Shaped(queue'[k], Items(k), QueueSize[k])
          /\ Len(queue'[k]) = Len(queue[k]) - 1 /\ Len(queue[k]) \in Nat \ {0}
      BY <3>0, <3>1, ShapedTail
    <3>3. First(queue'[k], Items(k)) = (Items(k) - Len(queue'[k])) + 1
      BY <3>0, <3>2, ShapedFirst
    <3>4. Head(queue[k]) = First(queue[k], Items(k))
      BY <3>1 DEF First
    <3>5. First(queue'[k], Items(k)) = Head(queue[k]) + 1 /\ Head(queue[k]) < Items(k) + 1
      BY <3>0, <3>2, <3>3, <3>4
    <3>6. Oldest(k)!Take
      BY <2>1, <3>1, <3>5 DEF Oldest!Take, First
    <3> QED
      BY <3>6 DEF Oldest!DONext
  <2>3. CASE j # k
    BY <1>0, <1>1, <2>1, <2>3
  <2> QED
    BY <2>2, <2>3
<1>5. CASE UNCHANGED vars
    BY <1>1, <1>5 DEF vars, queues, Items
<1>6. CASE \E j \in Kinds : Receive(j)
    BY <1>1, <1>6 DEF Receive, Items
<1>7. CASE PutSentinel \/ PutSmokeSentinel
  <2>1. \E j \in Kinds : Put(j) /\ sentinel[j] = 0
    BY <1>7 DEF PutSentinel, PutSmokeSentinel, IInv, Stages, Kinds
  <2> QED
    BY <1>3, <2>1
<1>8. CASE \/ WriteBatch \/ InfluxFlips \/ DetectionDies \/ BeginShutdown
           \/ ConsumerEnds \/ SmokeConsumerEnds \/ CancelDetection
           \/ StopReader \/ CloseStores \/ CloseInflux
  <2>1. UNCHANGED queues
    BY <1>8 DEF WriteBatch, InfluxFlips, DetectionDies, BeginShutdown,
                ConsumerEnds, SmokeConsumerEnds, CancelDetection, StopReader,
                CloseStores, CloseInflux
  <2> QED
    BY <1>1, <2>1 DEF queues, Items
<1>9. CASE \E j \in Kinds : Consume(j) \/ TakeSentinel(j)
    BY <1>4, <1>9 DEF Consume, TakeSentinel
<1> QED
    BY <1>2, <1>5, <1>6, <1>7, <1>8, <1>9 DEF Next, ShutdownStep

(* The backend's queues are drop-oldest queues between paho's thread and   *)
(* the consumers, each by itself, sentinels included                       *)
(* (app/mqtt_reader.py, _safe_enqueue, _safe_smoke_enqueue; app/main.py,   *)
(* consume_queue, consume_smoke_queue).                                    *)
THEOREM Refinement == Spec => ImplementsDropOldest
<1>1. Init => \A k \in Kinds : Oldest(k)!DOInit
  <2> SUFFICES ASSUME Init, NEW k \in Kinds PROVE Oldest(k)!DOInit
    OBVIOUS
  <2>1. queue[k] = <<>> /\ Items(k) = 0 /\ taken[k] = 0
    BY DEF Init, Items
  <2> QED
    BY <2>1 DEF Oldest!DOInit
<1>2. IInv /\ IInv' /\ [Next]_vars =>
          [\A k \in Kinds : [Oldest(k)!DONext]_(Oldest(k)!dvars)]_vars
    BY RefineStep
<1> QED
    BY <1>1, <1>2, Invariance, PTL DEF Spec, ImplementsDropOldest

=============================================================================
