------------------------ MODULE CaptureQueue_proofs ------------------------
(***************************************************************************)
(* Proofs about CaptureQueue, for every queue depth and number of frames.  *)
(* The invariant that carries them says that the queue holds consecutive   *)
(* frames ending just before the next one to be pushed; ownership of the   *)
(* buffers, the order of the frames and the drop-oldest promise are all    *)
(* consequences of that shape.                                             *)
(***************************************************************************)
EXTENDS CaptureQueue, SequenceTheorems, TLAPS

(* The queue holds the Len(queue) frames that precede NextPush, and the    *)
(* publisher's frame, if it received any, precedes them all.               *)
QueueShape ==
    /\ \A i \in 1 .. Len(queue) : queue[i] = (NextPush - Len(queue)) + (i - 1)
    /\ msg + Len(queue) < NextPush
    /\ pubAt \in {"publish", "free"} => msg >= 1

FirstWaiting == NextPush - Len(queue)

IInv ==
    /\ TypeOK
    /\ QueueShape
    /\ heap = (FirstWaiting .. (NextPush - 1)) \cup WifiHolds \cup PublisherHolds
    /\ FramesAccountedFor
    /\ NewestGetsRoom

-----------------------------------------------------------------------------
(* What the shape says of the queue's elements, its head and its tail. *)

LEMMA ShapeElements ==
    ASSUME TypeOK, QueueShape
    PROVE  Elements(queue) = FirstWaiting .. (NextPush - 1)
<1> USE DEF TypeOK, QueueShape, FirstWaiting, NextPush
<1>1. NextPush \in Nat /\ Len(queue) \in Nat /\ DOMAIN queue = 1 .. Len(queue)
  OBVIOUS
<1>2. ASSUME NEW x \in Elements(queue)
      PROVE  x \in FirstWaiting .. (NextPush - 1)
  <2>1. PICK i \in 1 .. Len(queue) : x = queue[i]
    BY <1>1, <1>2 DEF Elements
  <2>2. x = (NextPush - Len(queue)) + (i - 1)
    BY <2>1
  <2>3. QED
    BY <1>1, <2>1, <2>2
<1>3. ASSUME NEW x \in FirstWaiting .. (NextPush - 1)
      PROVE  x \in Elements(queue)
  <2> DEFINE i == x - FirstWaiting + 1
  <2>1. i \in 1 .. Len(queue) /\ x = (NextPush - Len(queue)) + (i - 1)
    BY <1>1, <1>3
  <2>2. x = queue[i]
    BY <2>1
  <2>3. QED
    BY <1>1, <2>1, <2>2 DEF Elements
<1>4. QED
  BY <1>2, <1>3

LEMMA ShapeHead ==
    ASSUME TypeOK, QueueShape, queue # <<>>
    PROVE  /\ Head(queue) = FirstWaiting
           /\ Len(queue) >= 1
           /\ Tail(queue) \in Seq(Nat)
           /\ Len(Tail(queue)) = Len(queue) - 1
           /\ \A i \in 1 .. Len(Tail(queue)) : Tail(queue)[i] = FirstWaiting + i
<1> USE DEF TypeOK, QueueShape, FirstWaiting, NextPush
<1>1. queue \in Seq(Nat) /\ Len(queue) \in Nat /\ NextPush \in Nat
  OBVIOUS
<1>2. Len(queue) >= 1
  BY <1>1, EmptySeq
<1>3. Head(queue) = FirstWaiting
  BY <1>1, <1>2
<1>4. /\ Tail(queue) \in Seq(Nat)
      /\ Len(Tail(queue)) = Len(queue) - 1
      /\ \A i \in 1 .. Len(Tail(queue)) : Tail(queue)[i] = queue[i + 1]
  BY <1>1, <1>2
<1>5. ASSUME NEW i \in 1 .. Len(Tail(queue))
      PROVE  Tail(queue)[i] = FirstWaiting + i
  <2>1. i + 1 \in 1 .. Len(queue)
    BY <1>1, <1>2, <1>4
  <2>2. queue[i + 1] = (NextPush - Len(queue)) + i
    BY <2>1, <1>1
  <2>3. QED
    BY <1>4, <2>2
<1>6. QED
  BY <1>2, <1>3, <1>4, <1>5

-----------------------------------------------------------------------------
(* The invariant holds initially and each action preserves it. *)

(* The inductive invariant holds at the start ... *)
LEMMA InitInv == Init => IInv
<1> SUFFICES ASSUME Init PROVE IInv
  OBVIOUS
<1> USE CaptureAssumption DEF Init, NextPush
<1>1. queue \in Seq(Nat) /\ Len(queue) = 0
  OBVIOUS
<1>2. TypeOK
  <2>1. heap \subseteq 1 .. formatted /\ brokerConn \in BOOLEAN
    OBVIOUS
  <2>2. /\ formatted \in 0 .. seen /\ seen \in 0 .. MaxFrames
        /\ peak \in 0 .. QueueDepth /\ Len(queue) <= QueueDepth
    BY <1>1
  <2>3. QED
    BY <1>1, <2>1, <2>2 DEF TypeOK
<1>3. QueueShape
  BY <1>1 DEF QueueShape
<1>4. heap = (FirstWaiting .. (NextPush - 1)) \cup WifiHolds \cup PublisherHolds
  BY <1>1 DEF FirstWaiting, WifiHolds, PublisherHolds
<1>5. FramesAccountedFor /\ NewestGetsRoom
  BY <1>1 DEF FramesAccountedFor, NewestGetsRoom
<1>6. QED
  BY <1>2, <1>3, <1>4, <1>5 DEF IInv

(* ... and every step keeps it. *)
LEMMA StepInv == IInv /\ [Next]_vars => IInv'
<1> SUFFICES ASSUME IInv, [Next]_vars PROVE IInv'
  OBVIOUS
<1> USE CaptureAssumption
        DEF IInv, TypeOK, QueueShape, FirstWaiting, NextPush, WifiHolds,
            PublisherHolds, FramesAccountedFor, NewestGetsRoom, counters
<1>0. /\ queue \in Seq(Nat) /\ Len(queue) \in Nat
      /\ (queue = <<>>) = (Len(queue) = 0)
  BY EmptySeq
<1>1. CASE RxDropped
  BY <1>0, <1>1 DEF RxDropped
<1>2. CASE RxFormatted
  BY <1>0, <1>2 DEF RxFormatted
<1>3. CASE SendOk
  <2> USE <1>3 DEF SendOk
  <2>1. /\ queue' \in Seq(Nat)
        /\ Len(queue') = Len(queue) + 1
        /\ \A i \in 1 .. Len(queue) : queue'[i] = queue[i]
        /\ queue'[Len(queue) + 1] = formatted
    BY <1>0
  <2>2. NextPush = formatted /\ NextPush' = formatted + 1
    BY <1>3
  <2>3. TypeOK'
    BY <1>0, <2>1
  <2>4. QueueShape'
    <3>1. ASSUME NEW i \in 1 .. Len(queue')
          PROVE  queue'[i] = (NextPush' - Len(queue')) + (i - 1)
      <4>1. i \in 1 .. Len(queue) \/ i = Len(queue) + 1
        BY <1>0, <2>1
      <4>2. CASE i \in 1 .. Len(queue)
        BY <1>0, <2>1, <2>2, <4>2
      <4>3. CASE i = Len(queue) + 1
        BY <1>0, <2>1, <2>2, <4>3
      <4>4. QED
        BY <4>1, <4>2, <4>3
    <3>2. QED
      BY <1>0, <2>1, <2>2, <3>1
  <2>5. heap' = (FirstWaiting' .. (NextPush' - 1)) \cup WifiHolds' \cup PublisherHolds'
    BY <1>0, <2>1, <2>2
  <2>6. FramesAccountedFor' /\ NewestGetsRoom'
    BY <1>0, <2>1
  <2>7. QED
    BY <2>3, <2>4, <2>5, <2>6
<1>4. CASE SendFull
  BY <1>0, <1>4 DEF SendFull
<1>5. CASE Evict
  BY <1>0, <1>5, ShapeHead DEF Evict
<1>6. CASE EvictEmpty
  BY <1>0, <1>6 DEF EvictEmpty
<1>7. CASE Resend
  <2> USE <1>7 DEF Resend
  <2>0. Len(queue) < QueueDepth /\ queue' = Append(queue, formatted)
    BY <1>0
  <2>1. /\ queue' \in Seq(Nat)
        /\ Len(queue') = Len(queue) + 1
        /\ \A i \in 1 .. Len(queue) : queue'[i] = queue[i]
        /\ queue'[Len(queue) + 1] = formatted
    BY <1>0, <2>0
  <2>2. NextPush = formatted /\ NextPush' = formatted + 1
    BY <1>7
  <2>3. TypeOK'
    BY <1>0, <2>0, <2>1
  <2>4. QueueShape'
    <3>1. ASSUME NEW i \in 1 .. Len(queue')
          PROVE  queue'[i] = (NextPush' - Len(queue')) + (i - 1)
      <4>1. i \in 1 .. Len(queue) \/ i = Len(queue) + 1
        BY <1>0, <2>1
      <4>2. CASE i \in 1 .. Len(queue)
        BY <1>0, <2>1, <2>2, <4>2
      <4>3. CASE i = Len(queue) + 1
        BY <1>0, <2>1, <2>2, <4>3
      <4>4. QED
        BY <4>1, <4>2, <4>3
    <3>2. QED
      BY <1>0, <2>1, <2>2, <3>1, <2>0
  <2>5. heap' = (FirstWaiting' .. (NextPush' - 1)) \cup WifiHolds' \cup PublisherHolds'
    BY <1>0, <2>1, <2>2, <2>0
  <2>6. FramesAccountedFor' /\ NewestGetsRoom'
    BY <1>0, <2>1, <2>0
  <2>7. QED
    BY <2>3, <2>4, <2>5, <2>6
<1>8. CASE Receive
  <2> USE <1>8 DEF Receive
  <2>1. /\ msg' = FirstWaiting
        /\ Len(queue) >= 1
        /\ queue' \in Seq(Nat)
        /\ Len(queue') = Len(queue) - 1
        /\ \A i \in 1 .. Len(queue') : queue'[i] = FirstWaiting + i
    BY ShapeHead
  <2>2. NextPush' = NextPush /\ FirstWaiting' = FirstWaiting + 1 /\ FirstWaiting > msg
    BY <1>0, <2>1
  <2>3. TypeOK'
    BY <1>0, <2>1, <2>2
  <2>4. QueueShape'
    BY <1>0, <2>1, <2>2
  <2>5. heap' = (FirstWaiting' .. (NextPush' - 1)) \cup WifiHolds' \cup PublisherHolds'
    BY <1>0, <2>1, <2>2
  <2>6. FramesAccountedFor' /\ NewestGetsRoom'
    BY <1>0, <2>1
  <2>7. QED
    BY <2>3, <2>4, <2>5, <2>6
<1>9. CASE ReceiveTimeout
  BY <1>0, <1>9 DEF ReceiveTimeout
<1>10. CASE PublishOk
  BY <1>0, <1>10 DEF PublishOk
<1>11. CASE PublishFailed
  BY <1>0, <1>11 DEF PublishFailed
<1>12. CASE FreeMsg
  BY <1>0, <1>12 DEF FreeMsg
<1>13. CASE Housekeep
  BY <1>0, <1>13 DEF Housekeep
<1>14. CASE BrokerEvent
  BY <1>0, <1>14 DEF BrokerEvent
<1>15. CASE UNCHANGED vars
  BY <1>0, <1>15 DEF vars
<1>16. QED
  BY <1>1, <1>2, <1>3, <1>4, <1>5, <1>6, <1>7, <1>8, <1>9, <1>10, <1>11,
     <1>12, <1>13, <1>14, <1>15 DEF Next, WifiStep, PublisherStep

(* The inductive invariant holds always. *)
LEMMA Invariance == Spec => []IInv
<1>1. IInv /\ UNCHANGED vars => IInv'
  BY StepInv
<1>2. QED
  BY InitInv, StepInv, PTL DEF Spec

-----------------------------------------------------------------------------
(* Theorems *)

(* The state stays in its types; in particular the queue never exceeds the *)
(* depth xQueueCreate was given.                                           *)
THEOREM TypeCorrect == Spec => []TypeOK
BY Invariance, PTL DEF IInv

(* Every allocated buffer has exactly one owner, and every owned buffer is *)
(* allocated: csi_rx_cb and publisher_task neither leak nor free twice.    *)
THEOREM OwnershipCorrect == Spec => []BufferOwnership
<1>1. IInv => BufferOwnership
  <2> SUFFICES ASSUME IInv PROVE BufferOwnership
    OBVIOUS
  <2> USE DEF IInv, TypeOK, QueueShape, FirstWaiting, NextPush,
              WifiHolds, PublisherHolds
  <2>1. Elements(queue) = FirstWaiting .. (NextPush - 1)
    BY ShapeElements
  <2>2. Len(queue) \in Nat
    OBVIOUS
  <2>3. WifiHolds \cap (Elements(queue) \cup PublisherHolds) = {}
    BY <2>1, <2>2
  <2>4. PublisherHolds \cap Elements(queue) = {}
    BY <2>1, <2>2
  <2>5. QED
    BY <2>1, <2>3, <2>4 DEF BufferOwnership
<1>2. QED
  BY <1>1, Invariance, PTL

(* Each accepted frame is counted once among those waiting, held,          *)
(* published, failed, dropped and overrun.                                 *)
THEOREM AccountingCorrect == Spec => []FramesAccountedFor
BY Invariance, PTL DEF IInv

(* The newest frame is never the one lost to a full queue. *)
THEOREM RoomForTheNewest == Spec => []NewestGetsRoom
BY Invariance, PTL DEF IInv

(* Frames leave in the order of capture. *)
THEOREM OrderCorrect == Spec => []CaptureOrder
<1>1. IInv => CaptureOrder
  <2> SUFFICES ASSUME IInv PROVE CaptureOrder
    OBVIOUS
  <2> USE DEF IInv, TypeOK, QueueShape, FirstWaiting, NextPush
  <2>1. Len(queue) \in Nat /\ NextPush \in Nat
    OBVIOUS
  <2>2. ASSUME NEW i \in 1 .. Len(queue) - 1
        PROVE  queue[i + 1] = queue[i] + 1
    <3>1. i \in 1 .. Len(queue) /\ i + 1 \in 1 .. Len(queue)
      BY <2>1
    <3>2. /\ queue[i] = (NextPush - Len(queue)) + (i - 1)
          /\ queue[i + 1] = (NextPush - Len(queue)) + i
      BY <2>1, <3>1
    <3>3. QED
      BY <2>1, <3>2
  <2>3. queue # <<>> => msg < Head(queue)
    BY <2>1, ShapeHead
  <2>4. ASSUME queue # <<>>, wifiAt # "idle"
        PROVE  queue[Len(queue)] = formatted - 1
    <3>1. Len(queue) \in 1 .. Len(queue)
      BY <2>1, <2>4, ShapeHead
    <3>2. QED
      BY <2>1, <2>4, <3>1
  <2>5. QED
    BY <2>2, <2>3, <2>4 DEF CaptureOrder
<1>2. QED
  BY <1>1, Invariance, PTL

-----------------------------------------------------------------------------
(* The refinement.  Under the invariant the mapped lo is FirstWaiting,     *)
(* also when the queue is empty, so each step of the code is the step of   *)
(* DropOldest one expects, or a stutter.                                   *)

MappedLo == IF queue # <<>> THEN Head(queue) ELSE NextPush

LEMMA MappedLoIsFirst == IInv => MappedLo = FirstWaiting
BY ShapeHead DEF IInv, TypeOK, FirstWaiting, NextPush, MappedLo

LEMMA MappedLoNext == IInv' => (MappedLo = FirstWaiting)'
BY MappedLoIsFirst, PTL

(* Every step maps to a step of the abstract queue, or to a stutter. *)
LEMMA RefineStep ==
    IInv /\ IInv' /\ [Next]_vars => [Oldest!DONext]_(Oldest!dvars)
<1> SUFFICES ASSUME IInv, IInv', [Next]_vars
             PROVE  [Oldest!DONext]_(Oldest!dvars)
  OBVIOUS
<1>1. MappedLo = FirstWaiting /\ MappedLo' = FirstWaiting'
  BY MappedLoIsFirst, MappedLoNext
<1>2. /\ Len(queue) \in Nat /\ Len(queue') \in Nat
      /\ formatted \in Nat
      /\ (queue = <<>>) = (Len(queue) = 0)
      /\ NextPush - FirstWaiting = Len(queue)
      /\ wifiAt = "resend" => Len(queue) < QueueDepth
  BY EmptySeq DEF IInv, TypeOK, FirstWaiting, NextPush, NewestGetsRoom
<1> USE <1>1, <1>2 DEF FirstWaiting, NextPush, counters,
    Oldest!dvars, Oldest!DONext, Oldest!Push, Oldest!FindFull,
    Oldest!Discard, Oldest!NothingToDiscard, Oldest!Take
<1>3. CASE RxDropped
  BY <1>3 DEF RxDropped, MappedLo
<1>4. CASE RxFormatted
  BY <1>4 DEF RxFormatted, MappedLo
<1>5. CASE SendOk
  BY <1>5 DEF SendOk, MappedLo
<1>6. CASE SendFull
  BY <1>6 DEF SendFull, MappedLo
<1>7. CASE Evict
  <2>1. Len(queue') = Len(queue) - 1 /\ Len(queue) >= 1
    BY <1>7, ShapeHead DEF Evict, IInv
  <2>2. FirstWaiting' = FirstWaiting + 1
    BY <1>7, <2>1 DEF Evict
  <2>3. QED
    BY <1>7, <2>1, <2>2 DEF Evict, MappedLo
<1>8. CASE EvictEmpty
  BY <1>8 DEF EvictEmpty, MappedLo
<1>9. CASE Resend
  BY <1>9 DEF Resend, MappedLo
<1>10. CASE Receive
  <2>1. Len(queue') = Len(queue) - 1 /\ Len(queue) >= 1 /\ msg' = FirstWaiting
    BY <1>10, ShapeHead DEF Receive, IInv
  <2>2. FirstWaiting' = FirstWaiting + 1
    BY <1>10, <2>1 DEF Receive
  <2>3. QED
    BY <1>10, <2>1, <2>2 DEF Receive, MappedLo
<1>11. CASE ReceiveTimeout \/ PublishOk \/ PublishFailed \/ FreeMsg
            \/ Housekeep \/ BrokerEvent \/ UNCHANGED vars
  BY <1>11 DEF ReceiveTimeout, PublishOk, PublishFailed, FreeMsg, Housekeep,
               BrokerEvent, vars, MappedLo
<1>12. QED
  BY <1>3, <1>4, <1>5, <1>6, <1>7, <1>8, <1>9, <1>10, <1>11
     DEF Next, WifiStep, PublisherStep

(* The receiver's data path implements the drop-oldest queue. *)
THEOREM Refinement == Spec => ImplementsDropOldest
<1>1. Init => Oldest!DOInit
  BY DEF Init, NextPush, Oldest!DOInit
<1>2. QED
  BY <1>1, RefineStep, Invariance, PTL
     DEF Spec, ImplementsDropOldest, Oldest!DOSpec

=============================================================================
