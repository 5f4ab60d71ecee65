---------------------------- MODULE Reader_proofs ----------------------------
(***************************************************************************)
(* Proofs about Reader.  The three invariants of the run need one addition *)
(* to be inductive: the thread of a live reader never dies, and a replay   *)
(* is not connected to a broker.  What the status says of the connection   *)
(* (LinkTold) and of the receiver (ReceiverTold) is proved apart.          *)
(***************************************************************************)
EXTENDS Reader, SequenceTheorems, TLAPS

Modes ==
    /\ mode = "live" => network # "dead"
    /\ mode = "replay" => link = "down"

LinkTold ==
    mode = "live" =>
        /\ connected => network = "run" /\ link # "down" /\ subscribed
        /\ stage = "no" /\ seenUp => TransportState # "disconnected"
        /\ stage = "returned" => ~ connected

(* The last status on its way, or else the one it holds. *)
LastStatus == IF inbox = <<>> THEN online ELSE inbox[Len(inbox)]

ReceiverTold == subscribed /\ retained # "unknown" => retained = LastStatus

IInv == TypeOK /\ RowsAccountedFor /\ LinkTold /\ ReceiverTold /\ Modes

(* The checks of a data message have one of four outcomes. *)
LEMMA RowOutcomesKnown ==
    RowOutcomes \cup ReplayOutcomes \subseteq {"skip", "drop", "raise", "queue"}
<1>1. ASSUME NEW r \in Row
      PROVE  Outcome(r) \in {"skip", "drop", "raise", "queue"}
    BY DEF Outcome
<1> QED BY <1>1 DEF RowOutcomes, ReplayOutcomes

(* Those of a smoke message have one of three. *)
LEMMA SmokeOutcomesKnown == SmokeOutcomes \subseteq {"skip", "drop", "queue"}
<1>1. ASSUME NEW r \in Smoke
      PROVE  SmokeOutcome(r) \in {"skip", "drop", "queue"}
    BY DEF SmokeOutcome
<1> QED BY <1>1 DEF SmokeOutcomes

(* Initially the invariant holds. *)
LEMMA InitInv == Init => IInv
<1> SUFFICES ASSUME Init PROVE IInv
    OBVIOUS
<1>1. TypeOK
  <2>1. <<>> \in Seq({"online", "offline"})
    BY EmptySeq
  <2>2. changes \in 0 .. MaxChanges
    BY ReaderAssumption DEF Init, ReaderAssumption
  <2>3. {packets, dropped, skipped} \subseteq 0 .. handled /\ handled \in Nat
    BY DEF Init
  <2>4. {connected, error, brokerUp, subscribed, seenUp} \subseteq BOOLEAN
    BY Zenon DEF Init
  <2> QED
    BY <2>1, <2>2, <2>3, <2>4 DEF Init, TypeOK
<1>2. RowsAccountedFor
    BY DEF Init, RowsAccountedFor
<1>3. LinkTold /\ ReceiverTold /\ Modes
    BY DEF Init, LinkTold, ReceiverTold, Modes
<1> QED BY <1>1, <1>2, <1>3 DEF IInv

(* One message is counted once, whatever its outcome. *)
LEMMA CountOne ==
    ASSUME packets \in Nat, dropped \in Nat, skipped \in Nat, handled \in Nat,
           {packets, dropped, skipped} \subseteq 0 .. handled,
           NEW outcome \in {"skip", "drop", "raise", "queue"},
           Count(outcome)
    PROVE  /\ {packets', dropped', skipped'} \subseteq 0 .. handled'
           /\ handled' \in Nat
           /\ packets' + dropped' + skipped' + (IF outcome = "raise" THEN 1 ELSE 0)
                = packets + dropped + skipped + 1
           /\ handled' = handled + 1
BY DEF Count

(* Every step keeps the type invariant ... *)
LEMMA StepType == IInv /\ [Next]_vars => TypeOK'
<1> SUFFICES ASSUME IInv, [Next]_vars PROVE TypeOK'
    OBVIOUS
<1> USE ReaderAssumption DEF IInv, TypeOK, ReaderAssumption
<1> USE DEF broker, session, counts, display
<1>u. CASE UNCHANGED vars
    BY <1>u DEF vars
<1>1. CASE BrokerFlips
    BY <1>1 DEF BrokerFlips, Change
<1>2. ASSUME NEW s \in {"online", "offline"}, PublishStatus(s) PROVE TypeOK'
    BY <1>2 DEF PublishStatus, Change
<1>3. CASE Start
    BY <1>3 DEF Start
<1>4. CASE OnConnect
  <2>1. inbox' \in Seq({"online", "offline"})
    <3>1. retained # "unknown" => <<retained>> \in Seq({"online", "offline"})
      OBVIOUS
    <3>2. <<>> \in Seq({"online", "offline"})
      BY EmptySeq
    <3> QED
      BY <1>4, <3>1, <3>2 DEF OnConnect
  <2> QED
    BY <1>4, <2>1 DEF OnConnect, Subscribe
<1>5. CASE OnRefused
  <2>1. changes' \in 0 .. MaxChanges
    BY <1>5 DEF OnRefused, Change
  <2> QED
    BY <1>5, <2>1 DEF OnRefused
<1>6. CASE OnDisconnect
  <2>1. changes' \in 0 .. MaxChanges
    BY <1>6 DEF OnDisconnect, Change
  <2>2. connected' \in BOOLEAN /\ error' \in BOOLEAN
    BY <1>6, Zenon DEF OnDisconnect, Disconnected
  <2>3. inbox' \in Seq({"online", "offline"})
    BY <1>6, EmptySeq DEF OnDisconnect
  <2> QED
    BY <1>6, <2>1, <2>2, <2>3 DEF OnDisconnect
<1>7. CASE OnMessage
  <2>1. PICK outcome \in RowOutcomes \cup SmokeOutcomes : Dispatch(outcome)
    BY <1>7 DEF OnMessage
  <2>2. (IF outcome = "raise" THEN "drop" ELSE outcome)
            \in {"skip", "drop", "raise", "queue"}
    BY RowOutcomesKnown, SmokeOutcomesKnown
  <2>3. {packets', dropped', skipped'} \subseteq 0 .. handled' /\ handled' \in Nat
    BY <2>1, <2>2, CountOne DEF Dispatch
  <2> QED
    BY <1>7, <2>1, <2>3 DEF OnMessage, Dispatch
<1>8. CASE OnStatus
    BY <1>8 DEF OnStatus
<1>9. CASE ReplayMissing
    BY <1>9 DEF ReplayMissing
<1>10. CASE ReplayBegins
    BY <1>10 DEF ReplayBegins
<1>11. CASE ReplayRow
  <2>1. PICK outcome \in ReplayOutcomes :
            /\ Count(outcome)
            /\ network' = IF outcome = "raise" THEN "dead" ELSE network
    BY <1>11 DEF ReplayRow
  <2>2. {packets', dropped', skipped'} \subseteq 0 .. handled' /\ handled' \in Nat
    BY <2>1, RowOutcomesKnown, CountOne
  <2> QED
    BY <1>11, <2>1, <2>2 DEF ReplayRow
<1>12. CASE ReplayEnds
    BY <1>12 DEF ReplayEnds
<1>13. CASE TakeSnapshot
    BY <1>13 DEF TakeSnapshot
<1>14. CASE Show
    BY <1>14 DEF Show, TransportState
<1>15. CASE StopBegins
    BY <1>15 DEF StopBegins
<1>16. CASE Disconnect
    BY <1>16 DEF Disconnect
<1>17. CASE Join
    BY <1>17 DEF Join
<1> QED
    BY <1>u, <1>1, <1>2, <1>3, <1>4, <1>5, <1>6, <1>7, <1>8, <1>9, <1>10, <1>11, <1>12, <1>13, <1>14, <1>15, <1>16, <1>17 DEF Next

(* ... what the status says of the connection, ... *)
LEMMA StepLink == IInv /\ [Next]_vars => (LinkTold /\ Modes)'
<1> SUFFICES ASSUME IInv, [Next]_vars PROVE (LinkTold /\ Modes)'
    OBVIOUS
<1> USE DEF IInv, TypeOK, LinkTold, Modes, TransportState
<1> USE DEF broker, session, counts, display
<1>u. CASE UNCHANGED vars
    BY <1>u DEF vars
<1>1. CASE BrokerFlips
    BY <1>1 DEF BrokerFlips
<1>2. ASSUME NEW s \in {"online", "offline"}, PublishStatus(s)
      PROVE  (LinkTold /\ Modes)'
    BY <1>2 DEF PublishStatus
<1>3. CASE Start
    BY <1>3 DEF Start
<1>4. CASE OnConnect
    BY <1>4 DEF OnConnect, Subscribe
<1>5. CASE OnRefused
    BY <1>5 DEF OnRefused
<1>6. CASE OnDisconnect
    BY <1>6 DEF OnDisconnect, Disconnected
<1>7. CASE OnMessage
    BY <1>7 DEF OnMessage, Dispatch
<1>8. CASE OnStatus
    BY <1>8 DEF OnStatus
<1>9. CASE ReplayMissing
    BY <1>9 DEF ReplayMissing
<1>10. CASE ReplayBegins
    BY <1>10 DEF ReplayBegins
<1>11. CASE ReplayRow
    BY <1>11 DEF ReplayRow
<1>12. CASE ReplayEnds
    BY <1>12 DEF ReplayEnds
<1>13. CASE TakeSnapshot
    BY <1>13 DEF TakeSnapshot
<1>14. CASE Show
    BY <1>14 DEF Show
<1>15. CASE StopBegins
    BY <1>15 DEF StopBegins
<1>16. CASE Disconnect
    BY <1>16 DEF Disconnect
<1>17. CASE Join
    BY <1>17 DEF Join
<1> QED
    BY <1>u, <1>1, <1>2, <1>3, <1>4, <1>5, <1>6, <1>7, <1>8, <1>9, <1>10, <1>11, <1>12, <1>13, <1>14, <1>15, <1>16, <1>17 DEF Next

(* ... what it says of the receiver, ... *)
LEMMA StepReceiver == IInv /\ [Next]_vars => ReceiverTold'
<1> SUFFICES ASSUME IInv, [Next]_vars PROVE ReceiverTold'
    OBVIOUS
<1> DEFINE Status == {"online", "offline"}
<1>0. ReceiverTold /\ inbox \in Seq(Status) /\ Len(inbox) \in Nat
    BY DEF IInv, TypeOK
<1>1. ASSUME NEW s \in Status, PublishStatus(s) PROVE ReceiverTold'
  <2>1. CASE subscribed
    <3>1. inbox' = Append(inbox, s) /\ retained' = s
      BY <1>1, <2>1 DEF PublishStatus
    <3>2. inbox' # <<>> /\ Len(inbox') = Len(inbox) + 1 /\ inbox'[Len(inbox) + 1] = s
      BY <1>0, <3>1, AppendProperties
    <3> QED
      BY <3>1, <3>2 DEF ReceiverTold, LastStatus
  <2>2. CASE ~ subscribed
    BY <1>1, <2>2 DEF PublishStatus, ReceiverTold
  <2> QED
    BY <2>1, <2>2
<1>2. CASE OnConnect
  <2>1. retained # "unknown" => inbox' = <<retained>> /\ retained' = retained
    BY <1>2 DEF OnConnect, Subscribe, broker
  <2>2. <<retained>> # <<>> /\ Len(<<retained>>) = 1 /\ <<retained>>[1] = retained
    OBVIOUS
  <2>3. retained' = retained
    BY <1>2 DEF OnConnect, broker
  <2> QED
    BY <2>1, <2>2, <2>3 DEF ReceiverTold, LastStatus
<1>3. CASE OnDisconnect
    BY <1>3 DEF OnDisconnect, ReceiverTold
<1>4. CASE OnStatus
  <2>1. /\ inbox # <<>> /\ inbox' = Tail(inbox) /\ online' = Head(inbox)
        /\ UNCHANGED <<subscribed, retained>>
    BY <1>4 DEF OnStatus, broker
  <2>2. /\ Len(inbox) >= 1 /\ Head(inbox) = inbox[1]
        /\ Tail(inbox) \in Seq(Status) /\ Len(Tail(inbox)) = Len(inbox) - 1
        /\ \A i \in 1 .. Len(Tail(inbox)) : Tail(inbox)[i] = inbox[i + 1]
    BY <1>0, <2>1, EmptySeq, HeadTailProperties
  <2>3. LastStatus' = LastStatus
    <3>1. CASE Len(inbox) = 1
      <4>1. Tail(inbox) = <<>>
        <5>1. Tail(inbox) \in Seq(Status) /\ Len(Tail(inbox)) = 0
          BY <2>2, <3>1
        <5> HIDE DEF Status
        <5> QED
          BY <5>1, EmptySeq
      <4> QED
        BY <2>1, <2>2, <3>1, <4>1 DEF LastStatus
    <3>2. CASE Len(inbox) > 1
      <4>1. Tail(inbox) # <<>> /\ Tail(inbox)[Len(Tail(inbox))] = inbox[Len(inbox)]
        BY <1>0, <2>2, <3>2, EmptySeq
      <4> QED
        BY <2>1, <4>1 DEF LastStatus
    <3> QED
      BY <1>0, <2>2, <3>1, <3>2
  <2> QED
    BY <1>0, <2>1, <2>3 DEF ReceiverTold
<1>5. CASE UNCHANGED <<subscribed, retained, inbox, online>>
    BY <1>0, <1>5 DEF ReceiverTold, LastStatus
<1>6. CASE Start \/ OnRefused \/ OnMessage \/ BrokerFlips
    BY <1>5, <1>6 DEF Start, OnRefused, OnMessage, BrokerFlips, session, broker
<1>7. CASE ReplayMissing \/ ReplayBegins \/ ReplayRow \/ ReplayEnds
    BY <1>5, <1>7 DEF ReplayMissing, ReplayBegins, ReplayRow, ReplayEnds, session, broker
<1>8. CASE TakeSnapshot \/ Show \/ StopBegins \/ Disconnect \/ Join \/ UNCHANGED vars
    BY <1>5, <1>8 DEF TakeSnapshot, Show, StopBegins, Disconnect, Join, vars, session, broker
<1> QED
    BY <1>1, <1>2, <1>3, <1>4, <1>6, <1>7, <1>8 DEF Next

(* ... and the accounts. *)
LEMMA StepRows == IInv /\ [Next]_vars => RowsAccountedFor'
<1> SUFFICES ASSUME IInv, [Next]_vars PROVE RowsAccountedFor'
    OBVIOUS
<1> USE DEF IInv, TypeOK, RowsAccountedFor, Modes, broker, session, counts, display
<1>1. CASE OnMessage
  <2>1. PICK outcome \in RowOutcomes \cup SmokeOutcomes : Dispatch(outcome)
    BY <1>1 DEF OnMessage
  <2> DEFINE counted == IF outcome = "raise" THEN "drop" ELSE outcome
  <2>2. counted \in {"skip", "drop", "raise", "queue"} /\ counted # "raise"
    BY RowOutcomesKnown, SmokeOutcomesKnown
  <2>3. Count(counted) /\ network' = network
    BY <2>1 DEF Dispatch
  <2> HIDE DEF counted
  <2> QED
    BY <2>2, <2>3, CountOne
<1>2. CASE ReplayRow
  <2>1. PICK outcome \in ReplayOutcomes :
            /\ Count(outcome)
            /\ network' = IF outcome = "raise" THEN "dead" ELSE network
    BY <1>2 DEF ReplayRow
  <2>2. outcome \in {"skip", "drop", "raise", "queue"} /\ network # "dead"
    BY <1>2, RowOutcomesKnown DEF ReplayRow
  <2> QED
    BY <2>1, <2>2, CountOne
<1>3. CASE /\ UNCHANGED counts
           /\ network' = "dead" <=> network = "dead"
    BY <1>3
<1>4. CASE Start \/ ReplayMissing \/ ReplayBegins \/ ReplayEnds \/ Join
    BY <1>4, <1>3 DEF Start, ReplayMissing, ReplayBegins, ReplayEnds, Join
<1>5. CASE \/ BrokerFlips \/ \E s \in {"online", "offline"} : PublishStatus(s)
           \/ OnConnect \/ OnRefused \/ OnDisconnect \/ OnStatus \/ TakeSnapshot
           \/ Show \/ StopBegins \/ Disconnect \/ UNCHANGED vars
    BY <1>5, <1>3 DEF BrokerFlips, PublishStatus, OnConnect, OnRefused, OnDisconnect,
        OnStatus, TakeSnapshot, Show, StopBegins, Disconnect, vars
<1> QED
    BY <1>1, <1>2, <1>4, <1>5 DEF Next

(* So the invariant holds throughout. *)
LEMMA Invariance == Spec => []IInv
<1>1. IInv /\ [Next]_vars => IInv'
    BY StepType, StepLink, StepReceiver, StepRows DEF IInv
<1> QED
    BY InitInv, <1>1, PTL DEF Spec

(* The type invariant. *)
THEOREM TypeCorrect == Spec => []TypeOK
<1>1. IInv => TypeOK
    BY DEF IInv
<1> QED
    BY Invariance, <1>1, PTL

(* However many messages arrive and however they are malformed, each of    *)
(* the sender's is counted exactly once (_on_message, _process_row).       *)
THEOREM EveryRowCounted == Spec => []RowsAccountedFor
<1>1. IInv => RowsAccountedFor
    BY DEF IInv
<1> QED
    BY Invariance, <1>1, PTL

(* MqttStatus is true to paho's connection, through any order of callbacks *)
(* and a stop at any moment, and its last status of the receiver is the    *)
(* one the broker retains.                                                 *)
THEOREM StatusIsTrue == Spec => []StatusTellsTheLink
<1>1. IInv => StatusTellsTheLink
    BY DEF IInv, LinkTold, ReceiverTold, LastStatus, StatusTellsTheLink
<1> QED
    BY Invariance, <1>1, PTL

=============================================================================
