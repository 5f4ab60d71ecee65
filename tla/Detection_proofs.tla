-------------------------- MODULE Detection_proofs --------------------------
(***************************************************************************)
(* Proofs about Detection, for every window, layout and number of firings, *)
(* with or without failures of the store.                                  *)
(*                                                                         *)
(* What makes an id name one detection for ever is a comparison of the two *)
(* views of the database: whatever the connection sees and the disk does   *)
(* not has an id beyond every id the disk ever gave out, and clients only  *)
(* know ids the disk has given out.                                        *)
(***************************************************************************)
EXTENDS Detection, SequenceTheorems, WellFoundedInduction, TLAPS

(* No two pairs of S share their first component, the event id. *)
OnePerId(S) == \A x, y \in S : x[1] = y[1] => x = y

StoreOK ==
    /\ view \in Database /\ disk \in Database
    /\ \A e \in view.events : e[1] <= view.lastId
    /\ \A e \in disk.events : e[1] <= disk.lastId
    /\ disk.lastId <= view.lastId
    /\ firings \in Nat
    /\ alerts \subseteq Nat \X Nat
    /\ job \in [at : {"idle", "insert", "commit", "broadcast"},
                by : {"none", "loop", "simulate"}, id : Nat]

(* The uncommitted part of the database. *)
ViewAhead ==
    /\ \A e \in view.events : e[1] <= disk.lastId => e \in disk.events
    /\ \A e \in disk.events : e \in view.events \/ e[1] \in deletions

JobRecorded ==
    /\ job.at = "commit" => <<job.id, firings>> \in view.events
    /\ job.at = "broadcast" => <<job.id, firings>> \in disk.events

(* What a client was alerted of is on disk. *)
Durable == \A a \in alerts : a \in disk.events \/ a[1] \in deletions

IInv ==
    /\ StoreOK
    /\ ViewAhead
    /\ JobRecorded
    /\ OnePerId(view.events)
    /\ OnePerId(alerts \cup disk.events)
    /\ \A a \in alerts : a[1] <= disk.lastId
    /\ Durable

(* The inductive invariant holds at the start ... *)
LEMMA InitInv == Init => IInv
BY DEF Init, IInv, StoreOK, ViewAhead, JobRecorded, OnePerId, Durable,
       Fresh, Idle, Database

(* What the connection sees could be committed now: no id a client knows   *)
(* would come to name another detection.                                   *)
LEMMA CommitKeepsIds == IInv => OnePerId(alerts \cup view.events)
BY DEF IInv, StoreOK, ViewAhead, OnePerId, Database

(* ... and no event a client knows would be lost but by a deletion. *)
LEMMA CommitKeepsAlerts ==
    IInv => \A a \in alerts : a \in view.events \/ a[1] \in deletions
BY DEF IInv, ViewAhead, Durable

(* Removing rows of an id from what the connection sees. *)
LEMMA WithoutShape ==
    ASSUME NEW db \in Database, NEW id
    PROVE  /\ Without(db, id) \in Database
           /\ Without(db, id).lastId = db.lastId
           /\ Without(db, id).events = {e \in db.events : e[1] # id}
BY DEF Without, Database

(* ... and every step keeps it. *)
LEMMA StepInv == IInv /\ [Next]_vars => IInv'
<1> SUFFICES ASSUME IInv, [Next]_vars PROVE IInv'
    OBVIOUS
<1> USE DEF IInv, StoreOK, ViewAhead, JobRecorded, OnePerId, Durable
<1>u. CASE UNCHANGED vars
    BY <1>u DEF vars
<1>1. CASE \E t \in Times, w \in Widths : AddCsi(t, w)
    BY <1>1 DEF AddCsi
<1>2. CASE LoopTick
  <2>1. CASE job' = job /\ firings' = firings
    BY <1>2, <2>1 DEF LoopTick
  <2>2. CASE Start("loop")
    BY <1>2, <2>2 DEF LoopTick, Start
  <2> QED
    BY <1>2, <2>1, <2>2 DEF LoopTick
<1>3. CASE Simulate
    BY <1>3 DEF Simulate, Start
<1>14. CASE LoopReadRaises
    BY <1>14 DEF LoopReadRaises
<1>4. CASE InsertOk
  <2> DEFINE new == <<view.lastId + 1, firings>>
  <2>0. /\ view.lastId \in Nat /\ disk.lastId \in Nat
        /\ \A e \in view.events : e \in Nat \X Nat
        /\ new \in Nat \X Nat
    BY DEF Database
  <2>a. view' = [view EXCEPT !.events = view.events \cup {new},
                             !.lastId = view.lastId + 1]
    BY <1>4 DEF InsertOk, NextId
  <2>1. /\ view' \in Database
        /\ view'.lastId = view.lastId + 1
        /\ view'.events = view.events \cup {new}
        /\ view.lastId \in Nat /\ disk.lastId \in Nat
        /\ \A e \in view.events : e \in Nat \X Nat
    BY <2>0, <2>a DEF Database
  <2>2. \A e \in view.events : e[1] # new[1]
    BY <2>1
  <2>3. StoreOK'
    BY <1>4, <2>1 DEF InsertOk, NextId, Database
  <2>4. ViewAhead'
    BY <1>4, <2>1 DEF InsertOk
  <2>5. JobRecorded'
    BY <1>4, <2>1 DEF InsertOk, NextId
  <2>6. OnePerId(view.events)'
    BY <1>4, <2>1, <2>2
  <2> QED
    BY <1>4, <2>3, <2>4, <2>5, <2>6 DEF InsertOk
<1>5. CASE InsertRaises
    BY <1>5 DEF InsertRaises, Raise, Idle
<1>6. CASE CommitOk
    BY <1>6, CommitKeepsIds, CommitKeepsAlerts DEF CommitOk, Database
<1>7. CASE CommitRaises
    BY <1>7 DEF CommitRaises, Raise, Idle, Database
<1>8. CASE Broadcast
    BY <1>8 DEF Broadcast, Idle, Database
<1>9. ASSUME NEW b \in BOOLEAN, SetEnabledOk(b) PROVE IInv'
  <2>1. /\ view' \in Database /\ disk' = view'
        /\ view'.lastId = view.lastId /\ view'.events = view.events
    BY <1>9 DEF SetEnabledOk, Database
  <2> QED
    BY <1>9, <2>1, CommitKeepsIds, CommitKeepsAlerts DEF SetEnabledOk, Database
<1>10. ASSUME NEW b \in BOOLEAN, SetEnabledRaises(b) PROVE IInv'
  <2>1. /\ view' \in Database
        /\ \/ view'.lastId = view.lastId /\ view'.events = view.events
           \/ view' = disk
    BY <1>10 DEF SetEnabledRaises, Database
  <2> QED
    BY <1>10, <2>1 DEF SetEnabledRaises, Database
<1>11. ASSUME NEW id, DeleteOk(id) PROVE IInv'
  <2>1. /\ view' \in Database /\ disk' = view'
        /\ view'.lastId = view.lastId
        /\ view'.events = {e \in view.events : e[1] # id}
    BY <1>11, WithoutShape DEF DeleteOk
  <2> QED
    BY <1>11, <2>1, CommitKeepsIds, CommitKeepsAlerts DEF DeleteOk, Database
<1>12. ASSUME NEW id, DeleteRaises(id) PROVE IInv'
  <2>1. /\ view' \in Database
        /\ \/ view' = view
           \/ /\ view'.lastId = view.lastId
              /\ view'.events = {e \in view.events : e[1] # id}
           \/ view' = disk
    BY <1>12, WithoutShape DEF DeleteRaises
  <2> QED
    BY <1>12, <2>1 DEF DeleteRaises, Database
<1>13. CASE CrashAndRestart
    BY <1>13 DEF CrashAndRestart, Idle, Database
<1> QED
    BY <1>u, <1>1, <1>2, <1>3, <1>4, <1>5, <1>6, <1>7, <1>8, <1>9, <1>10,
       <1>11, <1>12, <1>13, <1>14 DEF Next, TriggerStep

(* The inductive invariant holds always. *)
LEMMA Invariance == Spec => []IInv
BY InitInv, StepInv, PTL DEF Spec

(* Whatever a client was alerted of is durable and can be opened until     *)
(* some client asks to delete it (detection.py, trigger: the commit comes  *)
(* before the broadcast; detection_store.py, get_event).                   *)
THEOREM AlertsDurable == Spec => []AlertsAreDurable
<1>1. IInv => AlertsAreDurable
  <2> SUFFICES ASSUME IInv, NEW a \in alerts, a[1] \notin deletions
               PROVE  a \in disk.events /\ GetEvent(a[1]) = {a}
    BY DEF AlertsAreDurable
  <2>1. a \in disk.events
    BY DEF IInv, Durable
  <2>2. a \in view.events
    BY CommitKeepsAlerts
  <2>3. \A e \in view.events : e[1] = a[1] => e = a
    BY CommitKeepsIds DEF OnePerId
  <2> QED
    BY <2>1, <2>2, <2>3 DEF GetEvent
<1> QED
    BY <1>1, Invariance, PTL

(* An event id names one detection for ever (detection_store.py: the       *)
(* AUTOINCREMENT key, read back by insert_event).                          *)
THEOREM IdsUnique == Spec => []IdsNameOneDetection
<1>1. IInv => IdsNameOneDetection
    BY DEF IInv, OnePerId, IdsNameOneDetection
<1> QED
    BY <1>1, Invariance, PTL

(* The value of the toggle a client was last acknowledged is the one in    *)
(* force and the durable one (detection_store.py, set_enabled).            *)
ToggleInv ==
    /\ view \in Database /\ disk \in Database
    /\ unacked \subseteq BOOLEAN
    /\ ToggleInForce

THEOREM ToggleKept == Spec => []ToggleInForce
<1> USE DEF ToggleInv, ToggleInForce
<1>1. Init => ToggleInv
  <2>1. Fresh \in Database /\ Fresh.enabled = FALSE
    BY DEF Fresh, Database
  <2> QED
    BY <2>1 DEF Init
<1>2. IInv /\ IInv' /\ ToggleInv /\ [Next]_vars => ToggleInv'
  <2> SUFFICES ASSUME IInv', ToggleInv, [Next]_vars PROVE ToggleInv'
    OBVIOUS
  <2>0. view' \in Database /\ disk' \in Database
    BY DEF IInv, StoreOK
  <2>u. CASE UNCHANGED vars
    BY <2>u DEF vars
  <2>1. CASE InsertOk
    BY <2>0, <2>1 DEF InsertOk, Database
  <2>2. CASE CommitOk \/ CommitRaises
    BY <2>0, <2>2 DEF CommitOk, CommitRaises, Raise
  <2>3. ASSUME NEW b \in BOOLEAN, SetEnabledOk(b) PROVE ToggleInv'
    BY <2>0, <2>3 DEF SetEnabledOk, Database
  <2>4. ASSUME NEW b \in BOOLEAN, SetEnabledRaises(b) PROVE ToggleInv'
    BY <2>0, <2>4 DEF SetEnabledRaises
  <2>5. ASSUME NEW id, DeleteOk(id) \/ DeleteRaises(id) PROVE ToggleInv'
    BY <2>0, <2>5 DEF DeleteOk, DeleteRaises, Without, Database
  <2>6. CASE \/ \E t \in Times, w \in Widths : AddCsi(t, w)
             \/ LoopTick \/ LoopReadRaises \/ Simulate
             \/ InsertRaises \/ Broadcast
    BY <2>6 DEF AddCsi, LoopTick, LoopReadRaises, Simulate, InsertRaises, Broadcast
  <2>7. CASE CrashAndRestart
    BY <2>7 DEF CrashAndRestart
  <2> QED
    BY <2>u, <2>1, <2>2, <2>3, <2>4, <2>5, <2>6, <2>7 DEF Next, TriggerStep
<1>3. ToggleInv => ToggleInForce
    OBVIOUS
<1> QED
    BY <1>1, <1>2, <1>3, Invariance, PTL DEF Spec

(* After a client has switched detection off, the loop starts no firing    *)
(* (detection.py, run_trigger_loop: the toggle is read before trigger).    *)
THEOREM QuietOnceDisabled == Spec => QuietAfterDisable
<1>1. ToggleInForce /\ [Next]_vars =>
          [job.at = "idle" /\ job'.at = "insert" /\ job'.by = "loop"
               => acked \/ unacked # {}]_vars
  <2> SUFFICES ASSUME ToggleInForce, [Next]_vars,
                      job.at = "idle", job'.at = "insert", job'.by = "loop"
               PROVE  acked \/ unacked # {}
    OBVIOUS
  <2>u. CASE UNCHANGED vars
    BY <2>u DEF vars
  <2>1. CASE LoopTick
    BY <2>1 DEF LoopTick, ToggleInForce
  <2>2. CASE Simulate \/ LoopReadRaises
    BY <2>2 DEF Simulate, Start, LoopReadRaises
  <2>3. CASE TriggerStep
    BY <2>3 DEF TriggerStep, InsertOk, InsertRaises, CommitOk, CommitRaises, Broadcast
  <2>4. CASE CrashAndRestart
    BY <2>4 DEF CrashAndRestart, Idle
  <2>5. CASE \E t \in Times, w \in Widths : AddCsi(t, w)
    BY <2>5 DEF AddCsi
  <2>6. CASE \E b \in BOOLEAN : SetEnabledOk(b) \/ SetEnabledRaises(b)
    BY <2>6 DEF SetEnabledOk, SetEnabledRaises
  <2>7. CASE \E id \in 1 .. MaxFirings : DeleteOk(id) \/ DeleteRaises(id)
    BY <2>7 DEF DeleteOk, DeleteRaises
  <2> QED
    BY <2>u, <2>1, <2>2, <2>3, <2>4, <2>5, <2>6, <2>7 DEF Next
<1> QED
    BY <1>1, ToggleKept, PTL DEF Spec, QuietAfterDisable

(* What the type invariant rests on, the buffer apart. *)
Typed ==
    /\ DatabaseOK(view) /\ DatabaseOK(disk)
    /\ disk.lastId <= view.lastId
    /\ loopAlive \in BOOLEAN
    /\ job \in [at : {"idle", "insert", "commit", "broadcast"},
               by : {"none", "loop", "simulate"}, id : Nat]
    /\ firings \in 0 .. MaxFirings
    /\ alerts \subseteq Nat \X Nat
    /\ deletions \subseteq Nat
    /\ acked \in BOOLEAN /\ unacked \subseteq BOOLEAN
    /\ job.at # "idle" => firings >= 1

BufferOK == csi \in Seq([t : Times, w : Widths]) /\ Len(csi) <= MaxBuffered

(* A set of numbers that is not empty has a least one. *)
LEMMA LeastNumber ==
    ASSUME NEW T, T \subseteq Nat, T # {}
    PROVE  \E x \in T : \A y \in T : x <= y
<1>1. PICK x \in T : \A y \in T : ~ (<<y, x>> \in OpToRel(<, Nat))
    BY WFMin, NatLessThanWellFounded
<1>2. \A y \in T : ~ (y < x)
    BY <1>1 DEF OpToRel
<1> QED
    BY <1>2

(* Pruning leaves records that were there, and no more than the limit. *)
LEMMA AddBounded ==
    ASSUME NEW S, NEW s \in Seq(S), NEW r \in S, NEW held \in Nat, NEW limit \in Nat,
           \A x \in S : x.t \in Int
    PROVE  Add(s, r, held, limit) \in Seq(S) /\ Len(Add(s, r, held, limit)) <= limit
<1> DEFINE a == Append(s, r)
           n == Len(a)
           cutoff == r.t - held
           fresh == {i \in DOMAIN a : a[i].t >= cutoff}
           first == CHOOSE i \in fresh : \A j \in fresh : i <= j
           e == SubSeq(a, first, n)
<1>1. a \in Seq(S) /\ a # <<>> /\ n \in Nat \ {0} /\ a[n] = r
      /\ \A i \in 1 .. n : a[i] \in S
    BY AppendProperties
<1>2. Add(s, r, held, limit) = DropExcess(DropExpired(a, cutoff), limit)
    BY <1>1 DEF Add, Prune
<1>3. DOMAIN a = 1 .. n /\ r.t \in Int /\ cutoff \in Int /\ r.t >= cutoff
    BY <1>1
<1> HIDE DEF a, cutoff
<1>4. n \in fresh /\ fresh \subseteq 1 .. n
    BY <1>1, <1>3
<1>5. first \in fresh
  <2>1. fresh \subseteq Nat /\ fresh # {}
    BY <1>4
  <2> HIDE DEF fresh
  <2>3. \E i \in fresh : \A j \in fresh : i <= j
    BY <2>1, LeastNumber, Zenon
  <2> QED
    BY <2>3, Zenon
<1>6. DropExpired(a, cutoff) = e
    BY <1>4 DEF DropExpired
<1> HIDE DEF first
<1>7. e \in Seq(S) /\ Len(e) \in Nat /\ \A i \in 1 .. Len(e) : e[i] \in S
  <2>1. first \in 1 .. n
    BY <1>4, <1>5
  <2>2. first \in Int /\ n \in Int /\ \A i \in first .. n : a[i] \in S
    BY <1>1, <2>1
  <2>3. e \in Seq(S)
    BY <2>2, SubSeqProperties
  <2> HIDE DEF e
  <2> QED
    BY <2>3
<1> HIDE DEF e
<1>8. CASE Len(e) <= limit
    BY <1>2, <1>6, <1>7, <1>8 DEF DropExcess
<1>9. CASE Len(e) > limit
  <2>1. Add(s, r, held, limit) = SubSeq(e, Len(e) - limit + 1, Len(e))
    BY <1>2, <1>6, <1>7, <1>9 DEF DropExcess
  <2>2. \A i \in Len(e) - limit + 1 .. Len(e) : e[i] \in S
    BY <1>7, <1>9
  <2> QED
    BY <1>7, <1>9, <2>1, <2>2, SubSeqProperties
<1> QED
    BY <1>7, <1>8, <1>9

(* The rolling buffer stays bounded, whatever timestamps arrive. *)
LEMMA BufferStep == BufferOK /\ [Next]_vars => BufferOK'
<1> SUFFICES ASSUME BufferOK, [Next]_vars PROVE BufferOK'
    OBVIOUS
<1>1. ASSUME NEW t \in Times, NEW w \in Widths, AddCsi(t, w) PROVE BufferOK'
  <2> DEFINE S == [t : Times, w : Widths]
             r == [t |-> t, w |-> w]
  <2>1. csi \in Seq(S) /\ r \in S /\ \A x \in S : x.t \in Int
    BY DetectionAssumption DEF BufferOK, DetectionAssumption
  <2>2. Held \in Nat /\ MaxBuffered \in Nat
    BY DetectionAssumption DEF DetectionAssumption
  <2>3. csi' = Add(csi, r, Held, MaxBuffered)
    BY <1>1 DEF AddCsi
  <2> HIDE DEF S, r
  <2>4. /\ Add(csi, r, Held, MaxBuffered) \in Seq(S)
        /\ Len(Add(csi, r, Held, MaxBuffered)) <= MaxBuffered
    BY <2>1, <2>2, AddBounded
  <2> QED
    BY <2>3, <2>4 DEF BufferOK, S
<1>2. CASE CrashAndRestart
    BY <1>2, EmptySeq, DetectionAssumption
    DEF CrashAndRestart, BufferOK, DetectionAssumption
<1>3. CASE csi' = csi
    BY <1>3 DEF BufferOK
<1>4. CASE LoopTick \/ LoopReadRaises \/ Simulate \/ TriggerStep \/ UNCHANGED vars
    BY <1>3, <1>4 DEF LoopTick, LoopReadRaises, Simulate, TriggerStep, InsertOk,
        InsertRaises, CommitOk, CommitRaises, Broadcast, vars
<1>5. CASE \/ \E b \in BOOLEAN : SetEnabledOk(b) \/ SetEnabledRaises(b)
           \/ \E id \in 1 .. MaxFirings : DeleteOk(id) \/ DeleteRaises(id)
    BY <1>3, <1>5 DEF SetEnabledOk, SetEnabledRaises, DeleteOk, DeleteRaises
<1> QED
    BY <1>1, <1>2, <1>4, <1>5 DEF Next

(* Every other variable keeps its type. *)
LEMMA TypedStep == Typed /\ [Next]_vars => Typed'
<1> SUFFICES ASSUME Typed, [Next]_vars PROVE Typed'
    OBVIOUS
<1> USE DetectionAssumption DEF Typed, DatabaseOK, Database, DetectionAssumption
<1>u. CASE UNCHANGED vars
    BY <1>u DEF vars
<1>1. ASSUME NEW t, NEW w, AddCsi(t, w) PROVE Typed'
    BY <1>1 DEF AddCsi
<1>2. CASE LoopTick
  <2>1. CASE SnapshotRaises
    BY <1>2, <2>1 DEF LoopTick
  <2>2. CASE ~ SnapshotRaises
    <3>1. /\ job' = [at |-> "insert", by |-> "loop", id |-> 0]
          /\ firings' = firings + 1 /\ firings < MaxFirings
          /\ UNCHANGED <<loopAlive, view, disk, alerts, deletions, acked, unacked>>
      BY <1>2, <2>2 DEF LoopTick, Start
    <3> QED
      BY <3>1
  <2> QED
    BY <2>1, <2>2
<1>3. CASE LoopReadRaises
    BY <1>3 DEF LoopReadRaises
<1>4. CASE Simulate
    BY <1>4 DEF Simulate, Start
<1>5. CASE InsertOk
  <2> DEFINE row == <<view.lastId + 1, firings>>
  <2>0. row \in Nat \X Nat
    BY <1>5 DEF InsertOk
  <2>1. /\ view' \in Database
        /\ view'.events = view.events \cup {row}
        /\ view'.lastId = view.lastId + 1
    <3>1. view' = [view EXCEPT !.events = @ \cup {row}, !.lastId = view.lastId + 1]
      BY <1>5 DEF InsertOk, NextId
    <3> HIDE DEF row
    <3>2. view' = [enabled |-> view.enabled, events |-> view.events \cup {row},
                   lastId |-> view.lastId + 1]
      BY <3>1
    <3>3. view.events \cup {row} \in SUBSET (Nat \X Nat)
      BY <2>0
    <3> QED
      BY <3>2, <3>3
  <2>2. row[1] \in 1 .. view'.lastId /\ row[2] \in 1 .. firings
    BY <1>5, <2>1 DEF InsertOk
  <2>3. \A e \in view.events : e[1] \in 1 .. view'.lastId /\ e[2] \in 1 .. firings
    BY <2>1
  <2>4. /\ job' \in [at : {"idle", "insert", "commit", "broadcast"},
                     by : {"none", "loop", "simulate"}, id : Nat]
        /\ job'.at = "commit" /\ firings >= 1
        /\ UNCHANGED <<disk, loopAlive, firings, alerts, deletions, acked, unacked>>
    BY <1>5 DEF InsertOk, NextId
  <2> HIDE DEF row
  <2> QED
    BY <2>1, <2>2, <2>3, <2>4
<1>6. CASE InsertRaises
    BY <1>6 DEF InsertRaises, Raise, Idle
<1>7. CASE CommitOk
    BY <1>7 DEF CommitOk
<1>8. CASE CommitRaises
    BY <1>8 DEF CommitRaises, Raise, Idle
<1>9. CASE Broadcast
    BY <1>9 DEF Broadcast, Idle
<1>10. ASSUME NEW b \in BOOLEAN, SetEnabledOk(b) PROVE Typed'
    BY <1>10 DEF SetEnabledOk
<1>11. ASSUME NEW b \in BOOLEAN, SetEnabledRaises(b) PROVE Typed'
    BY <1>11 DEF SetEnabledRaises
<1>12. ASSUME NEW id \in 1 .. MaxFirings, DeleteOk(id) PROVE Typed'
    BY <1>12 DEF DeleteOk, Without
<1>13. ASSUME NEW id \in 1 .. MaxFirings, DeleteRaises(id) PROVE Typed'
    BY <1>13 DEF DeleteRaises, Without
<1>14. CASE CrashAndRestart
    BY <1>14 DEF CrashAndRestart, Idle
<1> QED
    BY <1>u, <1>1, <1>2, <1>3, <1>4, <1>5, <1>6, <1>7, <1>8, <1>9, <1>10,
       <1>11, <1>12, <1>13, <1>14 DEF Next, TriggerStep

(* The type invariant: among others the buffer is never longer than        *)
(* _MAX_CSI_BUFFERED and no row has an id that was not given out.          *)
THEOREM TypeCorrect == Spec => []TypeOK
<1>1. Init => BufferOK
    BY EmptySeq, DetectionAssumption DEF Init, BufferOK, DetectionAssumption
<1>2. Init => Typed
  <2> SUFFICES ASSUME Init PROVE Typed
    OBVIOUS
  <2>1. DatabaseOK(Fresh) /\ Fresh.lastId = 0
    BY DEF DatabaseOK, Database, Fresh
  <2>2. view = Fresh /\ disk = Fresh
    BY DEF Init
  <2>3. DatabaseOK(view) /\ DatabaseOK(disk) /\ disk.lastId <= view.lastId
    BY <2>1, <2>2
  <2>4. 0 \in 0 .. MaxFirings
    BY DetectionAssumption DEF DetectionAssumption
  <2> QED
    BY <2>3, <2>4 DEF Init, Typed, Idle
<1>3. BufferOK /\ Typed => TypeOK
    BY DEF BufferOK, Typed, TypeOK
<1> QED
    BY <1>1, <1>2, <1>3, BufferStep, TypedStep, PTL DEF Spec

=============================================================================
