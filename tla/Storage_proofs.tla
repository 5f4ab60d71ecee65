--------------------------- MODULE Storage_proofs ---------------------------
(***************************************************************************)
(* Proofs about Storage, for any series, retentions, numbers of retries,   *)
(* sizes of row groups and numbers of readings and faults.                 *)
(*                                                                         *)
(* A reading that is owed is due (neither old nor expired); InfluxDB keeps *)
(* one point for a measurement, a set of tags and a time, and a deletion   *)
(* looks at no more than these, so whatever point stands for the reading   *)
(* is due as well and no deletion takes it.                                *)
(*                                                                         *)
(* No two rows of a table are of one time, since there is one point for a  *)
(* measurement, a set of tags and a time, however often it was sent.  So   *)
(* the number of rows before a row numbers the rows of a table from 0, and *)
(* the limit leaves exactly n.  A row with fewer than n others before it   *)
(* in all tables together has fewer than n before it in its own.           *)
(* An export: any finite set of rows can be listed in the   *)
(* order of time, the last n of the list are what is asked for, and the    *)
(* row groups one after another are that list again.  These facts about    *)
(* sequences of any length are proved by a least counterexample.           *)
(***************************************************************************)
EXTENDS Storage, FiniteSetTheorems, SequenceTheorems, WellFoundedInduction, TLAPS

-----------------------------------------------------------------------------
(* A point that is sent again takes the place of the first. *)
OnePointPerKey == \A p, q \in stored : Key(p) = Key(q) => p = q

(* Nothing has gone that is still owed, and what is owed is due. *)
Inv ==
    /\ TypeOK
    /\ IsFiniteSet(stored)
    /\ OnePointPerKey
    /\ \A r \in owed : Due(r, day)
    /\ ReadingsKeptUntilOld

(* The constants. *)
LEMMA Constants ==
    /\ Series \subseteq Nat \ {0}
    /\ CsiDays \in Nat /\ BucketDays \in Nat /\ MaxRetries \in Nat
    /\ MaxDay \in Nat /\ MaxReadings \in Nat /\ MaxFaults \in Nat
    /\ BatchRows \in Nat \ {0}
    /\ BucketDays < MaxDay
BY StorageAssumption

(* What a reading is. *)
LEMMA PointFields ==
    ASSUME NEW p \in Point
    PROVE  /\ p = [kind |-> p.kind, series |-> p.series, time |-> p.time, width |-> p.width]
           /\ p.kind \in {"csi", "smoke"}
           /\ p.time \in Nat /\ p.width \in {1, 2}
           /\ p.kind = "csi" => p.series \in Series
           /\ \A w \in {1, 2} : p.kind = "csi" \/ w = 1 => [p EXCEPT !.width = w] \in Point
           /\ p.kind = "smoke" => p.width = 1
BY Constants DEF Point, Reading

(* What a write adds to the bucket. *)
LEMMA StoreStep ==
    ASSUME TypeOK, IsFiniteSet(stored), OnePointPerKey, NEW r \in Point, Store(r)
    PROVE  /\ stored' \subseteq Point /\ IsFiniteSet(stored') /\ OnePointPerKey'
           /\ \A p \in stored : \E q \in stored' : Key(q) = Key(p) /\ q.width >= p.width
           /\ ~ Expired(r, day) => \E q \in stored' : Key(q) = Key(r) /\ q.width >= r.width
<1> DEFINE same == {p \in stored : Key(p) = Key(r)}
           widths == {p.width : p \in same \cup {r}}
           w == CHOOSE w \in widths : \A p \in same \cup {r} : p.width <= w
           new == [r EXCEPT !.width = w]
<1>0. stored \subseteq Point
  BY DEF TypeOK
<1>1. CASE Expired(r, day)
  <2>1. stored' = stored
    BY <1>1 DEF Store
  <2>2. \A p \in stored : p.width \in {1, 2}
    BY <1>0, PointFields
  <2>3. OnePointPerKey'
    BY <2>1 DEF OnePointPerKey, Key
  <2> QED
    BY <1>0, <1>1, <2>1, <2>2, <2>3
<1>2. CASE ~ Expired(r, day)
  <2>1. stored' = (stored \ same) \cup {new}
    BY <1>2 DEF Store
  <2>2. /\ w \in {1, 2} /\ \A p \in same \cup {r} : p.width <= w
        /\ \E p \in same \cup {r} : p.width = w
    <3>1. \A p \in same \cup {r} : p.width \in {1, 2}
      BY <1>0, PointFields
    <3>2. \E v \in widths : \A p \in same \cup {r} : p.width <= v
      <4>1. CASE 2 \in widths
        BY <3>1, <4>1
      <4>2. CASE 2 \notin widths
        BY <3>1, <4>2
      <4> QED
        BY <4>1, <4>2
    <3>3. w \in widths /\ \A p \in same \cup {r} : p.width <= w
      <4> HIDE DEF widths, same
      <4> QED
        BY <3>2
    <3> QED
      BY <3>1, <3>3
  <2> HIDE DEF w
  <2>3. \A p \in same \cup {r} : Key(p) = Key(r) /\ p.kind = r.kind
    BY DEF Key
  <2>4. new \in Point /\ Key(new) = Key(r) /\ new.width = w
    <3>1. r.kind = "csi" \/ w = 1
      BY <1>0, <2>2, <2>3, PointFields
    <3>2. new \in Point
      BY <2>2, <3>1, PointFields
    <3> QED
      BY PointFields, <3>2 DEF Key
  <2>5. IsFiniteSet(stored')
    <3>1. IsFiniteSet(stored \ same)
      BY FS_Subset
    <3> HIDE DEF new, same
    <3> QED
      BY <2>1, <3>1, FS_AddElement
  <2>6. \A p \in stored : \E q \in stored' : Key(q) = Key(p) /\ q.width >= p.width
    <3> SUFFICES ASSUME NEW p \in stored
                 PROVE  \E q \in stored' : Key(q) = Key(p) /\ q.width >= p.width
      OBVIOUS
    <3>1. CASE p \in same
      BY <2>1, <2>2, <2>3, <2>4, <3>1, <1>0, PointFields
    <3>2. CASE p \notin same
      <4>1. p \in stored' /\ p.width \in {1, 2}
        BY <2>1, <3>2, <1>0, PointFields
      <4> QED
        BY <4>1
    <3> QED
      BY <3>1, <3>2
  <2>7. \E q \in stored' : Key(q) = Key(r) /\ q.width >= r.width
    BY <2>1, <2>2, <2>4, PointFields
  <2>8. OnePointPerKey'
    <3>1. \A p \in stored \ same : Key(p) # Key(new)
      BY <2>4
    <3> HIDE DEF same, new
    <3>2. \A p, q \in stored' : Key(p) = Key(q) => p = q
      BY <2>1, <3>1 DEF OnePointPerKey
    <3> QED
      BY <3>2 DEF OnePointPerKey, Key
  <2> QED
    BY <1>0, <2>1, <2>4, <2>5, <2>6, <2>7, <2>8
<1> QED
  BY <1>1, <1>2

(* The inductive invariant holds at the start ... *)
LEMMA InitInv == Init => Inv
<1> SUFFICES ASSUME Init PROVE Inv
  OBVIOUS
<1>1. TypeOK
  <2>1. bucket \in BOOLEAN
    BY Zenon DEF Init
  <2> QED
    BY <2>1, Constants DEF Init, TypeOK
<1>2. IsFiniteSet(stored)
  BY FS_EmptySet DEF Init
<1> QED
  BY <1>1, <1>2 DEF Init, Inv, OnePointPerKey, ReadingsKeptUntilOld

(* Deleting points that are not due keeps it: a point takes the place of   *)
(* every reading of its measurement, its tags and its time.                *)
LEMMA DeleteInv ==
    ASSUME Inv, NEW S, S \subseteq stored, stored' = S,
           \A p \in stored : p \notin S => ~ Due(p, day),
           UNCHANGED <<server, client, pending, taken, faults, owed>>
    PROVE  Inv'
<1>1. TypeOK'
  BY DEF Inv, TypeOK, server
<1>2. IsFiniteSet(stored')
  BY FS_Subset DEF Inv
<1>3. \A r \in owed' : Due(r, day')
  BY DEF Inv, server
<1>4. ReadingsKeptUntilOld'
  <2> SUFFICES ASSUME NEW r \in owed,
                      ~ \E b \in pending : b.reading = r
               PROVE  \E p \in S : Key(p) = Key(r) /\ p.width >= r.width
    BY DEF ReadingsKeptUntilOld
  <2>1. PICK p \in stored : Key(p) = Key(r) /\ p.width >= r.width
    BY DEF Inv, ReadingsKeptUntilOld
  <2>2. Due(r, day)
    BY DEF Inv
  <2>3. Due(p, day)
    BY <2>1, <2>2 DEF Due, Expired, Key
  <2> QED
    BY <2>1, <2>3
<1>5. OnePointPerKey'
  <2>1. \A p, q \in S : Key(p) = Key(q) => p = q
    BY DEF Inv, OnePointPerKey
  <2> QED
    BY <2>1 DEF OnePointPerKey, Key
<1> QED
  BY <1>1, <1>2, <1>3, <1>4, <1>5 DEF Inv

(* ... and every step keeps it. *)
LEMMA StepInv == Inv /\ [Next]_vars => Inv'
<1> SUFFICES ASSUME Inv, [Next]_vars PROVE Inv'
  OBVIOUS
<1> USE Constants
<1>0. /\ TypeOK /\ IsFiniteSet(stored) /\ (\A r \in owed : Due(r, day))
      /\ ReadingsKeptUntilOld /\ OnePointPerKey
  BY DEF Inv
<1>k. UNCHANGED stored => OnePointPerKey'
  BY <1>0 DEF OnePointPerKey, Key
<1>u. CASE UNCHANGED vars
  BY <1>0, <1>k, <1>u DEF vars, server, Inv, TypeOK, ReadingsKeptUntilOld
<1>1. CASE ServerFails \/ ServerReturns
  <2>1. TypeOK'
    <3>1. serverUp' \in BOOLEAN
      BY <1>1, Zenon DEF ServerFails, ServerReturns
    <3> QED
      BY <1>0, <1>1, <3>1 DEF ServerFails, ServerReturns, Fault, TypeOK
  <2>2. UNCHANGED <<day, pending, stored, owed>>
    BY <1>1 DEF ServerFails, ServerReturns
  <2> QED
    BY <1>0, <1>k, <2>1, <2>2 DEF Inv, ReadingsKeptUntilOld
<1>2. CASE DayPasses
  BY <1>0, <1>k, <1>2 DEF DayPasses, Inv, TypeOK, ReadingsKeptUntilOld
<1>3. CASE Expire
  BY <1>3, DeleteInv DEF Expire, Due
<1>4. CASE Cleanup \/ CleanupNow
  <2>1. \A p \in stored : p.time \in Nat
    <3>1. \A p \in stored : p \in Point
      BY <1>0 DEF TypeOK
    <3> QED
      BY <3>1, PointFields
  <2>2. day \in Int
    BY <1>0 DEF TypeOK
  <2>3. \A p \in stored : Old(p, day) => ~ Due(p, day)
    BY <2>1, <2>2 DEF Old, Due
  <2> QED
    BY <1>4, <2>3, DeleteInv DEF Cleanup, CleanupNow, DeleteOlderThan
<1>5. CASE Connect
  BY <1>0, <1>k, <1>5 DEF Connect, Fault, Inv, TypeOK, ReadingsKeptUntilOld
<1>6. CASE Write
  <2>1. PICK r \in Reading(day) :
            /\ pending' = pending \cup {[reading |-> r, tries |-> 0]}
            /\ owed' = IF Due(r, day) THEN owed \cup {r} ELSE owed
    BY <1>6 DEF Write
  <2>2. r \in Point
    BY <1>0 DEF TypeOK, Point
  <2>3. TypeOK'
    BY <1>0, <1>6, <2>1, <2>2 DEF Write, TypeOK, server
  <2>4. \A s \in owed' : Due(s, day')
    BY <1>0, <1>6, <2>1 DEF Write, server
  <2>5. ReadingsKeptUntilOld'
    <3> SUFFICES ASSUME NEW o \in owed',
                        ~ \E b \in pending' : b.reading = o
                 PROVE  \E q \in stored' : Key(q) = Key(o) /\ q.width >= o.width
      BY DEF ReadingsKeptUntilOld
    <3>1. stored' = stored /\ pending \subseteq pending' /\ o \in owed \cup {r}
      BY <1>6, <2>1 DEF Write
    <3>2. [reading |-> r, tries |-> 0] \in pending'
      BY <2>1
    <3>3. o # r
      BY <3>2
    <3> QED
      BY <1>0, <3>1, <3>3 DEF ReadingsKeptUntilOld
  <2> QED
    BY <1>0, <1>k, <1>6, <2>3, <2>4, <2>5 DEF Write, Inv
<1>7. ASSUME NEW b \in pending, SendOk(b) PROVE Inv'
  <2> DEFINE r == b.reading
  <2>1. r \in Point
    BY <1>0 DEF TypeOK
  <2>2. /\ stored' \subseteq Point /\ IsFiniteSet(stored') /\ OnePointPerKey'
        /\ \A p \in stored : \E q \in stored' : Key(q) = Key(p) /\ q.width >= p.width
        /\ ~ Expired(r, day) => \E q \in stored' : Key(q) = Key(r) /\ q.width >= r.width
    BY <1>0, <1>7, <2>1, StoreStep DEF SendOk
  <2>3. TypeOK'
    BY <1>0, <1>7, <2>2 DEF SendOk, TypeOK, server
  <2>4. ReadingsKeptUntilOld'
    <3> SUFFICES ASSUME NEW o \in owed,
                        ~ \E c \in pending' : c.reading = o
                 PROVE  \E q \in stored' : Key(q) = Key(o) /\ q.width >= o.width
      BY <1>7 DEF SendOk, ReadingsKeptUntilOld
    <3>1. CASE o = r
      BY <1>0, <2>2, <3>1 DEF Due
    <3>2. CASE o # r
      <4>1. PICK p \in stored : Key(p) = Key(o) /\ p.width >= o.width
        BY <1>0, <1>7, <3>2 DEF SendOk, ReadingsKeptUntilOld
      <4>2. PICK q \in stored' : Key(q) = Key(p) /\ q.width >= p.width
        BY <2>2
      <4>3. o \in Point /\ p \in Point /\ q \in Point
        BY <1>0, <2>2 DEF TypeOK
      <4>4. {o.width, p.width, q.width} \subseteq {1, 2}
        BY <4>3, PointFields
      <4> QED
        BY <4>1, <4>2, <4>4
    <3> QED
      BY <3>1, <3>2
  <2> QED
    BY <1>0, <1>7, <2>2, <2>3, <2>4 DEF SendOk, Inv, server
<1>8. ASSUME NEW b \in pending, SendFails(b) PROVE Inv'
  <2> DEFINE r == b.reading
  <2>1. r \in Point /\ b \in [reading : Point, tries : 0 .. MaxRetries]
    BY <1>0 DEF TypeOK
  <2>2. /\ stored' \subseteq Point /\ IsFiniteSet(stored') /\ OnePointPerKey'
        /\ \A p \in stored : \E q \in stored' : Key(q) = Key(p) /\ q.width >= p.width
    <3>1. CASE UNCHANGED stored
      <4>1. \A p \in stored : p.width \in {1, 2}
        BY <1>0, PointFields DEF TypeOK
      <4> QED
        BY <1>0, <1>k, <3>1, <4>1 DEF TypeOK
    <3>2. CASE Store(r)
      BY <1>0, <2>1, <3>2, StoreStep
    <3> QED
      BY <1>8, <3>1, <3>2 DEF SendFails
  <2>3. pending' \subseteq [reading : Point, tries : 0 .. MaxRetries]
    BY <1>0, <1>8, <2>1 DEF SendFails, Again, TypeOK
  <2>4. TypeOK'
    BY <1>0, <1>8, <2>2, <2>3 DEF SendFails, Fault, TypeOK, server
  <2>5. ReadingsKeptUntilOld'
    <3> SUFFICES ASSUME NEW o \in owed',
                        ~ \E c \in pending' : c.reading = o
                 PROVE  \E q \in stored' : Key(q) = Key(o) /\ q.width >= o.width
      BY DEF ReadingsKeptUntilOld
    <3>1. o \in owed /\ ~ \E c \in pending : c.reading = o
      <4>1. CASE b.tries < MaxRetries
        <5>1. pending' = (pending \ {b}) \cup {[b EXCEPT !.tries = @ + 1]}
          BY <1>8, <4>1 DEF SendFails, Again
        <5>2. [b EXCEPT !.tries = @ + 1].reading = r
          BY <2>1
        <5> QED
          BY <1>8, <4>1, <5>1, <5>2 DEF SendFails
      <4>2. CASE ~ b.tries < MaxRetries
        BY <1>8, <4>2 DEF SendFails, Again
      <4> QED
        BY <4>1, <4>2
    <3>2. PICK p \in stored : Key(p) = Key(o) /\ p.width >= o.width
      BY <1>0, <3>1 DEF ReadingsKeptUntilOld
    <3>3. PICK q \in stored' : Key(q) = Key(p) /\ q.width >= p.width
      BY <2>2
    <3>4. o \in Point /\ p \in Point /\ q \in Point
      BY <1>0, <2>2, <3>1 DEF TypeOK
    <3>5. {o.width, p.width, q.width} \subseteq {1, 2}
      BY <3>4, PointFields
    <3> QED
      BY <3>2, <3>3, <3>5
  <2>6. \A o \in owed' : Due(o, day')
    BY <1>0, <1>8 DEF SendFails, server
  <2> QED
    BY <2>2, <2>4, <2>5, <2>6 DEF Inv
<1>9. ASSUME NEW b \in pending, SendRefused(b) PROVE Inv'
  BY <1>0, <1>k, <1>9 DEF SendRefused, server, Inv, TypeOK, ReadingsKeptUntilOld
<1>10. CASE Shutdown \/ Closed
  BY <1>0, <1>k, <1>10 DEF Shutdown, Closed, Fault, server, Inv, TypeOK, ReadingsKeptUntilOld
<1>11. CASE Crash
  BY <1>0, <1>k, <1>11 DEF Crash, Fault, server, Inv, TypeOK, ReadingsKeptUntilOld
<1> QED
  BY <1>u, <1>1, <1>2, <1>3, <1>4, <1>5, <1>6, <1>7, <1>8, <1>9, <1>10, <1>11 DEF Next

(* Whatever happens, every variable keeps its type. *)
THEOREM TypeCorrect == Spec => []TypeOK
<1>1. Inv => TypeOK
  BY DEF Inv
<1> QED
  BY InitInv, StepInv, <1>1, PTL DEF Spec

(* A reading that was accepted stays in InfluxDB, or on its way there,     *)
(* until it is old, unless all tries failed, there was no bucket or the    *)
(* backend crashed: delete_older_than, a second write of the same point, a *)
(* retry or a restart never takes it.                                      *)
THEOREM KeptUntilOld == Spec => []ReadingsKeptUntilOld
<1>1. Inv => ReadingsKeptUntilOld
  BY DEF Inv
<1> QED
  BY InitInv, StepInv, <1>1, PTL DEF Spec

-----------------------------------------------------------------------------
(* A set of numbers that is not empty has a least one. *)
LEMMA LeastNumber ==
    ASSUME NEW T, T \subseteq Nat, T # {}
    PROVE  \E x \in T : \A y \in T : x <= y
<1>1. PICK x \in T : \A y \in T : ~ (<<y, x>> \in OpToRel(<, Nat))
  BY WFMin, NatLessThanWellFounded
<1>2. \A y \in T : ~ (y < x)
  BY <1>1 DEF OpToRel
<1> QED
  BY <1>2

(* A function on 1 .. n is a sequence. *)
LEMMA SequenceOf ==
    ASSUME NEW S, NEW n \in Nat, NEW f \in [1 .. n -> S]
    PROVE  f \in Seq(S) /\ Len(f) = n
<1>1. f \in Seq(S)
  BY SeqDef
<1>2. Len(f) \in Nat /\ DOMAIN f = 1 .. Len(f)
  BY <1>1, LenProperties
<1>3. 1 .. Len(f) = 1 .. n
  BY <1>2
<1> QED
  BY <1>1, <1>2, <1>3

(* The value of FlattenSeq, by its recursive definition. *)
LEMMA FlattenedBy ==
    ASSUME NEW seqs, NEW w, Len(seqs) \in Nat \ {0},
           w[1] = seqs[1],
           \A i \in 2 .. Len(seqs) : w[i] = w[i - 1] \o seqs[i]
    PROVE  FlattenSeq(seqs) = w[Len(seqs)]
<1> DEFINE n == Len(seqs)
           flatten[i \in 1 .. Len(seqs)] ==
               IF i = 1 THEN seqs[i] ELSE flatten[i - 1] \o seqs[i]
<1>1. FlattenSeq(seqs) = flatten[n]
  BY DEF FlattenSeq
<1>2. flatten = [i \in 1 .. Len(seqs) |->
                    IF i = 1 THEN seqs[i] ELSE flatten[i - 1] \o seqs[i]]
  <2> DEFINE v == [i \in 1 .. Len(seqs) |-> w[i]]
             next == [i \in 1 .. Len(seqs) |->
                          IF i = 1 THEN seqs[i] ELSE v[i - 1] \o seqs[i]]
  <2>1. ASSUME NEW i \in 1 .. Len(seqs) PROVE v[i] = next[i]
    <3>1. CASE i = 1
      BY <3>1
    <3>2. CASE i # 1
      <4>1. i \in 2 .. Len(seqs) /\ i - 1 \in 1 .. Len(seqs)
        BY <3>2
      <4> QED
        BY <4>1
    <3> QED
      BY <3>1, <3>2
  <2>2. v = next
    BY <2>1
  <2> HIDE DEF v
  <2> QED
    BY <2>2, Zenon
<1> HIDE DEF flatten
<1> DEFINE differ == {i \in 1 .. n : flatten[i] # w[i]}
<1>3. differ = {}
  <2> SUFFICES ASSUME differ # {} PROVE FALSE
    OBVIOUS
  <2>1. PICK i \in differ : \A j \in differ : i <= j
    <3>1. differ \subseteq Nat
      OBVIOUS
    <3> HIDE DEF differ
    <3> QED
      BY <3>1, LeastNumber
  <2>2. i \in 1 .. n /\ n \in Nat
    OBVIOUS
  <2>3. CASE i = 1
    BY <1>2, <2>2, <2>3
  <2>4. CASE i > 1
    <3>1. i - 1 \in 1 .. n /\ i - 1 \notin differ
      BY <2>1, <2>2, <2>4
    <3>2. flatten[i - 1] = w[i - 1]
      BY <3>1
    <3>3. flatten[i] = flatten[i - 1] \o seqs[i]
      BY <1>2, <2>2, <2>4
    <3>4. w[i] = w[i - 1] \o seqs[i]
      <4>1. i \in 2 .. Len(seqs)
        BY <2>2, <2>4
      <4> QED
        BY <4>1
    <3> QED
      BY <2>1, <3>2, <3>3, <3>4
  <2> QED
    BY <2>2, <2>3, <2>4
<1>4. flatten[n] = w[n]
  <2>1. n \in 1 .. n
    OBVIOUS
  <2> QED
    BY <1>3, <2>1
<1> QED
  BY <1>1, <1>4

(* Cutting rows into row groups loses none. *)
LEMMA RowGroupsHoldTheRows ==
    ASSUME NEW S, NEW rows \in Seq(S)
    PROVE  FlattenSeq(RowGroups(rows)) = rows
<1> DEFINE n == Len(rows)
           B == BatchRows
           G == (n + B - 1) \div B
           To(g) == IF g * B < n THEN g * B ELSE n
           Group(g) == SubSeq(rows, (g - 1) * B + 1, To(g))
           groups == RowGroups(rows)
           w == [g \in 1 .. G |-> SubSeq(rows, 1, To(g))]
<1>1. n \in Nat /\ B \in Nat \ {0}
  BY StorageAssumption
<1>2. G \in Nat /\ n <= G * B /\ (n > 0 => (G - 1) * B < n) /\ (n = 0 => G = 0)
  BY <1>1
<1>3. groups = [g \in 1 .. G |-> Group(g)]
  BY DEF RowGroups
<1> HIDE DEF groups, G, B
<1>4. \A g \in Nat : g * B \in Nat
  BY <1>1
<1>5. \A g \in 1 .. G : (g - 1) * B < n /\ (g - 1) * B \in Nat
  <2> SUFFICES ASSUME NEW g \in 1 .. G PROVE (g - 1) * B < n /\ (g - 1) * B \in Nat
    OBVIOUS
  <2>1. g - 1 \in Nat /\ G - 1 \in Nat /\ g - 1 <= G - 1 /\ n > 0
    BY <1>1, <1>2
  <2>2. (g - 1) * B <= (G - 1) * B /\ (g - 1) * B \in Nat /\ (G - 1) * B \in Nat
    BY <1>1, <2>1
  <2> QED
    BY <1>1, <1>2, <2>1, <2>2
<1>6. \A g \in 1 .. G : To(g) \in 0 .. n
  BY <1>1, <1>2, <1>4
<1>7. \A g \in 1 .. G : Group(g) \in Seq(S)
  <2> SUFFICES ASSUME NEW g \in 1 .. G PROVE Group(g) \in Seq(S)
    OBVIOUS
  <2>1. \A i \in (g - 1) * B + 1 .. To(g) : rows[i] \in S
    BY <1>1, <1>5, <1>6
  <2> QED
    BY <1>5, <1>6, <2>1, SubSeqProperties
<1>8. groups \in Seq(Seq(S)) /\ Len(groups) = G
  <2>1. groups \in [1 .. G -> Seq(S)]
    BY <1>3, <1>7
  <2> QED
    BY <1>2, <2>1, SequenceOf
<1>9. CASE n = 0
  <2>1. Len(groups) = 0 /\ groups = <<>> /\ rows = <<>>
    BY <1>2, <1>8, <1>9, EmptySeq
  <2>2. FlattenSeq(groups) = groups
    BY <2>1 DEF FlattenSeq
  <2> QED
    BY <2>1, <2>2 DEF groups
<1>10. CASE n > 0
  <2>1. G \in Nat \ {0}
    BY <1>1, <1>2, <1>10
  <2>2. w[1] = groups[1]
    <3>1. (1 - 1) * B + 1 = 1
      BY <1>1
    <3> QED
      BY <1>3, <2>1, <3>1
  <2>3. ASSUME NEW g \in 2 .. G PROVE w[g] = w[g - 1] \o groups[g]
    <3>1. g \in 1 .. G /\ g - 1 \in 1 .. G
      BY <2>1
    <3>2. To(g - 1) = (g - 1) * B
      BY <1>5, <3>1
    <3>3. (g - 1) * B <= To(g)
      <4>1. (g - 1) * B <= g * B
        BY <1>1, <3>1
      <4> QED
        BY <1>5, <3>1, <4>1
    <3> DEFINE k == (g - 1) * B
               e == To(g)
    <3>4. 1 \in 1 .. Len(rows) + 1 /\ k \in 1 - 1 .. Len(rows) /\ e \in k .. Len(rows)
      BY <1>1, <1>5, <1>6, <3>1, <3>3
    <3>5. w[g - 1] = SubSeq(rows, 1, k) /\ w[g] = SubSeq(rows, 1, e)
      BY <3>1, <3>2
    <3>6. groups[g] = SubSeq(rows, k + 1, e)
      BY <1>3, <3>1
    <3> HIDE DEF k, e, w
    <3>7. SubSeq(rows, 1, k) \o SubSeq(rows, k + 1, e) = SubSeq(rows, 1, e)
      BY <3>4, ConcatAdjacentSubSeq
    <3> QED
      BY <3>5, <3>6, <3>7
  <2>4. FlattenSeq(groups) = w[G]
    <3> HIDE DEF w
    <3> QED
      BY <1>8, <2>1, <2>2, <2>3, FlattenedBy
  <2>5. To(G) = n /\ w[G] = SubSeq(rows, 1, n)
    BY <1>1, <1>2, <1>4, <2>1
  <2> QED
    BY <2>4, <2>5, SubSeqFull DEF groups
<1> QED
  BY <1>1, <1>9, <1>10

(* s lists R, each row once, in the order of time. *)
Lists(s, R) ==
    /\ s \in [1 .. Cardinality(R) -> R]
    /\ IsInjective(s)
    /\ \A i, j \in DOMAIN s : i < j => ~ Later(s[i], s[j])

(* Any finite set of rows can be listed: the earliest row comes first. *)
LEMMA RowsCanBeListed ==
    ASSUME NEW R, R \subseteq Point, IsFiniteSet(R)
    PROVE  \E s : Lists(s, R)
<1> DEFINE Bad == {S \in SUBSET R : ~ \E s : Lists(s, S)}
           sizes == {Cardinality(S) : S \in Bad}
<1>1. \A S \in SUBSET R : IsFiniteSet(S) /\ Cardinality(S) \in Nat
  BY FS_Subset, FS_CardinalityType
<1>2. ASSUME Bad # {} PROVE FALSE
  <2>1. PICK S \in Bad : \A Q \in Bad : Cardinality(S) <= Cardinality(Q)
    <3>1. sizes \subseteq Nat /\ sizes # {}
      BY <1>1, <1>2
    <3>2. \E k \in sizes : \A m \in sizes : k <= m
      <4> HIDE DEF sizes
      <4> QED
        BY <3>1, LeastNumber
    <3> QED
      BY <3>2
  <2> DEFINE n == Cardinality(S)
  <2>2. S \subseteq R /\ IsFiniteSet(S) /\ n \in Nat
    BY <1>1
  <2>3. CASE S = {}
    <3>1. n = 0
      BY <2>3, FS_EmptySet
    <3>2. Lists([i \in 1 .. n |-> i], S)
      BY <2>3, <3>1 DEF Lists, IsInjective
    <3> QED
      BY <3>2
  <2>4. CASE S # {}
    <3> DEFINE times == {p.time : p \in S}
    <3>1. \A p \in S : p.time \in Nat
      BY <2>2, PointFields
    <3>2. PICK x \in S : \A p \in S : x.time <= p.time
      <4>1. times \subseteq Nat /\ times # {}
        BY <2>4, <3>1
      <4>2. \E t \in times : \A u \in times : t <= u
        <5> HIDE DEF times
        <5> QED
          BY <4>1, LeastNumber
      <4> QED
        BY <4>2
    <3> DEFINE Q == S \ {x}
    <3>3. Cardinality(Q) = n - 1 /\ n - 1 \in Nat
      <4>1. Cardinality(Q) = n - 1 /\ IsFiniteSet(Q)
        BY <2>2, FS_RemoveElement
      <4> QED
        BY <4>1, FS_CardinalityType
    <3>4. Q \notin Bad
      BY <2>1, <2>2, <3>3
    <3>5. PICK s : Lists(s, Q)
      BY <2>2, <3>4
    <3> HIDE DEF Q
    <3> DEFINE z == [i \in 1 .. n |-> IF i = 1 THEN x ELSE s[i - 1]]
    <3>6. /\ \A i \in 1 .. n : i # 1 => i - 1 \in 1 .. n - 1
          /\ \A i \in 1 .. n - 1 : s[i] \in Q
          /\ \A i, j \in 1 .. n - 1 : /\ s[i] = s[j] => i = j
                                      /\ i < j => ~ Later(s[i], s[j])
      BY <2>2, <3>3, <3>5 DEF Lists, IsInjective
    <3>7. z \in [1 .. n -> S]
      BY <3>6 DEF Q
    <3>8. ASSUME NEW i \in 1 .. n, NEW j \in 1 .. n, z[i] = z[j] PROVE i = j
      BY <2>2, <3>6, <3>8 DEF Q
    <3>9. ASSUME NEW i \in 1 .. n, NEW j \in 1 .. n, i < j PROVE ~ Later(z[i], z[j])
      BY <2>2, <3>1, <3>2, <3>6, <3>9 DEF Q, Later
    <3>10. Lists(z, S)
      BY <3>7, <3>8, <3>9 DEF Lists, IsInjective
    <3> QED
      BY <3>10
  <2> QED
    BY <2>3, <2>4
<1> QED
  BY <1>2

(* What the query of an export returns. *)
LEMMA MergedListsTheRows ==
    ASSUME NEW R, R \subseteq Point, IsFiniteSet(R)
    PROVE  /\ Merged(R) \in Seq(R)
           /\ \A i, j \in 1 .. Len(Merged(R)) :
                  /\ Merged(R)[i] = Merged(R)[j] => i = j
                  /\ i < j => ~ Later(Merged(R)[i], Merged(R)[j])
           /\ \A p \in R : \E i \in 1 .. Len(Merged(R)) : Merged(R)[i] = p
<1> DEFINE m == Merged(R)
           n == Cardinality(R)
<1>1. n \in Nat
  BY FS_CardinalityType
<1>2. Lists(m, R)
  BY RowsCanBeListed DEF Lists, Merged
<1> HIDE DEF m
<1>3. m \in [1 .. n -> R] /\ DOMAIN m = 1 .. n
  BY <1>2 DEF Lists
<1>4. m \in Seq(R) /\ Len(m) = n
  BY <1>1, <1>3, SequenceOf
<1>5. m \in Surjection(1 .. n, R)
  <2>1. IsFiniteSet(1 .. n) /\ Cardinality(1 .. n) = n
    BY <1>1, FS_Interval
  <2>2. m \in Injection(1 .. n, R)
    BY <1>2, <1>3 DEF Lists, Injection
  <2> QED
    BY <2>1, <2>2, FS_Injection
<1>6. \A p \in R : \E i \in 1 .. n : m[i] = p
  BY <1>5 DEF Surjection
<1> QED
  BY <1>2, <1>3, <1>4, <1>6 DEF Lists, IsInjective, m

-----------------------------------------------------------------------------
(* The rows of a query. *)
LEMMA RowsFinite ==
    ASSUME TypeOK, IsFiniteSet(stored), NEW kind
    PROVE  Rows(kind) \subseteq Point /\ IsFiniteSet(Rows(kind))
<1>1. Rows(kind) \subseteq stored
  BY DEF Rows
<1> QED
  BY <1>1, FS_Subset DEF TypeOK

(* Fewer than n rows of a table come before a row, if fewer than n rows of *)
(* all tables do.                                                          *)
LEMMA FewerInTable ==
    ASSUME NEW S, IsFiniteSet(S), NEW T, T \subseteq S, NEW n \in Nat, Cardinality(S) < n
    PROVE  Cardinality(T) < n
BY FS_Subset, FS_CardinalityType

(* Of totally ordered rows, exactly n, or all, have fewer than n before    *)
(* them: the number of rows before a row is its place.                     *)
LEMMA LimitLeavesN ==
    ASSUME NEW T, IsFiniteSet(T), NEW before \in [T -> SUBSET T], NEW n \in Nat,
           \A p \in T : p \notin before[p],
           \A p, q \in T : p = q \/ p \in before[q] \/ q \in before[p],
           \A p, q \in T : q \in before[p] => before[q] \subseteq before[p]
    PROVE  LET some == {p \in T : Cardinality(before[p]) < n}
           IN  some = T \/ Cardinality(some) = n
<1> DEFINE N == Cardinality(T)
           place == [p \in T |-> Cardinality(before[p])]
           some == {p \in T : Cardinality(before[p]) < n}
<1>1. N \in Nat
  BY FS_CardinalityType
<1>2. \A p \in T : IsFiniteSet(before[p]) /\ place[p] \in 0 .. N - 1
  <2> SUFFICES ASSUME NEW p \in T
               PROVE  IsFiniteSet(before[p]) /\ Cardinality(before[p]) \in 0 .. N - 1
    OBVIOUS
  <2>1. before[p] \subseteq T \ {p}
    OBVIOUS
  <2>2. IsFiniteSet(T \ {p}) /\ Cardinality(T \ {p}) = N - 1
    BY FS_RemoveElement
  <2>3. IsFiniteSet(before[p]) /\ Cardinality(before[p]) <= N - 1
    BY <2>1, <2>2, FS_Subset
  <2>4. Cardinality(before[p]) \in Nat
    BY <2>3, FS_CardinalityType
  <2> QED
    BY <1>1, <2>3, <2>4
<1>3. ASSUME NEW p \in T, NEW q \in T, q \in before[p]
      PROVE  place[q] < place[p]
  <2>1. before[q] \subseteq before[p] \ {q}
    BY <1>3
  <2>2. IsFiniteSet(before[p] \ {q}) /\ Cardinality(before[p] \ {q}) = place[p] - 1
    BY <1>2, <1>3, FS_RemoveElement
  <2>3. Cardinality(before[q]) <= place[p] - 1
    BY <2>1, <2>2, FS_Subset
  <2> QED
    BY <1>1, <1>2, <2>3
<1>4. place \in Injection(T, 0 .. N - 1)
  <2>1. \A p, q \in T : place[p] = place[q] => p = q
    BY <1>1, <1>2, <1>3
  <2>2. place \in [T -> 0 .. N - 1]
    BY <1>2
  <2> HIDE DEF place
  <2> QED
    BY <2>1, <2>2 DEF Injection, IsInjective
<1>5. place \in Surjection(T, 0 .. N - 1)
  <2>1. IsFiniteSet(0 .. N - 1) /\ Cardinality(0 .. N - 1) = N
    BY <1>1, FS_Interval
  <2> QED
    BY <1>4, <2>1, FS_Injection
<1>6. CASE N <= n
  <2>1. \A p \in T : Cardinality(before[p]) < n
    BY <1>1, <1>2, <1>6
  <2> QED
    BY <2>1
<1>7. CASE n < N
  <2> DEFINE first == [p \in some |-> place[p]]
  <2>1. first \in [some -> 0 .. n - 1]
    <3>1. \A p \in some : place[p] \in 0 .. n - 1
      BY <1>1, <1>2
    <3> HIDE DEF place, some
    <3> QED
      BY <3>1
  <2>2. \A p, q \in some : first[p] = first[q] => p = q
    <3>1. \A p, q \in T : place[p] = place[q] => p = q
      BY <1>4 DEF Injection, IsInjective
    <3> HIDE DEF place
    <3> QED
      BY <3>1
  <2>3. \A i \in 0 .. n - 1 : \E p \in some : first[p] = i
    <3> SUFFICES ASSUME NEW i \in 0 .. n - 1 PROVE \E p \in some : place[p] = i
      OBVIOUS
    <3>1. i \in 0 .. N - 1
      BY <1>1, <1>7
    <3>2. PICK p \in T : place[p] = i
      <4> HIDE DEF place
      <4> QED
        BY <1>5, <3>1 DEF Surjection
    <3>3. p \in some
      BY <3>2
    <3> QED
      BY <3>2, <3>3
  <2> HIDE DEF first, some
  <2>4. first \in Injection(some, 0 .. n - 1)
    BY <2>1, <2>2 DEF Injection, IsInjective
  <2>5. first \in Surjection(some, 0 .. n - 1)
    BY <2>1, <2>3 DEF Surjection
  <2>6. IsFiniteSet(0 .. n - 1) /\ Cardinality(0 .. n - 1) = n
    BY FS_Interval
  <2>7. Cardinality(some) = n
    BY <2>4, <2>5, <2>6, FS_Injection
  <2> QED
    BY <2>7 DEF some
<1> QED
  BY <1>1, <1>6, <1>7

(* The rows of a table are of different times. *)
LEMMA TimesDiffer ==
    ASSUME TypeOK, OnePointPerKey, NEW rows, rows \subseteq stored,
           \A p \in rows : p.kind = "csi", NEW s,
           NEW p \in Table(rows, s), NEW q \in Table(rows, s), p.time = q.time
    PROVE  p = q
BY DEF Table, Key, OnePointPerKey

(* Sorted from the latest and cut off at n, the tables of any readings     *)
(* have the n latest of each series ...                                    *)
LEMMA LatestOfEach ==
    ASSUME TypeOK, IsFiniteSet(stored), OnePointPerKey, NEW n \in Nat,
           NEW rows, rows \subseteq stored, \A p \in rows : p.kind = "csi"
    PROVE  FirstOfEach(n, UNION {First(n, Table(rows, s), Later) : s \in Series}, rows, Later)
<1> DEFINE points == UNION {First(n, Table(rows, s), Later) : s \in Series}
<1>1. /\ rows \subseteq Point /\ IsFiniteSet(rows)
      /\ \A p \in rows : p.time \in Nat /\ p.series \in Series
  <2>1. rows \subseteq Point /\ IsFiniteSet(rows)
    BY FS_Subset DEF TypeOK
  <2> QED
    BY <2>1, PointFields
<1>2. points \subseteq rows
  BY DEF First, Table
<1>3. \A s \in Series : Table(points, s) = First(n, Table(rows, s), Later)
  BY DEF First, Table
<1>4. ASSUME NEW s \in Series
      PROVE  /\ \/ Table(points, s) = Table(rows, s)
                \/ Cardinality(Table(points, s)) = n
             /\ \A p \in Table(rows, s) \ Table(points, s), q \in Table(points, s) :
                    ~ Later(p, q)
  <2> DEFINE T == Table(rows, s)
             before == [p \in T |-> {q \in T : Later(q, p)}]
             some == {p \in T : Cardinality(before[p]) < n}
  <2>1. T \subseteq rows /\ IsFiniteSet(T) /\ \A p \in T : p.time \in Nat
    BY <1>1, FS_Subset DEF Table
  <2>2. Table(points, s) = some
    BY <1>3 DEF First
  <2>3. before \in [T -> SUBSET T]
    OBVIOUS
  <2>4. \A p \in T : p \notin before[p]
    BY <2>1 DEF Later
  <2>5. \A p, q \in T : p = q \/ p \in before[q] \/ q \in before[p]
    <3> SUFFICES ASSUME NEW p \in T, NEW q \in T, p # q
                 PROVE  p \in before[q] \/ q \in before[p]
      OBVIOUS
    <3>1. p.time # q.time
      BY TimesDiffer
    <3> QED
      BY <2>1, <3>1 DEF Later
  <2>6. \A p, q \in T : q \in before[p] => before[q] \subseteq before[p]
    BY <2>1 DEF Later
  <2> HIDE DEF T
  <2>7. some = T \/ Cardinality(some) = n
    <3> HIDE DEF before
    <3> QED
      BY <2>1, <2>3, <2>4, <2>5, <2>6, LimitLeavesN
  <2>8. ASSUME NEW p \in T \ some, NEW q \in some, Later(p, q) PROVE FALSE
    <3>1. p \in T /\ q \in T /\ before[p] \subseteq before[q]
      BY <2>6, <2>8
    <3>2. IsFiniteSet(before[q]) /\ Cardinality(before[q]) < n
      BY <2>1, FS_Subset
    <3>3. Cardinality(before[p]) < n
      <4> HIDE DEF before
      <4> QED
        BY <3>1, <3>2, FewerInTable
    <3> QED
      BY <2>8, <3>3
  <2> HIDE DEF some
  <2> QED
    BY <2>2, <2>7, <2>8 DEF T
<1>5. First(n, rows, LAMBDA q, p : q # p /\ ~ Later(p, q)) \subseteq points
  <2> SUFFICES ASSUME NEW p \in rows,
                      Cardinality({q \in rows : q # p /\ ~ Later(p, q)}) < n
               PROVE  p \in points
    BY DEF First
  <2> DEFINE S == {q \in rows : q # p /\ ~ Later(p, q)}
             T == {q \in Table(rows, p.series) : Later(q, p)}
  <2>1. T \subseteq S
    BY <1>1 DEF Table, Later
  <2>2. IsFiniteSet(S)
    BY <1>1, FS_Subset
  <2>3. Cardinality(T) < n
    <3> HIDE DEF S, T
    <3>1. Cardinality(S) < n
      BY DEF S
    <3> QED
      BY <2>1, <2>2, <3>1, FewerInTable
  <2>4. p \in First(n, Table(rows, p.series), Later)
    BY <2>3 DEF First, Table
  <2> QED
    BY <1>1, <2>4
<1> HIDE DEF points
<1>6. FirstOfEach(n, points, rows, Later)
  BY <1>2, <1>4, <1>5 DEF FirstOfEach
<1> QED
  BY <1>6 DEF points

(* ... and sorted from the earliest, the n earliest.                       *)
LEMMA EarliestOfEach ==
    ASSUME TypeOK, IsFiniteSet(stored), OnePointPerKey, NEW n \in Nat,
           NEW rows, rows \subseteq stored, \A p \in rows : p.kind = "csi"
    PROVE  FirstOfEach(n, UNION {First(n, Table(rows, s), Earlier) : s \in Series}, rows, Earlier)
<1> DEFINE points == UNION {First(n, Table(rows, s), Earlier) : s \in Series}
<1>1. /\ rows \subseteq Point /\ IsFiniteSet(rows)
      /\ \A p \in rows : p.time \in Nat /\ p.series \in Series
  <2>1. rows \subseteq Point /\ IsFiniteSet(rows)
    BY FS_Subset DEF TypeOK
  <2> QED
    BY <2>1, PointFields
<1>2. points \subseteq rows
  BY DEF First, Table
<1>3. \A s \in Series : Table(points, s) = First(n, Table(rows, s), Earlier)
  BY DEF First, Table
<1>4. ASSUME NEW s \in Series
      PROVE  /\ \/ Table(points, s) = Table(rows, s)
                \/ Cardinality(Table(points, s)) = n
             /\ \A p \in Table(rows, s) \ Table(points, s), q \in Table(points, s) :
                    ~ Earlier(p, q)
  <2> DEFINE T == Table(rows, s)
             before == [p \in T |-> {q \in T : Earlier(q, p)}]
             some == {p \in T : Cardinality(before[p]) < n}
  <2>1. T \subseteq rows /\ IsFiniteSet(T) /\ \A p \in T : p.time \in Nat
    BY <1>1, FS_Subset DEF Table
  <2>2. Table(points, s) = some
    BY <1>3 DEF First
  <2>3. before \in [T -> SUBSET T]
    OBVIOUS
  <2>4. \A p \in T : p \notin before[p]
    BY <2>1 DEF Earlier
  <2>5. \A p, q \in T : p = q \/ p \in before[q] \/ q \in before[p]
    <3> SUFFICES ASSUME NEW p \in T, NEW q \in T, p # q
                 PROVE  p \in before[q] \/ q \in before[p]
      OBVIOUS
    <3>1. p.time # q.time
      BY TimesDiffer
    <3> QED
      BY <2>1, <3>1 DEF Earlier
  <2>6. \A p, q \in T : q \in before[p] => before[q] \subseteq before[p]
    BY <2>1 DEF Earlier
  <2> HIDE DEF T
  <2>7. some = T \/ Cardinality(some) = n
    <3> HIDE DEF before
    <3> QED
      BY <2>1, <2>3, <2>4, <2>5, <2>6, LimitLeavesN
  <2>8. ASSUME NEW p \in T \ some, NEW q \in some, Earlier(p, q) PROVE FALSE
    <3>1. p \in T /\ q \in T /\ before[p] \subseteq before[q]
      BY <2>6, <2>8
    <3>2. IsFiniteSet(before[q]) /\ Cardinality(before[q]) < n
      BY <2>1, FS_Subset
    <3>3. Cardinality(before[p]) < n
      <4> HIDE DEF before
      <4> QED
        BY <3>1, <3>2, FewerInTable
    <3> QED
      BY <2>8, <3>3
  <2> HIDE DEF some
  <2> QED
    BY <2>2, <2>7, <2>8 DEF T
<1>5. First(n, rows, LAMBDA q, p : q # p /\ ~ Earlier(p, q)) \subseteq points
  <2> SUFFICES ASSUME NEW p \in rows,
                      Cardinality({q \in rows : q # p /\ ~ Earlier(p, q)}) < n
               PROVE  p \in points
    BY DEF First
  <2> DEFINE S == {q \in rows : q # p /\ ~ Earlier(p, q)}
             T == {q \in Table(rows, p.series) : Earlier(q, p)}
  <2>1. T \subseteq S
    BY <1>1 DEF Table, Earlier
  <2>2. IsFiniteSet(S)
    BY <1>1, FS_Subset
  <2>3. Cardinality(T) < n
    <3> HIDE DEF S, T
    <3>1. Cardinality(S) < n
      BY DEF S
    <3> QED
      BY <2>1, <2>2, <3>1, FewerInTable
  <2>4. p \in First(n, Table(rows, p.series), Earlier)
    BY <2>3 DEF First, Table
  <2> QED
    BY <1>1, <2>4
<1> HIDE DEF points
<1>6. FirstOfEach(n, points, rows, Earlier)
  BY <1>2, <1>4, <1>5 DEF FirstOfEach
<1> QED
  BY <1>6 DEF points

(* An export: the end of the list, and all row groups one after another. *)
LEMMA ExportFinds ==
    ASSUME TypeOK, IsFiniteSet(stored), NEW kind, NEW n \in Nat \ {0}
    PROVE  ExportsLatest(kind, n)
<1> DEFINE all == Rows(kind)
           m == Merged(all)
           rows == Limited(m, n)
           k == Len(m) - Len(rows)
<1>1. /\ m \in Seq(all) /\ Len(m) \in Nat
      /\ \A i, j \in 1 .. Len(m) : /\ m[i] = m[j] => i = j
                                   /\ i < j => ~ Later(m[i], m[j])
      /\ \A p \in all : \E i \in 1 .. Len(m) : m[i] = p
      /\ \A i \in 1 .. Len(m) : m[i] \in all
  BY RowsFinite, MergedListsTheRows
<1> HIDE DEF m, all
<1>2. /\ rows \in Seq(all) /\ Len(rows) \in Nat /\ k \in Nat
      /\ \A i \in 1 .. Len(rows) : rows[i] = m[k + i]
      /\ k = 0 \/ Len(rows) = n
  <2>1. CASE Len(m) <= n
    BY <1>1, <2>1 DEF Limited
  <2>2. CASE n < Len(m)
    <3>1. rows = SubSeq(m, Len(m) - n + 1, Len(m))
      BY <1>1, <2>2 DEF Limited
    <3>2. \A i \in Len(m) - n + 1 .. Len(m) : m[i] \in all
      BY <1>1, <2>2
    <3> HIDE DEF rows
    <3>3. /\ rows \in Seq(all) /\ Len(rows) = n
          /\ \A i \in 1 .. n : rows[i] = m[(Len(m) - n) + i]
      BY <1>1, <2>2, <3>1, <3>2, SubSeqProperties
    <3> QED
      BY <1>1, <2>2, <3>3
  <2> QED
    BY <1>1, <2>1, <2>2
<1>3. Export(kind, n) = rows
  BY <1>2, RowGroupsHoldTheRows DEF Export, m, all
<1> HIDE DEF rows
<1>4. k + Len(rows) = Len(m)
  BY <1>1, <1>2
<1> HIDE DEF k
<1>5. \A i \in 1 .. Len(rows) : k + i \in 1 .. Len(m)
  BY <1>1, <1>2, <1>4
<1>6. DOMAIN rows = 1 .. Len(rows)
  BY <1>2
<1>7. \A i \in 1 .. Len(rows) : rows[i] \in ToSet(rows)
  BY <1>6 DEF ToSet
<1>8. ToSet(rows) \subseteq all
  <2>1. \A i \in 1 .. Len(rows) : rows[i] \in all
    BY <1>1, <1>2, <1>5
  <2> QED
    BY <1>6, <2>1 DEF ToSet
<1>9. Cardinality(ToSet(rows)) = Len(rows)
  <2>1. rows \in Surjection(1 .. Len(rows), ToSet(rows))
    BY <1>2, <1>6 DEF ToSet, Surjection
  <2>2. \A i, j \in 1 .. Len(rows) : rows[i] = rows[j] => i = j
    BY <1>1, <1>2, <1>5
  <2>3. rows \in Injection(1 .. Len(rows), ToSet(rows))
    BY <1>6, <2>1, <2>2 DEF Surjection, Injection, IsInjective
  <2>4. IsFiniteSet(1 .. Len(rows)) /\ Cardinality(1 .. Len(rows)) = Len(rows)
    BY <1>2, FS_Interval
  <2> QED
    BY <2>1, <2>3, <2>4, FS_Surjection
<1>10. ASSUME NEW i \in 1 .. Len(rows), NEW j \in 1 .. Len(rows), i < j
       PROVE  ~ Later(rows[i], rows[j])
  <2>1. k + i < k + j
    BY <1>2, <1>10
  <2> QED
    BY <1>1, <1>2, <1>5, <2>1
<1>11. ASSUME NEW p \in all, p \notin ToSet(rows)
       PROVE  /\ k > 0
              /\ \A i \in 1 .. Len(rows) : ~ Later(p, rows[i])
  <2>1. PICK j \in 1 .. Len(m) : m[j] = p
    BY <1>1
  <2>2. j <= k
    <3> SUFFICES ASSUME j > k PROVE FALSE
      BY <1>2
    <3>1. j - k \in 1 .. Len(rows) /\ k + (j - k) = j
      BY <1>1, <1>2, <1>4
    <3> QED
      BY <1>2, <1>7, <1>11, <2>1, <3>1
  <2>3. k > 0
    BY <1>1, <1>2, <2>2
  <2>4. ASSUME NEW i \in 1 .. Len(rows) PROVE ~ Later(p, rows[i])
    <3>1. k + i \in 1 .. Len(m) /\ j < k + i /\ rows[i] = m[k + i]
      BY <1>1, <1>2, <1>5, <2>2
    <3> QED
      BY <1>1, <2>1, <3>1
  <2> QED
    BY <2>3, <2>4
<1>12. Len(rows) = n \/ ToSet(rows) = all
  <2>1. k = 0 => all \subseteq ToSet(rows)
    BY <1>11
  <2> QED
    BY <1>2, <1>8, <2>1
<1> QED
  BY <1>3, <1>6, <1>8, <1>9, <1>10, <1>11, <1>12 DEF ExportsLatest, all

(* query_latest, whichever of its answers is given. *)
LEMMA LatestFind ==
    ASSUME TypeOK, IsFiniteSet(stored), OnePointPerKey, NEW n \in Nat,
           NEW r \in GetLatestReadings(n), r.points # {}
    PROVE  FirstOfEach(n, r.points, Rows("csi"), Later)
<1>1. r.points = QueryLatest(n)
  BY DEF GetLatestReadings, Responses, ExecuteHistoryQuery, Answer
<1>2. Rows("csi") \subseteq stored /\ \A p \in Rows("csi") : p.kind = "csi"
  BY DEF Rows
<1> QED
  BY <1>1, <1>2, LatestOfEach DEF QueryLatest

(* query_range: the same from the other end. *)
LEMMA RangeFinds ==
    ASSUME TypeOK, IsFiniteSet(stored), OnePointPerKey, NEW n \in Nat, NEW from, NEW to,
           NEW r \in GetReadingsRange(from, to, n), r.points # {}
    PROVE  FirstOfEach(n, r.points, Between(from, to), Earlier)
<1>1. r.points = QueryRange(from, to, n)
  BY DEF GetReadingsRange, Responses, ExecuteHistoryQuery, Answer
<1>2. /\ Between(from, to) \subseteq stored
      /\ \A p \in Between(from, to) : p.kind = "csi"
  BY DEF Between
<1> QED
  BY <1>1, <1>2, EarliestOfEach DEF QueryRange

(* Whatever was written, sent twice, deleted or lost before: an answer     *)
(* with points has of each series the n latest (of a range, the n          *)
(* earliest), and an export has the n latest of all, each once, in the     *)
(* order of time and over all its row groups.                              *)
THEOREM LatestFound == Spec => []QueriesFindTheLatest
<1>1. Inv => QueriesFindTheLatest
  <2> SUFFICES ASSUME Inv, NEW n \in 1 .. MaxReadings
               PROVE  /\ \A r \in GetLatestReadings(n) :
                             r.points # {} => FirstOfEach(n, r.points, Rows("csi"), Later)
                      /\ \A from \in 0 .. day, to \in 1 .. day + 1 :
                             \A r \in GetReadingsRange(from, to, n) :
                                 r.points # {} =>
                                     FirstOfEach(n, r.points, Between(from, to), Earlier)
                      /\ \A kind \in {"csi", "smoke"} : ExportsLatest(kind, n)
    BY DEF QueriesFindTheLatest
  <2>1. n \in Nat \ {0}
    BY Constants
  <2> QED
    BY <2>1, LatestFind, RangeFinds, ExportFinds DEF Inv
<1> QED
  BY InitInv, StepInv, <1>1, PTL DEF Spec

=============================================================================
