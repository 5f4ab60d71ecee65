------------------------- MODULE RecordTime_proofs -------------------------
(***************************************************************************)
(* Proofs about RecordTime, for every period of the counter, every window  *)
(* and any number of reboots.                                              *)
(*                                                                         *)
(* The argument: whatever was captured earlier in the same boot is apart   *)
(* by the same distance on the counter, once what it lost to wrapping is   *)
(* added, as in true time, and the counter lost nothing, one period or at  *)
(* least two in between (Ordered).  Two frames less than half a period     *)
(* apart are therefore told apart from a wrap by one comparison, and the   *)
(* estimate moves on by the time between them (Estimated).  So timestamps  *)
(* are off by no more than the delay of a line, and the slack of the       *)
(* buffer makes up for that (Windowed).                                    *)
(***************************************************************************)
EXTENDS RecordTime, SequenceTheorems, WellFoundedInduction, TLAPS

Entry == [t : Int, cap : Nat]

(* The device as it is now, as if a frame were captured. *)
Dev == [cap |-> now, boot |-> boot, high |-> high, local |-> counter]

(* What the counter of a frame tells with the wraps undone. *)
Unwrapped(x) == x.high + x.local

(* y was captured after x. *)
Ordered(x, y) ==
    /\ x.cap <= y.cap /\ x.boot <= y.boot
    /\ x.boot = y.boot =>
           /\ Unwrapped(y) - Unwrapped(x) = y.cap - x.cap
           /\ \/ y.high = x.high
              \/ y.high = x.high + Period
              \/ y.high >= x.high + 2 * Period

(* The first part of the invariant: types, without the bounds of the model. *)
Typed ==
    /\ now \in Nat /\ boot \in Nat
    /\ high \in Nat /\ counter \in 0 .. Period - 1
    /\ clockSet \in BOOLEAN /\ stamping \in BOOLEAN
    /\ lines \in Seq(Line)
    /\ start \in Nat /\ overflow \in Nat
    /\ offset \in Nat \cup {None} /\ prev \in (0 .. Period - 1) \cup {None}
    /\ base \in Line /\ last \in Line
    /\ steady \in BOOLEAN /\ calm \in BOOLEAN
    /\ csi \in Seq(Entry)
    /\ heard \subseteq Nat

Bounded == now \in Epoch .. MaxTime /\ boot <= MaxBoots /\ Len(csi) <= MaxBuffered

(* The second part: frames are in the order of their capture. *)
Aged ==
    /\ \A i \in 1 .. Len(lines) :
           /\ Ordered(lines[i], Dev)
           /\ now <= lines[i].cap + MaxDelay
           /\ lines[i].set /\ lines[i].stamp > 0 => lines[i].stamp = lines[i].cap
    /\ \A i, j \in 1 .. Len(lines) : i < j => Ordered(lines[i], lines[j])
    /\ offset # None =>
           /\ Ordered(last, Dev)
           /\ \A i \in 1 .. Len(lines) : Ordered(last, lines[i])
    /\ \A c \in heard : c <= now /\ \A i \in 1 .. Len(lines) : c <= lines[i].cap
    /\ \A i \in 1 .. Len(csi) :
           /\ csi[i].cap <= now
           /\ \A j \in 1 .. Len(lines) : csi[i].cap <= lines[j].cap
           /\ \A j \in 1 .. Len(csi) : i <= j => csi[i].cap <= csi[j].cap

(* The third part: a steady estimate. *)
Estimated ==
    /\ offset = None <=> prev = None
    /\ offset # None => prev = last.local
    /\ offset # None /\ steady =>
           /\ last.t = start + ((prev + overflow) - offset)
           /\ last.t - base.t = Unwrapped(last) - Unwrapped(base)
           /\ last.cap <= last.t /\ last.t <= last.cap + MaxDelay

(* The fourth part: the buffer. *)
Windowed ==
    calm =>
        /\ \A i \in 1 .. Len(csi) :
               csi[i].cap <= csi[i].t /\ csi[i].t <= csi[i].cap + MaxDelay
        /\ \A c \in heard :
               \/ \E i \in 1 .. Len(csi) : csi[i].cap = c
               \/ /\ Len(csi) = MaxBuffered
                  /\ \A i \in 1 .. Len(csi) : c <= csi[i].cap

Inv == Typed /\ Bounded /\ Aged /\ Estimated /\ Windowed

-----------------------------------------------------------------------------

(* The constants. *)
LEMMA Constants ==
    /\ Half \in Nat \ {0} /\ Epoch \in Nat \ {0}
    /\ Window \in Nat /\ Held \in Nat /\ MaxBuffered \in Nat /\ MaxDelay \in Nat
    /\ MaxTime \in Nat /\ MaxBoots \in Nat
    /\ Epoch <= MaxTime /\ Window + MaxDelay <= Held
    /\ Period \in Nat /\ Period = 2 * Half /\ Period >= 2
<1>1. {Half, Epoch} \subseteq Nat \ {0}
    BY RecordTimeAssumption
<1>2. {Window, Held, MaxBuffered, MaxDelay, MaxTime, MaxBoots} \subseteq Nat
    BY RecordTimeAssumption
<1> QED
    BY <1>1, <1>2, RecordTimeAssumption, SlackAssumption DEF Period

-----------------------------------------------------------------------------
(* The rolling buffer, for records of any kind. *)

(* A set of numbers that is not empty has a least one. *)
LEMMA LeastNumber ==
    ASSUME NEW T, T \subseteq Nat, T # {}
    PROVE  \E x \in T : \A y \in T : x <= y
<1>1. PICK x \in T : \A y \in T : ~ (<<y, x>> \in OpToRel(<, Nat))
    BY WFMin, NatLessThanWellFounded
<1>2. \A y \in T : ~ (y < x)
    BY <1>1 DEF OpToRel
<1> QED
    BY <1>2

(* What is not expired is a suffix. *)
LEMMA DropExpiredSuffix ==
    ASSUME NEW S, NEW s \in Seq(S), NEW cutoff \in Int,
           \A i \in 1 .. Len(s) : s[i].t \in Int
    PROVE  \E k \in 1 .. Len(s) + 1 :
               /\ DropExpired(s, cutoff) = SubSeq(s, k, Len(s))
               /\ \A i \in 1 .. Len(s) : i < k => s[i].t < cutoff
<1> DEFINE fresh == {i \in DOMAIN s : s[i].t >= cutoff}
           first == CHOOSE i \in fresh : \A j \in fresh : i <= j
<1>1. fresh \subseteq 1 .. Len(s) /\ Len(s) \in Nat
    OBVIOUS
<1>2. CASE fresh = {}
  <2>1. DropExpired(s, cutoff) = SubSeq(s, Len(s) + 1, Len(s))
    BY <1>1, <1>2, SubSeqEmpty DEF DropExpired
  <2> QED
    BY <1>1, <1>2, <2>1
<1>3. CASE fresh # {}
  <2>1. first \in fresh /\ \A j \in fresh : first <= j
    <3>1. fresh \subseteq Nat
      BY <1>1
    <3>2. \E i \in fresh : \A j \in fresh : i <= j
      <4> HIDE DEF fresh
      <4> QED
        BY <1>3, <3>1, LeastNumber, Zenon
    <3> HIDE DEF fresh
    <3> QED
      BY <3>2, Zenon
  <2>2. DropExpired(s, cutoff) = SubSeq(s, first, Len(s))
    BY <1>3 DEF DropExpired
  <2> HIDE DEF first
  <2>3. first \in 1 .. Len(s) + 1
    BY <1>1, <2>1
  <2>4. \A i \in 1 .. Len(s) : i < first => s[i].t < cutoff
    BY <1>1, <2>1, <2>3
  <2> HIDE DEF fresh
  <2> QED
    BY <2>2, <2>3, <2>4
<1> QED
    BY <1>2, <1>3

(* add_csi, add_smoke: from record k on the records stay, and the one      *)
(* before was expired, or the buffer is full.                              *)
LEMMA AddSuffix ==
    ASSUME NEW S, NEW s \in Seq(S), NEW r \in S, NEW held \in Nat, NEW limit \in Nat,
           \A x \in S : x.t \in Int
    PROVE  \E k \in 1 .. Len(s) + 2 :
               /\ Add(s, r, held, limit) \in Seq(S)
               /\ Len(Add(s, r, held, limit)) = (Len(s) + 2) - k
               /\ Len(Add(s, r, held, limit)) <= limit
               /\ \A i \in 1 .. (Len(s) + 2) - k :
                      Add(s, r, held, limit)[i] =
                          IF k + i = Len(s) + 2 THEN r ELSE s[(k + i) - 1]
               /\ \/ k = 1
                  \/ Len(Add(s, r, held, limit)) = limit
                  \/ k <= Len(s) + 1 /\ s[k - 1].t < r.t - held
<1> DEFINE a == Append(s, r)
           n == Len(s) + 1
           e == DropExpired(a, r.t - held)
<1>1. /\ a \in Seq(S) /\ a # <<>> /\ Len(a) = n /\ n \in Nat \ {0}
      /\ \A i \in 1 .. n : a[i] = (IF i = n THEN r ELSE s[i]) /\ a[i] \in S
    BY AppendProperties
<1>2. Add(s, r, held, limit) = DropExcess(e, limit)
    BY <1>1 DEF Add, Prune
<1>n. n = Len(s) + 1 /\ Len(s) \in Nat
    OBVIOUS
<1>c. r.t - held \in Int /\ r.t \in Int
    OBVIOUS
<1> HIDE DEF a, n
<1>3. PICK k \in 1 .. n + 1 :
          /\ e = SubSeq(a, k, n)
          /\ \A i \in 1 .. n : i < k => a[i].t < r.t - held
  <2>1. \A i \in 1 .. Len(a) : a[i].t \in Int
    BY <1>1
  <2> DEFINE cutoff == r.t - held
  <2>2. cutoff \in Int
    BY <1>c
  <2> HIDE DEF cutoff
  <2>3. \E k \in 1 .. Len(a) + 1 :
               /\ DropExpired(a, cutoff) = SubSeq(a, k, Len(a))
               /\ \A i \in 1 .. Len(a) : i < k => a[i].t < cutoff
    BY <1>1, <2>1, <2>2, DropExpiredSuffix
  <2> QED
    BY <1>1, <2>3 DEF cutoff
<1>4. k \in 1 .. n
    BY <1>1, <1>3, <1>c
<1>5. /\ e \in Seq(S) /\ Len(e) = (n - k) + 1
      /\ \A i \in 1 .. (n - k) + 1 : e[i] = a[(k + i) - 1]
  <2>1. k \in Int /\ n \in Int /\ k <= n /\ \A i \in k .. n : a[i] \in S
    BY <1>1, <1>4
  <2> HIDE DEF e
  <2>2. /\ SubSeq(a, k, n) \in Seq(S)
        /\ Len(SubSeq(a, k, n)) = (n - k) + 1
        /\ \A i \in 1 .. (n - k) + 1 : SubSeq(a, k, n)[i] = a[(k + i) - 1]
    BY <2>1, SubSeqProperties
  <2> QED
    BY <1>3, <2>2
<1> HIDE DEF e
<1>6. CASE Len(e) <= limit
  <2>1. Add(s, r, held, limit) = e
    BY <1>2, <1>6 DEF DropExcess
  <2>2. k = 1 \/ s[k - 1].t < r.t - held
    BY <1>1, <1>3, <1>4, <1>n
  <2>3. \A i \in 1 .. (n - k) + 1 : e[i] = IF k + i = n + 1 THEN r ELSE s[(k + i) - 1]
    BY <1>1, <1>4, <1>5
  <2> QED
    BY <1>4, <1>5, <1>6, <1>n, <2>1, <2>2, <2>3
<1>7. CASE Len(e) > limit
  <2> DEFINE d == SubSeq(e, (Len(e) - limit) + 1, Len(e))
             m == (n - limit) + 1
  <2>1. Add(s, r, held, limit) = d
    BY <1>2, <1>5, <1>7 DEF DropExcess
  <2>2. /\ d \in Seq(S) /\ Len(d) = limit
        /\ \A i \in 1 .. limit : d[i] = e[(Len(e) - limit) + i]
    BY <1>5, <1>7, SubSeqProperties
  <2>l. n \in Nat /\ k \in 1 .. n /\ Len(e) = (n - k) + 1 /\ Len(e) > limit
    BY <1>1, <1>4, <1>5, <1>7
  <2>3. m \in 1 .. n + 1 /\ (n + 1) - m = limit
    BY <2>l
  <2>4. ASSUME NEW i \in 1 .. limit PROVE d[i] = a[(m + i) - 1]
    <3>1. d[i] = e[(Len(e) - limit) + i]
      BY <2>2
    <3> DEFINE j == (Len(e) - limit) + i
    <3>2. j \in 1 .. (n - k) + 1 /\ (k + j) - 1 = (m + i) - 1
      BY <2>l
    <3> HIDE DEF j, m, d
    <3>3. e[j] = a[(k + j) - 1]
      BY <1>5, <3>2
    <3> QED
      BY <3>1, <3>2, <3>3 DEF j
  <2>5. \A i \in 1 .. limit : d[i] = IF m + i = n + 1 THEN r ELSE s[(m + i) - 1]
    BY <1>1, <2>3, <2>4
  <2> HIDE DEF d, m
  <2> QED
    BY <1>n, <2>1, <2>2, <2>3, <2>5
<1> QED
    BY <1>5, <1>6, <1>7

-----------------------------------------------------------------------------
(* Feeding the buffer, in the words of AddSuffix. *)
LEMMA FeedSuffix ==
    ASSUME csi \in Seq(Entry), NEW l \in Line, NEW t \in Int, Feed(l, t)
    PROVE  \E k \in 1 .. Len(csi) + 2 :
               /\ csi' \in Seq(Entry)
               /\ Len(csi') = (Len(csi) + 2) - k
               /\ Len(csi') <= MaxBuffered
               /\ \A i \in 1 .. (Len(csi) + 2) - k :
                      csi'[i] = IF k + i = Len(csi) + 2 THEN [t |-> t, cap |-> l.cap]
                                ELSE csi[(k + i) - 1]
               /\ \/ k = 1
                  \/ Len(csi') = MaxBuffered
                  \/ k <= Len(csi) + 1 /\ csi[k - 1].t < t - Held
<1> DEFINE r == [t |-> t, cap |-> l.cap]
<1>1. r \in Entry /\ r.t = t
    BY DEF Entry, Line
<1>2. \A x \in Entry : x.t \in Int
    BY DEF Entry
<1>3. csi' = Add(csi, r, Held, MaxBuffered)
    BY DEF Feed
<1> HIDE DEF r
<1>4. \E k \in 1 .. Len(csi) + 2 :
               /\ Add(csi, r, Held, MaxBuffered) \in Seq(Entry)
               /\ Len(Add(csi, r, Held, MaxBuffered)) = (Len(csi) + 2) - k
               /\ Len(Add(csi, r, Held, MaxBuffered)) <= MaxBuffered
               /\ \A i \in 1 .. (Len(csi) + 2) - k :
                      Add(csi, r, Held, MaxBuffered)[i] =
                          IF k + i = Len(csi) + 2 THEN r ELSE csi[(k + i) - 1]
               /\ \/ k = 1
                  \/ Len(Add(csi, r, Held, MaxBuffered)) = MaxBuffered
                  \/ k <= Len(csi) + 1 /\ csi[k - 1].t < r.t - Held
    BY <1>1, <1>2, Constants, AddSuffix
<1> QED
    BY <1>1, <1>3, <1>4 DEF r

(* The first line, and the others once it is taken. *)
LEMMA TailOfLines ==
    ASSUME lines \in Seq(Line), lines # <<>>, lines' = Tail(lines)
    PROVE  /\ lines' \in Seq(Line)
           /\ Len(lines) \in Nat \ {0} /\ Len(lines') = Len(lines) - 1
           /\ \A i \in 1 .. Len(lines') : lines'[i] = lines[i + 1] /\ i + 1 \in 1 .. Len(lines)
           /\ 1 \in 1 .. Len(lines) /\ lines[1] \in Line
<1>1. /\ Tail(lines) \in Seq(Line) /\ Len(Tail(lines)) = Len(lines) - 1
      /\ \A i \in 1 .. Len(Tail(lines)) : Tail(lines)[i] = lines[i + 1]
    BY HeadTailProperties
<1>2. Len(lines) \in Nat \ {0}
    BY EmptySeq
<1> QED
    BY <1>1, <1>2

(* What an estimate is worth, if the frame follows the last one: it moves  *)
(* on by the time between the two captures.                                *)
LEMMA EstimateMoves ==
    ASSUME Typed, Estimated, offset # None, steady,
           NEW l \in Line, Ordered(last, l), Follows(l)
    PROVE  /\ Estimate(l) - last.t = Unwrapped(l) - Unwrapped(last)
           /\ Estimate(l) - last.t = l.cap - last.cap
           /\ Adjusted(l) = l.local + OverflowAt(l)
<1>1. /\ last.high \in Nat /\ last.local \in 0 .. Period - 1 /\ last.t \in Int
      /\ last.cap \in Nat
      /\ l.high \in Nat /\ l.local \in 0 .. Period - 1 /\ l.cap \in Nat
    BY DEF Typed, Line
<1>2. /\ offset \in Nat /\ prev = last.local /\ start \in Nat /\ overflow \in Nat
      /\ prev # None
      /\ last.t = start + ((prev + overflow) - offset)
    BY DEF Typed, Estimated
<1>3. /\ Unwrapped(l) - Unwrapped(last) = l.cap - last.cap
      /\ last.cap <= l.cap
      /\ Unwrapped(l) - Unwrapped(last) < Half
      /\ \/ l.high = last.high
         \/ l.high = last.high + Period
         \/ l.high >= last.high + 2 * Period
    BY DEF Ordered, Follows, Unwrapped
<1>4. l.local + OverflowAt(l) = (last.local + overflow) + (Unwrapped(l) - Unwrapped(last))
  <2>1. CASE l.high = last.high
    <3>1. ~ (l.local < prev - Half)
      BY <1>1, <1>2, <1>3, <2>1, Constants DEF Unwrapped
    <3> QED
      BY <1>1, <1>2, <2>1, <3>1 DEF OverflowAt, Unwrapped
  <2>2. CASE l.high = last.high + Period
    <3>1. l.local < prev - Half
      BY <1>1, <1>2, <1>3, <2>2, Constants DEF Unwrapped
    <3> QED
      BY <1>1, <1>2, <2>2, <3>1, Constants DEF OverflowAt, Unwrapped
  <2>3. CASE l.high >= last.high + 2 * Period
    BY <1>1, <1>3, <2>3, Constants DEF Unwrapped
  <2> QED
    BY <1>3, <2>1, <2>2, <2>3
<1>5. Estimate(l) = start + ((l.local + OverflowAt(l)) - offset)
    BY DEF Estimate, Adjusted
<1>6. OverflowAt(l) \in Nat /\ Unwrapped(l) \in Nat /\ Unwrapped(last) \in Nat
    BY <1>1, <1>2, Constants DEF OverflowAt, Unwrapped
<1> QED
    BY <1>1, <1>2, <1>3, <1>4, <1>5, <1>6 DEF Adjusted

-----------------------------------------------------------------------------

(* The initial states. *)
LEMMA InitInv == Init => Inv
<1> SUFFICES ASSUME Init PROVE Inv
    OBVIOUS
<1> USE Constants DEF Init
<1>1. lines = <<>> /\ csi = <<>> /\ Len(lines) = 0 /\ Len(csi) = 0
    BY EmptySeq
<1>2. NoFrame \in Line
    BY DEF NoFrame, Line
<1>3. Typed
    BY <1>1, <1>2, EmptySeq DEF Typed, None
<1>4. Bounded
    BY <1>1 DEF Bounded
<1>5. Aged
    BY <1>1 DEF Aged
<1>6. Estimated
    BY DEF Estimated
<1>7. Windowed
    BY <1>1 DEF Windowed
<1> QED
    BY <1>3, <1>4, <1>5, <1>6, <1>7 DEF Inv

(* Types. *)
LEMMA TypedStep == Inv /\ [Next]_vars => Typed' /\ Bounded'
<1> SUFFICES ASSUME Inv, [Next]_vars PROVE Typed' /\ Bounded'
    OBVIOUS
<1> USE Constants DEF Inv
<1>u. CASE UNCHANGED vars
    BY <1>u DEF vars, device, estimate, buffer, Typed, Bounded
<1>1. CASE Capture
  <2>1. Captured \in Line
    BY DEF Captured, WallClock, Line, Typed
  <2>2. lines' \in Seq(Line)
    BY <1>1, <2>1 DEF Capture, Typed
  <2> QED
    BY <1>1, <2>2 DEF Capture, device, estimate, buffer, Typed, Bounded
<1>2. CASE Tick
  <2>1. now' = now + 1 /\ now < MaxTime
    BY <1>2 DEF Tick
  <2>2. counter' \in 0 .. Period - 1 /\ high' \in Nat
    BY <1>2 DEF Tick, Typed
  <2>3. now' \in Nat /\ now' \in Epoch .. MaxTime
    BY <2>1 DEF Typed, Bounded
  <2> QED
    BY <1>2, <2>2, <2>3 DEF Tick, estimate, buffer, Typed, Bounded
<1>3. CASE SetClock
    BY <1>3 DEF SetClock, estimate, buffer, Typed, Bounded
<1>4. CASE Reboot
  <2>1. boot' \in Nat /\ boot' <= MaxBoots /\ high' \in Nat /\ counter' \in 0 .. Period - 1
    BY <1>4 DEF Reboot, Typed
  <2> QED
    BY <1>4, <2>1 DEF Reboot, estimate, buffer, Typed, Bounded
<1>5. CASE Lose
  <2>1. lines' \in Seq(Line)
    BY <1>5, TailOfLines DEF Lose, Typed
  <2> QED
    BY <1>5, <2>1 DEF Lose, device, estimate, buffer, Typed, Bounded
<1>6. CASE Reconnect
  <2>1. NoFrame \in Line
    BY DEF NoFrame, Line
  <2> QED
    BY <1>6, <2>1 DEF Reconnect, device, buffer, Typed, Bounded
<1>7. ASSUME NEW t \in Int, Feed(lines[1], t), lines # <<>>, lines' = Tail(lines)
      PROVE  /\ lines' \in Seq(Line) /\ lines[1] \in Line
             /\ csi' \in Seq(Entry) /\ Len(csi') <= MaxBuffered
             /\ heard' \subseteq Nat
  <2>1. lines' \in Seq(Line) /\ lines[1] \in Line
    BY <1>7, TailOfLines DEF Typed
  <2>2. csi' \in Seq(Entry) /\ Len(csi') <= MaxBuffered
    BY <1>7, <2>1, FeedSuffix DEF Typed
  <2>3. heard' \subseteq Nat
    BY <1>7, <2>1 DEF Feed, Typed, Line
  <2> QED
    BY <2>1, <2>2, <2>3
<1>8. CASE ReceiveStamped
  <2>1. lines[1] \in Line
    BY <1>8, TailOfLines DEF ReceiveStamped, Typed
  <2>2. lines[1].stamp \in Int
    BY <2>1 DEF Line
  <2>3. /\ lines' \in Seq(Line)
        /\ csi' \in Seq(Entry) /\ Len(csi') <= MaxBuffered /\ heard' \subseteq Nat
    BY <1>7, <1>8, <2>2 DEF ReceiveStamped
  <2>4. calm' \in BOOLEAN
    BY <1>8, <2>1 DEF ReceiveStamped, Typed, Line
  <2> QED
    BY <1>8, <2>3, <2>4 DEF ReceiveStamped, device, estimate, Typed, Bounded
<1>9. CASE ReceiveBare
  <2> DEFINE l == lines[1]
  <2>1. l \in Line /\ l.local \in 0 .. Period - 1
    BY <1>9, TailOfLines DEF ReceiveBare, Typed, Line
  <2>2. OverflowAt(l) \in Nat
    BY DEF OverflowAt, Typed
  <2>3. Adjusted(l) \in Nat
    BY <2>1, <2>2 DEF Adjusted
  <2>4. Estimate(l) \in Int
    BY <2>3 DEF Estimate, Typed
  <2>5. [l EXCEPT !.t = Estimate(l)] \in Line
    BY <2>1, <2>4 DEF Line
  <2>6. SteadyAt(l) \in BOOLEAN
    BY DEF SteadyAt, Follows, Typed
  <2>7. /\ lines' \in Seq(Line)
        /\ csi' \in Seq(Entry) /\ Len(csi') <= MaxBuffered /\ heard' \subseteq Nat
    BY <1>7, <1>9, <2>4 DEF ReceiveBare
  <2>8. /\ overflow' = OverflowAt(l) /\ prev' = l.local
        /\ offset' = (IF offset = None THEN Adjusted(l) ELSE offset)
        /\ start' = (IF offset = None THEN now ELSE start)
        /\ last' = [l EXCEPT !.t = Estimate(l)]
        /\ base' = (IF offset = None THEN [l EXCEPT !.t = Estimate(l)] ELSE base)
        /\ steady' = SteadyAt(l)
        /\ calm' = (calm /\ SteadyAt(l))
        /\ UNCHANGED device
    BY <1>9 DEF ReceiveBare
  <2> HIDE DEF l
  <2>9. calm' \in BOOLEAN
    BY <2>6, <2>8 DEF Typed
  <2>10. last' \in Line /\ base' \in Line
    BY <2>5, <2>8 DEF Typed
  <2>11. /\ overflow' \in Nat /\ prev' \in (0 .. Period - 1) \cup {None}
         /\ offset' \in Nat \cup {None} /\ start' \in Nat /\ steady' \in BOOLEAN
    BY <2>1, <2>2, <2>3, <2>6, <2>8 DEF Typed
  <2> QED
    BY <2>7, <2>8, <2>9, <2>10, <2>11 DEF device, Typed, Bounded
<1> QED
    BY <1>u, <1>1, <1>2, <1>3, <1>4, <1>5, <1>6, <1>8, <1>9 DEF Next

(* What was captured before a step of the device is so afterwards. *)
LEMMA KeepsOrder ==
    ASSUME Typed, Tick \/ Reboot,
           NEW x \in Line, Ordered(x, Dev)
    PROVE  Ordered(x, Dev')
<1> USE Constants
<1>1. /\ Dev.cap = now /\ Dev.boot = boot /\ Dev.high = high /\ Dev.local = counter
      /\ Dev'.cap = now' /\ Dev'.boot = boot' /\ Dev'.high = high'
      /\ Dev'.local = counter'
    BY DEF Dev
<1>2. /\ now \in Nat /\ high \in Nat /\ counter \in Nat /\ boot \in Nat
      /\ x.cap \in Nat /\ x.high \in Nat /\ x.local \in Nat /\ x.boot \in Nat
    BY DEF Typed, Line
<1>3. CASE Tick
  <2>1. /\ now' = now + 1 /\ boot' = boot
        /\ high' + counter' = (high + counter) + 1
        /\ high' = high \/ high' = high + Period
    BY <1>2, <1>3 DEF Tick
  <2>2. /\ x.cap <= Dev'.cap /\ x.boot <= Dev'.boot
        /\ x.boot = Dev'.boot => Unwrapped(Dev') - Unwrapped(x) = Dev'.cap - x.cap
    <3>1. x.cap <= Dev'.cap /\ x.boot <= Dev'.boot
      BY <1>1, <1>2, <2>1 DEF Ordered
    <3>2. ASSUME x.boot = Dev'.boot PROVE Unwrapped(Dev') - Unwrapped(x) = Dev'.cap - x.cap
      <4>1. (high + counter) - (x.high + x.local) = now - x.cap
        BY <1>1, <2>1, <3>2 DEF Ordered, Unwrapped
      <4>2. Unwrapped(Dev') = (high + counter) + 1 /\ Dev'.cap = now + 1
        BY <1>1, <2>1 DEF Unwrapped
      <4> QED
        BY <1>2, <4>1, <4>2 DEF Unwrapped
    <3> QED
      BY <3>1, <3>2
  <2>3. x.boot = Dev'.boot => \/ Dev'.high = x.high
                              \/ Dev'.high = x.high + Period
                              \/ Dev'.high >= x.high + 2 * Period
    <3>1. CASE high' = high
      BY <1>1, <1>2, <2>1, <3>1 DEF Ordered
    <3>2. CASE high' = high + Period
      BY <1>1, <1>2, <2>1, <3>2 DEF Ordered
    <3> QED
      BY <2>1, <3>1, <3>2
  <2> QED
    BY <2>2, <2>3 DEF Ordered, Unwrapped
<1>4. CASE Reboot
  <2>1. x.cap <= Dev'.cap /\ x.boot <= Dev'.boot /\ x.boot # Dev'.boot
    BY <1>1, <1>2, <1>4 DEF Reboot, Ordered
  <2> QED
    BY <2>1 DEF Ordered
<1> QED
    BY <1>3, <1>4

(* Order. *)
LEMMA AgedStep == Inv /\ [Next]_vars => Aged'
<1> SUFFICES ASSUME Inv, [Next]_vars PROVE Aged'
    OBVIOUS
<1> USE Constants DEF Inv
<1>u. CASE UNCHANGED vars
    BY <1>u DEF vars, device, estimate, buffer, Aged, Ordered, Dev, Unwrapped
<1>t. /\ now \in Nat /\ high \in Nat /\ counter \in Nat /\ boot \in Nat
      /\ \A i \in 1 .. Len(lines) :
             /\ lines[i] \in Line
             /\ lines[i].cap \in Nat /\ lines[i].high \in Nat /\ lines[i].local \in Nat
             /\ lines[i].boot \in Nat /\ lines[i].stamp \in Nat
      /\ last.cap \in Nat /\ last.high \in Nat /\ last.local \in Nat /\ last.boot \in Nat
      /\ \A c \in heard : c \in Nat
      /\ Len(csi) \in Nat /\ \A i \in 1 .. Len(csi) : csi[i].cap \in Nat /\ csi[i].t \in Int
      /\ Len(lines) \in Nat
  <2>1. \A x \in Line : /\ x.cap \in Nat /\ x.high \in Nat /\ x.local \in Nat
                        /\ x.boot \in Nat /\ x.stamp \in Nat
    BY DEF Line
  <2>2. \A x \in Entry : x.cap \in Nat /\ x.t \in Int
    BY DEF Entry
  <2>3. /\ Len(lines) \in Nat /\ \A i \in 1 .. Len(lines) : lines[i] \in Line
        /\ Len(csi) \in Nat /\ \A i \in 1 .. Len(csi) : csi[i] \in Entry
    BY DEF Typed
  <2>4. /\ now \in Nat /\ high \in Nat /\ counter \in Nat /\ boot \in Nat
        /\ last \in Line /\ \A c \in heard : c \in Nat
    BY DEF Typed
  <2> QED
    BY <2>1, <2>2, <2>3, <2>4
<1>d. /\ Dev.cap = now /\ Dev.boot = boot /\ Dev.high = high /\ Dev.local = counter
      /\ Dev'.cap = now' /\ Dev'.boot = boot' /\ Dev'.high = high'
      /\ Dev'.local = counter'
    BY DEF Dev
<1>1. CASE Capture
  <2>1. /\ lines' = Append(lines, Captured)
        /\ UNCHANGED <<now, boot, high, counter, offset, last, heard, csi>>
    BY <1>1 DEF Capture, device, estimate, buffer
  <2>2. /\ Captured.cap = now /\ Captured.boot = boot /\ Captured.high = high
        /\ Captured.local = counter
        /\ Captured.set /\ Captured.stamp > 0 => Captured.stamp = now
    BY <1>t DEF Captured, WallClock
  <2> DEFINE s == Append(lines, Captured)
  <2>3. /\ Len(s) = Len(lines) + 1
        /\ \A i \in 1 .. Len(s) :
               s[i] = IF i = Len(lines) + 1 THEN Captured ELSE lines[i]
    BY DEF Typed
  <2>4. \A i \in 1 .. Len(s) : i # Len(lines) + 1 => i \in 1 .. Len(lines)
    BY <1>t, <2>3
  <2>5. Dev' = Dev
    BY <2>1 DEF Dev
  <2>6. Ordered(Captured, Dev)
    BY <1>t, <1>d, <2>2 DEF Ordered, Unwrapped
  <2>7. \A x : Ordered(x, Dev) => Ordered(x, Captured)
    BY <1>d, <2>2 DEF Ordered, Unwrapped
  <2> HIDE DEF Captured, s
  <2>8. /\ \A i \in 1 .. Len(s) :
              /\ Ordered(s[i], Dev)
              /\ now <= s[i].cap + MaxDelay
              /\ s[i].set /\ s[i].stamp > 0 => s[i].stamp = s[i].cap
    <3>1. \A i \in 1 .. Len(s) :
              s[i] = Captured \/ (s[i] = lines[i] /\ i \in 1 .. Len(lines))
      BY <2>3, <2>4
    <3>2. now <= Captured.cap + MaxDelay
      BY <1>t, <2>2
    <3> QED
      BY <2>2, <2>6, <3>1, <3>2 DEF Aged
  <2>9. \A i, j \in 1 .. Len(s) : i < j => Ordered(s[i], s[j])
    BY <1>t, <2>3, <2>4, <2>7 DEF Aged
  <2>10. offset # None =>
           /\ Ordered(last, Dev)
           /\ \A i \in 1 .. Len(s) : Ordered(last, s[i])
    BY <2>3, <2>4, <2>7 DEF Aged
  <2>11. \A c \in heard : c <= now /\ \A i \in 1 .. Len(s) : c <= s[i].cap
    BY <2>2, <2>3, <2>4 DEF Aged
  <2>12. \A i \in 1 .. Len(csi) : \A j \in 1 .. Len(s) : csi[i].cap <= s[j].cap
    BY <2>2, <2>3, <2>4 DEF Aged
  <2>13. \A i \in 1 .. Len(csi) :
           /\ csi[i].cap <= now
           /\ \A j \in 1 .. Len(csi) : i <= j => csi[i].cap <= csi[j].cap
    BY DEF Aged
  <2>14. lines' = s
    BY <2>1 DEF s
  <2> QED
    BY <2>1, <2>5, <2>8, <2>9, <2>10, <2>11, <2>12, <2>13, <2>14 DEF Aged, Ordered, Unwrapped
<1>2. CASE Tick \/ Reboot
  <2>1. /\ UNCHANGED <<lines, offset, last, heard, csi>>
        /\ now' \in Nat /\ now <= now'
        /\ \A i \in 1 .. Len(lines) : now' <= lines[i].cap + MaxDelay
    <3>1. CASE Tick
      BY <1>t, <3>1 DEF Tick, estimate, buffer
    <3>2. CASE Reboot
      BY <1>t, <3>2 DEF Reboot, estimate, buffer, Aged
    <3> QED
      BY <1>2, <3>1, <3>2
  <2>2. \A i \in 1 .. Len(lines) : Ordered(lines'[i], Dev')
    <3> TAKE i \in 1 .. Len(lines)
    <3>1. Ordered(lines[i], Dev) /\ lines[i] \in Line
      BY <1>t DEF Aged
    <3>2. lines'[i] = lines[i]
      BY <2>1
    <3> QED
      BY <1>2, <3>1, <3>2, KeepsOrder
  <2>3. offset # None => Ordered(last', Dev')
    <3>1. last' = last /\ last \in Line
      BY <2>1 DEF Typed
    <3>2. ASSUME offset # None PROVE Ordered(last, Dev)
      BY <3>2 DEF Aged
    <3> QED
      BY <1>2, <3>1, <3>2, KeepsOrder
  <2> QED
    BY <1>t, <2>1, <2>2, <2>3 DEF Aged, Ordered, Unwrapped
<1>3. CASE SetClock
    BY <1>3 DEF SetClock, estimate, buffer, Aged, Ordered, Dev, Unwrapped
<1>6. CASE Reconnect
    BY <1>6 DEF Reconnect, device, buffer, Aged, Ordered, Dev, Unwrapped
(* The lines that are left when the first one is taken. *)
<1>5. ASSUME lines # <<>>, lines' = Tail(lines), UNCHANGED device
      PROVE  /\ \A i \in 1 .. Len(lines') :
                    /\ Ordered(lines'[i], Dev)
                    /\ now <= lines'[i].cap + MaxDelay
                    /\ lines'[i].set /\ lines'[i].stamp > 0 =>
                           lines'[i].stamp = lines'[i].cap
                    /\ Ordered(lines[1], lines'[i])
             /\ \A i, j \in 1 .. Len(lines') : i < j => Ordered(lines'[i], lines'[j])
             /\ Dev' = Dev /\ now' = now
             /\ Len(lines') \in Nat
  <2>1. /\ \A i \in 1 .. Len(lines') : lines'[i] = lines[i + 1] /\ i + 1 \in 1 .. Len(lines)
        /\ 1 \in 1 .. Len(lines) /\ Len(lines') \in Nat
    BY <1>5, TailOfLines DEF Typed
  <2>2. \A i, j \in 1 .. Len(lines') : i < j => i + 1 < j + 1
    BY <2>1
  <2>3. \A i \in 1 .. Len(lines') : 1 < i + 1
    BY <2>1
  <2>4. Dev' = Dev /\ now' = now
    BY <1>5 DEF device, Dev
  <2>5. /\ \A i \in 1 .. Len(lines) :
           /\ Ordered(lines[i], Dev)
           /\ now <= lines[i].cap + MaxDelay
           /\ lines[i].set /\ lines[i].stamp > 0 => lines[i].stamp = lines[i].cap
        /\ \A i, j \in 1 .. Len(lines) : i < j => Ordered(lines[i], lines[j])
    BY DEF Aged
  <2> QED
    BY <2>1, <2>2, <2>3, <2>4, <2>5
<1>7. CASE Lose
  <2>1. lines # <<>> /\ lines' = Tail(lines) /\ UNCHANGED <<device, offset, last, heard, csi>>
    BY <1>7 DEF Lose, estimate, buffer
  <2>2. \A i \in 1 .. Len(lines') : \E j \in 1 .. Len(lines) : lines'[i] = lines[j]
    BY <2>1, TailOfLines DEF Typed
  <2>3. /\ offset # None => \A i \in 1 .. Len(lines') : Ordered(last, lines'[i])
        /\ \A c \in heard : \A i \in 1 .. Len(lines') : c <= lines'[i].cap
        /\ \A i \in 1 .. Len(csi) : \A j \in 1 .. Len(lines') : csi[i].cap <= lines'[j].cap
    BY <2>2 DEF Aged
  <2> QED
    BY <1>5, <2>1, <2>3 DEF Aged, Ordered, Unwrapped
(* The buffer, when it is fed. *)
<1>8. ASSUME NEW t \in Int, Feed(lines[1], t),
             lines # <<>>, lines' = Tail(lines), UNCHANGED device
      PROVE  /\ \A c \in heard' : c <= now /\ \A i \in 1 .. Len(lines') : c <= lines'[i].cap
             /\ \A i \in 1 .. Len(csi') :
                    /\ csi'[i].cap <= now
                    /\ \A j \in 1 .. Len(lines') : csi'[i].cap <= lines'[j].cap
                    /\ \A j \in 1 .. Len(csi') : i <= j => csi'[i].cap <= csi'[j].cap
  <2> DEFINE l == lines[1]
  <2>1. /\ l \in Line /\ l.cap \in Nat /\ l.cap <= now
        /\ \A i \in 1 .. Len(lines') : l.cap <= lines'[i].cap
        /\ \A i \in 1 .. Len(lines') : \E j \in 1 .. Len(lines) : lines'[i] = lines[j]
        /\ \A c \in heard : c <= l.cap
        /\ \A i \in 1 .. Len(csi) : csi[i].cap <= l.cap
    <3>1. /\ 1 \in 1 .. Len(lines) /\ l \in Line
          /\ \A i \in 1 .. Len(lines') : lines'[i] = lines[i + 1] /\ i + 1 \in 1 .. Len(lines)
      BY <1>8, TailOfLines DEF Typed
    <3>2. \A i \in 1 .. Len(lines') : l.cap <= lines'[i].cap
      BY <1>5, <1>8 DEF Ordered
    <3>3. l.cap <= now
      BY <1>d, <3>1 DEF Aged, Ordered
    <3> QED
      BY <1>t, <3>1, <3>2, <3>3 DEF Aged
  <2>2. PICK k \in 1 .. Len(csi) + 2 :
               /\ Len(csi') = (Len(csi) + 2) - k
               /\ \A i \in 1 .. (Len(csi) + 2) - k :
                      csi'[i] = IF k + i = Len(csi) + 2 THEN [t |-> t, cap |-> l.cap]
                                ELSE csi[(k + i) - 1]
    <3>1. csi \in Seq(Entry) /\ Feed(l, t)
      BY <1>8 DEF Typed
    <3> HIDE DEF l
    <3> QED
      BY <3>1, <2>1, FeedSuffix
  <2>3. heard' \subseteq heard \cup {l.cap}
    BY <1>8 DEF Feed
  <2> HIDE DEF l
  <2>4. ASSUME NEW i \in 1 .. Len(csi')
        PROVE  \/ k + i = Len(csi) + 2 /\ csi'[i].cap = l.cap
               \/ (k + i) - 1 \in 1 .. Len(csi) /\ csi'[i].cap = csi[(k + i) - 1].cap
    <3>1. CASE k + i = Len(csi) + 2
      <4>1. csi'[i] = [t |-> t, cap |-> l.cap]
        BY <1>t, <2>2, <3>1
      <4> QED
        BY <3>1, <4>1
    <3>2. CASE k + i # Len(csi) + 2
      <4>1. csi'[i] = csi[(k + i) - 1] /\ (k + i) - 1 \in 1 .. Len(csi)
        BY <1>t, <2>2, <3>2
      <4> QED
        BY <4>1
    <3> QED
      BY <3>1, <3>2
  <2>5. ASSUME NEW i \in 1 .. Len(csi')
        PROVE  csi'[i].cap <= l.cap /\ csi'[i].cap \in Nat
    <3>1. CASE csi'[i].cap = l.cap
      BY <2>1, <3>1
    <3>2. CASE (k + i) - 1 \in 1 .. Len(csi) /\ csi'[i].cap = csi[(k + i) - 1].cap
      BY <1>t, <2>1, <3>2
    <3> QED
      BY <2>4, <3>1, <3>2
  <2>6. ASSUME NEW i \in 1 .. Len(csi'), NEW j \in 1 .. Len(csi'), i <= j
        PROVE  csi'[i].cap <= csi'[j].cap
    <3>1. CASE k + j = Len(csi) + 2
      <4>1. csi'[j].cap = l.cap
        BY <1>t, <2>4, <3>1
      <4> QED
        BY <2>5, <4>1
    <3>2. CASE k + j # Len(csi) + 2
      <4>1. (k + j) - 1 \in 1 .. Len(csi) /\ csi'[j].cap = csi[(k + j) - 1].cap
        BY <1>t, <2>4, <3>2
      <4>2. (k + i) - 1 \in 1 .. Len(csi) /\ csi'[i].cap = csi[(k + i) - 1].cap
        BY <1>t, <2>4, <2>6, <4>1
      <4>3. (k + i) - 1 <= (k + j) - 1
        BY <1>t, <2>6, <2>2
      <4> QED
        BY <4>1, <4>2, <4>3 DEF Aged
    <3> QED
      BY <3>1, <3>2
  <2>7. \A i \in 1 .. Len(csi') : csi'[i].cap <= now
    BY <1>t, <2>1, <2>5
  <2>8. ASSUME NEW j \in 1 .. Len(lines')
        PROVE  lines'[j].cap \in Nat /\ l.cap <= lines'[j].cap
    BY <1>t, <2>1
  <2>9. \A i \in 1 .. Len(csi') : \A j \in 1 .. Len(lines') : csi'[i].cap <= lines'[j].cap
    BY <2>1, <2>5, <2>8
  <2>10. \A c \in heard' : c \in Nat /\ c <= l.cap
    BY <1>t, <2>1, <2>3
  <2>11. \A c \in heard' : c <= now /\ \A i \in 1 .. Len(lines') : c <= lines'[i].cap
    BY <1>t, <2>1, <2>8, <2>10
  <2> QED
    BY <2>6, <2>7, <2>9, <2>11
<1>9. CASE ReceiveStamped
  <2>1. /\ lines # <<>> /\ lines' = Tail(lines) /\ UNCHANGED device
        /\ UNCHANGED <<offset, last>> /\ Feed(lines[1], lines[1].stamp)
        /\ lines[1].stamp \in Int
    <3>1. lines[1] \in Line
      BY <1>9, TailOfLines DEF ReceiveStamped, Typed
    <3> QED
      BY <1>9, <3>1 DEF ReceiveStamped, estimate, Line
  <2>2. \A i \in 1 .. Len(lines') : \E j \in 1 .. Len(lines) : lines'[i] = lines[j]
    BY <2>1, TailOfLines DEF Typed
  <2>3. offset # None =>
           /\ Ordered(last, Dev)
           /\ \A i \in 1 .. Len(lines') : Ordered(last, lines'[i])
    BY <2>2 DEF Aged
  <2> QED
    BY <1>5, <1>8, <2>1, <2>3 DEF Aged, Ordered, Unwrapped
<1>10. CASE ReceiveBare
  <2>1. /\ lines # <<>> /\ lines' = Tail(lines) /\ UNCHANGED device
        /\ last' = [lines[1] EXCEPT !.t = Estimate(lines[1])]
        /\ Feed(lines[1], Estimate(lines[1]))
    BY <1>10 DEF ReceiveBare
  <2>2. lines[1] \in Line /\ Ordered(lines[1], Dev)
    BY <2>1, TailOfLines DEF Typed, Aged
  <2>3. Estimate(lines[1]) \in Int
    <3>1. lines[1].local \in Nat
      BY <2>2 DEF Line
    <3>2. OverflowAt(lines[1]) \in Nat
      BY DEF OverflowAt, Typed
    <3>3. Adjusted(lines[1]) \in Int
      BY <3>1, <3>2 DEF Adjusted
    <3> QED
      BY <3>3 DEF Estimate, Typed
  <2>4. /\ last'.cap = lines[1].cap /\ last'.boot = lines[1].boot
        /\ last'.high = lines[1].high /\ last'.local = lines[1].local
    BY <2>1, <2>2 DEF Line
  <2>5. \A y : Ordered(lines[1], y) => Ordered(last', y)
    BY <2>4 DEF Ordered, Unwrapped
  <2> QED
    BY <1>5, <1>8, <2>1, <2>2, <2>3, <2>5 DEF Aged, Ordered, Unwrapped
<1> QED
  BY <1>u, <1>1, <1>2, <1>3, <1>6, <1>7, <1>9, <1>10 DEF Next

(* The estimate of a frame is no earlier than its capture and late by no   *)
(* more than the delay of the frame the estimate started from.             *)
LEMMA BareTime ==
    ASSUME Inv, ReceiveBare
    PROVE  /\ lines[1] \in Line /\ lines[1].cap \in Nat
           /\ OverflowAt(lines[1]) \in Nat /\ Adjusted(lines[1]) \in Nat
           /\ Estimate(lines[1]) \in Int
           /\ SteadyAt(lines[1]) =>
                  /\ lines[1].cap <= Estimate(lines[1])
                  /\ Estimate(lines[1]) <= lines[1].cap + MaxDelay
<1> USE Constants DEF Inv
<1> DEFINE l == lines[1]
<1>1. /\ l \in Line /\ 1 \in 1 .. Len(lines)
    BY TailOfLines DEF ReceiveBare, Typed
<1>2. l.cap \in Nat /\ l.local \in Nat
    BY <1>1 DEF Line
<1>3. OverflowAt(l) \in Nat
    BY DEF OverflowAt, Typed
<1>4. Adjusted(l) \in Nat
    BY <1>2, <1>3 DEF Adjusted
<1>5. Estimate(l) \in Int
    BY <1>4 DEF Estimate, Typed
<1>6. Ordered(l, Dev) /\ now <= l.cap + MaxDelay /\ (offset # None => Ordered(last, l))
    BY <1>1 DEF Aged
<1>7. ASSUME SteadyAt(l)
      PROVE  l.cap <= Estimate(l) /\ Estimate(l) <= l.cap + MaxDelay
  <2>1. CASE offset = None
    BY <1>6, <2>1 DEF Estimate, Ordered, Dev
  <2>2. CASE offset # None
    <3>1. steady /\ Follows(l)
      BY <1>7, <2>2 DEF SteadyAt
    <3>2. Estimate(l) - last.t = l.cap - last.cap
      BY <1>1, <1>6, <2>2, <3>1, EstimateMoves
    <3>3. last.cap <= last.t /\ last.t <= last.cap + MaxDelay
      BY <2>2, <3>1 DEF Estimated
    <3>4. last.cap \in Nat /\ last.t \in Int
      BY DEF Typed, Line
    <3> QED
      BY <1>2, <1>5, <3>2, <3>3, <3>4
  <2> QED
    BY <2>1, <2>2
<1> QED
    BY <1>1, <1>2, <1>3, <1>4, <1>5, <1>7

(* The estimate. *)
LEMMA EstimatedStep == Inv /\ [Next]_vars => Estimated'
<1> SUFFICES ASSUME Inv, [Next]_vars PROVE Estimated'
    OBVIOUS
<1> USE Constants DEF Inv
<1>1. CASE UNCHANGED estimate
    BY <1>1 DEF estimate, Estimated, Unwrapped
<1>2. CASE UNCHANGED vars \/ Capture \/ Tick \/ SetClock \/ Reboot \/ Lose \/ ReceiveStamped
  <2>1. UNCHANGED estimate
    BY <1>2 DEF vars, Capture, Tick, SetClock, Reboot, Lose, ReceiveStamped
  <2> QED
    BY <1>1, <2>1
<1>3. CASE Reconnect
    BY <1>3 DEF Reconnect, Estimated
<1>4. CASE ReceiveBare
  <2> DEFINE l == lines[1]
             e == [l EXCEPT !.t = Estimate(l)]
  <2>1. /\ l \in Line /\ l.cap \in Nat
        /\ OverflowAt(l) \in Nat /\ Adjusted(l) \in Nat /\ Estimate(l) \in Int
        /\ SteadyAt(l) => l.cap <= Estimate(l) /\ Estimate(l) <= l.cap + MaxDelay
    BY <1>4, BareTime
  <2>2. /\ overflow' = OverflowAt(l) /\ prev' = l.local
        /\ offset' = (IF offset = None THEN Adjusted(l) ELSE offset)
        /\ start' = (IF offset = None THEN now ELSE start)
        /\ last' = e
        /\ base' = (IF offset = None THEN e ELSE base)
        /\ steady' = SteadyAt(l)
    BY <1>4 DEF ReceiveBare
  <2>3. /\ e.t = Estimate(l) /\ e.cap = l.cap /\ e.high = l.high /\ e.local = l.local
        /\ l.high \in Nat /\ l.local \in Nat
    BY <2>1 DEF Line
  <2>o. offset # None => Ordered(last, l)
    <3>1. 1 \in 1 .. Len(lines)
      BY <1>4, TailOfLines DEF ReceiveBare, Typed
    <3> QED
      BY <3>1 DEF Aged
  <2> HIDE DEF l, e
  <2>4. offset' \in Nat /\ offset' # None /\ prev' # None /\ prev' = last'.local
    BY <2>1, <2>2, <2>3 DEF Typed, None
  <2>5. ASSUME steady'
        PROVE  /\ last'.t = start' + ((prev' + overflow') - offset')
               /\ last'.t - base'.t = Unwrapped(last') - Unwrapped(base')
               /\ last'.cap <= last'.t /\ last'.t <= last'.cap + MaxDelay
    <3>1. last'.cap <= last'.t /\ last'.t <= last'.cap + MaxDelay
      BY <2>1, <2>2, <2>3, <2>5
    <3>2. CASE offset = None
      <4>1. start' = now /\ offset' = Adjusted(l) /\ base' = e /\ Estimate(l) = now
        BY <2>2, <3>2 DEF Estimate
      <4>2. Adjusted(l) = l.local + OverflowAt(l) /\ now \in Nat
        BY DEF Adjusted, Typed
      <4>3. last'.t = start' + ((prev' + overflow') - offset')
        BY <2>1, <2>2, <2>3, <4>1, <4>2
      <4>4. last'.t - base'.t = Unwrapped(last') - Unwrapped(base')
        BY <2>1, <2>2, <2>3, <4>1, <4>2 DEF Unwrapped
      <4> QED
        BY <3>1, <4>3, <4>4
    <3>3. CASE offset # None
      <4>1. steady /\ Follows(l)
        BY <2>2, <2>5, <3>3 DEF SteadyAt
      <4>2. Estimate(l) - last.t = Unwrapped(l) - Unwrapped(last)
        BY <2>1, <2>o, <3>3, <4>1, EstimateMoves
      <4>3. last.t - base.t = Unwrapped(last) - Unwrapped(base)
        BY <3>3, <4>1 DEF Estimated
      <4>4. /\ last.t \in Int /\ base.t \in Int /\ Unwrapped(last) \in Nat
            /\ Unwrapped(base) \in Nat
        BY DEF Typed, Line, Unwrapped
      <4>5. base' = base /\ last'.t = Estimate(l) /\ Unwrapped(last') = Unwrapped(l)
            /\ Unwrapped(l) \in Nat
        BY <2>2, <2>3, <3>3 DEF Unwrapped
      <4>6. last'.t - base'.t = Unwrapped(last') - Unwrapped(base')
        <5>1. Unwrapped(base') = Unwrapped(base)
          BY <4>5
        <5> QED
          BY <2>1, <4>2, <4>3, <4>4, <4>5, <5>1
      <4>7. last'.t = start' + ((prev' + overflow') - offset')
        BY <2>1, <2>2, <2>3, <3>3 DEF Estimate, Adjusted, Typed
      <4> QED
        BY <3>1, <4>6, <4>7
    <3> QED
      BY <3>2, <3>3
  <2> QED
    BY <2>4, <2>5 DEF Estimated
<1> QED
    BY <1>2, <1>3, <1>4 DEF Next

(* The buffer. *)
LEMMA WindowedStep == Inv /\ [Next]_vars => Windowed'
<1> SUFFICES ASSUME Inv, [Next]_vars PROVE Windowed'
    OBVIOUS
<1> USE Constants DEF Inv
<1>1. CASE UNCHANGED vars \/ Capture \/ Tick \/ SetClock \/ Reboot \/ Lose \/ Reconnect
  <2>1. UNCHANGED buffer
    BY <1>1 DEF vars, Capture, Tick, SetClock, Reboot, Lose, Reconnect
  <2> QED
    BY <2>1 DEF buffer, Windowed
<1>2. ASSUME NEW t \in Int, Feed(lines[1], t), lines[1] \in Line, lines[1].cap \in Nat, calm,
             lines # <<>>,
             lines[1].cap <= t, t <= lines[1].cap + MaxDelay
      PROVE  /\ \A i \in 1 .. Len(csi') :
                    csi'[i].cap <= csi'[i].t /\ csi'[i].t <= csi'[i].cap + MaxDelay
             /\ \A c \in heard' :
                    \/ \E i \in 1 .. Len(csi') : csi'[i].cap = c
                    \/ /\ Len(csi') = MaxBuffered
                       /\ \A i \in 1 .. Len(csi') : c <= csi'[i].cap
  <2> DEFINE l == lines[1]
             r == [t |-> t, cap |-> l.cap]
             n == Len(csi)
  <2>t. /\ n \in Nat
        /\ \A i \in 1 .. n : csi[i].cap \in Nat /\ csi[i].t \in Int
        /\ \A i \in 1 .. n : csi[i].cap <= l.cap
        /\ \A i, j \in 1 .. n : i <= j => csi[i].cap <= csi[j].cap
        /\ \A i \in 1 .. n : csi[i].cap <= csi[i].t /\ csi[i].t <= csi[i].cap + MaxDelay
        /\ n <= MaxBuffered
    <3>1. \A x \in Entry : x.cap \in Nat /\ x.t \in Int
      BY DEF Entry
    <3>2. n \in Nat /\ \A i \in 1 .. n : csi[i] \in Entry
      BY DEF Typed
    <3>3. 1 \in 1 .. Len(lines)
      BY <1>2, EmptySeq DEF Typed
    <3>4. \A i \in 1 .. n : csi[i].cap <= l.cap
      BY <3>3 DEF Aged
    <3>5. \A i, j \in 1 .. n : i <= j => csi[i].cap <= csi[j].cap
      BY DEF Aged
    <3>6. \A i \in 1 .. n : csi[i].cap <= csi[i].t /\ csi[i].t <= csi[i].cap + MaxDelay
      BY <1>2 DEF Windowed
    <3> QED
      BY <3>1, <3>2, <3>4, <3>5, <3>6 DEF Bounded
  <2>h. /\ heard' = {c \in heard \cup {l.cap} : c >= l.cap - Window}
        /\ \A c \in heard : c \in Nat
    BY <1>2 DEF Feed, Typed
  <2>w. \A c \in heard : \/ \E i \in 1 .. n : csi[i].cap = c
                         \/ /\ n = MaxBuffered
                            /\ \A i \in 1 .. n : c <= csi[i].cap
    BY <1>2 DEF Windowed
  <2>k. PICK k \in 1 .. n + 2 :
               /\ Len(csi') = (n + 2) - k
               /\ Len(csi') <= MaxBuffered
               /\ \A i \in 1 .. (n + 2) - k :
                      csi'[i] = IF k + i = n + 2 THEN r ELSE csi[(k + i) - 1]
               /\ \/ k = 1
                  \/ Len(csi') = MaxBuffered
                  \/ k <= n + 1 /\ csi[k - 1].t < t - Held
    <3>1. csi \in Seq(Entry) /\ Feed(l, t) /\ l \in Line
      BY <1>2 DEF Typed
    <3> HIDE DEF l
    <3> QED
      BY <3>1, <1>2, FeedSuffix
  <2>r. r.t = t /\ r.cap = l.cap /\ l.cap \in Nat /\ l.cap <= t /\ t <= l.cap + MaxDelay
    BY <1>2
  <2> HIDE DEF l, r, n
(* What csi' holds: the new record last, and the old ones from k on. *)
  <2>1. k <= n + 1 => (n + 2) - k \in 1 .. Len(csi') /\ csi'[(n + 2) - k] = r
    BY <2>t, <2>k
  <2>2. ASSUME NEW j \in 1 .. n, k <= j
        PROVE  (j + 1) - k \in 1 .. Len(csi') /\ csi'[(j + 1) - k] = csi[j]
    <3> DEFINE m == (j + 1) - k
    <3>1. m \in 1 .. (n + 2) - k /\ k + m # n + 2 /\ (k + m) - 1 = j
      BY <2>t, <2>2
    <3> HIDE DEF m
    <3>2. csi'[m] = csi[(k + m) - 1]
      BY <2>k, <3>1
    <3> QED
      BY <2>k, <3>1, <3>2 DEF m
  <2>3. ASSUME NEW i \in 1 .. Len(csi')
        PROVE  csi'[i] = r \/ ((k + i) - 1 \in 1 .. n /\ csi'[i] = csi[(k + i) - 1])
    BY <2>t, <2>k
  <2>4. \A i \in 1 .. Len(csi') :
            csi'[i].cap <= csi'[i].t /\ csi'[i].t <= csi'[i].cap + MaxDelay
    BY <2>t, <2>r, <2>3
(* What went is too old to be in heard, or there is no room for it. *)
  <2>5. ASSUME NEW c \in heard'
        PROVE  \/ \E i \in 1 .. Len(csi') : csi'[i].cap = c
               \/ /\ Len(csi') = MaxBuffered
                  /\ \A i \in 1 .. Len(csi') : c <= csi'[i].cap
    <3>1. c \in Nat /\ c >= l.cap - Window /\ (c \in heard \/ c = l.cap)
      BY <2>h, <2>r
    <3>2. CASE k = 1
      <4>1. n + 1 <= MaxBuffered /\ k <= n + 1
        BY <2>t, <2>k, <3>2
      <4>2. CASE c = l.cap
        BY <2>1, <2>r, <4>1, <4>2
      <4>3. CASE c \in heard
        <5>1. PICK j \in 1 .. n : csi[j].cap = c
          BY <2>t, <2>w, <4>1, <4>3
        <5>2. k <= j
          BY <2>t, <3>2
        <5> QED
          BY <2>2, <5>1, <5>2
      <4> QED
        BY <3>1, <4>2, <4>3
    <3>3. CASE k <= n + 1 /\ k # 1 /\ csi[k - 1].t < t - Held
      <4>1. k - 1 \in 1 .. n
        BY <2>t, <2>k, <3>3
      <4>2. csi[k - 1].cap < l.cap - Window
        BY <2>t, <2>r, <3>3, <4>1
      <4>3. CASE c = l.cap
        BY <2>1, <2>r, <3>3, <4>3
      <4>4. CASE c \in heard
        <5>1. ~ (c <= csi[k - 1].cap)
          BY <2>t, <2>r, <3>1, <4>1, <4>2
        <5>2. PICK j \in 1 .. n : csi[j].cap = c
          BY <2>w, <4>1, <4>4, <5>1
        <5>3. ~ (j <= k - 1)
          BY <2>t, <4>1, <5>1, <5>2
        <5>4. k <= j
          BY <2>t, <2>k, <5>3
        <5> QED
          BY <2>2, <5>2, <5>4
      <4> QED
        BY <3>1, <4>3, <4>4
    <3>4. CASE k # 1 /\ Len(csi') = MaxBuffered
      <4>1. ASSUME \A i \in 1 .. Len(csi') : csi'[i].cap # c
            PROVE  \A i \in 1 .. Len(csi') : c <= csi'[i].cap
        <5> TAKE i \in 1 .. Len(csi')
        <5>1. c <= l.cap
          <6>1. 1 \in 1 .. Len(lines)
            BY <1>2, EmptySeq DEF Typed
          <6> QED
            BY <2>r, <3>1, <6>1 DEF Aged, l
        <5>2. CASE csi'[i] = r
          BY <2>r, <5>1, <5>2
        <5>3. CASE (k + i) - 1 \in 1 .. n /\ csi'[i] = csi[(k + i) - 1]
          <6>1. CASE c = l.cap
            <7>1. k <= n + 1
              BY <2>t, <5>3
            <7> QED
              BY <2>1, <2>r, <4>1, <6>1, <7>1
          <6>2. CASE c \in heard /\ \A q \in 1 .. n : c <= csi[q].cap
            BY <5>3, <6>2
          <6>3. ASSUME NEW j \in 1 .. n, csi[j].cap = c PROVE c <= csi'[i].cap
            <7>1. ~ (k <= j)
              BY <2>2, <4>1, <6>3
            <7>2. j <= (k + i) - 1
              BY <2>t, <2>k, <7>1
            <7> QED
              BY <2>t, <5>3, <6>3, <7>2
          <6> QED
            BY <2>w, <3>1, <6>1, <6>2, <6>3
        <5> QED
          BY <2>3, <5>2, <5>3
      <4> QED
        BY <3>4, <4>1
    <3> QED
      BY <2>k, <3>2, <3>3, <3>4
  <2> QED
    BY <2>4, <2>5
<1>3. CASE ReceiveStamped
  <2>1. lines[1] \in Line /\ 1 \in 1 .. Len(lines)
    BY <1>3, TailOfLines DEF ReceiveStamped, Typed
  <2>2. lines[1].cap \in Nat /\ lines[1].stamp \in Int
    BY <2>1 DEF Line
  <2>3. ASSUME calm' PROVE calm /\ lines[1].stamp = lines[1].cap
    BY <1>3, <2>1, <2>3 DEF ReceiveStamped, Aged
  <2>4. lines # <<>> /\ Feed(lines[1], lines[1].stamp)
    BY <1>3 DEF ReceiveStamped
  <2>5. ASSUME calm' PROVE lines[1].cap <= lines[1].stamp
                           /\ lines[1].stamp <= lines[1].cap + MaxDelay
    BY <2>2, <2>3, <2>5
  <2> QED
    BY <1>2, <2>1, <2>2, <2>3, <2>4, <2>5 DEF Windowed
<1>4. CASE ReceiveBare
  <2>1. /\ lines # <<>> /\ Feed(lines[1], Estimate(lines[1]))
        /\ calm' = (calm /\ SteadyAt(lines[1]))
    BY <1>4 DEF ReceiveBare
  <2>2. /\ lines[1] \in Line /\ lines[1].cap \in Nat /\ Estimate(lines[1]) \in Int
        /\ SteadyAt(lines[1]) =>
               /\ lines[1].cap <= Estimate(lines[1])
               /\ Estimate(lines[1]) <= lines[1].cap + MaxDelay
    BY <1>4, BareTime
  <2> QED
    BY <1>2, <2>1, <2>2 DEF Windowed
<1> QED
    BY <1>1, <1>3, <1>4 DEF Next

-----------------------------------------------------------------------------

(* All parts together. *)
LEMMA Invariance == Spec => []Inv
<1>1. Inv /\ [Next]_vars => Inv'
    BY TypedStep, AgedStep, EstimatedStep, WindowedStep DEF Inv
<1> QED
    BY InitInv, <1>1, PTL DEF Spec

(* The type invariant: among others the buffer is never longer than its    *)
(* limit, and what is added for wraps is never negative.                   *)
THEOREM TypeCorrect == Spec => []TypeOK
<1>1. Inv => TypeOK
    BY Constants DEF Inv, Typed, Bounded, TypeOK, Entry
<1> QED
    BY Invariance, <1>1, PTL

(* Over any number of wraps, estimates of a connection differ by the time  *)
(* between the captures, as long as the device did not reboot and no two   *)
(* frames in a row are half a period or more apart.                        *)
THEOREM EstimatesAreExact == Spec => []EstimatesKeepPace
<1>1. Inv => EstimatesKeepPace
    BY DEF Inv, Estimated, EstimatesKeepPace, Unwrapped
<1> QED
    BY Invariance, <1>1, PTL

(* What was heard within the window is in the buffer, unless that is full: *)
(* the slack makes up for the delay.                                       *)
THEOREM WindowsAreComplete == Spec => []WindowIsComplete
<1>1. Inv => WindowIsComplete
    BY DEF Inv, Typed, Windowed, WindowIsComplete
<1> QED
    BY Invariance, <1>1, PTL

=============================================================================
