----------------------------- MODULE RecordTime -----------------------------
(***************************************************************************)
(* When a frame was captured, and what the backend takes for it.           *)
(*                                                                         *)
(* csi_recv_mqtt/main/main.c stamps a frame with the wall clock of the     *)
(* device, which SNTP sets some time after boot; a recording made by       *)
(* csi_recv has no stamp at all.  Every frame carries the Wi-Fi driver's   *)
(* counter of microseconds since boot, which wraps.  app/mqtt_reader.py    *)
(* takes the stamp if there is a positive one and else estimates the time  *)
(* from the counter, relative to the first frame it so estimated on the    *)
(* connection (_compute_timestamp).  app/detection.py keeps the frames of  *)
(* the last seconds, going by these timestamps.                            *)
(*                                                                         *)
(* One unit of time stands for the microseconds of the counter and the     *)
(* seconds of the clock alike.  The event loop's queue between reader and  *)
(* rolling buffer is in Pipeline and takes no time here.                   *)
(***************************************************************************)
EXTENDS RollingWindow

CONSTANTS
    Half,         (* 2 ** 31: half the counter's period                    *)
    Window,       (* detection_csi_seconds                                 *)
    Held,         (* the same, times _WINDOW_SLACK                         *)
    MaxBuffered,  (* _MAX_CSI_BUFFERED                                     *)
    MaxDelay,     (* longest time a line is under way                      *)
    Epoch,        (* time at which the backend starts                      *)
    MaxTime,      (* bound: time                                           *)
    MaxBoots      (* bound: reboots of the device                          *)

ASSUME RecordTimeAssumption ==
    /\ {Half, Epoch} \subseteq Nat \ {0}
    /\ {Window, Held, MaxBuffered, MaxDelay, MaxTime, MaxBoots} \subseteq Nat
    /\ Epoch <= MaxTime

(* _WINDOW_SLACK: what is held beyond the window makes up for the delay.   *)
ASSUME SlackAssumption == Window + MaxDelay <= Held

Period == 2 * Half
None == -1

VARIABLES
    now,       (* true time                                                *)
    boot,      (* reboots so far                                           *)
    high,      (* what the counter has lost to wrapping since boot         *)
    counter,   (* the driver's counter                                     *)
    clockSet,  (* SNTP has set the wall clock since boot                   *)
    stamping,  (* the rows have the timestamp_real column                  *)
    lines,     (* lines under way, in order                                *)
    start,     (* _unix_start_time                                         *)
    offset,    (* _offset_time                                             *)
    prev,      (* _prev_local_ts                                           *)
    overflow,  (* _ts_overflow                                             *)
    csi,       (* DetectionManager._csi: timestamp t, true capture time    *)
    base, last, (* history: first and latest frame estimated since the     *)
               (* estimate was reset                                       *)
    steady,    (* history: from each of these frames to the next one, less *)
               (* than half a period passed and the device did not reboot  *)
    heard,     (* history: capture times of the frames received that are   *)
               (* within Window of the latest                              *)
    calm       (* history: no stamp of an unset clock, no unsteady estimate*)

device == <<now, boot, high, counter, clockSet, stamping>>
estimate == <<start, offset, prev, overflow, base, last, steady>>
buffer == <<csi, heard, calm>>
vars == <<device, lines, estimate, buffer>>

NoFrame == [cap |-> 0, boot |-> 0, high |-> 0, local |-> 0, stamp |-> 0,
            set |-> FALSE, t |-> 0]

(* The device may have run for a while when the backend starts. *)
Init ==
    /\ now = Epoch /\ boot = 0
    /\ high = 0 /\ counter \in 0 .. Period - 1
    /\ clockSet = FALSE /\ stamping \in BOOLEAN
    /\ lines = <<>>
    /\ start = 0 /\ offset = None /\ prev = None /\ overflow = 0
    /\ csi = <<>>
    /\ base = NoFrame /\ last = NoFrame /\ steady = TRUE
    /\ heard = {} /\ calm = TRUE

-----------------------------------------------------------------------------
(* The device *)

(* gettimeofday: counts from zero at boot until SNTP sets it. *)
WallClock == IF clockSet THEN now ELSE high + counter

(* csi_rx_cb, for a frame that the sender sent now.  A row without the     *)
(* column, or with one that does not parse, is as good as a stamp of 0.    *)
Captured ==
    [cap |-> now, boot |-> boot, high |-> high, local |-> counter,
     stamp |-> IF stamping THEN WallClock ELSE 0, set |-> clockSet, t |-> 0]

Capture ==
    /\ \A i \in DOMAIN lines : lines[i].cap < now
    /\ lines' = Append(lines, Captured)
    /\ UNCHANGED <<device, estimate, buffer>>

(* Time passes; the 32-bit counter wraps.  No line is under way too long.  *)
Tick ==
    /\ now < MaxTime
    /\ \A i \in DOMAIN lines : now < lines[i].cap + MaxDelay
    /\ now' = now + 1
    /\ IF counter + 1 = Period
       THEN counter' = 0 /\ high' = high + Period
       ELSE counter' = counter + 1 /\ UNCHANGED high
    /\ UNCHANGED <<boot, clockSet, stamping, lines, estimate, buffer>>

(* sntp_sync_cb: the clock has just been set. *)
SetClock ==
    /\ ~ clockSet
    /\ clockSet' = TRUE
    /\ UNCHANGED <<now, boot, high, counter, stamping, lines, estimate, buffer>>

Reboot ==
    /\ boot < MaxBoots
    /\ boot' = boot + 1
    /\ high' = 0 /\ counter' = 0
    /\ clockSet' = FALSE
    /\ UNCHANGED <<now, stamping, lines, estimate, buffer>>

(* QoS 0: a line may get lost. *)
Lose ==
    /\ lines # <<>>
    /\ lines' = Tail(lines)
    /\ UNCHANGED <<device, estimate, buffer>>

-----------------------------------------------------------------------------
(* The backend *)

(* _on_connect calls _reset_timestamps. *)
Reconnect ==
    /\ offset # None
    /\ start' = 0 /\ offset' = None /\ prev' = None /\ overflow' = 0
    /\ base' = NoFrame /\ last' = NoFrame /\ steady' = TRUE
    /\ UNCHANGED <<device, lines, buffer>>

(* Faulty variant: a second wrap is not added to the first one. *)
OverflowAt_Once(l) ==
    IF prev # None /\ l.local < prev - Half THEN Period ELSE overflow

OverflowAt(l) ==
    IF prev # None /\ l.local < prev - Half THEN overflow + Period ELSE overflow

Adjusted(l) == l.local + OverflowAt(l)

(* _compute_timestamp: the first frame gets the time of its reception. *)
Estimate(l) ==
    IF offset = None THEN now ELSE start + (Adjusted(l) - offset)

(* Less than half a period of the same boot since the previous frame. *)
Follows(l) ==
    /\ l.boot = last.boot
    /\ (l.high + l.local) - (last.high + last.local) < Half

SteadyAt(l) == offset = None \/ (steady /\ Follows(l))

(* The consumer feeds the rolling buffer. *)
Feed(l, t) ==
    /\ csi' = Add(csi, [t |-> t, cap |-> l.cap], Held, MaxBuffered)
    /\ heard' = {c \in heard \cup {l.cap} : c >= l.cap - Window}

(* _process_row: "Use the firmware's NTP-stamped timestamp_real". *)
ReceiveStamped ==
    /\ lines # <<>> /\ lines[1].stamp > 0
    /\ lines' = Tail(lines)
    /\ Feed(lines[1], lines[1].stamp)
    /\ calm' = (calm /\ lines[1].set)
    /\ UNCHANGED <<device, estimate>>

(* _process_row, for a row with no or no positive stamp. *)
ReceiveBare ==
    /\ lines # <<>> /\ lines[1].stamp <= 0
    /\ lines' = Tail(lines)
    /\ LET l == lines[1] IN
       /\ overflow' = OverflowAt(l)
       /\ prev' = l.local
       /\ offset' = IF offset = None THEN Adjusted(l) ELSE offset
       /\ start' = IF offset = None THEN now ELSE start
       /\ last' = [l EXCEPT !.t = Estimate(l)]
       /\ base' = IF offset = None THEN [l EXCEPT !.t = Estimate(l)] ELSE base
       /\ steady' = SteadyAt(l)
       /\ calm' = (calm /\ SteadyAt(l))
       /\ Feed(l, Estimate(l))
    /\ UNCHANGED device

Next ==
    \/ Capture \/ Tick \/ SetClock \/ Reboot \/ Lose
    \/ Reconnect \/ ReceiveStamped \/ ReceiveBare

Spec == Init /\ [][Next]_vars

-----------------------------------------------------------------------------
(* Properties *)

Line == [cap : Nat, boot : Nat, high : Nat, local : 0 .. Period - 1,
         stamp : Nat, set : BOOLEAN, t : Int]

TypeOK ==
    /\ now \in Epoch .. MaxTime /\ boot \in 0 .. MaxBoots
    /\ high \in Nat /\ counter \in 0 .. Period - 1
    /\ clockSet \in BOOLEAN /\ stamping \in BOOLEAN
    /\ lines \in Seq(Line)
    /\ start \in Nat /\ overflow \in Nat
    /\ offset \in Nat \cup {None} /\ prev \in (0 .. Period - 1) \cup {None}
    /\ base \in Line /\ last \in Line
    /\ steady \in BOOLEAN /\ calm \in BOOLEAN
    /\ csi \in Seq([t : Int, cap : Nat]) /\ Len(csi) <= MaxBuffered
    /\ heard \subseteq Nat

(* "We detect wraparound": estimated timestamps of one connection differ   *)
(* by exactly the time between the captures, over any number of wraps, as  *)
(* long as the device did not reboot and no two frames in a row are half a *)
(* period or more apart.                                                   *)
EstimatesKeepPace ==
    offset # None /\ steady =>
        last.t - base.t = (last.high + last.local) - (base.high + base.local)

(* "Buffer windows are held slightly longer than the snapshot windows so a *)
(* trigger at any moment can always fill its full window": what was heard  *)
(* within the window is in the buffer, unless that is full, although each  *)
(* connection estimates with a delay of its own and pruning looks at the   *)
(* front only.                                                             *)
WindowIsComplete ==
    calm /\ Len(csi) < MaxBuffered =>
        \A c \in heard : \E i \in DOMAIN csi : csi[i].cap = c

(* "The ESP32 sends 0.000000 until its first NTP sync": so what is taken   *)
(* for the capture time of a frame of a device that stamps its frames is   *)
(* never off by more than the frame's delay.                               *)
StampsTellCaptureTime ==
    stamping /\ boot = 0 =>
        \A i \in DOMAIN csi : csi[i].t \in csi[i].cap .. csi[i].cap + MaxDelay

=============================================================================
