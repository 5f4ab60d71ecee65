----------------------------- MODULE Detection -----------------------------
(***************************************************************************)
(* Smoking detection in the backend: app/detection.py (the rolling CSI     *)
(* buffer, the trigger loop, trigger), app/detection_store.py (events and  *)
(* the enabled toggle in SQLite) and app/routes/detection.py (the handlers *)
(* that change state, and the one that opens an event).                    *)
(*                                                                         *)
(* Everything here runs on the event loop's one thread, and trigger never  *)
(* really suspends: once it started, no other handler runs until it ended. *)
(* But the process may die between any two of its steps, and each          *)
(* statement sent to SQLite may raise.  The connection is shared and no    *)
(* one rolls back, so after a failed commit the transaction may be gone    *)
(* (SQLite rolled it back) or still open (a later commit will take it      *)
(* along): view is what the connection reads, disk what a restart finds.   *)
(*                                                                         *)
(* An event is a pair <<row id, number of the firing that made it>>.  The  *)
(* smoke window is left out: it decides nothing here (see RollingWindow).  *)
(***************************************************************************)
EXTENDS RollingWindow, FiniteSets

CONSTANTS
    Times,        (* timestamps of CSI records                            *)
    Widths,       (* subcarrier counts of CSI records, each at least 2    *)
    Window,       (* detection_csi_seconds                                *)
    Held,         (* the same, times _WINDOW_SLACK                        *)
    MaxBuffered,  (* _MAX_CSI_BUFFERED                                    *)
    StoreMayFail, (* whether SQLite may raise (disk full, I/O error)      *)
    MaxFirings    (* bound: firings of the detector                       *)

ASSUME DetectionAssumption ==
    /\ Times \subseteq Int
    /\ Widths \subseteq Nat \ {0, 1}
    /\ Window \in Nat /\ Held \in Nat /\ Window <= Held
    /\ MaxBuffered \in Nat \ {0}
    /\ StoreMayFail \in BOOLEAN
    /\ MaxFirings \in Nat

VARIABLES
    csi,        (* self._csi                                               *)
    view, disk, (* the database: what the connection sees, what is durable *)
    loopAlive,  (* run_trigger_loop's task has not ended                   *)
    job,        (* the trigger() in progress, if any                       *)
    firings,    (* firings so far                                          *)
    alerts,     (* alerts broadcast to clients: <<event id, firing>>       *)
    deletions,  (* event ids some client asked to delete                   *)
    acked,      (* the last toggle value a client got a 200 for            *)
    unacked     (* toggle values requested since, which failed             *)

vars == <<csi, view, disk, loopAlive, job, firings, alerts, deletions,
          acked, unacked>>

Idle == [at |-> "idle", by |-> "none", id |-> 0]
Database == [enabled : BOOLEAN, events : SUBSET (Nat \X Nat), lastId : Nat]

(* The schema: detection is off by default, no events. *)
Fresh == [enabled |-> FALSE, events |-> {}, lastId |-> 0]

Init ==
    /\ csi = <<>>
    /\ view = Fresh /\ disk = Fresh
    /\ loopAlive = TRUE
    /\ job = Idle
    /\ firings = 0
    /\ alerts = {} /\ deletions = {}
    /\ acked = FALSE /\ unacked = {}

-----------------------------------------------------------------------------
(* The window *)

(* add_csi, called by the queue's consumer. *)
AddCsi(t, w) ==
    /\ job.at = "idle"
    /\ csi' = Add(csi, [t |-> t, w |-> w], Held, MaxBuffered)
    /\ UNCHANGED <<view, disk, loopAlive, job, firings, alerts, deletions,
                   acked, unacked>>

(* The highest active index of a layout of w subcarriers: data_upper_end.  *)
HighestActive(w) == w - 1

(* _snapshot_csi indexes every frame of the window with the active indices *)
(* of the first one: a narrower frame raises IndexError.                   *)
SnapshotRaises ==
    LET frames == Snapshot(csi, Window)
    IN  \E i \in DOMAIN frames : frames[i].w <= HighestActive(frames[1].w)

-----------------------------------------------------------------------------
(* trigger(): snapshot, detect, insert, commit, broadcast *)

Start(caller) ==
    /\ job' = [at |-> "insert", by |-> caller, id |-> 0]
    /\ firings' = firings + 1

(* Faulty variant: the toggle is not consulted. *)
LoopTick_IgnoresToggle ==
    /\ job.at = "idle" /\ loopAlive /\ firings < MaxFirings
    /\ csi # <<>>
    /\ IF SnapshotRaises
       THEN /\ loopAlive' = FALSE
            /\ UNCHANGED <<job, firings>>
       ELSE /\ Start("loop")
            /\ UNCHANGED loopAlive
    /\ UNCHANGED <<csi, view, disk, alerts, deletions, acked, unacked>>

(* One round of run_trigger_loop that is not skipped.  The loop catches    *)
(* nothing: an exception in trigger ends the task.                         *)
LoopTick ==
    /\ job.at = "idle" /\ loopAlive /\ firings < MaxFirings
    /\ view.enabled
    /\ csi # <<>>
    /\ IF SnapshotRaises
       THEN /\ loopAlive' = FALSE
            /\ UNCHANGED <<job, firings>>
       ELSE /\ Start("loop")
            /\ UNCHANGED loopAlive
    /\ UNCHANGED <<csi, view, disk, alerts, deletions, acked, unacked>>

(* get_enabled raises: this ends the task too. *)
LoopReadRaises ==
    /\ StoreMayFail
    /\ job.at = "idle" /\ loopAlive
    /\ loopAlive' = FALSE
    /\ UNCHANGED <<csi, view, disk, job, firings, alerts, deletions,
                   acked, unacked>>

(* POST /api/detection/simulate; an exception only fails the request. *)
Simulate ==
    /\ job.at = "idle" /\ firings < MaxFirings
    /\ csi # <<>>
    /\ ~ SnapshotRaises
    /\ Start("simulate")
    /\ UNCHANGED <<csi, view, disk, loopAlive, alerts, deletions, acked, unacked>>

(* An exception leaves trigger: it reaches the loop's task or the handler. *)
Raise ==
    /\ job' = Idle
    /\ loopAlive' = (loopAlive /\ job.by # "loop")

(* Faulty variant: a plain rowid, one more than the largest in use. *)
NextId_Rowid(db) ==
    IF db.events = {} THEN 1
    ELSE 1 + (CHOOSE i \in {e[1] : e \in db.events} :
                  \A e \in db.events : e[1] <= i)

(* INTEGER PRIMARY KEY AUTOINCREMENT *)
NextId(db) == db.lastId + 1

(* insert_event, up to the commit. *)
InsertOk ==
    /\ job.at = "insert"
    /\ view' = [view EXCEPT !.events = @ \cup {<<NextId(view), firings>>},
                            !.lastId = NextId(view)]
    /\ job' = [at |-> "commit", by |-> job.by, id |-> NextId(view)]
    /\ UNCHANGED <<csi, disk, loopAlive, firings, alerts, deletions, acked, unacked>>

InsertRaises ==
    /\ StoreMayFail
    /\ job.at = "insert"
    /\ Raise
    /\ UNCHANGED <<csi, view, disk, firings, alerts, deletions, acked, unacked>>

CommitOk ==
    /\ job.at = "commit"
    /\ disk' = view
    /\ job' = [job EXCEPT !.at = "broadcast"]
    /\ UNCHANGED <<csi, view, loopAlive, firings, alerts, deletions, acked, unacked>>

(* Faulty variant: the failed commit is logged and the alert sent anyway.  *)
CommitRaises_Swallowed ==
    /\ StoreMayFail
    /\ job.at = "commit"
    /\ view' \in {view, disk}
    /\ job' = [job EXCEPT !.at = "broadcast"]
    /\ UNCHANGED <<csi, disk, loopAlive, firings, alerts, deletions, acked, unacked>>

CommitRaises ==
    /\ StoreMayFail
    /\ job.at = "commit"
    /\ view' \in {view, disk}
    /\ Raise
    /\ UNCHANGED <<csi, disk, firings, alerts, deletions, acked, unacked>>

(* broadcast_sync of the alert; trigger returns. *)
Broadcast ==
    /\ job.at = "broadcast"
    /\ alerts' = alerts \cup {<<job.id, firings>>}
    /\ job' = Idle
    /\ UNCHANGED <<csi, view, disk, loopAlive, firings, deletions, acked, unacked>>

TriggerStep == InsertOk \/ InsertRaises \/ CommitOk \/ CommitRaises \/ Broadcast

-----------------------------------------------------------------------------
(* The other handlers that write: POST /config and DELETE /events/{id}.    *)
(* Each runs to its end, with the outcomes its commit may have.            *)

(* Faulty variant: the handler answers before anything is committed. *)
SetEnabledOk_NoCommit(b) ==
    /\ job.at = "idle"
    /\ view' = [view EXCEPT !.enabled = b]
    /\ acked' = b /\ unacked' = {}
    /\ UNCHANGED <<csi, disk, loopAlive, job, firings, alerts, deletions>>

SetEnabledOk(b) ==
    /\ job.at = "idle"
    /\ view' = [view EXCEPT !.enabled = b]
    /\ disk' = view'
    /\ acked' = b /\ unacked' = {}
    /\ UNCHANGED <<csi, loopAlive, job, firings, alerts, deletions>>

(* The upsert raises and changes nothing, or the commit does. *)
SetEnabledRaises(b) ==
    /\ StoreMayFail
    /\ job.at = "idle"
    /\ view' \in {view, [view EXCEPT !.enabled = b], disk}
    /\ unacked' = unacked \cup {b}
    /\ UNCHANGED <<csi, disk, loopAlive, job, firings, alerts, deletions, acked>>

(* GET /api/detection/events/{id}: what is read, not what is durable; no   *)
(* row is a 404.                                                           *)
GetEvent(id) == {e \in view.events : e[1] = id}

Without(db, id) == [db EXCEPT !.events = {e \in @ : e[1] # id}]

(* Whether or not a row was removed: an open transaction is committed too. *)
DeleteOk(id) ==
    /\ job.at = "idle"
    /\ view' = Without(view, id)
    /\ disk' = view'
    /\ deletions' = deletions \cup {id}
    /\ UNCHANGED <<csi, loopAlive, job, firings, alerts, acked, unacked>>

DeleteRaises(id) ==
    /\ StoreMayFail
    /\ job.at = "idle"
    /\ view' \in {view, Without(view, id), disk}
    /\ deletions' = deletions \cup {id}
    /\ UNCHANGED <<csi, disk, loopAlive, job, firings, alerts, acked, unacked>>

-----------------------------------------------------------------------------
(* The process dies, at any point, and is started again. *)
CrashAndRestart ==
    /\ csi' = <<>>
    /\ view' = disk
    /\ loopAlive' = TRUE
    /\ job' = Idle
    /\ UNCHANGED <<disk, firings, alerts, deletions, acked, unacked>>

Next ==
    \/ \E t \in Times, w \in Widths : AddCsi(t, w)
    \/ LoopTick \/ LoopReadRaises \/ Simulate \/ TriggerStep
    \/ \E b \in BOOLEAN : SetEnabledOk(b) \/ SetEnabledRaises(b)
    \/ \E id \in 1 .. MaxFirings : DeleteOk(id) \/ DeleteRaises(id)
    \/ CrashAndRestart

Spec == Init /\ [][Next]_vars

-----------------------------------------------------------------------------
(* Properties *)

(* A row's id is one AUTOINCREMENT has given out, its firing has happened. *)
DatabaseOK(db) ==
    /\ db \in Database
    /\ \A e \in db.events : e[1] \in 1 .. db.lastId /\ e[2] \in 1 .. firings

TypeOK ==
    /\ csi \in Seq([t : Times, w : Widths]) /\ Len(csi) <= MaxBuffered
    /\ DatabaseOK(view) /\ DatabaseOK(disk)
    /\ disk.lastId <= view.lastId
    /\ loopAlive \in BOOLEAN
    /\ job \in [at : {"idle", "insert", "commit", "broadcast"},
               by : {"none", "loop", "simulate"}, id : Nat]
    /\ firings \in 0 .. MaxFirings
    /\ alerts \subseteq Nat \X Nat
    /\ deletions \subseteq Nat
    /\ acked \in BOOLEAN /\ unacked \subseteq BOOLEAN

(* A client that was alerted can open the event, and finds that detection: *)
(* it survives a crash at any later moment, and no failing statement hides *)
(* it or puts another one in its place, unless some client asked to delete *)
(* it.  It needs the commit to precede the broadcast, also when a commit   *)
(* fails.                                                                  *)
AlertsAreDurable ==
    \A a \in alerts :
        \/ a[1] \in deletions
        \/ a \in disk.events /\ GetEvent(a[1]) = {a}

(* An event id means one detection for ever: across deletions, failed      *)
(* commits and restarts no id a client was alerted of, or that is durable, *)
(* is given to another detection.                                          *)
IdsNameOneDetection ==
    \A x, y \in alerts \cup disk.events : x[1] = y[1] => x = y

(* "Persist the enabled toggle (survives backend restarts)": the value a   *)
(* client was last acknowledged is the one in force and the durable one,   *)
(* as long as no later request failed.                                     *)
ToggleInForce ==
    unacked = {} => view.enabled = acked /\ disk.enabled = acked

(* After a client has switched detection off, the loop starts no firing.   *)
QuietAfterDisable ==
    [][job.at = "idle" /\ job'.at = "insert" /\ job'.by = "loop"
           => acked \/ unacked # {}]_vars

(* "Fire the dummy detector at random intervals when enabled": while it is *)
(* enabled there is a loop to fire it.                                     *)
LoopOutlivesTriggers == view.enabled => loopAlive

=============================================================================
