------------------------------ MODULE Storage ------------------------------
(***************************************************************************)
(* What becomes of a reading in InfluxDB: app/influxdb_client.py (connect, *)
(* write, clean up, query), its callers in app/main.py (start-up, the two  *)
(* consumers, the cleanup task, shutdown) and app/routes/api.py, and the   *)
(* scripts export_*_to_parquet.py.                                         *)
(*                                                                         *)
(* The write API sends batches from a thread of its own and retries them;  *)
(* what of a batch is stored may be sent again, so here every point is     *)
(* sent on its own.  InfluxDB keeps one point for a measurement, a set of  *)
(* tags and a time; a second one adds its fields.  Of the fields only the  *)
(* number of subcarriers matters.  Time is counted in days.                *)
(***************************************************************************)
EXTENDS Integers, Sequences, FiniteSets, SequencesExt

CONSTANTS
    Series,       (* sets of tags of CSI readings, as numbers              *)
    CsiDays,      (* csi_retention_days                                    *)
    BucketDays,   (* retention of the bucket; also "range(start: -30d)"    *)
    MaxRetries,   (* max_retries                                           *)
    BatchRows,    (* BATCH_ROWS                                            *)
    MaxDay, MaxReadings, MaxFaults  (* bounds                              *)

ASSUME StorageAssumption ==
    /\ Series \subseteq Nat \ {0} /\ IsFiniteSet(Series)
    /\ {CsiDays, BucketDays, MaxRetries, MaxDay, MaxReadings, MaxFaults} \subseteq Nat
    /\ BatchRows \in Nat \ {0}
    /\ BucketDays < MaxDay

VARIABLES
    day,          (* today; the epoch is day 0                             *)
    serverUp,     (* InfluxDB answers                                      *)
    bucket,       (* the bucket exists                                     *)
    client,       (* InfluxClient: "off", "failed" (connect() gave up),    *)
                  (* "up", "closing"                                       *)
    pending,      (* points the write API holds, with the tries so far     *)
    stored,       (* points in the bucket                                  *)
    taken,        (* readings accepted so far                              *)
    faults,       (* faults so far                                         *)
    owed          (* history: readings accepted that are neither given up, *)
                  (* lost in a crash, nor old                              *)

server == <<day, serverUp, bucket>>
vars == <<server, client, pending, stored, taken, faults, owed>>

(* Readings of a device whose clock was never set are of the first day.    *)
Reading(d) ==
    [kind : {"csi"}, series : Series, time : {0, d}, width : {1, 2}]
        \cup [kind : {"smoke"}, series : {0}, time : {d}, width : {1}]

Key(p) == <<p.kind, p.series, p.time>>

(* Faulty variant: the cleanup leaves the retention to the bucket's. *)
Old_Bucket(p, d) == p.time <= d - BucketDays

(* Faulty variant: the predicate on the measurement is missing. *)
Old_AnyKind(p, d) == p.time <= d - CsiDays

(* What delete_older_than deletes. *)
Old(p, d) == p.kind = "csi" /\ p.time <= d - CsiDays

Expired(p, d) == p.time <= d - BucketDays

(* "leaving any other measurement in the bucket untouched" *)
Due(p, d) == ~ Expired(p, d) /\ (p.kind = "csi" => p.time > d - CsiDays)

Init ==
    /\ day = BucketDays + 1
    /\ serverUp \in BOOLEAN /\ bucket = FALSE
    /\ client = "off" /\ pending = {} /\ stored = {}
    /\ taken = 0 /\ faults = 0 /\ owed = {}

-----------------------------------------------------------------------------
(* Outside *)

Fault == faults < MaxFaults /\ faults' = faults + 1

ServerFails ==
    /\ serverUp /\ Fault
    /\ serverUp' = FALSE
    /\ UNCHANGED <<day, bucket, client, pending, stored, taken, owed>>

ServerReturns ==
    /\ ~ serverUp
    /\ serverUp' = TRUE
    /\ UNCHANGED <<day, bucket, client, pending, stored, taken, faults, owed>>

DayPasses ==
    /\ day < MaxDay
    /\ day' = day + 1
    /\ owed' = {r \in owed : Due(r, day')}
    /\ UNCHANGED <<serverUp, bucket, client, pending, stored, taken, faults>>

(* InfluxDB enforces the retention of the bucket. *)
Expire ==
    /\ stored' = {p \in stored : ~ Expired(p, day)}
    /\ UNCHANGED <<server, client, pending, taken, faults, owed>>

-----------------------------------------------------------------------------
(* InfluxClient *)

(* The property connected: a ping, if connect() succeeded. *)
Connected == client = "up" /\ serverUp

(* connect(): tried once.  _ensure_bucket swallows its exceptions.         *)
Connect ==
    /\ client = "off"
    /\ client' = IF serverUp THEN "up" ELSE "failed"
    /\ \/ bucket' = (bucket \/ serverUp) /\ UNCHANGED faults
       \/ serverUp /\ ~ bucket /\ Fault /\ UNCHANGED bucket
    /\ UNCHANGED <<day, serverUp, pending, stored, taken, owed>>

(* The consumers: write_reading, write_smoke.  While InfluxDB does not     *)
(* answer the ping a reading is passed over.                               *)
Write ==
    /\ Connected
    /\ taken < MaxReadings
    /\ taken' = taken + 1
    /\ \E r \in Reading(day) :
        /\ pending' = pending \cup {[reading |-> r, tries |-> 0]}
        /\ owed' = IF Due(r, day) THEN owed \cup {r} ELSE owed
    /\ UNCHANGED <<server, client, stored, faults>>

(* InfluxDB takes a point, unless it is too old for the bucket. *)
Store(r) ==
    LET same == {p \in stored : Key(p) = Key(r)}
        widest == CHOOSE w \in {p.width : p \in same \cup {r}} :
                      \A p \in same \cup {r} : p.width <= w
    IN  stored' = IF Expired(r, day) THEN stored
                  ELSE (stored \ same) \cup {[r EXCEPT !.width = widest]}

SendOk(b) ==
    /\ serverUp /\ bucket
    /\ Store(b.reading)
    /\ pending' = pending \ {b}
    /\ UNCHANGED <<server, client, taken, faults, owed>>

(* Faulty variant: one retry too many. *)
Again_OffByOne(b) ==
    pending' = (pending \ {b}) \cup
        (IF b.tries <= MaxRetries THEN {[b EXCEPT !.tries = @ + 1]} ELSE {})

(* Tried again after a while; after the last retry given up, silently.     *)
Again(b) ==
    pending' = (pending \ {b}) \cup
        (IF b.tries < MaxRetries THEN {[b EXCEPT !.tries = @ + 1]} ELSE {})

(* No answer: the point may or may not be stored. *)
SendFails(b) ==
    /\ ~ serverUp \/ bucket
    /\ Again(b)
    /\ \/ UNCHANGED stored
       \/ serverUp /\ Store(b.reading)
    /\ IF serverUp THEN Fault ELSE UNCHANGED faults
    /\ owed' = IF b.tries < MaxRetries THEN owed ELSE owed \ {b.reading}
    /\ UNCHANGED <<server, client, taken>>

(* There is no bucket: an answer that is not retried. *)
SendRefused(b) ==
    /\ serverUp /\ ~ bucket
    /\ pending' = pending \ {b}
    /\ owed' = owed \ {b.reading}
    /\ UNCHANGED <<server, client, stored, taken, faults>>

(* delete_older_than; one that fails is logged and changes nothing. *)
DeleteOlderThan ==
    /\ client = "up"
    /\ stored' = {p \in stored : ~ Old(p, day)}
    /\ UNCHANGED <<server, client, pending, taken, faults, owed>>

(* A round of the cleanup task; the next one is half an hour later. *)
Cleanup == Connected /\ DeleteOlderThan

(* GET /api/cleanup, or 503 *)
CleanupNow == Connected /\ DeleteOlderThan

(* on_shutdown: flush() and close() wait for what is pending. *)
Shutdown ==
    /\ client \in {"up", "failed"}
    /\ Fault
    /\ client' = "closing"
    /\ UNCHANGED <<server, pending, stored, taken, owed>>

Closed ==
    /\ client = "closing" /\ pending = {}
    /\ client' = "off"
    /\ UNCHANGED <<server, pending, stored, taken, faults, owed>>

Crash ==
    /\ client # "off"
    /\ Fault
    /\ client' = "off" /\ pending' = {}
    /\ owed' = owed \ {b.reading : b \in pending}
    /\ UNCHANGED <<server, stored, taken>>

Next ==
    \/ ServerFails \/ ServerReturns \/ DayPasses \/ Expire
    \/ Connect \/ Write \/ Cleanup \/ CleanupNow \/ Shutdown \/ Closed \/ Crash
    \/ \E b \in pending : SendOk(b) \/ SendFails(b) \/ SendRefused(b)

(* The cleanup task runs every half hour. *)
Spec == Init /\ [][Next]_vars /\ WF_vars(Cleanup)

-----------------------------------------------------------------------------
(* Queries *)

(* range(start: -30d) and the filter on the measurement *)
Rows(kind) == {p \in stored : p.kind = kind /\ ~ Expired(p, day)}

(* range(start: from, stop: to) and the filter; without stop it is now.    *)
Between(from, to) ==
    {p \in stored : p.kind = "csi" /\ from <= p.time /\ p.time < to}

(* Flux applies sort and limit to each table, and a set of tags is one.    *)
Table(rows, s) == {p \in rows : p.series = s}

First(n, rows, Precedes(_, _)) ==
    {p \in rows : Cardinality({q \in rows : Precedes(q, p)}) < n}

Later(q, p) == q.time > p.time
Earlier(q, p) == q.time < p.time

(* Faulty variant: sorted the other way. *)
QueryLatest_Ascending(n) ==
    UNION {First(n, Table(Rows("csi"), s), Earlier) : s \in Series}

(* query_latest: sort(desc: true), limit *)
QueryLatest(n) == UNION {First(n, Table(Rows("csi"), s), Later) : s \in Series}

(* query_range: sort(desc: false), limit *)
QueryRange(from, to, n) ==
    UNION {First(n, Table(Between(from, to), s), Earlier) : s \in Series}

(* int(None) raises for a record that lacks the subcarriers of a wider one *)
(* of its table; limit leaves the columns of the rows it cuts off.         *)
AnswerRaises(points, rows) ==
    \E p \in points : \E q \in Table(rows, p.series) : q.width > p.width

Answer(code, points) == [code |-> code, points |-> points]

(* _execute_history_query, and what the handler makes of it: a query that  *)
(* fails (InfluxDB fails after the ping, or times out, or does not accept  *)
(* the Flux) has no points; an exception after the query is a 500.         *)
ExecuteHistoryQuery(points, rows) ==
    {Answer(200, {}),
     IF AnswerRaises(points, rows) THEN Answer(500, {}) ELSE Answer(200, points)}

(* What the handlers of app/routes/api.py may answer to a request that     *)
(* parses.                                                                 *)
Responses(points, rows) ==
    IF Connected THEN ExecuteHistoryQuery(points, rows) ELSE {Answer(503, {})}

GetLatestReadings(n) == Responses(QueryLatest(n), Rows("csi"))
GetReadingsRange(from, to, n) == Responses(QueryRange(from, to, n), Between(from, to))

(* Faulty variant: without group() the tables come one after another.      *)
Merged_ByTable(rows) ==
    CHOOSE s \in [1 .. Cardinality(rows) -> rows] :
        /\ IsInjective(s)
        /\ \A i, j \in DOMAIN s : i < j => s[i].series <= s[j].series

(* export_*_to_parquet.py: group() and sort.  The order of rows of the     *)
(* same time is open.                                                      *)
Merged(rows) ==
    CHOOSE s \in [1 .. Cardinality(rows) -> rows] :
        /\ IsInjective(s)
        /\ \A i, j \in DOMAIN s : i < j => ~ Later(s[i], s[j])

(* --limit: tail(n); 0 stands for all *)
Limited(rows, n) ==
    IF n = 0 \/ Len(rows) <= n THEN rows
    ELSE SubSeq(rows, Len(rows) - n + 1, Len(rows))

(* flush after every BATCH_ROWS rows, and after the last. *)
RowGroups(rows) ==
    [g \in 1 .. (Len(rows) + BatchRows - 1) \div BatchRows |->
        SubSeq(rows, (g - 1) * BatchRows + 1,
               IF g * BatchRows < Len(rows) THEN g * BatchRows ELSE Len(rows))]

Export(kind, n) == FlattenSeq(RowGroups(Limited(Merged(Rows(kind)), n)))

-----------------------------------------------------------------------------
(* Properties *)

Point == UNION {Reading(d) : d \in 0 .. MaxDay}

TypeOK ==
    /\ day \in 0 .. MaxDay /\ serverUp \in BOOLEAN /\ bucket \in BOOLEAN
    /\ client \in {"off", "failed", "up", "closing"}
    /\ pending \subseteq [reading : Point, tries : 0 .. MaxRetries]
    /\ stored \subseteq Point /\ owed \subseteq Point
    /\ taken \in 0 .. MaxReadings /\ faults \in 0 .. MaxFaults

(* "Only CSI readings are removed ... smoke_reading is intentionally       *)
(* excluded": a reading that was accepted stays in InfluxDB, or on its way *)
(* there, until it is old, unless all tries failed, there was no bucket or *)
(* the backend crashed, whatever cleanups, retries and restarts come       *)
(* between.                                                                *)
ReadingsKeptUntilOld ==
    \A r \in owed :
        \/ \E p \in stored : Key(p) = Key(r) /\ p.width >= r.width
        \/ \E b \in pending : b.reading = r

(* "Permanently delete readings older than days": no CSI reading is old    *)
(* for good, also one that a retry stored after the cleanup of its day, as *)
(* long as InfluxDB could be reached when the backend started and can be.  *)
OldReadingsArePurged ==
    <>[](Connected => \A p \in stored : p.kind = "csi" => p.time > day - CsiDays)

(* What points a request for n rows returns, if it returns any: of each    *)
(* series n, or all there are, and none that comes after one left out; so  *)
(* that the first n of all series together are among them.                 *)
FirstOfEach(n, points, rows, Precedes(_, _)) ==
    /\ points \subseteq rows
    /\ \A s \in Series :
           LET some == Table(points, s)
               all == Table(rows, s)
           IN  /\ some = all \/ Cardinality(some) = n
               /\ \A p \in all \ some, q \in some : ~ Precedes(p, q)
    /\ First(n, rows, LAMBDA q, p : q # p /\ ~ Precedes(p, q)) \subseteq points

(* The export scripts' "--limit 500: latest 500": exactly n, each once, in *)
(* the order of time over all row groups, and none later is missing.       *)
ExportsLatest(kind, n) ==
    LET rows == Export(kind, n)
        all == Rows(kind)
    IN  /\ ToSet(rows) \subseteq all
        /\ Cardinality(ToSet(rows)) = Len(rows)
        /\ Len(rows) = n \/ ToSet(rows) = all
        /\ \A i, j \in DOMAIN rows : i < j => ~ Later(rows[i], rows[j])
        /\ \A p \in all \ ToSet(rows), i \in DOMAIN rows : ~ Later(p, rows[i])

(* Whatever was retried, stored twice, purged or lost before, an answer    *)
(* with points has the latest of each series, or the earliest for a range, *)
(* and an export the latest of all.  An answer without points says         *)
(* nothing: it may stand for a query that failed.                          *)
QueriesFindTheLatest ==
    \A n \in 1 .. MaxReadings :
        /\ \A r \in GetLatestReadings(n) :
               r.points # {} => FirstOfEach(n, r.points, Rows("csi"), Later)
        /\ \A from \in 0 .. day, to \in 1 .. day + 1 :
               \A r \in GetReadingsRange(from, to, n) :
                   r.points # {} =>
                       FirstOfEach(n, r.points, Between(from, to), Earlier)
        /\ \A kind \in {"csi", "smoke"} : ExportsLatest(kind, n)

=============================================================================
