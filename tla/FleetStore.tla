----------------------------- MODULE FleetStore -----------------------------
(***************************************************************************)
(* FleetRegistry of the fleet host over the SQLite store: the readings of  *)
(* the boards on their way from ingest() through the bounded queue and the *)
(* writer task to the tables, the alert engine in the writer, and          *)
(* forget_device(), send_command() and the shutdown that run between its   *)
(* steps.  Everything runs on one asyncio loop, so an action is what a     *)
(* coroutine does from one await to the next.                              *)
(*                                                                         *)
(* All coroutines share one database connection.  A statement takes effect *)
(* in the order of the calls; commit() of any coroutine makes durable what *)
(* all of them wrote, and a crash takes the database back to saved.        *)
(*                                                                         *)
(* One alert code stands for the four independent ones, the table          *)
(* telemetry for itself and telemetry_metric.  Readings are numbered; the  *)
(* variables history and excused are read by no code.  A definition that   *)
(* is called a deviation is an operation with a mistake in it, to be put   *)
(* in the place of the one that follows it.                                *)
(***************************************************************************)
EXTENDS Integers, Sequences, FiniteSets, SequencesExt

CONSTANTS
    Boards,       \* device ids
    QueueSize,    \* maxsize of the queue
    Batch,        \* BATCH
    MaxReadings,  \* bound of the model: readings that arrive
    Events        \* bound of the model: what happens besides readings

ASSUME FleetAssumption ==
    /\ Boards # {}
    /\ QueueSize \in Nat \ {0} /\ Batch \in Nat \ {0} /\ MaxReadings \in Nat
    /\ Events \subseteq {"status", "forget", "command", "stop", "store", "crash", "slow", "prune"}

VARIABLES
    phase,        \* the server is "up", "stopping" or "down"
    known,        \* the keys of devices
    active,       \* the boards whose entry in devices has the alert
    queue,        \* queue: readings to be written
    writer,       \* where _writer_loop() is, with its locals
    forget,       \* where forget_device() is
    logging,      \* send_command() has yet to commit its row
    db,           \* the tables as the connection sees them
    saved,        \* the tables as of the last commit
    history,      \* the readings that arrived, in order
    excused,      \* readings that were given up: dropped, forgotten, failed
    gone          \* what became of the last forget_device() of each board

vars == <<phase, known, active, queue, writer, forget, logging, db, saved, history, excused, gone>>
volatile == <<phase, known, active, queue, writer, forget, logging>>
ghosts == <<history, excused, gone>>

Reading == [dev : Boards, n : 1..MaxReadings, value : {"good", "bad", "none"}]
AlertRow == [dev : Boards, n : 1..MaxReadings, open : BOOLEAN]

\* devices holds msg_count, 0 for a board without a row.
Tables == [devices : [Boards -> Nat], telemetry : SUBSET Reading, alerts : SUBSET AlertRow, commands : SUBSET Boards]
NoRows == [devices |-> [d \in Boards |-> 0], telemetry |-> {}, alerts |-> {}, commands |-> {}]

WriterState == [pc : {"collect", "insert", "eval", "raise", "raised", "cleared", "done"},
                batch : Seq(Reading), i : Nat, live : BOOLEAN]
WriterIdle == [pc |-> "collect", batch |-> <<>>, i |-> 1, live |-> FALSE]
ForgetIdle == [pc |-> "idle", dev |-> CHOOSE d \in Boards : TRUE]

FleetTypeOK ==
    /\ phase \in {"up", "stopping", "down"}
    /\ known \subseteq Boards /\ active \subseteq known
    /\ queue \in Seq(Reading) /\ Len(queue) <= QueueSize
    /\ writer \in WriterState /\ Len(writer.batch) <= Batch
    /\ forget \in [pc : {"idle", "alerts", "commands", "devices", "commit"}, dev : Boards]
    /\ logging \in BOOLEAN
    /\ db \in Tables /\ saved \in Tables
    /\ history \in Seq(Reading)
    /\ excused \subseteq 1..Len(history)
    /\ gone \in [Boards -> {"no", "clean", "raced"}]

Init ==
    /\ phase = "up"
    /\ known = {} /\ active = {}
    /\ queue = <<>>
    /\ writer = WriterIdle
    /\ forget = ForgetIdle
    /\ logging = FALSE
    /\ db = NoRows /\ saved = NoRows
    /\ history = <<>> /\ excused = {} /\ gone = [d \in Boards |-> "no"]

Numbers(readings) == {readings[k].n : k \in 1..Len(readings)}
Of(rows, d) == {r \in rows : r.dev = d}

-----------------------------------------------------------------------------
(* Ingest.                                                                 *)

\* ingest(): over MQTT or HTTP.  A message that paho's thread had handed over
\* may still arrive during the shutdown; the writer takes it unless it is done.
Ingest(d, value) ==
    LET r == [dev |-> d, n |-> Len(history) + 1, value |-> value] IN
    /\ phase # "down"
    /\ Len(history) < MaxReadings
    /\ history' = Append(history, r)
    /\ known' = known \union {d}
    /\ queue' = IF Len(queue) < QueueSize THEN Append(queue, r) ELSE queue
    /\ excused' = IF Len(queue) < QueueSize /\ writer.pc # "done" THEN excused ELSE excused \union {r.n}
    /\ gone' = [gone EXCEPT ![d] = "no"]
    /\ UNCHANGED <<phase, active, writer, forget, logging, db, saved>>

\* ingest_status(): the entry only, nothing is written.
IngestStatus(d) ==
    /\ "status" \in Events /\ phase # "down"
    /\ known' = known \union {d}
    /\ UNCHANGED <<phase, active, queue, writer, forget, logging, db, saved, ghosts>>

-----------------------------------------------------------------------------
(* The writer.                                                             *)

\* Deviation: a batch of one more.
TakeOneMore ==
    /\ writer.pc = "collect" /\ queue # <<>> /\ Len(writer.batch) <= Batch
    /\ writer' = [writer EXCEPT !.batch = Append(@, Head(queue))]
    /\ queue' = Tail(queue)
    /\ UNCHANGED <<phase, known, active, forget, logging, db, saved, ghosts>>

\* One more reading, until the batch is full.
WriterTake ==
    /\ writer.pc = "collect" /\ queue # <<>> /\ Len(writer.batch) < Batch
    /\ writer' = [writer EXCEPT !.batch = Append(@, Head(queue))]
    /\ queue' = Tail(queue)
    /\ UNCHANGED <<phase, known, active, forget, logging, db, saved, ghosts>>

\* upsert_devices_batch(): one row per board, with the number of readings.
Counted(readings, d) == Cardinality({k \in 1..Len(readings) : readings[k].dev = d})
Upserted(boards) ==
    [db EXCEPT !.devices = [d \in Boards |-> IF d \in boards THEN @[d] + Counted(writer.batch, d) ELSE @[d]]]

\* The batch is full or its second is over.
WriterUpsert ==
    /\ writer.pc = "collect" /\ writer.batch # <<>>
    /\ db' = Upserted(Boards)
    /\ writer' = [writer EXCEPT !.pc = "insert"]
    /\ UNCHANGED <<phase, known, active, queue, forget, logging, saved, ghosts>>

\* insert_telemetry_batch().
Inserted(k) == [db EXCEPT !.telemetry = @ \union ToSet(SubSeq(writer.batch, 1, k))]

WriterInsert ==
    /\ writer.pc = "insert"
    /\ db' = Inserted(Len(writer.batch))
    /\ writer' = [writer EXCEPT !.pc = "eval"]
    /\ UNCHANGED <<phase, known, active, queue, forget, logging, saved, ghosts>>

\* _evaluate_alerts() for the reading at writer.i; a board that was forgotten
\* gets a throw-away entry without alerts.
Current == writer.batch[writer.i]
NoneFound(tables, d) == FALSE   \* deviation: raise_alert() without its SELECT
HasOpenAlert(tables, d) == \E a \in tables.alerts : a.dev = d /\ a.open
Changes(r) == \/ r.value = "bad" /\ r.dev \notin active
              \/ r.value = "good" /\ r.dev \in active

WriterSkip ==
    /\ writer.pc = "eval" /\ writer.i <= Len(writer.batch)
    /\ ~ Changes(Current)
    /\ writer' = [writer EXCEPT !.i = @ + 1]
    /\ UNCHANGED <<phase, known, active, queue, forget, logging, db, saved, ghosts>>

\* raise_alert(): the SELECT for an open alert.
WriterRaiseSelect ==
    /\ writer.pc = "eval" /\ writer.i <= Len(writer.batch)
    /\ Current.value = "bad" /\ Current.dev \notin active
    /\ writer' = [writer EXCEPT !.pc = IF HasOpenAlert(db, Current.dev) THEN "raised" ELSE "raise",
                                !.live = Current.dev \in known]
    /\ UNCHANGED <<phase, known, active, queue, forget, logging, db, saved, ghosts>>

\* ... and the INSERT if there was none.
WriterRaiseInsert ==
    /\ writer.pc = "raise"
    /\ db' = [db EXCEPT !.alerts = @ \union {[dev |-> Current.dev, n |-> Current.n, open |-> TRUE]}]
    /\ writer' = [writer EXCEPT !.pc = "raised"]
    /\ UNCHANGED <<phase, known, active, queue, forget, logging, saved, ghosts>>

\* clear_alert().
WriterClear ==
    /\ writer.pc = "eval" /\ writer.i <= Len(writer.batch)
    /\ Current.value = "good" /\ Current.dev \in active
    /\ db' = [db EXCEPT !.alerts = {IF a.dev = Current.dev THEN [a EXCEPT !.open = FALSE] ELSE a : a \in @}]
    /\ writer' = [writer EXCEPT !.pc = "cleared", !.live = TRUE]
    /\ UNCHANGED <<phase, known, active, queue, forget, logging, saved, ghosts>>

\* Deviation: the alert is cleared in the table only.
MarkKeepsAlert ==
    /\ writer.pc \in {"raised", "cleared"}
    /\ active' = IF writer.live THEN active \union {Current.dev} ELSE active
    /\ writer' = [writer EXCEPT !.pc = "eval", !.i = @ + 1, !.live = FALSE]
    /\ UNCHANGED <<phase, known, queue, forget, logging, db, saved, ghosts>>

\* Back from the store: the alert set of the entry that was looked up, which
\* may no longer be the board's.
WriterMark ==
    /\ writer.pc \in {"raised", "cleared"}
    /\ active' = IF ~ writer.live THEN active
                 ELSE IF writer.pc = "raised" THEN active \union {Current.dev} ELSE active \ {Current.dev}
    /\ writer' = [writer EXCEPT !.pc = "eval", !.i = @ + 1, !.live = FALSE]
    /\ UNCHANGED <<phase, known, queue, forget, logging, db, saved, ghosts>>

WriterCommit ==
    /\ writer.pc = "eval" /\ writer.i > Len(writer.batch)
    /\ saved' = db
    /\ writer' = WriterIdle
    /\ UNCHANGED <<phase, known, active, queue, forget, logging, db, ghosts>>

\* A statement raises: the batch is given up, what was written of it stays
\* in the open transaction.
WriterFails ==
    /\ "store" \in Events
    /\ \/ writer.pc = "collect" /\ writer.batch # <<>> /\ \E boards \in SUBSET Boards : db' = Upserted(boards)
       \/ writer.pc = "insert" /\ \E k \in 0..Len(writer.batch) : db' = Inserted(k)
       \/ writer.pc \in {"eval", "raise"} /\ UNCHANGED db
    /\ writer' = WriterIdle
    /\ excused' = excused \union Numbers(writer.batch)
    /\ UNCHANGED <<phase, known, active, queue, forget, logging, saved, history, gone>>

Writer ==
    \/ WriterTake \/ WriterUpsert \/ WriterInsert \/ WriterSkip \/ WriterRaiseSelect
    \/ WriterRaiseInsert \/ WriterClear \/ WriterMark \/ WriterCommit

-----------------------------------------------------------------------------
(* forget_device() and send_command(), called from HTTP or MCP.            *)

\* Deviation: nothing is drained.
KeptAll(d) == queue

\* What is kept of the first k readings of a queue.
Sieved(q, d) ==
    LET kept[k \in 0..Len(q)] ==
        IF k = 0 THEN <<>>
        ELSE IF q[k].dev = d THEN kept[k - 1] ELSE Append(kept[k - 1], q[k])
    IN  kept

Kept(d) == Sieved(queue, d)[Len(queue)]

\* The readings of d leave the queue, its entry leaves the registry, and the
\* first DELETE is on its way.
ForgetStart(d) ==
    /\ "forget" \in Events /\ phase = "up" /\ d \in known /\ forget.pc = "idle"
    /\ queue' = Kept(d)
    /\ excused' = excused \union {n \in Numbers(queue) \union {r.n : r \in db.telemetry} : history[n].dev = d}
    /\ known' = known \ {d} /\ active' = active \ {d}
    /\ writer' = IF writer.live /\ Current.dev = d THEN [writer EXCEPT !.live = FALSE] ELSE writer
    /\ db' = [db EXCEPT !.telemetry = @ \ Of(@, d)]
    /\ forget' = [pc |-> "alerts", dev |-> d]
    /\ gone' = [gone EXCEPT ![d] = IF \E k \in 1..Len(writer.batch) : writer.batch[k].dev = d THEN "raced" ELSE "clean"]
    /\ UNCHANGED <<phase, logging, saved, history>>

\* The other DELETEs of delete_device(), in its order.
ForgetDelete ==
    /\ \/ forget.pc = "alerts" /\ db' = [db EXCEPT !.alerts = @ \ Of(@, forget.dev)] /\ forget' = [forget EXCEPT !.pc = "commands"]
       \/ forget.pc = "commands" /\ db' = [db EXCEPT !.commands = @ \ {forget.dev}] /\ forget' = [forget EXCEPT !.pc = "devices"]
       \/ forget.pc = "devices" /\ db' = [db EXCEPT !.devices[forget.dev] = 0] /\ forget' = [forget EXCEPT !.pc = "commit"]
    /\ UNCHANGED <<phase, known, active, queue, writer, logging, saved, ghosts>>

ForgetCommit ==
    /\ forget.pc = "commit"
    /\ saved' = db
    /\ forget' = ForgetIdle
    /\ UNCHANGED <<phase, known, active, queue, writer, logging, db, ghosts>>

ForgetFails ==
    /\ "store" \in Events /\ forget.pc # "idle"
    /\ forget' = ForgetIdle
    /\ gone' = [gone EXCEPT ![forget.dev] = "no"]
    /\ UNCHANGED <<phase, known, active, queue, writer, logging, db, saved, history, excused>>

\* send_command(): log_command() inserts its row ...
Command(d) ==
    /\ "command" \in Events /\ phase = "up" /\ d \in known /\ ~ logging
    /\ db' = [db EXCEPT !.commands = @ \union {d}]
    /\ logging' = TRUE
    /\ gone' = [gone EXCEPT ![d] = "no"]
    /\ UNCHANGED <<phase, known, active, queue, writer, forget, saved, history, excused>>

\* ... and commits, in the middle of whatever the others are doing.
CommandCommit ==
    /\ logging
    /\ saved' = db
    /\ logging' = FALSE
    /\ UNCHANGED <<phase, known, active, queue, writer, forget, db, ghosts>>

\* The commit raises; the row stays in the open transaction.
CommandFails ==
    /\ "store" \in Events /\ logging
    /\ logging' = FALSE
    /\ UNCHANGED <<phase, known, active, queue, writer, forget, db, saved, ghosts>>

\* prune(): the readings up to k are older than what is kept.
Old(k) == {r \in db.telemetry : r.n <= k}

\* _pruner_loop(), with the commit of prune(): that another commit comes before
\* it makes no difference.
Prune ==
    /\ "prune" \in Events /\ phase = "up"
    /\ \E newest \in db.telemetry :
        /\ db' = [db EXCEPT !.telemetry = @ \ Old(newest.n)]
        /\ excused' = excused \union {r.n : r \in Old(newest.n)}
    /\ saved' = db'
    /\ UNCHANGED <<phase, known, active, queue, writer, forget, logging, history, gone>>

-----------------------------------------------------------------------------
(* Shutdown, crash and start.                                              *)

\* stop(), when the last request has been served.
Stop ==
    /\ "stop" \in Events /\ phase = "up" /\ forget.pc = "idle" /\ ~ logging
    /\ phase' = "stopping"
    /\ UNCHANGED <<known, active, queue, writer, forget, logging, db, saved, ghosts>>

\* Deviation: the writer does not drain the queue.
ExitsAtOnce ==
    /\ phase = "stopping" /\ writer.pc = "collect" /\ writer.batch = <<>>
    /\ writer' = [WriterIdle EXCEPT !.pc = "done"]
    /\ UNCHANGED <<phase, known, active, queue, forget, logging, db, saved, ghosts>>

WriterExit ==
    /\ phase = "stopping" /\ writer.pc = "collect" /\ writer.batch = <<>> /\ queue = <<>>
    /\ writer' = [WriterIdle EXCEPT !.pc = "done"]
    /\ UNCHANGED <<phase, known, active, queue, forget, logging, db, saved, ghosts>>

\* stop() has waited for ten seconds and cancels the writer.
WriterCancelled ==
    /\ "slow" \in Events /\ phase = "stopping" /\ writer.pc # "done"
    /\ writer' = [WriterIdle EXCEPT !.pc = "done"]
    /\ excused' = excused \union Numbers(queue) \union Numbers(writer.batch)
    /\ UNCHANGED <<phase, known, active, queue, forget, logging, db, saved, history, gone>>

\* What the process forgets when it ends.
Ended ==
    /\ phase' = "down" /\ known' = {} /\ active' = {} /\ queue' = <<>>
    /\ writer' = WriterIdle /\ forget' = ForgetIdle /\ logging' = FALSE

\* store.close() commits.
Close ==
    /\ phase = "stopping" /\ writer.pc = "done"
    /\ saved' = db
    /\ Ended
    /\ UNCHANGED <<db, ghosts>>

Crash ==
    /\ "crash" \in Events /\ phase # "down"
    /\ db' = saved
    /\ Ended
    /\ excused' = excused \union {n \in 1..Len(history) : history[n] \notin saved.telemetry}
    /\ gone' = [d \in Boards |-> IF forget.pc # "idle" /\ forget.dev = d THEN "no" ELSE gone[d]]
    /\ UNCHANGED <<saved, history>>

\* start(): one entry per row of devices, without alerts.
Start ==
    /\ phase = "down"
    /\ phase' = "up"
    /\ known' = {d \in Boards : db.devices[d] > 0}
    /\ UNCHANGED <<active, queue, writer, forget, logging, db, saved, ghosts>>

Next ==
    \/ \E d \in Boards : \/ \E value \in {"good", "bad", "none"} : Ingest(d, value)
                         \/ IngestStatus(d) \/ ForgetStart(d) \/ Command(d)
    \/ Writer \/ WriterFails
    \/ ForgetDelete \/ ForgetCommit \/ ForgetFails \/ CommandCommit \/ CommandFails \/ Prune
    \/ Stop \/ WriterExit \/ WriterCancelled \/ Close \/ Crash \/ Start

Spec == Init /\ [][Next]_vars

\* The loop runs every coroutine that is ready, and the store answers.  The
\* ten seconds of stop() are not assumed to run out.
FairSpec ==
    /\ Spec
    /\ WF_vars(Writer \/ WriterFails)
    /\ WF_vars(ForgetDelete \/ ForgetCommit \/ ForgetFails)
    /\ WF_vars(CommandCommit \/ CommandFails)
    /\ WF_vars(WriterExit \/ Close)

-----------------------------------------------------------------------------

\* Where reading n is: queued, taken by the writer, or in the table.
Places(n) ==
    {p \in {"queue", "batch", "telemetry"} :
        \/ p = "queue" /\ n \in Numbers(queue)
        \/ p = "batch" /\ writer.pc \in {"collect", "insert"} /\ n \in Numbers(writer.batch)
        \/ p = "telemetry" /\ history[n] \in db.telemetry}

\* No reading is lost or written twice unless it was given up knowingly: the
\* queue was full, its board was forgotten, its batch failed, it grew old, the
\* process crashed.  After a shutdown all others are on disk.
EveryReadingAccounted ==
    /\ \A n \in 1..Len(history) : Cardinality(Places(n)) <= 1 /\ (n \notin excused => Places(n) # {})
    /\ phase = "down" => db = saved

\* raise_alert() never opens a second alert for the same condition, across
\* restarts and failures, in the tables and on disk.
OneOpenAlert ==
    \A t \in {db, saved}, d \in Boards : Cardinality({a \in Of(t.alerts, d) : a.open}) <= 1

\* A forgotten board has no row left anywhere, provided that the writer held
\* none of its readings at that moment and nothing came from or went to it since.
ForgetPurges ==
    \A d \in Boards : gone[d] = "clean" /\ ~ (forget.pc # "idle" /\ forget.dev = d) =>
        \A t \in {db, saved} : t.devices[d] = 0 /\ Of(t.telemetry, d) = {} /\ Of(t.alerts, d) = {} /\ d \notin t.commands

\* A board was credited with at least its stored readings,
CountCoversRows ==
    \A t \in {db, saved}, d \in Boards : Cardinality(Of(t.telemetry, d)) <= t.devices[d]

\* and an alert that is shown live has its open row, so it can be listed and
\* cleared, whatever failed in between.  _writer_loop(), _evaluate_alerts().
ActiveHasRow ==
    phase = "up" => \A d \in active : HasOpenAlert(db, d) \/ (writer.pc = "cleared" /\ Current.dev = d)

\* Counters and alerts agree with the rows through failures and foreign commits.
RowsBackState == CountCoversRows /\ ActiveHasRow

\* Every reading leaves the queue and is stored or given up; a shutdown ends:
\* _writer_loop() and stop().
EveryReadingSettles ==
    /\ \A n \in 1..MaxReadings :
         (n <= Len(history)) ~> (n <= Len(history) /\ (n \in excused \/ history[n] \in db.telemetry))
    /\ (phase = "stopping") ~> (phase = "down")

\* "Flush pending writes for it first so the delete is not raced by the
\* writer" (registry.py:434): once the writer is idle again, a forgotten
\* board has no row left until it sends again.
ForgottenStaysForgotten ==
    writer = WriterIdle /\ forget.pc = "idle" =>
        \A d \in Boards : gone[d] # "no" => db.devices[d] = 0 /\ Of(db.telemetry, d) = {}

\* online: "last reading < IONITY_STALE_AFTER_S (45 s) and no open alerts"
\* (TELEMETRY-SCHEMA.md:114): when the writer has nothing left to do, a board
\* that is shown as online, its last reading good and stored, has no open alert.
OnlineMeansNoOpenAlert ==
    phase = "up" /\ queue = <<>> /\ writer = WriterIdle =>
        \A d \in known \ active :
            (\E n \in 1..Len(history) :
                /\ history[n].dev = d /\ history[n].value = "good" /\ history[n] \in db.telemetry
                /\ \A m \in (n + 1)..Len(history) : history[m].dev # d)
            => ~ HasOpenAlert(db, d)

=============================================================================
