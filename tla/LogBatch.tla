------------------------------ MODULE LogBatch ------------------------------
(***************************************************************************)
(* The batching log store (gateway-storage/src/sqlite/logs.rs; the         *)
(* Postgres one is the same): append hands a record to a bounded channel   *)
(* and never waits, one worker collects records and inserts them in        *)
(* batches, flush() rides through the same channel.                        *)
(***************************************************************************)
EXTENDS Integers, Sequences, FiniteSets, Functions, Option

CONSTANTS
  Records,          \* records, each appended at most once
  IdOf,             \* IdOf[r]: the primary key; response ids may repeat
  Flushers,         \* calls of flush()
  CHANNEL_CAPACITY,
  BATCH_MAX_ROWS,
  InsertFails       \* {FALSE}, or BOOLEAN if the database may refuse an insert

ASSUME LogBatchAssumption ==
  /\ DOMAIN IdOf = Records
  /\ Records \cap Flushers = {}
  /\ CHANNEL_CAPACITY \in Nat \ {0}
  /\ BATCH_MAX_ROWS \in Nat \ {0}
  /\ InsertFails \subseteq BOOLEAN
  /\ None \notin Flushers

VARIABLES
  channel,   \* commands on their way to the worker: records and flushes
  buf,       \* the worker's buffer
  worker,    \* "select", "insert", "drain" (last insert), "stopped"
  acking,    \* the flush the worker answers after the insert
  table,     \* rows of request_logs
  flusher,   \* "idle", "sending", "waiting", "returned"
  closed,    \* every sender of the channel is gone
  appended,  \* history: records append was called with
  full,      \* history: those dropped because the channel was full
  failed,    \* history: those of a batch whose insert failed
  before     \* history: records appended before a flush was called

logVars == <<channel, buf, worker, acking, table, flusher, closed, appended, full,
          failed, before>>

LogInit ==
  /\ channel = <<>>
  /\ buf = <<>>
  /\ worker = "select"
  /\ acking = None
  /\ table = {}
  /\ flusher = [f \in Flushers |-> "idle"]
  /\ closed = FALSE
  /\ appended = {}
  /\ full = {}
  /\ failed = {}
  /\ before = [f \in Flushers |-> {}]

Room == Len(channel) < CHANNEL_CAPACITY

\* try_send: a full channel drops the record, and the caller is not told.
DoAppend(r) ==
  /\ ~closed /\ worker # "stopped" /\ r \notin appended
  /\ appended' = appended \cup {r}
  /\ \/ /\ Room
        /\ channel' = Append(channel, r)
        /\ UNCHANGED full
     \/ /\ ~Room
        /\ full' = full \cup {r}
        /\ UNCHANGED channel
  /\ UNCHANGED <<buf, worker, acking, table, flusher, closed, failed, before>>

CallFlush(f) ==
  /\ ~closed /\ worker # "stopped" /\ flusher[f] = "idle"
  /\ flusher' = [flusher EXCEPT ![f] = "sending"]
  /\ before' = [before EXCEPT ![f] = appended]
  /\ UNCHANGED <<channel, buf, worker, acking, table, closed, appended, full, failed>>

\* flush: send waits for room, then for the answer.
SendFlush(f) ==
  /\ flusher[f] = "sending" /\ Room
  /\ channel' = Append(channel, f)
  /\ flusher' = [flusher EXCEPT ![f] = "waiting"]
  /\ UNCHANGED <<buf, worker, acking, table, closed, appended, full, failed, before>>

Answer(f) == flusher' = [flusher EXCEPT ![f] = "returned"]

\* Mutant: a batch is forgotten if a full buffer finds more records queued.
RecvOverwrites ==
  /\ worker = "select" /\ channel # <<>> /\ Head(channel) \in Records
  /\ channel' = Tail(channel)
  /\ buf' = IF Len(buf) >= BATCH_MAX_ROWS - 1 THEN <<Head(channel)>>
            ELSE Append(buf, Head(channel))
  /\ worker' = IF Len(buf') >= BATCH_MAX_ROWS THEN "insert" ELSE "select"
  /\ UNCHANGED <<acking, table, flusher, closed, appended, full, failed, before>>

\* The worker receives a record; a full buffer is inserted at once.
RecvRecord ==
  /\ worker = "select" /\ channel # <<>> /\ Head(channel) \in Records
  /\ channel' = Tail(channel)
  /\ buf' = Append(buf, Head(channel))
  /\ worker' = IF Len(buf') >= BATCH_MAX_ROWS THEN "insert" ELSE "select"
  /\ UNCHANGED <<acking, table, flusher, closed, appended, full, failed, before>>

\* Mutant: the flush is answered before the insert.
RecvFlushAnswersFirst(f) ==
  /\ worker = "select" /\ channel # <<>> /\ Head(channel) = f
  /\ channel' = Tail(channel)
  /\ Answer(f)
  /\ worker' = IF buf = <<>> THEN "select" ELSE "insert"
  /\ UNCHANGED <<buf, acking, table, closed, appended, full, failed, before>>

\* The worker receives a flush: insert what is buffered, then answer.
RecvFlush(f) ==
  /\ worker = "select" /\ channel # <<>> /\ Head(channel) = f
  /\ channel' = Tail(channel)
  /\ \/ /\ buf = <<>>
        /\ Answer(f)
        /\ UNCHANGED <<worker, acking>>
     \/ /\ buf # <<>>
        /\ worker' = "insert"
        /\ acking' = f
        /\ UNCHANGED flusher
  /\ UNCHANGED <<buf, table, closed, appended, full, failed, before>>

\* Mutant: no ticker.
TickNever == FALSE /\ UNCHANGED logVars

\* The ticker: select is biased, so it is looked at only when the channel is
\* empty.
Tick ==
  /\ worker = "select" /\ channel = <<>> /\ ~closed /\ buf # <<>>
  /\ worker' = "insert"
  /\ UNCHANGED <<channel, buf, acking, table, flusher, closed, appended, full,
                 failed, before>>

\* recv returned None: the loop is left, and what is buffered inserted.
Drain ==
  /\ worker = "select" /\ channel = <<>> /\ closed
  /\ worker' = IF buf = <<>> THEN "stopped" ELSE "drain"
  /\ UNCHANGED <<channel, buf, acking, table, flusher, closed, appended, full,
                 failed, before>>

\* One statement inserts the batch: a repeated id fails it as a whole.
Conflicts ==
  \/ \E i, j \in DOMAIN buf : i # j /\ IdOf[buf[i]] = IdOf[buf[j]]
  \/ \E i \in DOMAIN buf : \E row \in table : IdOf[row] = IdOf[buf[i]]

\* flush_batch: the buffer is emptied whether or not the insert succeeds.
FlushBatch(fails) ==
  /\ worker \in {"insert", "drain"}
  /\ \/ /\ ~fails /\ ~Conflicts
        /\ table' = table \cup Range(buf)
        /\ UNCHANGED failed
     \/ /\ fails \/ Conflicts
        /\ failed' = failed \cup Range(buf)
        /\ UNCHANGED table
  /\ buf' = <<>>
  /\ worker' = IF worker = "drain" THEN "stopped" ELSE "select"
  /\ flusher' = IF acking = None THEN flusher
                ELSE [flusher EXCEPT ![acking] = "returned"]
  /\ acking' = None
  /\ UNCHANGED <<channel, closed, appended, full, before>>

\* Shutdown waits for the connections, so for the admin calls of flush too.
ServerJoined == \A f \in Flushers : flusher[f] \in {"idle", "returned"}

\* The last sender is dropped; proxy tasks may hold theirs longer than the server.
Close ==
  /\ ~closed /\ ServerJoined
  /\ closed' = TRUE
  /\ UNCHANGED <<channel, buf, worker, acking, table, flusher, appended, full,
                 failed, before>>

\* main returns: the runtime is dropped, and the worker with it, wherever it is.
Exit ==
  /\ worker # "stopped" /\ ServerJoined
  /\ worker' = "stopped"
  /\ UNCHANGED <<channel, buf, acking, table, flusher, closed, appended, full,
                 failed, before>>

Stopped == worker = "stopped" /\ UNCHANGED logVars

WorkerStep ==
  \/ RecvRecord \/ (\E f \in Flushers : RecvFlush(f)) \/ Tick \/ Drain
  \/ \E fails \in InsertFails : FlushBatch(fails)

LogNext ==
  \/ \E r \in Records : DoAppend(r)
  \/ \E f \in Flushers : CallFlush(f) \/ SendFlush(f)
  \/ WorkerStep \/ Close \/ Exit \/ Stopped

LogSpec == LogInit /\ [][LogNext]_logVars

\* The worker is a task of its own and its inserts end.
LogFairness == WF_logVars(WorkerStep)

LogFairSpec == LogSpec /\ LogFairness

----------------------------------------------------------------------------
(***************************************************************************)
(* Properties                                                              *)
(***************************************************************************)
\* A record that was appended is in the channel, in the buffer or in the table
\* unless one of the two ways the code has of losing it was taken: the channel
\* was full, or the insert of its batch failed.  No record is stored that was
\* never appended, and none is counted as lost and stored.
InTransit == (Range(channel) \cap Records) \cup Range(buf)
NothingElseLost ==
  /\ appended = InTransit \cup table \cup full \cup failed
  /\ (full \cup failed) \cap (InTransit \cup table) = {}

\* When flush returns, no record appended before the call is in transit: the
\* recompute of historical costs relies on it.
FlushDurable ==
  \A f \in Flushers : flusher[f] = "returned" => before[f] \cap InTransit = {}

\* A record that reached the channel is inserted, or fails, or the process
\* exits.
Settled ==
  \A r \in Records : r \in InTransit ~> r \notin InTransit \/ worker = "stopped"
=============================================================================
