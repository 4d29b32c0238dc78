---------------------------- MODULE DataSnapshot ----------------------------
(***************************************************************************)
(* The copy of the rows of a snapshot: the data snapshot generator         *)
(* (pkg/snapshot/generator/postgres/data) reads page ranges of the tables  *)
(* with workers per snapshot, per schema and per table, and hands each row *)
(* to the bulk ingest writer (pkg/wal/processor/postgres), which has a     *)
(* batch sender per table and writes batches with COPY.                    *)
(*                                                                         *)
(* A row is its table and page: a page holds one row.  A batch sender is   *)
(* what BatchSender.tla shows of it: rows join a batch, one batch is       *)
(* written at a time, a failed write stops it.  Its queue never fills up.  *)
(***************************************************************************)
EXTENDS Integers, FiniteSets

CONSTANTS
  Schema, Table,     \* what is asked for
  Snapshots,         \* the sources (below)
  SnapshotWorkers, SchemaWorkers,   \* numbers of workers
  TableWorker,       \* the workers that read one table
  BatchBytes, AvgPageBytes

Missing == -1        \* the table is not in the source (pgx.ErrNoRows)
Nobody == "nobody"

(***************************************************************************)
(* A source: for every table its schema, the number of its last page, or   *)
(* Missing, and the pages that hold a row; and the bound of the operations *)
(* that fail while it is copied.                                           *)
(***************************************************************************)
SizesAssumption ==
  /\ \A s \in Snapshots : /\ s.schema \in [Table -> Schema]
                          /\ s.last \in [Table -> Nat \cup {Missing}]
                          /\ \A t \in Table : s.rows[t] \subseteq 0..s.last[t]
                          /\ s.maxFaults \in Nat
  /\ {BatchBytes, AvgPageBytes} \subseteq Nat
  /\ TableWorker # {} /\ Nobody \notin TableWorker

VARIABLES
  source,    \* the member of Snapshots that is copied
  asked,     \* the tables to copy
  snap,      \* CreateSnapshot: "idle", "running", "closing", or its result
  schema,    \* where the worker of each schema is
  errors,    \* the schemas in schemaErrs
  table,     \* where the worker of each table is
  pushed,    \* ranges put into rangeChan
  taken,     \* ranges taken from it
  worker,    \* what each range worker of a table does
  handed,    \* how often a row was accepted by a sender
  mapped,    \* batchSenderMap: the worker that built the table's sender
  sender,    \* the senders, named after the worker that built them
  target,    \* rows in the target
  faults

vars == <<source, asked, snap, schema, errors, table, pushed, taken, worker, handed,
          mapped, sender, target, faults>>

Rows == UNION { {t} \X source.rows[t] : t \in Table }
AskedRows == {r \in Rows : r[1] \in asked}

\* What a page of the table costs decides how many pages a range has.
BatchPageSize(t) ==
  LET size == BatchBytes \div AvgPageBytes
  IN  IF source.last[t] = 0 THEN 1
      ELSE IF BatchBytes = 0 \/ AvgPageBytes = 0 THEN source.last[t]
      ELSE IF size = 0 THEN 1
      ELSE IF size > source.last[t] THEN source.last[t] ELSE size

\* The ranges [start, end) of a table: WHERE ctid BETWEEN (start,0) AND
\* (end,0), and the first row of a page is number 1.
RangeStart(t, n) == n * BatchPageSize(t)
HasRange(t, n) == RangeStart(t, n) <= source.last[t]
\* Mutant of RangePages: a range includes the page that it ends at.
RangePagesClosed(t, n) == RangeStart(t, n)..RangeStart(t, n + 1) \cap source.rows[t]

RangePages(t, n) == RangeStart(t, n)..(RangeStart(t, n + 1) - 1) \cap source.rows[t]

Idle == [at |-> "idle", pages |-> {}]
NoSender == [loop |-> "none", writer |-> "none", batch |-> {}, writing |-> {}]

Init ==
  /\ source \in Snapshots
  /\ asked = {}
  /\ snap = "idle"
  /\ schema = [s \in Schema |-> "queued"]
  /\ errors = {}
  /\ table = [t \in Table |-> "queued"]
  /\ pushed = [t \in Table |-> 0]
  /\ taken = [t \in Table |-> 0]
  /\ worker = [t \in Table |-> [w \in TableWorker |-> Idle]]
  /\ handed = [r \in Rows |-> 0]
  /\ mapped = [t \in Table |-> Nobody]
  /\ sender = [t \in Table |-> [w \in TableWorker |-> NoSender]]
  /\ target = {}
  /\ faults = 0

Fault == faults < source.maxFaults /\ faults' = faults + 1

TablesOf(s) == {t \in asked : source.schema[t] = s}
copyVars == <<pushed, taken, worker, handed, mapped, sender, target>>

-----------------------------------------------------------------------------
(* CreateSnapshot: snapshot workers take schemas, schema workers tables.   *)

Start(tables) ==
  /\ snap = "idle"
  /\ snap' = "running" /\ asked' = tables
  /\ UNCHANGED <<source, schema, errors, table, copyVars, faults>>

\* The tables could not be found.
NotStarted ==
  /\ snap = "idle" /\ snap' = "error"
  /\ UNCHANGED <<source, asked, schema, errors, table, copyVars, faults>>

\* createSchemaSnapshot opens the exporting transaction and exports its
\* snapshot; without it the schema has failed.
TakeSchema(s) ==
  /\ snap = "running" /\ schema[s] = "queued" /\ TablesOf(s) # {}
  /\ Cardinality({x \in Schema : schema[x] \in {"open", "failing", "storing"}})
       < SnapshotWorkers
  /\ \/ schema' = [schema EXCEPT ![s] = "open"] /\ UNCHANGED faults
     \/ schema' = [schema EXCEPT ![s] = "failing"] /\ Fault
  /\ UNCHANGED <<source, asked, snap, errors, table, copyVars>>

\* A schema worker takes a table and reads its size.  A table the source does
\* not have is no error.
TakeTable(t) ==
  LET s == source.schema[t]
  IN  /\ t \in asked /\ schema[s] = "open" /\ table[t] = "queued"
      /\ Cardinality({x \in TablesOf(s) : table[x] = "copying"}) < SchemaWorkers
      /\ \/ /\ table' = [table EXCEPT ![t] =
                           IF source.last[t] = Missing THEN "done" ELSE "copying"]
            /\ UNCHANGED faults
         \/ table' = [table EXCEPT ![t] = "failed"] /\ Fault
      /\ UNCHANGED <<source, asked, snap, schema, errors, copyVars>>

\* wg.Wait, collectTableErrors, and the end of the exporting transaction,
\* whose commit may fail.
EndSchema(s) ==
  /\ schema[s] = "open"
  /\ \A t \in TablesOf(s) : table[t] \in {"done", "failed"}
  /\ \/ /\ schema' = [schema EXCEPT ![s] =
             IF \E t \in TablesOf(s) : table[t] = "failed" THEN "failing" ELSE "ended"]
        /\ UNCHANGED faults
     \/ schema' = [schema EXCEPT ![s] = "failing"] /\ Fault
  /\ UNCHANGED <<source, asked, snap, errors, table, copyVars>>

\* schemaErrs[schema] = err, a map that all snapshot workers write without a
\* lock.  Two writes at once end the process, or one of them is lost.
StoreError(s) ==
  /\ \/ /\ schema[s] = "failing"
        /\ schema' = [schema EXCEPT ![s] = "storing"]
        /\ UNCHANGED <<snap, errors>>
     \/ /\ schema[s] = "storing"
        /\ schema' = [schema EXCEPT ![s] = "ended"]
        /\ \/ errors' = errors \cup {s} /\ UNCHANGED snap
           \/ /\ \E other \in Schema \ {s} : schema[other] = "storing"
              /\ \/ UNCHANGED <<snap, errors>>
                 \/ snap' = "crashed" /\ UNCHANGED errors
  /\ UNCHANGED <<source, asked, table, copyVars, faults>>

\* errGroup.Wait, then the deferred processor.Close.
CloseProcessor ==
  /\ snap = "running"
  /\ \A s \in Schema : schema[s] = "ended" \/ TablesOf(s) = {}
  /\ snap' = "closing"
  /\ UNCHANGED <<source, asked, schema, errors, table, copyVars, faults>>

\* Close waits for the senders in the map, and closes the connection.  The
\* sender's Close returns nothing.
Finish ==
  /\ snap = "closing"
  /\ \A t \in Table : mapped[t] # Nobody =>
        LET k == sender[t][mapped[t]] IN k.loop = "stopped" /\ k.writing = {}
  /\ \/ snap' = (IF errors = {} THEN "ok" ELSE "error") /\ UNCHANGED faults
     \/ snap' = "error" /\ Fault
  /\ UNCHANGED <<source, asked, schema, errors, table, copyVars>>

-----------------------------------------------------------------------------
(* snapshotTable: its producer, its range workers and their errgroup.      *)

schemaVars == <<source, asked, snap, schema, errors, table>>

\* The context of the table's errgroup, which its sender runs on, is done.
Cancelled(t) ==
  \/ table[t] \in {"done", "failed"}
  \/ \E w \in TableWorker : worker[t][w].at = "failed"

\* Mutant of PushRange: the channel of ranges holds none.
PushRangeUnbuffered(t) ==
  /\ table[t] = "copying" /\ HasRange(t, pushed[t])
  /\ \E w \in TableWorker : worker[t][w].at = "idle"
  /\ pushed' = [pushed EXCEPT ![t] = @ + 1]
  /\ UNCHANGED <<schemaVars, taken, worker, handed, mapped, sender, target, faults>>

PushRange(t) ==
  /\ table[t] = "copying" /\ HasRange(t, pushed[t])
  /\ \/ pushed[t] - taken[t] < source.last[t]          \* cap(rangeChan)
     \/ \E w \in TableWorker : worker[t][w].at = "idle"
  /\ pushed' = [pushed EXCEPT ![t] = @ + 1]
  /\ UNCHANGED <<schemaVars, taken, worker, handed, mapped, sender, target, faults>>

\* A worker takes a range, or leaves when the channel is closed and empty.
TakeRange(t, w) ==
  /\ table[t] = "copying" /\ worker[t][w].at = "idle"
  /\ \/ /\ taken[t] < pushed[t]
        /\ taken' = [taken EXCEPT ![t] = @ + 1]
        /\ worker' = [worker EXCEPT ![t][w] =
                        [at |-> "reading", pages |-> RangePages(t, taken[t])]]
     \/ /\ taken[t] = pushed[t] /\ ~HasRange(t, pushed[t])
        /\ worker' = [worker EXCEPT ![t][w].at = "off"]
        /\ UNCHANGED taken
  /\ UNCHANGED <<schemaVars, pushed, handed, mapped, sender, target, faults>>

\* The transaction, the query or a row fails, or the group is cancelled.
RangeFails(t, w) ==
  /\ worker[t][w].at = "reading"
  /\ \/ Cancelled(t) /\ UNCHANGED faults
     \/ Fault
  /\ worker' = [worker EXCEPT ![t][w].at = "failed"]
  /\ UNCHANGED <<schemaVars, pushed, taken, handed, mapped, sender, target>>

RangeEnds(t, w) ==
  /\ worker[t][w].at = "reading" /\ worker[t][w].pages = {}
  /\ worker' = [worker EXCEPT ![t][w] = Idle]
  /\ UNCHANGED <<schemaVars, pushed, taken, handed, mapped, sender, target, faults>>

\* SendMessage to the sender built by k: a stopped sender refuses the row.
Send(t, w, k, senders) ==
  LET page == CHOOSE p \in worker[t][w].pages : \A q \in worker[t][w].pages : p <= q
  IN  IF senders[t][k].loop = "stopped"
      THEN /\ worker' = [worker EXCEPT ![t][w].at = "failed"]
           /\ sender' = senders
           /\ UNCHANGED handed
      ELSE /\ worker' = [worker EXCEPT ![t][w] =
                           [at |-> "reading", pages |-> @.pages \ {page}]]
           /\ sender' = [senders EXCEPT ![t][k].batch = @ \cup {<<t, page>>}]
           /\ handed' = [handed EXCEPT ![<<t, page>>] = @ + 1]

\* ProcessWALEvent of the bulk ingest writer for the next row of the range.
\* getBatchSender looks the sender up and, if there is none, builds one: two
\* steps, without a lock, and workers of a table run them at the same time.
HandRow(t, w) ==
  /\ worker[t][w].at = "reading" /\ worker[t][w].pages # {} /\ ~Cancelled(t)
  /\ IF mapped[t] = Nobody
     THEN worker' = [worker EXCEPT ![t][w].at = "building"] /\ UNCHANGED <<sender, handed>>
     ELSE Send(t, w, mapped[t], sender)
  /\ UNCHANGED <<schemaVars, pushed, taken, mapped, target, faults>>

BuildSender(t, w) ==
  /\ worker[t][w].at = "building"
  /\ mapped' = [mapped EXCEPT ![t] = w]
  /\ Send(t, w, w, [sender EXCEPT ![t][w] =
                      [NoSender EXCEPT !.loop = "running", !.writer = "running"]])
  /\ UNCHANGED <<schemaVars, pushed, taken, target, faults>>

\* errGroup.Wait.  The error goes to the map of the schema worker.
EndTable(t) ==
  /\ table[t] = "copying" /\ ~HasRange(t, pushed[t])
  /\ \A w \in TableWorker : worker[t][w].at \in {"off", "failed"}
  /\ table' = [table EXCEPT ![t] =
       IF \E w \in TableWorker : worker[t][w].at = "failed" THEN "failed" ELSE "done"]
  /\ UNCHANGED <<source, asked, snap, schema, errors, copyVars, faults>>

-----------------------------------------------------------------------------
(* The batch senders and their writers.                                    *)

SenderStep(t, k, new) ==
  /\ sender' = [sender EXCEPT ![t][k] = new]
  /\ UNCHANGED <<schemaVars, pushed, taken, worker, handed, mapped>>

\* Mutant of Drain: the last batch is dropped.
DrainUntilDone(t, k) ==
  LET s == sender[t][k]
      free == s.writing = {} /\ s.writer = "running"
  IN  /\ s.loop = "running"
      /\ \/ /\ s.batch # {} /\ free
            /\ SenderStep(t, k, [s EXCEPT !.writing = s.batch, !.batch = {}])
         \/ /\ Cancelled(t)
            /\ SenderStep(t, k, [s EXCEPT !.batch = {}, !.loop = "stopped"])
      /\ UNCHANGED <<target, faults>>

\* A batch is drained because of its size or of the ticker, or, when the
\* context the sender was built with is done, because the loop ends.
Drain(t, k) ==
  LET s == sender[t][k]
      free == s.writing = {} /\ s.writer = "running"
  IN  /\ s.loop = "running"
      /\ \/ /\ s.batch # {} /\ free
            /\ SenderStep(t, k, [s EXCEPT !.writing = s.batch, !.batch = {}])
         \/ /\ Cancelled(t) /\ (s.batch = {} \/ free)
            /\ SenderStep(t, k, [s EXCEPT !.writing = IF free THEN s.batch ELSE @,
                                          !.batch = {}, !.loop = "stopped"])
      /\ UNCHANGED <<target, faults>>

\* copyFromInsertQueries, one transaction that is retried until it is done
\* or fails.  Nobody can write once the connection is closed.
Closed == snap \in {"ok", "error"}
Write(t, k) ==
  LET s == sender[t][k]
  IN  /\ s.writing # {}
      /\ \/ /\ ~Closed
            /\ target' = target \cup s.writing /\ UNCHANGED faults
            /\ SenderStep(t, k, [s EXCEPT !.writing = {}])
         \/ /\ \/ Closed /\ UNCHANGED faults
               \/ Fault
            /\ UNCHANGED target
            /\ SenderStep(t, k, [s EXCEPT !.writing = {}, !.writer = "failed"])

\* The loop reads sendErrChan.
NoticeFailure(t, k) ==
  LET s == sender[t][k]
  IN  /\ s.loop = "running" /\ s.writer = "failed"
      /\ SenderStep(t, k, [s EXCEPT !.loop = "stopped", !.batch = {}])
      /\ UNCHANGED <<target, faults>>

Alive == snap # "crashed"

Work ==
  \/ CloseProcessor \/ Finish
  \/ \E s \in Schema : TakeSchema(s) \/ EndSchema(s) \/ StoreError(s)
  \/ \E t \in Table :
       \/ TakeTable(t) \/ PushRange(t) \/ EndTable(t)
       \/ \E w \in TableWorker :
            \/ TakeRange(t, w) \/ RangeFails(t, w) \/ RangeEnds(t, w)
            \/ HandRow(t, w) \/ BuildSender(t, w)
            \/ Drain(t, w) \/ Write(t, w) \/ NoticeFailure(t, w)

Next == Alive /\ Work

\* The copy is started once, or not at all, by the generator that wraps it.
Spec == Init /\ [][NotStarted \/ (\E tables \in SUBSET Table : Start(tables)) \/ Next]_vars

TypeOK ==
  /\ asked \subseteq Table
  /\ snap \in {"idle", "running", "closing", "ok", "error", "crashed"}
  /\ schema \in [Schema -> {"queued", "open", "failing", "storing", "ended"}]
  /\ errors \subseteq Schema
  /\ table \in [Table -> {"queued", "copying", "done", "failed"}]
  /\ pushed \in [Table -> Nat] /\ taken \in [Table -> Nat]
  /\ worker \in [Table -> [TableWorker ->
       [at : {"idle", "reading", "building", "failed", "off"}, pages : SUBSET Nat]]]
  /\ handed \in [Rows -> Nat]
  /\ mapped \in [Table -> TableWorker \cup {Nobody}]
  /\ sender \in [Table -> [TableWorker ->
       [loop : {"none", "running", "stopped"}, writer : {"none", "running", "failed"},
        batch : SUBSET Rows, writing : SUBSET Rows]]]
  /\ target \subseteq Rows
  /\ faults \in 0..source.maxFaults

-----------------------------------------------------------------------------
(* Properties *)

(* No row is handed on twice, and none is forgotten: a row that no sender  *)
(* has accepted when CreateSnapshot returns belongs to a schema that the   *)
(* returned error names, if no more than one operation has failed: the     *)
(* errors of two schemas may be stored at once.  It needs the ranges to    *)
(* cut the pages without gap or overlap, and every error of a range, a     *)
(* table or a schema to reach the result (snapshotTable,                   *)
(* createSnapshotWorker, CreateSnapshot).                                  *)
RowsHandedOnce ==
  LET unread == {r \in AskedRows : handed[r] = 0}
      failed == {source.schema[r[1]] : r \in unread}
  IN  /\ \A r \in Rows : handed[r] <= 1
      /\ snap = "ok" => unread = {}
      /\ snap = "error" /\ faults <= 1 => failed \subseteq errors

(* A row is read in the exported snapshot: while any worker of a table is  *)
(* at work, the exporting transaction of its schema is open.               *)
SnapshotStaysOpen ==
  \A t \in Table : (\E w \in TableWorker : worker[t][w].at \in {"reading", "building"})
     => schema[source.schema[t]] = "open"

(* A row that an accepted snapshot does not have in the target was in a    *)
(* batch of a sender whose write failed, or that the map had lost and that *)
(* was still writing when the connection was closed.                       *)
MissingRowsFailedUnseen ==
  snap = "ok" => \A r \in AskedRows :
    \/ r \in target
    \/ \E k \in TableWorker : LET s == sender[r[1]][k]
         IN s.writer = "failed" \/ (mapped[r[1]] # k /\ r \in s.writing \cup s.batch)

=============================================================================
