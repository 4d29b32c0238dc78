--------------------------- MODULE KafkaPipeline ---------------------------
(***************************************************************************)
(* Replication through a Kafka topic: the Kafka batch writer               *)
(* (pkg/wal/processor/kafka) fed by the Postgres listener in one process,  *)
(* the topic, and in another process the Kafka listener and checkpointer   *)
(* (pkg/wal/listener/kafka, pkg/wal/checkpointer/kafka) that feed the      *)
(* batching processor of a target.                                         *)
(*                                                                         *)
(* A change is its schema and a kind: a row; a row larger than a record    *)
(* may be; a row the target's processor refuses; a DDL message with a      *)
(* content that parses, or not; a keep-alive.  A record of the topic is    *)
(* the position of its change, a record in the target's sender its         *)
(* partition and offset.                                                   *)
(***************************************************************************)
EXTENDS Integers, Sequences, FiniteSets, SequencesExt, Selection

CONSTANTS
  Schema,       \* schemas of the source
  Partition,    \* partitions of the topic
  PartitionOf,  \* CRC32Balancer: the partition of a message key
  StartOffset,  \* "earliest" or "latest", for a group that committed nothing
  Changes,      \* the changes the source can make
  KLogLength,   \* bound: changes the source makes
  KFaults       \* bound: crashes, failed writes, rebalances, transient errors

NoSchema == ""
ChangeKind == {"row", "big", "refused", "ddl", "garbled", "keepAlive"}

KafkaAssumption ==
  /\ Changes \subseteq [schema : Schema, kind : ChangeKind]
  /\ PartitionOf \in [Schema \cup {NoSchema} -> Partition]
  /\ StartOffset \in {"earliest", "latest"}
  /\ {KLogLength, KFaults} \subseteq Nat

VARIABLES
  log,        \* the changes of the source
  next,       \* the next position the Postgres listener hands over
  pending,    \* positions in the writer's batch sender
  writer,     \* "running", or "failed" once a batch could not be written
  confirmed,  \* the position confirmed to the source
  topic,      \* the records of each partition
  reader,     \* "closed" or "running"
  fetched,    \* the next offset of each partition to be fetched
  begin,      \* where the group began before it had committed anything
  committed,  \* the offset the group has committed, or Nothing
  held,       \* records in the sender of the target's processor
  sink,       \* "running", or "stopped": that sender has failed
  handled,    \* history: records written to the target
  logged,     \* history: records logged as lost
  faults

writerVars == <<log, next, pending, writer, confirmed, topic>>
readerVars == <<reader, fetched, begin, committed, held, sink, handled, logged>>

Nothing == -1
Fault == faults < KFaults /\ faults' = faults + 1
-----------------------------------------------------------------------------
(* The writer.                                                             *)

IsDDLEvent(c) == c.kind \in {"ddl", "garbled"}

\* A logical message has no schema of its own.
WalSchema(c) == IF IsDDLEvent(c) THEN NoSchema ELSE c.schema

\* Mutant of MessageKey: a DDL event is keyed like any other event.
MessageKeyOfWAL(c) == WalSchema(c)

\* getMessageKey: a DDL event goes where the rows of its schema go.
MessageKey(c) == IF c.kind = "ddl" THEN c.schema ELSE WalSchema(c)

PartitionOfChange(c) == PartitionOf[MessageKey(c)]

HasRecord(c) == c.kind \notin {"keepAlive", "big"}

\* ProcessWALEvent: an event over the size is dropped with its position.
Process ==
  /\ writer = "running" /\ next <= Len(log)
  /\ next' = next + 1
  /\ pending' = IF log[next].kind = "big" THEN pending ELSE Append(pending, next)
  /\ UNCHANGED <<log, writer, confirmed, topic, readerVars, faults>>

\* The messages of the positions in W, in order, appended to their partitions.
Produced(W) ==
  [p \in Partition |->
     topic[p] \o Selected(pending, {i \in W : HasRecord(log[i]) /\ PartitionOfChange(log[i]) = p})]

\* sendBatch, for the first n collected: WriteMessages, then the checkpoint,
\* whose failure is only logged.
SendBatch(n) ==
  /\ writer = "running"
  /\ topic' = Produced(ToSet(SubSeq(pending, 1, n)))
  /\ \/ confirmed' = pending[n] /\ UNCHANGED faults
     \/ Fault /\ UNCHANGED confirmed
  /\ pending' = SubSeq(pending, n + 1, Len(pending))
  /\ UNCHANGED <<log, next, writer, readerVars>>

\* WriteMessages returns an error: kafka-go writes a partition at a time and
\* some messages at a time, so any of them may be in the topic.
SendBatchFails(n) ==
  /\ writer = "running"
  /\ Fault
  /\ \E W \in SUBSET ToSet(SubSeq(pending, 1, n)) : topic' = Produced(W)
  /\ writer' = "failed"
  /\ pending' = <<>>
  /\ UNCHANGED <<log, next, confirmed, readerVars>>

\* The process stops, of itself after a failed batch, and starts again.
RestartWriter ==
  /\ IF writer = "failed" THEN UNCHANGED faults ELSE Fault
  /\ writer' = "running"
  /\ next' = confirmed + 1
  /\ pending' = <<>>
  /\ UNCHANGED <<log, confirmed, topic, readerVars>>
-----------------------------------------------------------------------------
(* The reader.                                                             *)

StartingAt(p) ==
  IF committed[p] # Nothing THEN committed[p]
  ELSE IF StartOffset = "earliest" THEN 0 ELSE Len(topic[p])

\* NewReader, with a new processor behind it.
OpenReader ==
  /\ reader = "closed"
  /\ reader' = "running"
  /\ fetched' = [p \in Partition |-> StartingAt(p)]
  /\ begin' = [p \in Partition |-> IF committed[p] = Nothing THEN StartingAt(p) ELSE begin[p]]
  /\ held' = <<>>
  /\ sink' = "running"
  /\ UNCHANGED <<committed, handled, logged, writerVars, faults>>

\* Listen, one record: a processor that refuses it, of its own accord or
\* because its sender has stopped, costs the record and a line in the log.
Listen(p) ==
  LET record == <<p, fetched[p]>>
      refused == sink = "stopped" \/ log[topic[p][fetched[p] + 1]].kind = "refused"
  IN  /\ reader = "running" /\ fetched[p] < Len(topic[p])
      /\ fetched' = [fetched EXCEPT ![p] = @ + 1]
      /\ \/ ~refused /\ held' = Append(held, record) /\ UNCHANGED <<logged, faults>>
         \/ /\ IF refused THEN UNCHANGED faults ELSE Fault
            /\ logged' = logged \cup {record}
            /\ UNCHANGED held
      /\ UNCHANGED <<reader, begin, committed, sink, handled, writerVars>>

\* FetchMessage fails, or the process is stopped.
StopListening ==
  /\ reader = "running"
  /\ Fault
  /\ reader' = "closed"
  /\ UNCHANGED <<fetched, begin, committed, held, sink, handled, logged, writerVars>>

\* The group hands a partition out again: it is fetched from the commit on.
Rebalance(p) ==
  /\ reader = "running"
  /\ Fault
  /\ fetched' = [fetched EXCEPT ![p] = StartingAt(p)]
  /\ begin' = [begin EXCEPT ![p] = IF committed[p] = Nothing THEN StartingAt(p) ELSE @]
  /\ UNCHANGED <<reader, committed, held, sink, handled, logged, writerVars>>

OffsetsOf(batch, p) == {r[2] : r \in {s \in ToSet(batch) : s[1] = p}}

\* Mutant of Committed: the offset that was fetched last is committed.
CommittedAsFetched(batch, p) == fetched[p]

\* CommitOffsets: the last offset of each partition of the batch; the record
\* after it is the next to be read.
Committed(batch, p) ==
  LET offsets == OffsetsOf(batch, p)
  IN  IF offsets = {} THEN committed[p]
      ELSE 1 + CHOOSE o \in offsets : \A q \in offsets : q <= o

\* The target's sender writes a batch, the first n records, and checkpoints it.
\* Some processors only log a checkpoint that fails after its retries, the
\* others stop.
SinkSends(n) ==
  LET batch == SubSeq(held, 1, n)
  IN  /\ reader = "running" /\ sink = "running"
      /\ handled' = handled \cup ToSet(batch)
      /\ \/ /\ committed' = [p \in Partition |-> Committed(batch, p)]
            /\ held' = SubSeq(held, n + 1, Len(held))
            /\ UNCHANGED <<sink, faults>>
         \/ /\ Fault
            /\ \/ held' = SubSeq(held, n + 1, Len(held)) /\ UNCHANGED sink
               \/ held' = <<>> /\ sink' = "stopped"
            /\ UNCHANGED committed
      /\ UNCHANGED <<reader, fetched, begin, logged, writerVars>>

SinkFails ==
  /\ reader = "running" /\ sink = "running" /\ held # <<>>
  /\ Fault
  /\ sink' = "stopped"
  /\ held' = <<>>
  /\ UNCHANGED <<reader, fetched, begin, committed, handled, logged, writerVars>>
-----------------------------------------------------------------------------
KafkaInit ==
  /\ log \in [1..KLogLength -> Changes]
  /\ next = 1
  /\ pending = <<>>
  /\ writer = "running"
  /\ confirmed = 0
  /\ topic = [p \in Partition |-> <<>>]
  /\ reader = "closed"
  /\ fetched = [p \in Partition |-> 0]
  /\ begin = [p \in Partition |-> 0]
  /\ committed = [p \in Partition |-> Nothing]
  /\ held = <<>>
  /\ sink = "running"
  /\ handled = {} /\ logged = {}
  /\ faults = 0

KafkaNext ==
  \/ Process \/ RestartWriter \/ OpenReader \/ StopListening \/ SinkFails
  \/ \E n \in DOMAIN pending : SendBatch(n) \/ SendBatchFails(n)
  \/ \E n \in DOMAIN held : SinkSends(n)
  \/ \E p \in Partition : Listen(p) \/ Rebalance(p)
-----------------------------------------------------------------------------
(* Properties *)

Record == Partition \X Nat

KafkaTypeOK ==
  /\ next \in 1..Len(log) + 1 /\ confirmed \in 0..Len(log)
  /\ pending \in Seq(DOMAIN log) /\ topic \in [Partition -> Seq(DOMAIN log)]
  /\ writer \in {"running", "failed"} /\ reader \in {"closed", "running"}
  /\ sink \in {"running", "stopped"}
  /\ fetched \in [Partition -> Nat] /\ begin \in [Partition -> Nat]
  /\ committed \in [Partition -> Nat \cup {Nothing}]
  /\ held \in Seq(Record) /\ handled \subseteq Record /\ logged \subseteq Record
  /\ faults \in 0..KFaults

LastOffset(p, i) ==
  CHOOSE o \in DOMAIN topic[p] : topic[p][o] = i /\ \A q \in DOMAIN topic[p] : topic[p][q] = i => q <= o

(* The topic gives "ordering per schema": whatever was written twice or in *)
(* part before, the last records of two confirmed changes of a schema, a   *)
(* DDL statement among them or not, lie in one partition in the order of   *)
(* the source, so that who reads it ends with the later of the two.        *)
OrderedPerSchema ==
  \A i, j \in 1..confirmed :
    (/\ i < j /\ log[i].schema = log[j].schema
     /\ {log[i].kind, log[j].kind} \subseteq {"row", "refused", "ddl"})
    => \E p \in Partition : /\ {i, j} \subseteq ToSet(topic[p])
                            /\ LastOffset(p, i) < LastOffset(p, j)

(* Between the source and the target nothing is lost without a line in a   *)
(* log: a confirmed change was too large or is in the topic, and a record  *)
(* before the committed offset (and not before the offset the group was    *)
(* configured to begin with) was written to the target or logged as lost,  *)
(* across restarts of either process, rebalances, and a target that has    *)
(* stopped while the listener goes on.                                     *)
NothingLostSilently ==
  /\ \A i \in 1..confirmed : HasRecord(log[i]) => i \in ToSet(topic[PartitionOfChange(log[i])])
  /\ \A p \in Partition : \A o \in begin[p]..committed[p] - 1 : <<p, o>> \in handled \cup logged
=============================================================================
