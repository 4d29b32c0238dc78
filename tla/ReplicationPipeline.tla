------------------------- MODULE ReplicationPipeline -------------------------
(***************************************************************************)
(* From the replication slot of the source to the checkpoint of what the   *)
(* target holds: the listener (pkg/wal/listener/postgres), the replication *)
(* handler and its retrier (pkg/wal/replication), the Postgres             *)
(* checkpointer, and the process that runs them, which can stop, crash and *)
(* be started again.                                                       *)
(*                                                                         *)
(* The processor behind the listener is the ordered sink that BatchSender  *)
(* is shown to implement: a queue whose prefixes are written, then         *)
(* checkpointed, by one writer.  Postgres and the network are external.    *)
(*                                                                         *)
(* The write-ahead log is a sequence of records; the LSN of a record is    *)
(* its index, and position p stands for "everything before record p".      *)
(***************************************************************************)
EXTENDS Integers, Sequences, SequencesExt

CONSTANTS
  Txn,          \* transactions of the source: their numbers are given as they begin
  Span,         \* how many records past its own the JSON of a change can reach
  Snapshots,    \* whether an initial snapshot is configured: the choices
  OldTxns,      \* transactions that are committed before the slot is created, for a
                \* snapshot to copy
  MaxWal,       \* bound: records the source writes
  MaxChanges,   \* bound: changes of a transaction
  QueueCap,     \* bound: events the processor holds before it blocks
  MaxBreaks,    \* bound: connection failures
  MaxRaces,     \* bound: resets of a connection that the other goroutine is resetting
  MaxFaults     \* bound: crashes, signals and failed writes

ASSUME PipelineAssumption ==
  /\ Txn \cup Span \subseteq Nat
  /\ Snapshots \subseteq BOOLEAN
  /\ {MaxWal, MaxChanges, MaxBreaks, MaxRaces, MaxFaults} \subseteq Nat
  /\ QueueCap \in Nat \ {0}
  /\ OldTxns \subseteq Txn /\ IsFiniteSet(OldTxns)

\* The two goroutines that use the replication handler.
Thread == {"listener", "writer"}

VARIABLES
  snapshots,  \* an initial snapshot is configured
  wal,        \* the source's log
  confirmed,  \* confirmed_flush_lsn of the slot
  conn,       \* h.pgReplicationConn: "idle", "streaming", "broken"
  decoded,    \* the walsender has decoded the log up to this record
  wire,       \* messages sent on the connection and not yet received
  proc,       \* the process: "up", "stopping", "down"
  lpc,        \* where the listener is
  cur,        \* the message it is processing
  start,      \* the position each goroutine (re)starts replication from
  retry,      \* where each goroutine is inside withRetry
  queue,      \* events the processor has accepted and not yet taken up
  wpc,        \* where the writer is
  wbatch,     \* the batch it is writing
  snap,       \* the changes the initial snapshot has read
  written,    \* the changes whose effect the target holds
  started,    \* history: replication has started once
  breaks, races, faults  \* bounds' counters

walVars   == <<snapshots, wal>>
slotVars  == <<confirmed>>
connVars  == <<conn, decoded, wire>>
listVars  == <<lpc, cur, snap>>
retryVars == <<start, retry>>
sinkVars  == <<queue, wpc, wbatch>>
histVars  == <<written, started>>
bounds    == <<breaks, races, faults>>
vars == <<walVars, slotVars, connVars, proc, listVars, retryVars, sinkVars,
          histVars, bounds>>

-----------------------------------------------------------------------------
(* The source. *)

Changes(log) == {i \in DOMAIN log : log[i].kind = "change"}
Commits(log) == {i \in DOMAIN log : log[i].kind = "commit"}

\* A transaction writes one commit record, after its changes.
CommitOf(log, i) == {j \in Commits(log) : log[j].txn = log[i].txn}
Committed(log) == {i \in Changes(log) : CommitOf(log, i) # {}}
CommitLSN(log, i) == CHOOSE j \in CommitOf(log, i) : TRUE

\* The order in which logical decoding emits changes.
StreamedBefore(log, i, j) ==
  \/ CommitLSN(log, i) < CommitLSN(log, j)
  \/ CommitLSN(log, i) = CommitLSN(log, j) /\ i < j

ChangesBy(t) == {i \in Changes(wal) : wal[i].txn = t}

\* The elements of a finite set of numbers, in their order.
Ascending(S) ==
  {s \in [1..Cardinality(S) -> S] :
     ToSet(s) = S /\ \A k, l \in DOMAIN s : k < l => s[k] < s[l]}

SourceWrites(t, kind, span) ==
  /\ Len(wal) < MaxWal
  /\ \A i \in Commits(wal) : wal[i].txn # t
  /\ \A u \in Txn : u < t => ChangesBy(u) # {}
  /\ IF kind = "commit" THEN ChangesBy(t) # {} ELSE Cardinality(ChangesBy(t)) < MaxChanges
  /\ wal' = Append(wal, [kind |-> kind, txn |-> t, span |-> span])
  /\ UNCHANGED <<snapshots, slotVars, connVars, proc, listVars, retryVars, sinkVars,
                 histVars, bounds>>

-----------------------------------------------------------------------------
(* The connection and the walsender behind it. *)

\* The position ReceiveMessage reports for a change: where its record starts
\* plus the length of its JSON text, which need not end in the same record.
MessagePosition(log, i) == i + log[i].span + 1

ChangeMessage(i) ==
  [kind |-> "change", idx |-> i, pos |-> MessagePosition(wal, i), reply |-> FALSE]

NoMessage == [kind |-> "keepalive", idx |-> 0, pos |-> 0, reply |-> FALSE]

KeepAlive(reply) ==
  [kind |-> "keepalive", idx |-> 0, pos |-> decoded + 1, reply |-> reply]

\* Decoding emits a transaction, in log order, when it meets its commit.
WalsenderDecodes ==
  /\ conn = "streaming"
  /\ decoded < Len(wal)
  /\ decoded' = decoded + 1
  /\ IF wal[decoded + 1].kind = "commit"
     THEN \E s \in Ascending(ChangesBy(wal[decoded + 1].txn)) :
            wire' = wire \o [k \in DOMAIN s |-> ChangeMessage(s[k])]
     ELSE UNCHANGED wire
  /\ UNCHANGED <<conn, walVars, slotVars, proc, listVars, retryVars, sinkVars,
                 histVars, bounds>>

\* A keep alive is sent when the walsender is idle; one at a time.
WalsenderKeepAlive ==
  /\ conn = "streaming"
  /\ decoded >= Len(wal)
  /\ wire = <<>>
  /\ \E reply \in BOOLEAN : wire' = <<KeepAlive(reply)>>
  /\ UNCHANGED <<conn, decoded, walVars, slotVars, proc, listVars, retryVars,
                 sinkVars, histVars, bounds>>

ConnectionBreaks ==
  /\ conn # "broken"
  /\ breaks < MaxBreaks
  /\ breaks' = breaks + 1
  /\ conn' = "broken"
  /\ wire' = <<>>
  /\ UNCHANGED <<decoded, walVars, slotVars, proc, listVars, retryVars,
                 sinkVars, histVars, races, faults>>

\* A standby status update for position p arrives.  Postgres moves
\* confirmed_flush_lsn back when p is behind it, or from version 18 does not.
StatusUpdate(p) == confirmed' \in {p, Max({p, confirmed})}

-----------------------------------------------------------------------------
(* Both goroutines: withRetry and ResetConnection.  "op" is the operation's  *)
(* own attempt, "again" an attempt inside RetryNotify, and the others are    *)
(* the steps of ResetConnection.                                             *)

\* The attempt succeeded: the next call starts afresh.
Succeeds(th) == retry' = [retry EXCEPT ![th] = "op"]

\* An attempt on a broken connection fails: once before the backoff starts,
\* and then every failed attempt resets the connection.
Fails(th) ==
  retry' = [retry EXCEPT ![th] = IF retry[th] = "op" THEN "again" ELSE "dial"]

Attempting(th) == retry[th] \in {"op", "again"}

\* Who is inside a retried operation.
Busy(th) ==
  IF th = "listener" THEN lpc = "receive" ELSE wpc = "syncing"

AttemptFails(th) ==
  /\ proc # "down"
  /\ Busy(th)
  /\ Attempting(th)
  /\ conn = "broken"
  /\ Fails(th)
  /\ UNCHANGED <<start, walVars, slotVars, connVars, proc, listVars, sinkVars,
                 histVars, bounds>>

\* A new connection replaces the old one, which is closed; both goroutines
\* share the field and nothing serialises them.
ResetDials(th) ==
  /\ proc # "down"
  /\ retry[th] = "dial"
  /\ IF \E other \in Thread : retry[other] \in {"start", "sync"}
     THEN races < MaxRaces /\ races' = races + 1
     ELSE UNCHANGED races
  /\ conn' = "idle"
  /\ wire' = <<>>
  /\ start' = [start EXCEPT ![th] = confirmed]
  /\ retry' = [retry EXCEPT ![th] = "start"]
  /\ UNCHANGED <<decoded, walVars, slotVars, proc, listVars, sinkVars, histVars,
                 breaks, faults>>

\* START_REPLICATION on the connection of the moment.  The walsender never
\* goes back behind confirmed_flush_lsn.
BeginStreaming(p) ==
  /\ conn = "idle"
  /\ conn' = "streaming"
  /\ decoded' = Max({p, confirmed}) - 1
  /\ wire' = <<>>
  /\ started' = TRUE

\* Mutant: after a reset replication starts from the end of the log.
ResetStartsAtEnd(th) ==
  /\ proc # "down"
  /\ retry[th] = "start"
  /\ BeginStreaming(Len(wal) + 1)
  /\ retry' = [retry EXCEPT ![th] = "sync"]
  /\ UNCHANGED <<start, written, walVars, slotVars, proc, listVars, sinkVars,
                 bounds>>

ResetStarts(th) ==
  /\ proc # "down"
  /\ retry[th] = "start"
  /\ BeginStreaming(start[th])
  /\ retry' = [retry EXCEPT ![th] = "sync"]
  /\ UNCHANGED <<start, written, walVars, slotVars, proc, listVars, sinkVars,
                 bounds>>

\* The listener may be waiting on the connection the writer starts: it takes
\* the answer for an unexpected message, and the writer finds the connection
\* busy.  The server is streaming all the same.
ResetStartStolen ==
  /\ proc # "down"
  /\ retry["writer"] = "start"
  /\ Busy("listener") /\ Attempting("listener")
  /\ BeginStreaming(start["writer"])
  /\ retry' = [writer |-> "again",
               listener |-> IF retry["listener"] = "op" THEN "again" ELSE "dial"]
  /\ start' = [start EXCEPT !["writer"] = 0]
  /\ UNCHANGED <<written, walVars, slotVars, proc, listVars, sinkVars,
                 bounds>>

\* It fails on a broken connection, and breaks one the other goroutine has
\* started meanwhile.
ResetStartFails(th) ==
  /\ proc # "down"
  /\ retry[th] = "start"
  /\ conn # "idle"
  /\ conn' = "broken"
  /\ wire' = <<>>
  /\ retry' = [retry EXCEPT ![th] = "again"]
  /\ start' = [start EXCEPT ![th] = 0]
  /\ UNCHANGED <<decoded, walVars, slotVars, proc, listVars, sinkVars, histVars,
                 bounds>>

\* StartReplicationFromLSN ends by reporting the position it started from.
\* On a connection that is not streaming the update goes unnoticed.
ResetSyncs(th) ==
  /\ proc # "down"
  /\ retry[th] = "sync"
  /\ IF conn = "streaming" THEN StatusUpdate(start[th]) ELSE UNCHANGED confirmed
  /\ retry' = [retry EXCEPT ![th] = "again"]
  /\ start' = [start EXCEPT ![th] = 0]
  /\ UNCHANGED <<walVars, connVars, proc, listVars, sinkVars, histVars, bounds>>

-----------------------------------------------------------------------------
(* The listener. *)

\* The handler has a connection since NewHandler.  With a snapshot, the
\* position is read before it and replication starts from there.
ListenerStarts ==
  /\ proc = "up"
  /\ lpc = "start"
  /\ start' = [start EXCEPT !["listener"] = confirmed]
  /\ lpc' = IF snapshots THEN "snapshot" ELSE "begin"
  /\ UNCHANGED <<cur, snap, retry, walVars, slotVars, connVars, proc, sinkVars,
                 histVars, bounds>>

\* CreateSnapshot reads a consistent state of the source, some time later ...
SnapshotReads ==
  /\ proc = "up"
  /\ lpc = "snapshot"
  /\ snap' = Committed(wal)
  /\ lpc' = "copy"
  /\ UNCHANGED <<cur, retryVars, walVars, slotVars, connVars, proc, sinkVars,
                 histVars, bounds>>

\* ... and returns when the target holds it.
SnapshotReturns ==
  /\ proc = "up"
  /\ lpc = "copy"
  /\ written' = written \cup snap
  /\ snap' = {}
  /\ lpc' = "begin"
  /\ UNCHANGED <<cur, started, retryVars, walVars, slotVars, connVars, proc,
                 sinkVars, bounds>>

\* The first StartReplicationFromLSN is not retried; its two calls are the
\* two steps of a reset.
ListenerBegins ==
  /\ proc = "up"
  /\ lpc = "begin"
  /\ BeginStreaming(start["listener"])
  /\ lpc' = "beginSync"
  /\ UNCHANGED <<cur, snap, written, retryVars, walVars, slotVars, proc,
                 sinkVars, bounds>>

ListenerBeginSyncs ==
  /\ proc = "up"
  /\ lpc = "beginSync"
  /\ conn = "streaming"
  /\ StatusUpdate(start["listener"])
  /\ start' = [start EXCEPT !["listener"] = 0]
  /\ lpc' = "receive"
  /\ UNCHANGED <<cur, snap, retry, walVars, connVars, proc, sinkVars,
                 histVars, bounds>>

\* Listen returns, and the context of the whole process is cancelled.
ListenReturns ==
  /\ lpc' = "exited"
  /\ proc' = "stopping"
  /\ cur' = NoMessage
  /\ snap' = {}
  /\ start' = [start EXCEPT !["listener"] = 0]
  /\ Succeeds("listener")

\* Any error that is not retried ends Listen: the process winds down.
ListenerFails ==
  /\ proc = "up"
  /\ \/ lpc \in {"begin", "beginSync"} /\ conn = "broken"
     \/ lpc = "receive" /\ retry["listener"] = "again" /\ conn = "broken"
     \/ lpc = "deliver" /\ wpc = "failed"
  /\ ListenReturns
  /\ UNCHANGED <<walVars, slotVars, connVars, sinkVars,
                 histVars, bounds>>

\* Mutant: no keep alive is processed.
ListenerSkipsKeepAlives ==
  /\ proc = "up"
  /\ lpc = "receive"
  /\ Attempting("listener")
  /\ conn = "streaming"
  /\ wire # <<>>
  /\ wire' = Tail(wire)
  /\ Succeeds("listener")
  /\ IF Head(wire).kind = "keepalive"
     THEN UNCHANGED <<cur, lpc>>
     ELSE cur' = Head(wire) /\ lpc' = "deliver"
  /\ UNCHANGED <<snap, start, conn, decoded, walVars, slotVars, proc, sinkVars,
                 histVars, bounds>>

\* ReceiveMessage returns.  A keep alive that asks for no reply is not
\* processed.
ListenerReceives ==
  /\ proc = "up"
  /\ lpc = "receive"
  /\ Attempting("listener")
  /\ conn = "streaming"
  /\ wire # <<>>
  /\ wire' = Tail(wire)
  /\ Succeeds("listener")
  /\ IF Head(wire).kind = "keepalive" /\ ~Head(wire).reply
     THEN UNCHANGED <<cur, lpc>>
     ELSE cur' = Head(wire) /\ lpc' = "deliver"
  /\ UNCHANGED <<snap, start, conn, decoded, walVars, slotVars, proc, sinkVars,
                 histVars, bounds>>

\* Mutant: an event that finds the processor full is dropped.
ListenerDrops ==
  /\ proc = "up"
  /\ lpc = "deliver"
  /\ wpc # "failed"
  /\ queue' = IF Len(queue) < QueueCap THEN Append(queue, cur) ELSE queue
  /\ cur' = NoMessage
  /\ lpc' = "receive"
  /\ UNCHANGED <<snap, retryVars, wpc, wbatch, walVars, slotVars, connVars,
                 proc, histVars, bounds>>

\* processEvent: the processor takes the event, or blocks while it is full.
ListenerDelivers ==
  /\ proc = "up"
  /\ lpc = "deliver"
  /\ wpc # "failed"
  /\ Len(queue) < QueueCap
  /\ queue' = Append(queue, cur)
  /\ cur' = NoMessage
  /\ lpc' = "receive"
  /\ UNCHANGED <<snap, retryVars, wpc, wbatch, walVars, slotVars, connVars,
                 proc, histVars, bounds>>

-----------------------------------------------------------------------------
(* The processor's writer: takes a prefix of the queue, writes the payloads, *)
(* then checkpoints the batch.                                               *)

BatchChanges(b) == {b[k].idx : k \in {k \in DOMAIN b : b[k].kind = "change"}}

\* Checkpointer.SyncLSN: only the highest position is synced.
CheckpointPositions(b) ==
  {b[k].pos : k \in {k \in DOMAIN b : \A l \in DOMAIN b : b[l].pos <= b[k].pos}}

WriterTakes ==
  /\ proc # "down"
  /\ wpc = "idle"
  /\ queue # <<>>
  /\ \E k \in DOMAIN queue :
       /\ wbatch' = SubSeq(queue, 1, k)
       /\ queue' = SubSeq(queue, k + 1, Len(queue))
  /\ wpc' = "writing"
  /\ UNCHANGED <<walVars, slotVars, connVars, proc, listVars, retryVars,
                 histVars, bounds>>

WriterWrites ==
  /\ proc # "down"
  /\ wpc = "writing"
  /\ written' = written \cup BatchChanges(wbatch)
  /\ wpc' = "syncing"
  /\ UNCHANGED <<started, queue, wbatch, walVars, slotVars, connVars, proc,
                 listVars, retryVars, bounds>>

\* Mutant of WriterFails: the sender goes on with the next batch.
WriterFailsGoesOn ==
  /\ proc # "down"
  /\ wpc = "writing"
  /\ faults < MaxFaults
  /\ faults' = faults + 1
  /\ wpc' = "idle"
  /\ Succeeds("writer")
  /\ wbatch' = <<>>
  /\ UNCHANGED <<start, queue, walVars, slotVars, connVars, proc, listVars,
                 histVars, breaks, races>>

\* A write that fails, or a checkpoint whose retries are exhausted, fails the
\* batch, and the sender sends no other.
WriterFails ==
  /\ proc # "down"
  /\ \/ wpc = "writing" /\ faults < MaxFaults /\ faults' = faults + 1
     \/ /\ wpc = "syncing" /\ retry["writer"] = "again" /\ conn = "broken"
        /\ UNCHANGED faults
  /\ wpc' = "failed"
  /\ Succeeds("writer")
  /\ wbatch' = <<>>
  /\ UNCHANGED <<start, queue, walVars, slotVars, connVars, proc, listVars,
                 histVars, breaks, races>>

\* SyncLSN: the update is sent on the connection of the moment.
WriterSyncs ==
  /\ proc # "down"
  /\ wpc = "syncing"
  /\ Attempting("writer")
  /\ conn # "broken"
  /\ IF conn = "streaming" THEN \E p \in CheckpointPositions(wbatch) : StatusUpdate(p)
                           ELSE UNCHANGED confirmed
  /\ Succeeds("writer")
  /\ wpc' = "idle"
  /\ wbatch' = <<>>
  /\ UNCHANGED <<start, queue, walVars, connVars, proc, listVars, histVars,
                 bounds>>

-----------------------------------------------------------------------------
(* The process. *)

\* A signal cancels the context: the listener returns at its next look.
Signal ==
  /\ proc = "up"
  /\ faults < MaxFaults
  /\ faults' = faults + 1
  /\ ListenReturns
  /\ UNCHANGED <<walVars, slotVars, connVars, sinkVars,
                 histVars, breaks, races>>

\* What a process holds in memory goes with it.
GoDown ==
  /\ proc' = "down"
  /\ lpc' = "start"
  /\ cur' = NoMessage
  /\ snap' = {}
  /\ retry' = [th \in Thread |-> "op"]
  /\ start' = [th \in Thread |-> 0]
  /\ queue' = <<>>
  /\ wpc' = "idle"
  /\ wbatch' = <<>>
  /\ conn' = "broken"
  /\ wire' = <<>>
  /\ decoded' = 0

\* Close waits for the writer; then the handler's connection is closed.
Stops ==
  /\ proc = "stopping"
  /\ wpc = "failed" \/ (wpc = "idle" /\ queue = <<>>)
  /\ GoDown
  /\ UNCHANGED <<walVars, slotVars, histVars, bounds>>

Crashes ==
  /\ proc # "down"
  /\ faults < MaxFaults
  /\ faults' = faults + 1
  /\ GoDown
  /\ UNCHANGED <<walVars, slotVars, histVars, breaks, races>>

\* Run again: NewHandler connects.
Restarts ==
  /\ proc = "down"
  /\ proc' = "up"
  /\ conn' = "idle"
  /\ UNCHANGED <<decoded, wire, walVars, slotVars, listVars, retryVars,
                 sinkVars, histVars, bounds>>

-----------------------------------------------------------------------------
OldLog(old) ==
  [i \in 1..(2 * Len(old)) |->
     [kind |-> IF i % 2 = 1 THEN "change" ELSE "commit",
      txn  |-> old[(i + 1) \div 2],
      span |-> 0]]

\* The slot is created at the end of a log without open transactions.
Init ==
  /\ snapshots \in Snapshots
  /\ \E old \in Ascending(OldTxns) : wal = IF snapshots THEN OldLog(old) ELSE <<>>
  /\ confirmed = Len(wal) + 1
  /\ conn = "broken"
  /\ decoded = 0
  /\ wire = <<>>
  /\ proc = "down"
  /\ lpc = "start"
  /\ cur = NoMessage
  /\ start = [th \in Thread |-> 0]
  /\ retry = [th \in Thread |-> "op"]
  /\ queue = <<>>
  /\ wpc = "idle"
  /\ wbatch = <<>>
  /\ snap = {}
  /\ written = {}
  /\ started = FALSE
  /\ breaks = 0 /\ races = 0
  /\ faults = 0

SourceStep ==
  \E t \in Txn : \/ \E span \in Span : SourceWrites(t, "change", span)
                \/ SourceWrites(t, "commit", 0)

ServerStep == WalsenderDecodes \/ WalsenderKeepAlive \/ ConnectionBreaks

RetryStep(th) ==
  AttemptFails(th) \/ ResetDials(th) \/ ResetStarts(th) \/ ResetStartFails(th)
    \/ ResetSyncs(th)

ListenerStep ==
  \/ ListenerStarts \/ SnapshotReads \/ SnapshotReturns
  \/ ListenerBegins \/ ListenerBeginSyncs
  \/ ListenerReceives \/ ListenerDelivers \/ ListenerFails

WriterStep == WriterTakes \/ WriterWrites \/ WriterSyncs \/ WriterFails

ProcessStep == Signal \/ Stops \/ Crashes \/ Restarts

Next ==
  \/ SourceStep \/ ServerStep
  \/ \E th \in Thread : RetryStep(th)
  \/ ResetStartStolen
  \/ ListenerStep \/ WriterStep \/ ProcessStep

\* Postgres decodes and asks for replies, the goroutines run, and the process
\* is started again.  Strong fairness where a step is open only while the
\* connection is up: the walsender keeps asking until it gets its reply, and
\* retries continue.  The source need not write and nothing has to fail.
Fairness ==
  /\ WF_vars(WalsenderDecodes)
  /\ SF_vars(WalsenderKeepAlive /\ wire'[1].reply)
  /\ \A th \in Thread : WF_vars(RetryStep(th))
  /\ WF_vars(ResetStartStolen)
  /\ WF_vars(ListenerStarts \/ SnapshotReads \/ SnapshotReturns \/ ListenerBegins
             \/ ListenerBeginSyncs \/ ListenerFails)
  /\ SF_vars(ListenerReceives)
  /\ WF_vars(ListenerDelivers)
  /\ WF_vars(WriterTakes \/ WriterWrites)
  /\ SF_vars(WriterSyncs)
  /\ WF_vars(Stops)
  /\ WF_vars(Restarts)

Spec == Init /\ [][Next]_vars

FairSpec == Spec /\ Fairness

-----------------------------------------------------------------------------
(* Properties. *)

EventMessage ==
  [kind : {"change", "keepalive"}, idx : Nat, pos : Nat, reply : BOOLEAN]

\* The type invariant.
TypeOK ==
  /\ wal \in Seq([kind : {"change", "commit"}, txn : Txn, span : Nat])
  /\ confirmed \in Nat
  /\ conn \in {"idle", "streaming", "broken"}
  /\ decoded \in Nat
  /\ wire \in Seq(EventMessage)
  /\ proc \in {"up", "stopping", "down"}
  /\ lpc \in {"start", "snapshot", "copy", "begin", "beginSync", "receive",
              "deliver", "exited"}
  /\ cur \in EventMessage
  /\ start \in [Thread -> Nat]
  /\ retry \in [Thread -> {"op", "again", "dial", "start", "sync"}]
  /\ queue \in Seq(EventMessage) /\ Len(queue) <= QueueCap
  /\ wpc \in {"idle", "writing", "syncing", "failed"}
  /\ wbatch \in Seq(EventMessage)
  /\ snap \in SUBSET Nat /\ written \in SUBSET Nat
  /\ started \in BOOLEAN
  /\ breaks \in 0..MaxBreaks /\ races \in 0..MaxRaces /\ faults \in 0..MaxFaults

\* "SyncLSN notifies Postgres how far we have processed in the WAL": every
\* change the slot will never send again is in the target, whatever was in
\* flight when connections broke or the process stopped, and including what
\* the initial snapshot had to copy.
ConfirmedIsWritten ==
  started => \A i \in Committed(wal) : CommitLSN(wal, i) < confirmed => i \in written

\* The target never holds a change without those committed before it: when an
\* event is written for the first time, every earlier one has been.
WrittenInCommitOrder ==
  started => \A i, j \in Committed(wal) :
    StreamedBefore(wal, i, j) /\ j \in written => i \in written

InFlight ==
  BatchChanges(wire) \cup BatchChanges(queue) \cup BatchChanges(wbatch)
    \cup (IF lpc = "deliver" THEN BatchChanges(<<cur>>) ELSE {})

\* Nothing falls between two sessions: while a connection streams into a
\* listener, what it has decoded is written or on its way.
NothingFallsBetween ==
  conn = "streaming" /\ proc = "up" /\ wpc # "failed" =>
    \A i \in Committed(wal) :
      CommitLSN(wal, i) <= decoded => i \in written \cup InFlight

\* "sync the LSN so that the replication lag doesn't grow indefinitely": when
\* the source is quiet the slot catches up with it, so that, with ConfirmedIsWritten,
\* every committed change reaches the target.
LagShrinks == <>[](confirmed > Len(wal))
=============================================================================
