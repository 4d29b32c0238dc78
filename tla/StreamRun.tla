------------------------------ MODULE StreamRun ------------------------------
(***************************************************************************)
(* The run and snapshot commands (pkg/stream/stream_run.go,                *)
(* stream_snapshot.go, stream.go): they build their components one after   *)
(* the other, defer the closing of each, start the listener, wait for it   *)
(* and close what they have opened in reverse order.  Meanwhile each       *)
(* processor hands what it has accepted to the target in a goroutine of    *)
(* its own, and a signal may cancel the context at any time.               *)
(*                                                                         *)
(* A snapshot is a statement that makes the tables, a row, and a statement *)
(* that comes after the rows (an index or a constraint).  For a target     *)
(* that is no Postgres the statements pass through the processor, like the *)
(* rows do.                                                                *)
(***************************************************************************)
EXTENDS Integers, Sequences, FiniteSets, SequencesExt

CONSTANTS
  Configs,   \* [command, source, target, snapshot]: the configurations
  QueueCap,  \* what a processor takes before its caller waits
  MaxWal, MaxFaults  \* bounds: events of the stream, errors

Commands == {"run", "snapshot"}
Targets == {"postgres", "queue", "webhook", "stdout"}  \* queue: kafka and search
Processors == {"processor", "snapProcessor"}

\* Config.IsValid: one listener and one processor; only Postgres is copied.
ConfigAssumption ==
  \A c \in Configs :
    /\ c.command \in Commands /\ c.source \in {"postgres", "kafka"} /\ c.target \in Targets
    /\ c.snapshot \subseteq {"schema", "data"}
    /\ c.source = "kafka" => c.command = "run" /\ c.snapshot = {}
    /\ c.command = "snapshot" => c.snapshot # {}
ASSUME RunAssumption == ConfigAssumption /\ {QueueCap, MaxWal, MaxFaults} \subseteq Nat

VARIABLES
  cfg,
  phase, built, deferred, open,   \* of the command: what is to be closed, what is open
  context, asked,                 \* cancelled; by a signal
  stage, listened, received,      \* of the listener: its step, its result, events
  sender, queue,                  \* of each processor
  written,                        \* what the target was given, in order
  misused,                        \* a position was sent through a closed handler
  result, faults

main == <<phase, built, deferred, open, result>>
listener == <<stage, listened, received>>
processing == <<sender, queue, written, misused>>
vars == <<cfg, main, context, asked, listener, processing, faults>>
-----------------------------------------------------------------------------
(* Building and closing.                                                   *)

Plan ==
  IF cfg.command = "snapshot" THEN <<"health", "processor", "modifiers", "generator">>
  ELSE <<"health", "init", "handler", "checkpointer", "processor", "modifiers">>
       \o IF cfg.snapshot = {} THEN <<>> ELSE <<"snapProcessor", "snapModifiers", "generator">>

SnapProcessor == IF cfg.command = "snapshot" THEN "processor" ELSE "snapProcessor"

Init ==
  /\ cfg \in Configs
  /\ phase = "build" /\ built = 0 /\ deferred = <<>> /\ open = {}
  /\ context = "live" /\ asked = FALSE
  /\ stage = "idle" /\ listened = "none" /\ received = 0
  /\ sender = [p \in Processors |-> "none"] /\ queue = [p \in Processors |-> <<>>]
  /\ written = <<>> /\ misused = FALSE
  /\ result = "none" /\ faults = 0

\* An error of the code's surroundings, or the end of the context.
Fails ==
  \/ faults < MaxFaults /\ faults' = faults + 1
  \/ context = "cancelled" /\ UNCHANGED faults

\* Mutant of Deferred: the snapshot's processor is not closed.
DeferredButProcessor(x) == x \notin {"init", "processor"}

Deferred(x) == x # "init"

Build ==
  /\ phase = "build" /\ built < Len(Plan)
  /\ LET x == Plan[built + 1] IN
       /\ built' = built + 1
       /\ deferred' = IF Deferred(x) THEN Append(deferred, x) ELSE deferred
       /\ open' = IF x = "init" THEN open ELSE open \cup {x}
       /\ sender' = IF x \in Processors THEN [sender EXCEPT ![x] = "runs"] ELSE sender
  /\ UNCHANGED <<cfg, phase, result, context, asked, listener, queue, written, misused, faults>>

\* newProcessor gives the closer of a processor away when the modifiers fail.
BuildFails ==
  /\ phase = "build" /\ built < Len(Plan) /\ Fails
  /\ deferred' = IF cfg.command = "run" /\ Plan[built + 1] \in {"modifiers", "snapModifiers"}
                 THEN Front(deferred) ELSE deferred
  /\ phase' = "close" /\ result' = "error"
  /\ UNCHANGED <<cfg, built, open, context, asked, listener, processing>>

Start ==
  /\ phase = "build" /\ built = Len(Plan)
  /\ phase' = "wait"
  /\ stage' = IF cfg.command = "snapshot" THEN "schema"
              ELSE IF cfg.source = "kafka" THEN "stream"
              ELSE IF cfg.snapshot = {} THEN "replicate" ELSE "lsn"
  /\ UNCHANGED <<cfg, built, deferred, open, result, context, asked, listened, received,
                 processing, faults>>

\* The errgroup cancels its context; errors that wrap context.Canceled are no
\* errors of the command.
Wait ==
  /\ phase = "wait" /\ stage = "done"
  /\ phase' = "close" /\ context' = "cancelled"
  /\ result' = IF listened = "error" THEN "error" ELSE "ok"
  /\ UNCHANGED <<cfg, built, deferred, open, asked, listener, processing, faults>>

Failed(p) == sender[p] \in {"failed", "failedClosed"}

\* Mutant of Finished: Close waits for a sender that has failed.
FinishedEmpty(p) == queue[p] = <<>> \/ cfg.target = "webhook"

\* What a batch sender has accepted is written, or given up after a failure,
\* before Close returns.
Finished(p) == queue[p] = <<>> \/ Failed(p) \/ cfg.target = "webhook"

\* Close of a notifier is only a signal.
ClosedSender(p) ==
  [sender EXCEPT ![p] =
     IF cfg.target = "webhook" THEN IF @ = "runs" THEN "closing" ELSE @
     ELSE IF Failed(p) THEN "failedClosed" ELSE "closed"]

\* Mutant of NextToClose: what was opened first is closed first.
NextToCloseFirst == 1

NextToClose == Len(deferred)

\* The checkpointer closes the handler that it confirms positions with.
Close ==
  /\ phase = "close" /\ deferred # <<>>
  /\ LET x == deferred[NextToClose] IN
       /\ x \in Processors => Finished(x)
       /\ sender' = IF x \in Processors THEN ClosedSender(x) ELSE sender
       /\ open' = open \ (IF x = "checkpointer" THEN {x, "handler"} ELSE {x})
       /\ deferred' = RemoveAt(deferred, NextToClose)
  /\ UNCHANGED <<cfg, phase, built, result, context, asked, listener, queue, written, misused, faults>>

Return ==
  /\ phase = "close" /\ deferred = <<>> /\ phase' = "returned"
  /\ UNCHANGED <<cfg, built, deferred, open, result, context, asked, listener, processing, faults>>

Signal ==
  /\ phase \notin {"returned", "crashed"} /\ ~asked
  /\ asked' = TRUE /\ context' = "cancelled"
  /\ UNCHANGED <<cfg, main, listener, processing, faults>>
-----------------------------------------------------------------------------
(* The processors.                                                         *)

\* The queue's bytes: a failed sender never gives those of its messages back.
HasRoom(p) == Len(queue[p]) < QueueCap

Ends(how) == stage' = "done" /\ listened' = how /\ UNCHANGED received

\* The listener of Kafka goes on after an error.
Refused(how) ==
  IF cfg.source = "kafka" /\ how # "cancelled" THEN UNCHANGED listener
  ELSE Ends(how)

Enqueued(p, item) == queue' = [queue EXCEPT ![p] = Append(@, item)]

\* ProcessWALEvent waits for room, then the event is accepted, or the sender has
\* stopped, or the processor was closed.  A batch sender's channel is closed then:
\* the select finds both it and sendDone ready, and panics or returns the sender's
\* error.
Process(p, item, then) ==
  \/ /\ cfg.target = "stdout"
     /\ written' = Append(written, item)
     /\ then /\ UNCHANGED <<sender, queue, misused, phase>>
  \/ /\ cfg.target # "stdout" /\ sender[p] \in {"runs", "closing"} /\ HasRoom(p)
     /\ Enqueued(p, item)
     /\ then /\ UNCHANGED <<sender, written, misused, phase>>
  \/ /\ cfg.target # "stdout" /\ ~HasRoom(p) /\ context = "cancelled"
     /\ Refused("cancelled") /\ UNCHANGED <<processing, phase>>
  \/ /\ sender[p] = "failed" /\ HasRoom(p) /\ Enqueued(p, item) /\ Refused("error")
     /\ UNCHANGED <<sender, written, misused, phase>>
  \/ /\ sender[p] = "stopped" /\ Refused("cancelled") /\ UNCHANGED <<processing, phase>>
  \/ /\ sender[p] \in {"closing", "closed"} /\ cfg.target = "webhook"
     /\ Refused("error") /\ UNCHANGED <<processing, phase>>
  \/ /\ sender[p] \in {"closed", "failedClosed"} /\ cfg.target \in {"postgres", "queue"}
     /\ \/ Refused(IF sender[p] = "closed" THEN "cancelled" ELSE "error") /\ UNCHANGED phase
        \/ phase' = "crashed" /\ UNCHANGED listener
     /\ UNCHANGED processing

\* The target takes an event; the position of one of the stream is confirmed.
Write(p) ==
  /\ phase # "crashed" /\ sender[p] \in {"runs", "closing"} /\ queue[p] # <<>>
  /\ queue' = [queue EXCEPT ![p] = Tail(@)]
  /\ \/ /\ written' = Append(written, Head(queue[p]))
        /\ misused' = (misused \/ (Head(queue[p]) = "wal" /\ "handler" \notin open))
        /\ UNCHANGED <<sender, faults>>
     \/ /\ faults < MaxFaults /\ faults' = faults + 1
        /\ sender' = [sender EXCEPT ![p] = "failed"] /\ UNCHANGED <<written, misused>>
  /\ UNCHANGED <<cfg, main, context, asked, listener>>

\* The sender's loop ends with the context, the notifier's also after Close.
SenderStops(p) ==
  /\ phase # "crashed" /\ queue[p] = <<>>
  /\ \/ sender[p] = "runs" /\ context = "cancelled" /\ sender' = [sender EXCEPT ![p] = "stopped"]
     \/ sender[p] = "closing" /\ sender' = [sender EXCEPT ![p] = "closed"]
  /\ UNCHANGED <<cfg, main, context, asked, listener, queue, written, misused, faults>>
-----------------------------------------------------------------------------
(* The listener.                                                           *)

Goes(label) == stage' = label /\ UNCHANGED <<listened, received>>

\* pg_restore, or the processor.
Restore(item, then) ==
  IF cfg.target = "postgres"
  THEN written' = Append(written, item) /\ then /\ UNCHANGED <<sender, queue, misused, phase>>
  ELSE Process(SnapProcessor, item, then)

GetCurrentLSN == stage = "lsn" /\ Goes("schema") /\ UNCHANGED <<processing, phase>>

SnapshotSchema ==
  /\ stage = "schema"
  /\ IF "schema" \in cfg.snapshot THEN Restore("table", Goes("rows"))
     ELSE Goes("rows") /\ UNCHANGED <<processing, phase>>

SnapshotRows ==
  /\ stage = "rows"
  /\ IF "data" \in cfg.snapshot THEN Process(SnapProcessor, "row", Goes("drain"))
     ELSE Goes("indices") /\ UNCHANGED <<processing, phase>>

\* Mutant of CloseSnapshotProcessor: the processor is left to the command to close.
CloseSnapshotProcessorLater ==
  stage = "drain" /\ Goes("indices") /\ UNCHANGED <<processing, phase>>

\* CreateSnapshot of the data generator closes the processor, whatever its result.
CloseSnapshotProcessor ==
  /\ stage = "drain" /\ Finished(SnapProcessor)
  /\ sender' = ClosedSender(SnapProcessor)
  /\ Goes("indices") /\ UNCHANGED <<queue, written, misused, phase>>

SnapshotIndices ==
  /\ stage = "indices"
  /\ IF "schema" \in cfg.snapshot THEN Restore("index", Goes("snapped"))
     ELSE Goes("snapped") /\ UNCHANGED <<processing, phase>>

SnapshotDone ==
  /\ stage = "snapped"
  /\ IF cfg.command = "snapshot" THEN Ends("ok") ELSE Goes("replicate")
  /\ UNCHANGED <<processing, phase>>

StartReplication == stage = "replicate" /\ Goes("stream") /\ UNCHANGED <<processing, phase>>

Receive ==
  /\ stage = "stream" /\ received < MaxWal
  /\ Process("processor", "wal", received' = received + 1 /\ UNCHANGED <<stage, listened>>)

\* A query or a call returns an error, or the end of the context is seen.
ListenerFails ==
  /\ stage \notin {"idle", "done", "drain"}
  /\ \/ faults < MaxFaults /\ faults' = faults + 1 /\ Ends("error")
     \/ context = "cancelled" /\ Ends("cancelled") /\ UNCHANGED faults
  /\ UNCHANGED <<phase, sender, queue, written, misused>>

ListenerStep ==
  \/ GetCurrentLSN \/ SnapshotSchema \/ SnapshotRows \/ CloseSnapshotProcessor
  \/ SnapshotIndices \/ SnapshotDone \/ StartReplication \/ Receive

Listen ==
  /\ phase = "wait"
  /\ ListenerFails \/ (ListenerStep /\ UNCHANGED faults)
  /\ UNCHANGED <<cfg, built, deferred, open, result, context, asked>>

Command == Build \/ BuildFails \/ Start \/ Wait \/ Close \/ Return
Next == Command \/ Signal \/ Listen \/ \E p \in Processors : Write(p) \/ SenderStops(p)

\* Goroutines are scheduled; a loop whose select finds the context done, and a
\* call that was given it, come to see that.
Fairness ==
  /\ WF_vars(Command) /\ WF_vars(Listen)
  /\ WF_vars(context = "cancelled" /\ phase = "wait" /\ Listen)
  /\ \A p \in Processors : WF_vars(Write(p)) /\ WF_vars(SenderStops(p))
Spec == Init /\ [][Next]_vars /\ Fairness
-----------------------------------------------------------------------------
(* Properties.                                                             *)

TypeOK ==
  /\ cfg \in Configs /\ phase \in {"build", "wait", "close", "returned", "crashed"}
  /\ built \in 0..Len(Plan) /\ ToSet(deferred) \subseteq ToSet(Plan)
  /\ listened \in {"none", "ok", "cancelled", "error"} /\ received \in 0..MaxWal
  /\ \A p \in Processors : /\ Len(queue[p]) <= QueueCap
                           /\ queue[p] # <<>> => sender[p] \in {"runs", "closing"} \/ Failed(p)
  /\ result \in {"none", "ok", "error"} /\ faults \in 0..MaxFaults

\* Whatever is still being sent when a command ends, no position is confirmed
\* through a handler that was closed.  The notifier is not waited for, and does it.
ConfirmsWhileOpen == cfg.target # "webhook" => ~misused

\* The target is given the snapshot before the first event of the stream: "make
\* sure the snapshot is complete before starting to process the WAL replication
\* events" (stream_run.go:131).  It is the data snapshot that closes the processor;
\* a snapshot of the schema alone does not.
SnapshotBeforeStream ==
  "data" \in cfg.snapshot /\ cfg.target # "webhook" =>
    \A i, j \in 1..Len(written) : i < j /\ written[i] = "wal" => written[j] = "wal"

SnapshotItems ==
  (IF "schema" \in cfg.snapshot THEN {"table", "index"} ELSE {})
  \cup (IF "data" \in cfg.snapshot THEN {"row"} ELSE {})

\* A command that returns without error, was not asked to stop and met no fault has
\* given the whole snapshot to the target: for targets that are no Postgres "it
\* emits DDL events into the WAL pipeline to be processed" (docs/snapshots.md:11).
AcceptedSnapshotIsProcessed ==
  phase = "returned" /\ result = "ok" /\ ~asked /\ faults = 0 /\ cfg.target # "webhook" =>
    SnapshotItems \subseteq ToSet(written)

\* A command that is asked to stop returns, whatever is queued and whatever fails.
StopsWhenAsked == asked ~> phase \in {"returned", "crashed"}
=============================================================================
