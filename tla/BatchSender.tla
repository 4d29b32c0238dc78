----------------------------- MODULE BatchSender -----------------------------
(***************************************************************************)
(* The batch sender every writing processor of pgstream is built on        *)
(* (pkg/wal/processor/batch): callers of SendMessage, the send loop that   *)
(* groups messages into batches, the writer goroutine that performs the    *)
(* I/O, and Close.  Each goroutine has a program counter; one action is    *)
(* the code between two points where another goroutine can interfere.      *)
(*                                                                         *)
(* A message is abstracted to its size (0 is an empty message) and the     *)
(* kind of commit position it carries.  When the loop receives it, it is   *)
(* numbered by its place in the order of reception; a batch holds those    *)
(* numbers.                                                                *)
(***************************************************************************)
EXTENDS Integers, Sequences, Functions, FiniteSetsExt

CONSTANTS
  Caller,            \* goroutines that call SendMessage
  MsgSize,           \* the sizes a message can have, 0 being "IsEmpty"
  Position,          \* the positions it can carry, a subset of PositionKind
  MaxQueueBytes,     \* weight of queueBytesSema
  MaxBatchBytes,     \* configured maxBatchBytes
  TunedBatchBytes,   \* settings the bytes tuner can propose
  MaxBatchSize,      \* configured maxBatchSize
  AutoTune,          \* whether a batch bytes tuner is configured: the choices
  IgnoreSendErrors,  \* Config.IgnoreSendErrors: the choices
  SendMayFail,       \* TRUE: sendBatchFn can return an error
  MaxCalls           \* bound: SendMessage is called at most this many times

PositionKind == {"none", "zero", "lsn"}  \* "", wal.ZeroLSN, a real position

\* What the configuration's getters return: a default stands for every zero.
\* A batch larger than the queue is refused only when the queue's size is given,
\* so it is not ruled out here.
Config ==
  /\ {MaxQueueBytes, MaxBatchBytes, MaxBatchSize} \cup TunedBatchBytes \subseteq Nat \ {0}
  /\ AutoTune \cup IgnoreSendErrors \subseteq BOOLEAN

ASSUME ConfigAssumption ==
  /\ Config /\ IsFiniteSet(Caller)
  /\ MsgSize \subseteq Nat /\ Position \subseteq PositionKind
  /\ SendMayFail \in BOOLEAN /\ MaxCalls \in Nat

VARIABLES
  pc,          \* where each caller is inside SendMessage
  msg,         \* the message it is sending
  calls,       \* how many calls have been made
  free,        \* bytes left in queueBytesSema
  waiters,     \* callers queued in queueBytesSema.Acquire
  lpc,         \* where the send loop is
  lerr,        \* what batchMsgLoop returned
  batch,       \* msgBatch, the batch being built
  outgoing,    \* the drained batch offered on batchChan
  wpc,         \* where the writer goroutine is
  wbatch,      \* the batch it is writing
  errChan,     \* sendErrChan: "open" (empty), "err" (buffered), "closed"
  sendErr,     \* s.sendErr
  sendDone,    \* s.sendDone is closed
  cpc,         \* where Close is
  parentDone,  \* the context NewSender and the callers share is done
  cancelled,   \* s.cancelFn has cancelled the loop's own context
  config,      \* the sender's configuration: autoTune, ignoreSendErrors
  received,    \* history: messages the loop has received
  data,        \* history: those that carry a payload
  delivered,   \* history: payloads written, in order
  dropped,     \* history: payloads of failed batches that were ignored
  acked,       \* history: positions checkpointed
  failed       \* history: a write failed and was not ignored

callerVars  == <<pc, msg, calls>>
semaVars    == <<free, waiters>>
loopVars    == <<lpc, lerr, batch, outgoing>>
writerVars  == <<wpc, wbatch, errChan>>
doneVars    == <<sendErr, sendDone>>
closeVars   == <<cpc, parentDone, cancelled>>
inputVars   == <<config, received, data>>
outputVars  == <<delivered, dropped, acked, failed>>
vars == <<callerVars, semaVars, loopVars, writerVars, doneVars, closeVars,
          inputVars, outputVars>>

-----------------------------------------------------------------------------
(* Batches. *)

EmptyBatch == [msgs |-> <<>>, positions |-> <<>>, totalBytes |-> 0]

IsEmptyBatch(b) == b.msgs = <<>> /\ b.positions = <<>>

\* Batch.add: the payload, if any, and the position, if it is a real one.
AddToBatch(b, m, n) ==
  [msgs       |-> IF m.size > 0 THEN Append(b.msgs, n) ELSE b.msgs,
   positions  |-> IF m.pos = "lsn" THEN Append(b.positions, n) ELSE b.positions,
   totalBytes |-> b.totalBytes + m.size]

IsKeepAlive(m) == m.size = 0 /\ m.pos # "none"

\* The limits getMaxBatchBytes can return: with a tuner, its candidate, its
\* measurement, or the configured value once tuning has failed.
GetMaxBatchBytes ==
  {MaxBatchBytes} \cup (IF config.autoTune THEN TunedBatchBytes ELSE {})

MaxBatchBytesReached(b, m, limit) == b.totalBytes + m.size >= limit

MaxBatchSizeReached(b) == ~config.autoTune /\ Len(b.msgs) >= MaxBatchSize

-----------------------------------------------------------------------------
Init ==
  /\ config \in [autoTune : AutoTune, ignoreSendErrors : IgnoreSendErrors]
  /\ pc = [c \in Caller |-> "idle"]
  /\ msg = [c \in Caller |-> [size |-> 0, pos |-> "none"]]
  /\ calls = 0
  /\ free = MaxQueueBytes
  /\ waiters = <<>>
  /\ lpc = "boot"
  /\ lerr = "nil"
  /\ batch = EmptyBatch
  /\ outgoing = EmptyBatch
  /\ wpc = "none"
  /\ wbatch = EmptyBatch
  /\ errChan = "open"
  /\ sendErr = "nil"
  /\ sendDone = FALSE
  /\ cpc = "open"
  /\ parentDone = FALSE
  /\ cancelled = FALSE
  /\ received = 0
  /\ data = {}
  /\ delivered = <<>>
  /\ dropped = {}
  /\ acked = {}
  /\ failed = FALSE

-----------------------------------------------------------------------------
(* SendMessage, run by any number of callers.  The weighted semaphore is   *)
(* first come, first served: it grants nothing to a newcomer while someone *)
(* waits, and a request larger than its whole weight waits for the         *)
(* context.                                                                *)

\* The processor is closed after its callers are done, so no call starts
\* once Close has been called.
BeginCall(c, m) ==
  /\ pc[c] = "idle"
  /\ cpc = "open"
  /\ calls < MaxCalls
  /\ calls' = calls + 1
  /\ msg' = [msg EXCEPT ![c] = m]
  /\ UNCHANGED <<loopVars, writerVars, doneVars, closeVars, inputVars, outputVars>>

CanAcquire(m) == free >= m.size /\ waiters = <<>>

\* TryAcquire succeeds; the caller goes on to the select on msgChan.
CallAcquires(c, m) ==
  /\ BeginCall(c, m)
  /\ CanAcquire(m)
  /\ pc' = [pc EXCEPT ![c] = "sending"]
  /\ free' = free - m.size
  /\ UNCHANGED waiters

\* Acquire returns at once because its context is already done.
CallRefused(c, m) ==
  /\ BeginCall(c, m)
  /\ ~CanAcquire(m)
  /\ parentDone
  /\ UNCHANGED <<pc, semaVars>>

\* Acquire blocks: in the queue, or outside it when the weight can never fit.
CallBlocks(c, m) ==
  /\ BeginCall(c, m)
  /\ ~CanAcquire(m)
  /\ ~parentDone
  /\ \/ /\ m.size <= MaxQueueBytes
        /\ pc' = [pc EXCEPT ![c] = "waiting"]
        /\ waiters' = Append(waiters, c)
     \/ /\ m.size > MaxQueueBytes
        /\ pc' = [pc EXCEPT ![c] = "oversize"]
        /\ UNCHANGED waiters
  /\ UNCHANGED free

\* The semaphore serves the head of its queue as soon as the weight fits.
GrantWaiter ==
  /\ waiters # <<>>
  /\ LET c == Head(waiters) IN
       /\ msg[c].size <= free
       /\ free' = free - msg[c].size
       /\ waiters' = Tail(waiters)
       /\ pc' = [pc EXCEPT ![c] = "sending"]
  /\ UNCHANGED <<msg, calls, loopVars, writerVars, doneVars, closeVars,
                 inputVars, outputVars>>

\* Acquire gives up when the caller's context is done.
CancelWait(c) ==
  /\ parentDone
  /\ \/ /\ pc[c] = "waiting"
        /\ \E i \in DOMAIN waiters :
             /\ waiters[i] = c
             /\ waiters' = SubSeq(waiters, 1, i - 1) \o SubSeq(waiters, i + 1, Len(waiters))
     \/ pc[c] = "oversize" /\ UNCHANGED waiters
  /\ pc' = [pc EXCEPT ![c] = "idle"]
  /\ UNCHANGED <<msg, calls, free, loopVars, writerVars, doneVars, closeVars,
                 inputVars, outputVars>>

\* The other branch of SendMessage's select: the send loop has stopped.  The
\* bytes acquired for the message are not released.
SendStopped(c) ==
  /\ pc[c] = "sending"
  /\ sendDone
  /\ pc' = [pc EXCEPT ![c] = "idle"]
  /\ UNCHANGED <<msg, calls, semaVars, loopVars, writerVars, doneVars,
                 closeVars, inputVars, outputVars>>

-----------------------------------------------------------------------------
(* The goroutine started by NewSender, and the send loop it runs. *)

\* The goroutine replaces the no-op s.cancelFn with the real one.
LoopBoot ==
  /\ lpc = "boot"
  /\ lpc' = "spawn"
  /\ UNCHANGED <<lerr, batch, outgoing, callerVars, semaVars, writerVars,
                 doneVars, closeVars, inputVars, outputVars>>

\* send: wg.Add(1), and the writer goroutine ranges over batchChan.
LoopSpawn ==
  /\ lpc = "spawn"
  /\ lpc' = "select"
  /\ wpc' = "idle"
  /\ UNCHANGED <<lerr, batch, outgoing, wbatch, errChan, callerVars, semaVars,
                 doneVars, closeVars, inputVars, outputVars>>

\* What the loop does with message number n: drain first if it would take the
\* batch to the byte limit, add it, drain if the batch is full or the message
\* is a keep alive.  A drained batch is offered on batchChan.
Enqueue(m, n, limit) ==
  LET added == AddToBatch(batch, m, n) IN
  \/ /\ m.size > 0 /\ MaxBatchBytesReached(batch, m, limit)
     /\ ~IsEmptyBatch(batch)
     /\ outgoing' = batch
     /\ batch' = AddToBatch(EmptyBatch, m, n)
     /\ lpc' = "drain"
  \/ /\ m.size = 0 \/ ~MaxBatchBytesReached(batch, m, limit) \/ IsEmptyBatch(batch)
     /\ IF (MaxBatchSizeReached(added) \/ IsKeepAlive(m)) /\ ~IsEmptyBatch(added)
        THEN /\ outgoing' = added
             /\ batch' = EmptyBatch
             /\ lpc' = "drain"
        ELSE /\ batch' = added
             /\ UNCHANGED <<outgoing, lpc>>

\* msgChan is unbuffered: the caller's send and the loop's receive are one step.
LoopReceive(c) ==
  /\ lpc = "select"
  /\ pc[c] = "sending"
  /\ pc' = [pc EXCEPT ![c] = "idle"]
  /\ received' = received + 1
  /\ data' = IF msg[c].size > 0 THEN data \cup {received + 1} ELSE data
  /\ \E limit \in GetMaxBatchBytes : Enqueue(msg[c], received + 1, limit)
  /\ UNCHANGED <<config, msg, calls, semaVars, lerr, writerVars, doneVars, closeVars,
                 outputVars>>

\* The ticker fires on a batch that is not empty.
LoopTick ==
  /\ lpc = "select"
  /\ ~IsEmptyBatch(batch)
  /\ lpc' = "drain"
  /\ outgoing' = batch
  /\ batch' = EmptyBatch
  /\ UNCHANGED <<lerr, callerVars, semaVars, writerVars, doneVars, closeVars,
                 inputVars, outputVars>>

\* ctx.Done: drain what is in flight, then return the context's error.
LoopCancel ==
  /\ lpc = "select"
  /\ parentDone \/ cancelled
  /\ IF IsEmptyBatch(batch)
     THEN lpc' = "return" /\ lerr' = "canceled" /\ UNCHANGED <<batch, outgoing>>
     ELSE lpc' = "drainExit" /\ outgoing' = batch /\ batch' = EmptyBatch /\ UNCHANGED lerr
  /\ UNCHANGED <<callerVars, semaVars, writerVars, doneVars, closeVars,
                 inputVars, outputVars>>

\* What a receive on sendErrChan returns: the buffered error, or nil once the
\* channel is closed and empty.
ErrReceived == IF errChan = "err" THEN "err" ELSE "nil"

LoopSendErr ==
  /\ lpc = "select"
  /\ errChan # "open"
  /\ lpc' = "return"
  /\ lerr' = ErrReceived
  /\ errChan' = "closed"
  /\ UNCHANGED <<batch, outgoing, wpc, wbatch, callerVars, semaVars, doneVars,
                 closeVars, inputVars, outputVars>>

\* drainBatch, first branch: the writer takes the batch.  The loop returns if
\* it was cancelled, drains again if the message that did not fit is a full
\* batch of its own, or goes back to its select.
DrainHandOver ==
  /\ lpc \in {"drain", "drainExit"}
  /\ wpc = "idle"
  /\ wpc' = "writing"
  /\ wbatch' = outgoing
  /\ \/ /\ lpc = "drainExit"
        /\ lpc' = "return"
        /\ lerr' = "canceled"
        /\ outgoing' = EmptyBatch
        /\ UNCHANGED batch
     \/ /\ lpc = "drain"
        /\ UNCHANGED lerr
        /\ IF MaxBatchSizeReached(batch)
           THEN outgoing' = batch /\ batch' = EmptyBatch /\ UNCHANGED lpc
           ELSE outgoing' = EmptyBatch /\ lpc' = "select" /\ UNCHANGED batch
  /\ UNCHANGED <<errChan, callerVars, semaVars, doneVars, closeVars, inputVars,
                 outputVars>>

\* drainBatch, second branch: the writer has failed.  The batch was drained
\* when the select was entered and is lost.  A nil from the closed channel
\* would pass for a batch that was handed over.
DrainSendErr ==
  /\ lpc \in {"drain", "drainExit"}
  /\ errChan # "open"
  /\ errChan' = "closed"
  /\ IF errChan = "err"
     THEN lpc' = "return" /\ lerr' = "err" /\ UNCHANGED outgoing
     ELSE /\ outgoing' = EmptyBatch
          /\ lpc' = IF lpc = "drain" THEN "select" ELSE "return"
          /\ lerr' = IF lpc = "drain" THEN lerr ELSE "canceled"
  /\ UNCHANGED <<batch, wpc, wbatch, callerVars, semaVars, doneVars, closeVars,
                 inputVars, outputVars>>

\* send publishes the error before it signals that sending has stopped.
LoopPublish ==
  /\ lpc = "return"
  /\ lpc' = "signal"
  /\ sendErr' = lerr
  /\ UNCHANGED <<lerr, batch, outgoing, sendDone, callerVars, semaVars,
                 writerVars, closeVars, inputVars, outputVars>>

LoopSignal ==
  /\ lpc = "signal"
  /\ lpc' = "defer"
  /\ sendDone' = TRUE
  /\ UNCHANGED <<lerr, batch, outgoing, sendErr, callerVars, semaVars,
                 writerVars, closeVars, inputVars, outputVars>>

\* The deferred close(batchChan) and cancelFn.
LoopEnd ==
  /\ lpc = "defer"
  /\ lpc' = "ended"
  /\ cancelled' = TRUE
  /\ UNCHANGED <<lerr, batch, outgoing, cpc, parentDone, callerVars, semaVars,
                 writerVars, doneVars, inputVars, outputVars>>

\* A receive on the closed msgChan yields a nil message, which the loop
\* dereferences: the process panics.
LoopPanic ==
  /\ lpc = "select"
  /\ cpc = "closed"
  /\ lpc' = "panicked"
  /\ UNCHANGED <<lerr, batch, outgoing, callerVars, semaVars, writerVars,
                 doneVars, closeVars, inputVars, outputVars>>

-----------------------------------------------------------------------------
(* The writer goroutine.  sendBatchFn writes the payloads, then checkpoints *)
(* the batch's positions; it runs under context.Background().              *)

WriterSucceeds ==
  /\ wpc = "writing"
  /\ wpc' = "idle"
  /\ delivered' = delivered \o wbatch.msgs
  /\ acked' = acked \cup Range(wbatch.positions)
  /\ free' = free + wbatch.totalBytes
  /\ wbatch' = EmptyBatch
  /\ UNCHANGED <<waiters, errChan, dropped, failed, callerVars, loopVars,
                 doneVars, closeVars, inputVars>>

\* Mutant of WriterFails: the writer takes further batches after one that failed.
WriterFailsContinues ==
  /\ SendMayFail
  /\ wpc = "writing"
  /\ free' = free + wbatch.totalBytes
  /\ wbatch' = EmptyBatch
  /\ wpc' = "idle"
  /\ UNCHANGED <<waiters, errChan, delivered, dropped, failed, acked,
                 callerVars, loopVars, doneVars, closeVars, inputVars>>

\* Mutant of WriterFails: the bytes of a failed batch are not released.
WriterFailsNoRelease ==
  /\ SendMayFail
  /\ wpc = "writing"
  /\ wbatch' = EmptyBatch
  /\ IF config.ignoreSendErrors
     THEN wpc' = "idle" /\ dropped' = dropped \cup Range(wbatch.msgs) /\ UNCHANGED failed
     ELSE wpc' = "failed" /\ failed' = TRUE /\ UNCHANGED dropped
  /\ UNCHANGED <<semaVars, errChan, delivered, acked, callerVars, loopVars,
                 doneVars, closeVars, inputVars>>

\* The batch's bytes are released whether or not the write succeeded.
WriterFails ==
  /\ SendMayFail
  /\ wpc = "writing"
  /\ free' = free + wbatch.totalBytes
  /\ wbatch' = EmptyBatch
  /\ IF config.ignoreSendErrors
     THEN wpc' = "idle" /\ dropped' = dropped \cup Range(wbatch.msgs) /\ UNCHANGED failed
     ELSE wpc' = "failed" /\ failed' = TRUE /\ UNCHANGED dropped
  /\ UNCHANGED <<waiters, errChan, delivered, acked, callerVars, loopVars,
                 doneVars, closeVars, inputVars>>

\* Mutant of WriterReports: the writer stops without reporting its error.
WriterStopsSilently ==
  /\ wpc = "failed"
  /\ wpc' = "exited"
  /\ UNCHANGED <<wbatch, errChan, callerVars, semaVars, loopVars, doneVars,
                 closeVars, inputVars, outputVars>>

\* sendErrChan <- err, close(sendErrChan), wg.Done.
WriterReports ==
  /\ wpc = "failed"
  /\ wpc' = "exited"
  /\ errChan' = "err"
  /\ UNCHANGED <<wbatch, callerVars, semaVars, loopVars, doneVars, closeVars,
                 inputVars, outputVars>>

\* batchChan has been closed: close(sendErrChan), wg.Done.
WriterExits ==
  /\ wpc = "idle"
  /\ lpc = "ended"
  /\ wpc' = "exited"
  /\ errChan' = "closed"
  /\ UNCHANGED <<wbatch, callerVars, semaVars, loopVars, doneVars, closeVars,
                 inputVars, outputVars>>

-----------------------------------------------------------------------------
(* Close, and the cancellation of the shared context. *)

\* Stream.Run and the snapshot generator close a processor once every caller
\* has returned.  s.cancelFn is still a no-op if the goroutine has not run.
CloseCall ==
  /\ cpc = "open"
  /\ \A c \in Caller : pc[c] = "idle"
  /\ cpc' = "waiting"
  /\ cancelled' = (cancelled \/ lpc # "boot")
  /\ UNCHANGED <<parentDone, callerVars, semaVars, loopVars, writerVars,
                 doneVars, inputVars, outputVars>>

\* Mutant of CloseWait: Close does not wait for the writer.
CloseWaitsForNobody ==
  /\ cpc = "waiting"
  /\ cpc' = "closed"
  /\ UNCHANGED <<parentDone, cancelled, callerVars, semaVars, loopVars,
                 writerVars, doneVars, inputVars, outputVars>>

\* wg counts the writer goroutine only; then close(msgChan).
CloseWait ==
  /\ cpc = "waiting"
  /\ wpc \in {"none", "exited"}
  /\ cpc' = "closed"
  /\ UNCHANGED <<parentDone, cancelled, callerVars, semaVars, loopVars,
                 writerVars, doneVars, inputVars, outputVars>>

CancelParent ==
  /\ ~parentDone
  /\ parentDone' = TRUE
  /\ UNCHANGED <<cpc, cancelled, callerVars, semaVars, loopVars, writerVars,
                 doneVars, inputVars, outputVars>>

-----------------------------------------------------------------------------
Message == [size : MsgSize, pos : Position]

CallStep ==
  \/ \E c \in Caller, m \in Message :
       CallAcquires(c, m) \/ CallRefused(c, m) \/ CallBlocks(c, m)
  \/ GrantWaiter
  \/ \E c \in Caller : CancelWait(c) \/ SendStopped(c)

LoopStep ==
  \/ LoopBoot \/ LoopSpawn
  \/ \E c \in Caller : LoopReceive(c)
  \/ LoopTick \/ LoopCancel \/ LoopSendErr
  \/ DrainHandOver \/ DrainSendErr
  \/ LoopPublish \/ LoopSignal \/ LoopEnd
  \/ LoopPanic

WriterStep == WriterSucceeds \/ WriterFails \/ WriterReports \/ WriterExits

\* A panic ends the process.
Next ==
  /\ lpc # "panicked"
  /\ CallStep \/ LoopStep \/ WriterStep \/ CloseCall \/ CloseWait \/ CancelParent

\* The Go scheduler runs every goroutine that can run; a select with several
\* ready cases picks one at random, so none is passed over for ever; the
\* ticker fires; a write returns.  Nobody has to call, close or cancel.
Fairness ==
  /\ WF_vars(lpc # "panicked" /\ GrantWaiter)
  /\ \A c \in Caller :
       /\ WF_vars(lpc # "panicked" /\ CancelWait(c))
       /\ WF_vars(lpc # "panicked" /\ SendStopped(c))
       /\ WF_vars(LoopReceive(c))
  /\ WF_vars(LoopBoot \/ LoopSpawn)
  /\ WF_vars(LoopTick)
  /\ WF_vars(LoopCancel)
  /\ WF_vars(LoopSendErr)
  /\ WF_vars(DrainHandOver \/ DrainSendErr)
  /\ WF_vars(LoopPublish \/ LoopSignal \/ LoopEnd)
  /\ WF_vars(lpc # "panicked" /\ WriterStep)
  /\ WF_vars(lpc # "panicked" /\ CloseWait)

Spec == Init /\ [][Next]_vars

FairSpec == Spec /\ Fairness
-----------------------------------------------------------------------------
(* Properties. *)

Settled == Range(delivered) \cup dropped

BatchType ==
  [msgs : Seq(Nat), positions : Seq(Nat), totalBytes : Nat]

\* The type invariant, by groups of variables: the semaphore never hands out
\* bytes it does not have, and every program counter and batch is one the
\* code can be in.
CallerType ==
  /\ pc \in [Caller -> {"idle", "waiting", "oversize", "sending"}]
  /\ msg \in [Caller -> [size : Nat, pos : PositionKind]]
  /\ calls \in 0..MaxCalls

SemaType == free \in Nat /\ waiters \in Seq(Caller)

LoopType ==
  /\ lpc \in {"boot", "spawn", "select", "drain", "drainExit", "return",
              "signal", "defer", "ended", "panicked"}
  /\ lerr \in {"nil", "canceled", "err"}
  /\ batch \in BatchType
  /\ outgoing \in BatchType

WriterType ==
  /\ wpc \in {"none", "idle", "writing", "failed", "exited"}
  /\ wbatch \in BatchType
  /\ errChan \in {"open", "err", "closed"}

DoneType == sendErr \in {"nil", "canceled", "err"} /\ sendDone \in BOOLEAN

CloseType ==
  /\ cpc \in {"open", "waiting", "closed"}
  /\ parentDone \in BOOLEAN
  /\ cancelled \in BOOLEAN

InputType ==
  /\ config \in [autoTune : BOOLEAN, ignoreSendErrors : BOOLEAN]
  /\ received \in Nat /\ data \in SUBSET Nat

OutputType ==
  /\ delivered \in Seq(Nat)
  /\ dropped \in SUBSET Nat
  /\ acked \in SUBSET Nat
  /\ failed \in BOOLEAN

TypeOK ==
  /\ CallerType /\ SemaType /\ LoopType /\ WriterType
  /\ DoneType /\ CloseType /\ InputType /\ OutputType

\* A position is checkpointed only when every payload received before it has
\* been written (or dropped, where send errors are ignored): after a restart
\* from the checkpoint nothing is missing.
NoGapBehindAck ==
  \A a \in acked : \A i \in data : i <= a => i \in Settled

\* "s.sendErr is set by send() before closing s.sendDone ... It is always
\* non-nil": a caller that finds sending stopped has an error to report.
SendErrPublished == sendDone => sendErr # "nil"

\* The bytes of messages that callers have acquired and not yet handed over.
BytesHeld == [c \in Caller |-> IF pc[c] = "sending" THEN msg[c].size ELSE 0]
BytesHeldByCallers == MapThenSumSet(LAMBDA c : BytesHeld[c], Caller)

BytesInFlight ==
  BytesHeldByCallers + batch.totalBytes + outgoing.totalBytes + wbatch.totalBytes

\* Until sending stops, the queue's bytes are exactly those of the messages
\* between SendMessage and the end of their write: none leaks, none is
\* released twice.  Afterwards callers leave theirs behind, and still no more
\* is released than was acquired (the semaphore panics on that).
QueueBytesAccounted ==
  /\ free + BytesInFlight <= MaxQueueBytes
  /\ ~sendDone => free + BytesInFlight = MaxQueueBytes

\* "Close will stop the sending, and wait for all ongoing batches to finish": when
\* Close returns and no write failed, every payload has been settled; and the loop
\* it closes msgChan under, which panics on that, still runs only if a write failed
\* or the loop had received nothing yet.
CloseWaits ==
  cpc = "closed" =>
    /\ ~failed => data \subseteq Settled
    /\ lpc # "ended" => failed \/ received = 0

\* Every call returns: Close, once it or the shared context has cancelled the loop,
\* and SendMessage, with an error once the loop has stopped.  Not so a call that
\* waits for queue bytes when a write fails: the bytes of the messages the loop
\* still had are not released, and it waits for its context, although "this will
\* block until messages have been read from the channel and their size is released".
CallsReturn ==
  /\ \A c \in Caller :
       pc[c] # "idle" ~> (pc[c] = "idle" \/ (failed /\ pc[c] = "waiting" /\ ~parentDone))
  /\ (cpc = "waiting" /\ (cancelled \/ parentDone)) ~> cpc = "closed"

\* The sender is an ordered sink: payloads are written in order and without gaps,
\* and never anything after a batch that failed and was not ignored.
Sink == INSTANCE OrderedSink WITH mayDrop <- config.ignoreSendErrors, settled <- Settled
ImplementsOrderedSink == Sink!Spec
=============================================================================
