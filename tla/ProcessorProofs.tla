---------------------------- MODULE ProcessorProofs ----------------------------
(***************************************************************************)
(* What lies between the listener and a writer's batch, for every log,     *)
(* every queue and batch limit, every configuration, failure and restart.  *)
(*                                                                         *)
(* Of the batch sender: nothing is checkpointed ahead of what is written,  *)
(* Close waits for all, and the queue's bytes are accounted for; of the    *)
(* tuner that sets the limit of a batch, what its search may try.          *)
(*                                                                         *)
(* Of the event chain: an event is described as its table was when it was  *)
(* written, no column passes strict validation without a rule, and the     *)
(* target's tables keep up with the source's, so that it takes what the    *)
(* observer lets through.                                                  *)
(***************************************************************************)
EXTENDS EventChain, BatchSender, BatchBytesTuner, FiniteSetTheorems, SequenceTheorems, TLAPS

-----------------------------------------------------------------------------
(* Lemmas about batches and sequences. *)

\* Appending adds one element to the range of a sequence.
LEMMA RangeOfAppend ==
  ASSUME NEW S, NEW s \in Seq(S), NEW e \in S
  PROVE  /\ Append(s, e) \in Seq(S)
         /\ Range(Append(s, e)) = Range(s) \cup {e}
<1>1. Append(s, e) \in Seq(S) /\ Append(s, e) = s \o <<e>>
  BY AppendIsConcat, AppendProperties
<1>2. Range(s \o <<e>>) = Range(s) \cup Range(<<e>>)
  BY RangeConcatenation, <<e>> \in Seq(S)
<1>3. Range(<<e>>) = {e}
  BY DEF Range
<1> QED BY <1>1, <1>2, <1>3

\* The empty batch is a batch that holds nothing.
LEMMA EmptyBatchType ==
  /\ EmptyBatch \in BatchType
  /\ Range(EmptyBatch.msgs) = {}
  /\ Range(EmptyBatch.positions) = {}
  /\ EmptyBatch.totalBytes = 0
BY DEF EmptyBatch, BatchType, Range

\* Batch.add adds the message's number to the payloads if it has one, to the
\* positions if it carries one, and to nothing else.
LEMMA AddToBatchRange ==
  ASSUME NEW b \in BatchType, NEW n \in Nat,
         NEW m \in [size : Nat, pos : PositionKind]
  PROVE  /\ AddToBatch(b, m, n) \in BatchType
         /\ Range(AddToBatch(b, m, n).msgs) =
              IF m.size > 0 THEN Range(b.msgs) \cup {n} ELSE Range(b.msgs)
         /\ Range(AddToBatch(b, m, n).positions) =
              IF m.pos = "lsn" THEN Range(b.positions) \cup {n} ELSE Range(b.positions)
<1>1. b.msgs \in Seq(Nat) /\ b.positions \in Seq(Nat) /\ b.totalBytes \in Nat
  BY DEF BatchType
<1>2. /\ Append(b.msgs, n) \in Seq(Nat)
      /\ Range(Append(b.msgs, n)) = Range(b.msgs) \cup {n}
  BY <1>1, RangeOfAppend
<1>3. /\ Append(b.positions, n) \in Seq(Nat)
      /\ Range(Append(b.positions, n)) = Range(b.positions) \cup {n}
  BY <1>1, RangeOfAppend
<1> DEFINE added == AddToBatch(b, m, n)
<1>4. /\ added.msgs = IF m.size > 0 THEN Append(b.msgs, n) ELSE b.msgs
      /\ added.positions = IF m.pos = "lsn" THEN Append(b.positions, n) ELSE b.positions
      /\ added.totalBytes = b.totalBytes + m.size
      /\ added = [msgs |-> added.msgs, positions |-> added.positions,
                  totalBytes |-> added.totalBytes]
  BY DEF AddToBatch
<1>5. /\ added.msgs \in Seq(Nat)
      /\ Range(added.msgs) = IF m.size > 0 THEN Range(b.msgs) \cup {n} ELSE Range(b.msgs)
  <2>1. CASE m.size > 0
    BY <2>1, <1>2, <1>4
  <2>2. CASE ~(m.size > 0)
    BY <2>2, <1>1, <1>4
  <2> QED BY <2>1, <2>2
<1>6. /\ added.positions \in Seq(Nat)
      /\ Range(added.positions) =
           IF m.pos = "lsn" THEN Range(b.positions) \cup {n} ELSE Range(b.positions)
  <2>1. CASE m.pos = "lsn"
    BY <2>1, <1>3, <1>4
  <2>2. CASE m.pos # "lsn"
    BY <2>2, <1>1, <1>4
  <2> QED BY <2>1, <2>2
<1>7. added.totalBytes \in Nat
  BY <1>1, <1>4
<1> HIDE DEF added
<1>8. added \in BatchType
  BY <1>4, <1>5, <1>6, <1>7 DEF BatchType
<1> QED BY <1>5, <1>6, <1>8 DEF added

\* What a message is.
LEMMA MessageType ==
  ASSUME NEW m \in Message
  PROVE  m \in [size : Nat, pos : PositionKind]
BY ConfigAssumption DEF Config, Message

\* Numbering a message and putting it in the batch keeps the batches' types.
LEMMA EnqueueType ==
  ASSUME TypeOK, lpc = "select",
         NEW m \in [size : Nat, pos : PositionKind], NEW n \in Nat, NEW limit,
         Enqueue(m, n, limit)
  PROVE  batch' \in BatchType /\ outgoing' \in BatchType /\ lpc' \in {"select", "drain"}
<1>1. batch \in BatchType /\ outgoing \in BatchType
  BY DEF TypeOK, LoopType
<1>2. AddToBatch(batch, m, n) \in BatchType /\ AddToBatch(EmptyBatch, m, n) \in BatchType
  BY <1>1, AddToBatchRange, EmptyBatchType
<1> QED BY <1>1, <1>2, EmptyBatchType DEF Enqueue

-----------------------------------------------------------------------------
(* Type correctness. *)

LEMMA TypeOKStep == TypeOK /\ [Next]_vars => TypeOK'
<1> SUFFICES ASSUME TypeOK, [Next]_vars PROVE TypeOK'
  OBVIOUS
<1> USE DEF TypeOK
<1>0. /\ UNCHANGED callerVars => CallerType'
      /\ UNCHANGED semaVars => SemaType'
      /\ UNCHANGED loopVars => LoopType'
      /\ UNCHANGED writerVars => WriterType'
      /\ UNCHANGED doneVars => DoneType'
      /\ UNCHANGED closeVars => CloseType'
      /\ UNCHANGED inputVars => InputType'
      /\ UNCHANGED outputVars => OutputType'
  <2>1. UNCHANGED callerVars => CallerType'
    BY DEF callerVars, CallerType
  <2>2. UNCHANGED semaVars => SemaType'
    BY DEF semaVars, SemaType
  <2>3. UNCHANGED loopVars => LoopType'
    BY DEF loopVars, LoopType
  <2>4. UNCHANGED writerVars => WriterType'
    BY DEF writerVars, WriterType
  <2>5. UNCHANGED doneVars => DoneType'
    BY DEF doneVars, DoneType
  <2>6. UNCHANGED closeVars => CloseType'
    BY DEF closeVars, CloseType
  <2>7. UNCHANGED inputVars => InputType'
    BY DEF inputVars, InputType
  <2>8. UNCHANGED outputVars => OutputType'
    BY DEF outputVars, OutputType
  <2> QED BY <2>1, <2>2, <2>3, <2>4, <2>5, <2>6, <2>7, <2>8
<1>1. ASSUME NEW c \in Caller, NEW m \in Message, BeginCall(c, m),
             \/ UNCHANGED pc
             \/ \E there \in {"idle", "waiting", "oversize", "sending"} :
                  pc' = [pc EXCEPT ![c] = there]
      PROVE  CallerType'
  BY <1>1, MessageType, ConfigAssumption DEF Config, BeginCall, CallerType
<1>2. ASSUME NEW c \in Caller, NEW m \in Message, CallAcquires(c, m)
      PROVE  TypeOK'
  <2>1. CallerType'
    BY <1>1, <1>2 DEF CallAcquires
  <2>2. SemaType'
    BY <1>2, MessageType DEF CallAcquires, CanAcquire, SemaType
  <2> QED BY <1>0, <1>2, <2>1, <2>2 DEF CallAcquires, BeginCall
<1>3. ASSUME NEW c \in Caller, NEW m \in Message, CallRefused(c, m)
      PROVE  TypeOK'
  <2>1. CallerType'
    BY <1>1, <1>3 DEF CallRefused
  <2> QED BY <1>0, <1>3, <2>1 DEF CallRefused, BeginCall
<1>4. ASSUME NEW c \in Caller, NEW m \in Message, CallBlocks(c, m)
      PROVE  TypeOK'
  <2>1. CallerType'
    BY <1>1, <1>4 DEF CallBlocks
  <2>2. SemaType'
    BY <1>4, AppendProperties DEF CallBlocks, SemaType
  <2> QED BY <1>0, <1>4, <2>1, <2>2 DEF CallBlocks, BeginCall
<1>5. CASE GrantWaiter
  <2>1. Head(waiters) \in Caller /\ Tail(waiters) \in Seq(Caller)
    BY <1>5, HeadTailProperties DEF GrantWaiter, SemaType
  <2>2. SemaType' /\ CallerType'
    BY <1>5, <2>1 DEF GrantWaiter, SemaType, CallerType
  <2> QED BY <1>0, <1>5, <2>2 DEF GrantWaiter
<1>6. ASSUME NEW c \in Caller, CancelWait(c)
      PROVE  TypeOK'
  <2>1. waiters' \in Seq(Caller)
    <3>1. CASE UNCHANGED waiters
      BY <3>1 DEF SemaType
    <3>2. ASSUME NEW i \in DOMAIN waiters,
                 waiters' = SubSeq(waiters, 1, i - 1) \o SubSeq(waiters, i + 1, Len(waiters))
          PROVE  waiters' \in Seq(Caller)
      <4>1. /\ Len(waiters) \in Nat /\ i \in 1..Len(waiters)
            /\ \A j \in 1..Len(waiters) : waiters[j] \in Caller
        BY LenProperties DEF SemaType
      <4>2. /\ SubSeq(waiters, 1, i - 1) \in Seq(Caller)
            /\ SubSeq(waiters, i + 1, Len(waiters)) \in Seq(Caller)
        BY <4>1, SubSeqProperties
      <4> QED BY <3>2, <4>2, ConcatProperties
    <3> QED BY <1>6, <3>1, <3>2 DEF CancelWait
  <2>2. SemaType' /\ CallerType'
    BY <1>6, <2>1 DEF CancelWait, SemaType, CallerType
  <2> QED BY <1>0, <1>6, <2>2 DEF CancelWait
<1>7. ASSUME NEW c \in Caller, SendStopped(c)
      PROVE  TypeOK'
  <2>1. CallerType'
    BY <1>7 DEF SendStopped, CallerType
  <2> QED BY <1>0, <1>7, <2>1 DEF SendStopped
<1>8. CASE LoopBoot
  BY <1>0, <1>8 DEF LoopBoot, LoopType
<1>9. CASE LoopSpawn
  BY <1>0, <1>9 DEF LoopSpawn, LoopType, WriterType
<1>10. ASSUME NEW c \in Caller, LoopReceive(c)
       PROVE  TypeOK'
  <2>1. received + 1 \in Nat /\ msg[c] \in [size : Nat, pos : PositionKind]
    BY DEF InputType, CallerType
  <2>2. InputType' /\ CallerType'
    BY <1>10, <2>1 DEF LoopReceive, InputType, CallerType
  <2>3. lpc = "select"
    BY <1>10 DEF LoopReceive
  <2>4. PICK limit \in GetMaxBatchBytes : Enqueue(msg[c], received + 1, limit)
    BY <1>10 DEF LoopReceive
  <2>5. batch' \in BatchType /\ outgoing' \in BatchType /\ lpc' \in {"select", "drain"}
    BY <2>1, <2>3, <2>4, EnqueueType
  <2>6. LoopType'
    BY <1>10, <2>5 DEF LoopReceive, LoopType
  <2> QED BY <1>0, <1>10, <2>2, <2>6 DEF LoopReceive
<1>11. CASE LoopTick
  BY <1>0, <1>11, EmptyBatchType DEF LoopTick, LoopType
<1>12. CASE LoopCancel
  BY <1>0, <1>12, EmptyBatchType DEF LoopCancel, LoopType
<1>13. CASE LoopSendErr
  BY <1>0, <1>13 DEF LoopSendErr, ErrReceived, LoopType, WriterType
<1>14. CASE DrainHandOver
  BY <1>0, <1>14, EmptyBatchType DEF DrainHandOver, LoopType, WriterType
<1>nats. CASE DrainSendErr
  BY <1>0, <1>nats, EmptyBatchType DEF DrainSendErr, LoopType, WriterType
<1>16. CASE LoopPublish
  BY <1>0, <1>16 DEF LoopPublish, LoopType, DoneType
<1>17. CASE LoopSignal
  BY <1>0, <1>17 DEF LoopSignal, LoopType, DoneType
<1>18. CASE LoopEnd
  BY <1>0, <1>18 DEF LoopEnd, LoopType, CloseType
<1>19. CASE LoopPanic
  BY <1>0, <1>19 DEF LoopPanic, LoopType
<1>20. ASSUME wbatch \in BatchType
       PROVE  /\ wbatch.msgs \in Seq(Nat) /\ Range(wbatch.msgs) \in SUBSET Nat
              /\ wbatch.positions \in Seq(Nat) /\ Range(wbatch.positions) \in SUBSET Nat
              /\ wbatch.totalBytes \in Nat
  <2>1. wbatch.msgs \in Seq(Nat) /\ wbatch.positions \in Seq(Nat) /\ wbatch.totalBytes \in Nat
    BY <1>20 DEF BatchType
  <2> QED BY <2>1, RangeOfSeq
<1>21. CASE WriterSucceeds
  <2>1. delivered' \in Seq(Nat)
    BY <1>20, <1>21, ConcatProperties DEF WriterSucceeds, WriterType, OutputType
  <2>2. SemaType' /\ WriterType'
    BY <1>20, <1>21, EmptyBatchType DEF WriterSucceeds, SemaType, WriterType
  <2>3. OutputType'
    BY <1>20, <1>21, <2>1 DEF WriterSucceeds, WriterType, OutputType
  <2> QED BY <1>0, <1>21, <2>2, <2>3 DEF WriterSucceeds
<1>22. CASE WriterFails
  <2>1. SemaType' /\ WriterType'
    BY <1>20, <1>22, EmptyBatchType DEF WriterFails, SemaType, WriterType
  <2>2. OutputType'
    BY <1>20, <1>22 DEF WriterFails, WriterType, OutputType
  <2> QED BY <1>0, <1>22, <2>1, <2>2 DEF WriterFails
<1>23. CASE WriterReports
  BY <1>0, <1>23 DEF WriterReports, WriterType
<1>24. CASE WriterExits
  BY <1>0, <1>24 DEF WriterExits, WriterType
<1>25. CASE CloseCall
  BY <1>0, <1>25 DEF CloseCall, CloseType
<1>26. CASE CloseWait
  BY <1>0, <1>26 DEF CloseWait, CloseType
<1>27. CASE CancelParent
  BY <1>0, <1>27 DEF CancelParent, CloseType
<1>28. CASE UNCHANGED vars
  BY <1>0, <1>28 DEF vars
<1> QED
  BY <1>2, <1>3, <1>4, <1>5, <1>6, <1>7, <1>8, <1>9, <1>10, <1>11, <1>12, <1>13,
     <1>14, <1>nats, <1>16, <1>17, <1>18, <1>19, <1>21, <1>22, <1>23, <1>24,
     <1>25, <1>26, <1>27, <1>28
  DEF Next, CallStep, LoopStep, WriterStep

\* Every variable of the sender has its type in every reachable state; in
\* particular the semaphore never hands out bytes it does not have.
THEOREM TypeCorrect == Spec => []TypeOK
<1>1. Init => TypeOK
  <2>1. ASSUME Init PROVE CallerType /\ SemaType /\ LoopType /\ WriterType
    BY <2>1, ConfigAssumption, EmptyBatchType
    DEF Config, Init, CallerType, SemaType, LoopType, WriterType, PositionKind
  <2>2. ASSUME Init PROVE DoneType /\ CloseType /\ InputType
    <3>1. config \in [autoTune : BOOLEAN, ignoreSendErrors : BOOLEAN]
      BY <2>2, ConfigAssumption DEF Config, Init
    <3> QED BY <2>2, <3>1 DEF Init, DoneType, CloseType, InputType
  <2>3. ASSUME Init PROVE OutputType
    <3>1. delivered = <<>> /\ dropped = {} /\ acked = {} /\ failed = FALSE
      BY <2>3 DEF Init
    <3> QED BY <3>1, EmptySeq DEF OutputType
  <2> QED BY <2>1, <2>2, <2>3 DEF TypeOK
<1> QED BY <1>1, TypeOKStep, PTL DEF Spec

-----------------------------------------------------------------------------
(* The inductive invariant behind NoGapBehindAck and SendErrPublished.     *)

\* Where batches and errors can be, by the place each goroutine is at: a
\* drained batch only exists while the loop offers it, the writer holds a
\* batch only while it writes, a failed writer never writes again, and
\* sendErrChan is not seen closed by a running loop.
ControlInv ==
  /\ lpc \in {"boot", "spawn"} => wpc = "none"
  /\ lpc \in {"boot", "spawn", "select"} => outgoing = EmptyBatch
  /\ wpc # "writing" => wbatch = EmptyBatch
  /\ failed => wpc \in {"failed", "exited"}
  /\ errChan = "closed" => lpc \in {"return", "signal", "defer", "ended"}
  /\ lpc \in {"return", "signal", "defer", "ended"} => lerr # "nil"
  /\ lpc \in {"signal", "defer", "ended"} => sendErr # "nil"
  /\ sendDone => lpc \in {"defer", "ended"}

Payloads(b) == Range(b.msgs)

Positions(b) == Range(b.positions)

InFlight == Payloads(wbatch) \cup Payloads(outgoing) \cup Payloads(batch)

\* Nothing is numbered beyond what has been received.
Bounded ==
  \A i \in data \cup acked \cup InFlight \cup Positions(wbatch)
             \cup Positions(outgoing) \cup Positions(batch) : i <= received

\* A payload that is not settled is in one of the three batches.
Covered == ~failed => data \subseteq Settled \cup InFlight

\* The positions of a batch come before the payloads of the batches behind it.
PositionsPrecede ==
  /\ \A p \in Positions(wbatch) :
       \A i \in Payloads(outgoing) \cup Payloads(batch) : p < i
  /\ \A p \in Positions(outgoing) : \A i \in Payloads(batch) : p < i

DataInv == Bounded /\ Covered /\ PositionsPrecede /\ NoGapBehindAck

\* The numbers in a batch are natural numbers, and the empty batch has none.
LEMMA BatchRanges ==
  /\ \A b \in BatchType : Payloads(b) \subseteq Nat /\ Positions(b) \subseteq Nat
  /\ Payloads(EmptyBatch) = {} /\ Positions(EmptyBatch) = {}
BY RangeOfSeq, EmptyBatchType DEF BatchType, Payloads, Positions

\* Enqueueing message n leaves it, and all that was in the batch, in the batch
\* or in front of it, and splits them in order.
LEMMA EnqueueRanges ==
  ASSUME TypeOK, lpc = "select", outgoing = EmptyBatch,
         NEW n \in Nat, \A i \in Positions(batch) : i < n,
         NEW m \in [size : Nat, pos : PositionKind], NEW limit,
         Enqueue(m, n, limit)
  PROVE  /\ Payloads(outgoing') \cup Payloads(batch') =
              Payloads(batch) \cup (IF m.size > 0 THEN {n} ELSE {})
         /\ Positions(outgoing') \cup Positions(batch') \subseteq Positions(batch) \cup {n}
         /\ \A p \in Positions(outgoing') : \A i \in Payloads(batch') : p < i
<1> DEFINE added == AddToBatch(batch, m, n)
           alone == AddToBatch(EmptyBatch, m, n)
<1>1. batch \in BatchType /\ EmptyBatch \in BatchType
  BY EmptyBatchType DEF TypeOK, LoopType
<1>2. /\ Payloads(added) = Payloads(batch) \cup (IF m.size > 0 THEN {n} ELSE {})
      /\ Positions(added) \subseteq Positions(batch) \cup {n}
  BY <1>1, AddToBatchRange DEF Payloads, Positions
<1>3. /\ Payloads(alone) = IF m.size > 0 THEN {n} ELSE {}
      /\ Positions(alone) \subseteq {n}
  <2>1. /\ Range(alone.msgs) =
              IF m.size > 0 THEN Range(EmptyBatch.msgs) \cup {n} ELSE Range(EmptyBatch.msgs)
        /\ Range(alone.positions) =
              IF m.pos = "lsn" THEN Range(EmptyBatch.positions) \cup {n}
                               ELSE Range(EmptyBatch.positions)
    BY <1>1, AddToBatchRange
  <2> HIDE DEF alone
  <2> QED BY <2>1, EmptyBatchType DEF Payloads, Positions
<1>4. CASE outgoing' = batch /\ batch' = alone
  <2>1. Payloads(outgoing') = Payloads(batch) /\ Payloads(batch') = Payloads(alone)
        /\ Positions(outgoing') = Positions(batch) /\ Positions(batch') = Positions(alone)
    BY <1>4
  <2> HIDE DEF alone, added
  <2> QED BY <1>3, <2>1
<1>5. CASE outgoing' = added /\ batch' = EmptyBatch
  <2>1. Payloads(outgoing') = Payloads(added) /\ Payloads(batch') = {}
        /\ Positions(outgoing') = Positions(added) /\ Positions(batch') = {}
    BY <1>5, BatchRanges
  <2> HIDE DEF alone, added
  <2> QED BY <1>2, <2>1
<1>6. CASE outgoing' = EmptyBatch /\ batch' = added
  <2>1. Payloads(batch') = Payloads(added) /\ Payloads(outgoing') = {}
        /\ Positions(batch') = Positions(added) /\ Positions(outgoing') = {}
    BY <1>6, BatchRanges
  <2> HIDE DEF alone, added
  <2> QED BY <1>2, <2>1
<1> QED BY <1>4, <1>5, <1>6 DEF Enqueue

LEMMA ControlInvStep == TypeOK /\ ControlInv /\ [Next]_vars => ControlInv'
<1> SUFFICES ASSUME TypeOK, ControlInv, [Next]_vars PROVE ControlInv'
  OBVIOUS
<1> USE DEF ControlInv, callerVars, semaVars, loopVars, writerVars, doneVars,
            closeVars, inputVars, outputVars
<1>1. ASSUME UNCHANGED <<loopVars, writerVars, doneVars, failed>>
      PROVE  ControlInv'
  BY <1>1
<1>2. ASSUME NEW c \in Caller, NEW m \in Message,
             CallAcquires(c, m) \/ CallRefused(c, m) \/ CallBlocks(c, m)
      PROVE  ControlInv'
  BY <1>1, <1>2 DEF CallAcquires, CallRefused, CallBlocks, BeginCall
<1>3. CASE GrantWaiter \/ CloseCall \/ CloseWait \/ CancelParent
  BY <1>1, <1>3 DEF GrantWaiter, CloseCall, CloseWait, CancelParent
<1>4. ASSUME NEW c \in Caller, CancelWait(c) \/ SendStopped(c)
      PROVE  ControlInv'
  BY <1>1, <1>4 DEF CancelWait, SendStopped
<1>5. CASE LoopBoot \/ LoopSpawn
  BY <1>5 DEF LoopBoot, LoopSpawn
<1>6. ASSUME NEW c \in Caller, LoopReceive(c)
      PROVE  ControlInv'
  BY <1>6 DEF LoopReceive, Enqueue
<1>7. CASE LoopTick
  BY <1>7 DEF LoopTick
<1>8. CASE LoopCancel
  BY <1>8 DEF LoopCancel
<1>9. CASE LoopSendErr
  BY <1>9 DEF LoopSendErr, ErrReceived, TypeOK, WriterType
<1>10. CASE DrainHandOver
  BY <1>10 DEF DrainHandOver
<1>11. CASE DrainSendErr
  BY <1>11 DEF DrainSendErr, TypeOK, WriterType
<1>12. CASE LoopPublish
  BY <1>12 DEF LoopPublish
<1>13. CASE LoopSignal
  BY <1>13 DEF LoopSignal
<1>14. CASE LoopEnd
  BY <1>14 DEF LoopEnd
<1>nats. CASE LoopPanic
  BY <1>nats DEF LoopPanic
<1>16. CASE WriterSucceeds
  BY <1>16 DEF WriterSucceeds
<1>17. CASE WriterFails
  BY <1>17 DEF WriterFails
<1>18. CASE WriterReports
  BY <1>18 DEF WriterReports
<1>19. CASE WriterExits
  BY <1>19 DEF WriterExits
<1>20. CASE UNCHANGED vars
  BY <1>20 DEF vars
<1> QED
  BY <1>2, <1>3, <1>4, <1>5, <1>6, <1>7, <1>8, <1>9, <1>10, <1>11, <1>12, <1>13,
     <1>14, <1>nats, <1>16, <1>17, <1>18, <1>19, <1>20
  DEF Next, CallStep, LoopStep, WriterStep

\* A step that leaves the batches and the histories alone keeps DataInv.
LEMMA DataInvFrame ==
  ASSUME DataInv,
         UNCHANGED <<batch, outgoing, wbatch, data, received, delivered, dropped,
                     acked, failed>>
  PROVE  DataInv'
BY DEF DataInv, Bounded, Covered, PositionsPrecede, NoGapBehindAck, InFlight,
       Payloads, Positions, Settled

\* A step that offers the batch on batchChan keeps DataInv.
LEMMA DataInvDrain ==
  ASSUME TypeOK, DataInv, outgoing = EmptyBatch,
         outgoing' = batch, batch' = EmptyBatch,
         UNCHANGED <<wbatch, data, received, delivered, dropped, acked, failed>>
  PROVE  DataInv'
<1>1. /\ Payloads(outgoing) = {} /\ Positions(outgoing) = {}
      /\ Payloads(batch') = {} /\ Positions(batch') = {}
      /\ Payloads(outgoing') = Payloads(batch) /\ Positions(outgoing') = Positions(batch)
      /\ Payloads(wbatch') = Payloads(wbatch) /\ Positions(wbatch') = Positions(wbatch)
  BY BatchRanges
<1>2. Settled' = Settled
  BY DEF Settled
<1> HIDE DEF Payloads, Positions, Settled
<1> QED BY <1>1, <1>2 DEF DataInv, Bounded, Covered, PositionsPrecede,
                          NoGapBehindAck, InFlight

LEMMA DataInvReceive ==
  ASSUME TypeOK, ControlInv, DataInv, NEW c \in Caller, LoopReceive(c)
  PROVE  DataInv'
<1> DEFINE n == received + 1
           m == msg[c]
<1>1. n \in Nat /\ m \in [size : Nat, pos : PositionKind] /\ received \in Nat
  BY DEF TypeOK, InputType, CallerType
<1>2. lpc = "select" /\ outgoing = EmptyBatch
  BY DEF LoopReceive, ControlInv
<1>3. PICK limit \in GetMaxBatchBytes : Enqueue(m, n, limit)
  BY DEF LoopReceive
<1>4. /\ Payloads(batch) \subseteq Nat /\ Positions(batch) \subseteq Nat
      /\ Payloads(wbatch) \subseteq Nat /\ Positions(wbatch) \subseteq Nat
      /\ data \subseteq Nat /\ acked \subseteq Nat
  BY BatchRanges DEF TypeOK, LoopType, WriterType, InputType, OutputType
<1>5. \A i \in Positions(batch) : i < n
  BY <1>1, <1>4 DEF DataInv, Bounded
<1>6. /\ Payloads(outgoing') \cup Payloads(batch') =
           Payloads(batch) \cup (IF m.size > 0 THEN {n} ELSE {})
      /\ Positions(outgoing') \cup Positions(batch') \subseteq Positions(batch) \cup {n}
      /\ \A p \in Positions(outgoing') : \A i \in Payloads(batch') : p < i
  <2> HIDE DEF n, m
  <2> QED BY <1>1, <1>2, <1>3, <1>5, EnqueueRanges
<1>7. /\ received' = n
      /\ data' = data \cup (IF m.size > 0 THEN {n} ELSE {})
      /\ Payloads(wbatch') = Payloads(wbatch) /\ Positions(wbatch') = Positions(wbatch)
      /\ acked' = acked /\ Settled' = Settled /\ failed' = failed
  BY DEF LoopReceive, writerVars, outputVars, Settled
<1>8. Payloads(outgoing) = {} /\ Positions(outgoing) = {}
  BY <1>2, BatchRanges
<1> HIDE DEF n, m, Payloads, Positions, Settled
<1>9. n > received
  BY <1>1 DEF n
<1>10. Bounded'
  BY <1>1, <1>4, <1>6, <1>7, <1>8, <1>9 DEF DataInv, Bounded, InFlight
<1>11. Covered'
  BY <1>6, <1>7, <1>8 DEF DataInv, Covered, InFlight
<1>12. PositionsPrecede'
  BY <1>1, <1>4, <1>6, <1>7, <1>8, <1>9 DEF DataInv, Bounded, PositionsPrecede, InFlight
<1>13. NoGapBehindAck'
  BY <1>1, <1>4, <1>7, <1>9 DEF DataInv, Bounded, NoGapBehindAck
<1> QED BY <1>10, <1>11, <1>12, <1>13 DEF DataInv

LEMMA DataInvHandOver ==
  ASSUME TypeOK, ControlInv, DataInv, DrainHandOver
  PROVE  DataInv'
<1>1. wbatch = EmptyBatch /\ wbatch' = outgoing
  BY DEF DrainHandOver, ControlInv
<1>2. \/ outgoing' = EmptyBatch /\ batch' = batch
      \/ outgoing' = batch /\ batch' = EmptyBatch
  BY DEF DrainHandOver
<1>3. /\ Payloads(wbatch) = {} /\ Positions(wbatch) = {}
      /\ Payloads(wbatch') = Payloads(outgoing) /\ Positions(wbatch') = Positions(outgoing)
      /\ Payloads(outgoing') \cup Payloads(batch') = Payloads(batch)
      /\ Positions(outgoing') \cup Positions(batch') = Positions(batch)
      /\ Positions(outgoing') = {} \/ Payloads(batch') = {}
  BY <1>1, <1>2, BatchRanges
<1>4. /\ data' = data /\ acked' = acked /\ received' = received
      /\ failed' = failed /\ Settled' = Settled
  BY DEF DrainHandOver, inputVars, outputVars, Settled
<1> HIDE DEF Payloads, Positions, Settled
<1> QED BY <1>3, <1>4 DEF DataInv, Bounded, Covered, PositionsPrecede,
                          NoGapBehindAck, InFlight

\* The step the invariant is for: when the writer checkpoints a batch, every
\* earlier payload is settled or in that very batch.
LEMMA DataInvWrite ==
  ASSUME TypeOK, ControlInv, DataInv, WriterSucceeds
  PROVE  DataInv'
<1>1. /\ wbatch' = EmptyBatch /\ batch' = batch /\ outgoing' = outgoing
      /\ data' = data /\ received' = received /\ failed' = failed
      /\ dropped' = dropped
  BY DEF WriterSucceeds, loopVars, inputVars
<1>2. /\ Payloads(wbatch') = {} /\ Positions(wbatch') = {}
      /\ Payloads(batch') = Payloads(batch) /\ Positions(batch') = Positions(batch)
      /\ Payloads(outgoing') = Payloads(outgoing)
      /\ Positions(outgoing') = Positions(outgoing)
  BY <1>1, BatchRanges
<1>3. acked' = acked \cup Positions(wbatch)
  BY DEF WriterSucceeds, Positions
<1>4. Settled' = Settled \cup Payloads(wbatch)
  <2>1. wbatch.msgs \in Seq(Nat) /\ delivered \in Seq(Nat)
    BY DEF TypeOK, WriterType, BatchType, OutputType
  <2>2. Range(delivered') = Range(delivered) \cup Range(wbatch.msgs)
    BY <2>1, RangeConcatenation DEF WriterSucceeds
  <2> QED BY <1>1, <2>2 DEF Settled, Payloads
<1>5. ~failed
  BY DEF WriterSucceeds, ControlInv
<1>6. /\ data \subseteq Nat /\ Positions(wbatch) \subseteq Nat
      /\ Payloads(outgoing) \subseteq Nat /\ Payloads(batch) \subseteq Nat
  BY BatchRanges DEF TypeOK, LoopType, WriterType, InputType
<1> HIDE DEF Payloads, Positions, Settled
<1>7. Bounded' /\ Covered' /\ PositionsPrecede'
  BY <1>1, <1>2, <1>3, <1>4 DEF DataInv, Bounded, Covered, PositionsPrecede, InFlight
<1>8. NoGapBehindAck'
  <2> SUFFICES ASSUME NEW a \in acked', NEW i \in data', i <= a
               PROVE  i \in Settled'
    BY DEF NoGapBehindAck
  <2>1. CASE a \in acked
    BY <1>1, <1>4, <2>1 DEF DataInv, NoGapBehindAck
  <2>2. CASE a \in Positions(wbatch)
    <3>1. i \in Settled \cup InFlight
      BY <1>1, <1>5 DEF DataInv, Covered
    <3>2. i \notin Payloads(outgoing) \cup Payloads(batch)
      BY <1>1, <1>6, <2>2 DEF DataInv, PositionsPrecede
    <3> QED BY <1>4, <3>1, <3>2 DEF InFlight
  <2> QED BY <1>3, <2>1, <2>2
<1> QED BY <1>7, <1>8 DEF DataInv

LEMMA DataInvFail ==
  ASSUME TypeOK, DataInv, WriterFails
  PROVE  DataInv'
<1>1. /\ wbatch' = EmptyBatch /\ batch' = batch /\ outgoing' = outgoing
      /\ data' = data /\ received' = received /\ acked' = acked
      /\ delivered' = delivered
  BY DEF WriterFails, loopVars, inputVars
<1>2. /\ Payloads(wbatch') = {} /\ Positions(wbatch') = {}
      /\ Payloads(batch') = Payloads(batch) /\ Positions(batch') = Positions(batch)
      /\ Payloads(outgoing') = Payloads(outgoing)
      /\ Positions(outgoing') = Positions(outgoing)
  BY <1>1, BatchRanges
<1>3. \/ failed' /\ Settled' = Settled
      \/ failed' = failed /\ Settled' = Settled \cup Payloads(wbatch)
  BY <1>1 DEF WriterFails, Settled, Payloads
<1> HIDE DEF Payloads, Positions, Settled
<1> QED BY <1>1, <1>2, <1>3 DEF DataInv, Bounded, Covered, PositionsPrecede,
                                NoGapBehindAck, InFlight

LEMMA DataInvStep ==
  TypeOK /\ ControlInv /\ DataInv /\ [Next]_vars => DataInv'
<1> SUFFICES ASSUME TypeOK, ControlInv, DataInv, [Next]_vars PROVE DataInv'
  OBVIOUS
<1> USE DEF loopVars, writerVars, inputVars, outputVars
<1>1. ASSUME NEW c \in Caller, NEW m \in Message,
             CallAcquires(c, m) \/ CallRefused(c, m) \/ CallBlocks(c, m)
      PROVE  DataInv'
  BY <1>1, DataInvFrame DEF CallAcquires, CallRefused, CallBlocks, BeginCall
<1>2. CASE GrantWaiter \/ CloseCall \/ CloseWait \/ CancelParent
  BY <1>2, DataInvFrame DEF GrantWaiter, CloseCall, CloseWait, CancelParent
<1>3. ASSUME NEW c \in Caller, CancelWait(c) \/ SendStopped(c)
      PROVE  DataInv'
  BY <1>3, DataInvFrame DEF CancelWait, SendStopped
<1>4. CASE LoopBoot \/ LoopSpawn \/ LoopSendErr
  BY <1>4, DataInvFrame DEF LoopBoot, LoopSpawn, LoopSendErr
<1>5. ASSUME NEW c \in Caller, LoopReceive(c)
      PROVE  DataInv'
  BY <1>5, DataInvReceive
<1>6. CASE LoopTick
  BY <1>6, DataInvDrain DEF LoopTick, ControlInv
<1>7. CASE LoopCancel
  BY <1>7, DataInvDrain, DataInvFrame DEF LoopCancel, ControlInv
<1>8. CASE DrainHandOver
  BY <1>8, DataInvHandOver
<1>9. CASE DrainSendErr
  <2>1. errChan = "err"
    BY <1>9 DEF DrainSendErr, ControlInv, TypeOK, WriterType
  <2> QED BY <1>9, <2>1, DataInvFrame DEF DrainSendErr
<1>10. CASE LoopPublish \/ LoopSignal \/ LoopEnd \/ LoopPanic
  BY <1>10, DataInvFrame DEF LoopPublish, LoopSignal, LoopEnd, LoopPanic
<1>11. CASE WriterSucceeds
  BY <1>11, DataInvWrite
<1>12. CASE WriterFails
  BY <1>12, DataInvFail
<1>13. CASE WriterReports \/ WriterExits
  BY <1>13, DataInvFrame DEF WriterReports, WriterExits
<1>14. CASE UNCHANGED vars
  BY <1>14, DataInvFrame DEF vars
<1> QED
  BY <1>1, <1>2, <1>3, <1>4, <1>5, <1>6, <1>7, <1>8, <1>9, <1>10, <1>11, <1>12,
     <1>13, <1>14
  DEF Next, CallStep, LoopStep, WriterStep

LEMMA InvariantInit == Init => ControlInv /\ DataInv
<1> SUFFICES ASSUME Init PROVE ControlInv /\ DataInv
  OBVIOUS
<1>1. ControlInv
  BY DEF Init, ControlInv
<1>2. data = {} /\ acked = {} /\ batch = EmptyBatch /\ outgoing = EmptyBatch
      /\ wbatch = EmptyBatch
  BY DEF Init
<1>3. DataInv
  BY <1>2, BatchRanges DEF DataInv, Bounded, Covered, PositionsPrecede,
                           NoGapBehindAck, InFlight
<1> QED BY <1>1, <1>3

LEMMA Invariance == Spec => [](ControlInv /\ DataInv)
<1>1. TypeOK /\ ControlInv /\ DataInv /\ [Next]_vars => (ControlInv /\ DataInv)'
  BY ControlInvStep, DataInvStep
<1> QED BY <1>1, InvariantInit, TypeCorrect, PTL DEF Spec

\* A checkpointed position never passes a payload that was not written or
\* deliberately dropped: what makes a restart from the checkpoint safe.
THEOREM CheckpointSafe == Spec => []NoGapBehindAck
<1>1. DataInv => NoGapBehindAck
  BY DEF DataInv
<1> QED BY <1>1, Invariance, PTL

\* A caller that finds sending stopped always has a non-nil error to wrap, as
\* the comment in SendMessage claims.
THEOREM SendErrAlwaysPublished == Spec => []SendErrPublished
<1>1. ControlInv => SendErrPublished
  BY DEF ControlInv, SendErrPublished
<1> QED BY <1>1, Invariance, PTL

-----------------------------------------------------------------------------
(* The sender implements OrderedSink.                                      *)

\* Some number separates what comes first from what comes behind it.
Split(front, behind) ==
  \E a \in Nat : (\A i \in front : i <= a) /\ (\A i \in behind : i > a)

Held(b) == Payloads(b) \cup Positions(b)

\* The three batches hold, one after the other, the payloads that are not settled.
SinkInv ==
  /\ data \cup Held(wbatch) \cup Held(outgoing) \cup Held(batch) \subseteq 1..received
  /\ InFlight \cup Settled \subseteq data
  /\ InFlight \cap Settled = {}
  /\ Split(Held(wbatch), Payloads(outgoing) \cup Payloads(batch))
  /\ Split(Held(outgoing), Payloads(batch))

\* Where one side is empty there is nothing to separate.
LEMMA SplitTrivially ==
  ASSUME NEW n \in Nat, NEW front, NEW behind,
         front \cup behind \subseteq 1..n, front = {} \/ behind = {}
  PROVE  Split(front, behind)
<1>1. CASE front = {}
  <2>1. (\A i \in front : i <= 0) /\ (\A i \in behind : i > 0)
    BY <1>1
  <2> QED BY <2>1 DEF Split
<1>2. CASE behind = {}
  <2>1. (\A i \in front : i <= n) /\ (\A i \in behind : i > n)
    BY <1>2
  <2> QED BY <2>1 DEF Split
<1> QED BY <1>1, <1>2

\* A step that leaves the batches and the histories alone keeps SinkInv.
LEMMA SinkInvFrame ==
  ASSUME SinkInv,
         UNCHANGED <<batch, outgoing, wbatch, data, received, delivered, dropped>>
  PROVE  SinkInv'
BY DEF SinkInv, Split, Held, InFlight, Payloads, Positions, Settled

LEMMA SinkInvDrain ==
  ASSUME TypeOK, SinkInv, outgoing = EmptyBatch,
         outgoing' = batch, batch' = EmptyBatch,
         UNCHANGED <<wbatch, data, received, delivered, dropped>>
  PROVE  SinkInv'
<1>1. /\ Payloads(outgoing) = {} /\ Held(outgoing) = {}
      /\ Payloads(batch') = {} /\ Held(batch') = {}
      /\ Payloads(outgoing') = Payloads(batch) /\ Held(outgoing') = Held(batch)
      /\ Payloads(wbatch') = Payloads(wbatch) /\ Held(wbatch') = Held(wbatch)
      /\ Settled' = Settled /\ received \in Nat
  BY BatchRanges DEF Held, Settled, TypeOK, InputType
<1>2. Payloads(outgoing') \cup Payloads(batch') = Payloads(outgoing) \cup Payloads(batch)
  BY <1>1
<1> HIDE DEF Payloads, Held, Settled
<1>3. Split(Held(outgoing'), Payloads(batch'))
  BY <1>1, SplitTrivially DEF SinkInv
<1>4. Split(Held(wbatch'), Payloads(outgoing') \cup Payloads(batch'))
  BY <1>1, <1>2 DEF SinkInv
<1> QED BY <1>1, <1>3, <1>4 DEF SinkInv, InFlight

\* Enqueueing message n puts it behind everything that was in the batch.
LEMMA EnqueueSplits ==
  ASSUME TypeOK, lpc = "select", outgoing = EmptyBatch,
         NEW n \in Nat \ {0}, Held(batch) \subseteq 1..(n - 1),
         NEW m \in [size : Nat, pos : PositionKind], NEW limit,
         Enqueue(m, n, limit)
  PROVE  /\ Held(outgoing') \cup Held(batch') \subseteq 1..n
         /\ Split(Held(outgoing'), Payloads(batch'))
<1> DEFINE added == AddToBatch(batch, m, n)
           alone == AddToBatch(EmptyBatch, m, n)
<1>1. batch \in BatchType /\ EmptyBatch \in BatchType
  BY EmptyBatchType DEF TypeOK, LoopType
<1>2. Held(added) \subseteq Held(batch) \cup {n} /\ Payloads(added) \subseteq Held(added)
  BY <1>1, AddToBatchRange DEF Held, Payloads, Positions
<1>3. Held(alone) \subseteq {n} /\ Payloads(alone) \subseteq {n}
  <2>1. /\ Range(alone.msgs) = IF m.size > 0 THEN Range(EmptyBatch.msgs) \cup {n}
                               ELSE Range(EmptyBatch.msgs)
        /\ Range(alone.positions) = IF m.pos = "lsn" THEN Range(EmptyBatch.positions) \cup {n}
                                    ELSE Range(EmptyBatch.positions)
    BY <1>1, AddToBatchRange
  <2> HIDE DEF alone
  <2> QED BY <2>1, EmptyBatchType DEF Held, Payloads, Positions
<1>4. Held(EmptyBatch) = {} /\ Payloads(EmptyBatch) = {}
  BY BatchRanges DEF Held
<1>5. CASE outgoing' = batch /\ batch' = alone
  <2>1. Held(outgoing') = Held(batch) /\ Held(batch') = Held(alone)
        /\ Payloads(batch') = Payloads(alone)
    BY <1>5
  <2> HIDE DEF alone, added
  <2>2. n - 1 \in Nat /\ (\A i \in Held(outgoing') : i <= n - 1)
        /\ \A i \in Payloads(batch') : i > n - 1
    BY <1>3, <2>1
  <2> QED BY <1>3, <2>1, <2>2 DEF Split
<1>6. CASE outgoing' = added /\ batch' = EmptyBatch
  <2>1. Held(outgoing') = Held(added) /\ Held(batch') = {} /\ Payloads(batch') = {}
    BY <1>4, <1>6
  <2> HIDE DEF alone, added
  <2>2. Held(outgoing') \cup Held(batch') \subseteq 1..n
    BY <1>2, <2>1
  <2> QED BY <2>1, <2>2, SplitTrivially
<1>7. CASE outgoing' = EmptyBatch /\ batch' = added
  <2>1. Held(batch') = Held(added) /\ Payloads(batch') = Payloads(added) /\ Held(outgoing') = {}
    BY <1>4, <1>7
  <2> HIDE DEF alone, added
  <2>2. Held(outgoing') \cup Held(batch') \subseteq 1..n
        /\ Held(outgoing') \cup Payloads(batch') \subseteq 1..n
    BY <1>2, <2>1
  <2> QED BY <2>1, <2>2, SplitTrivially
<1> QED BY <1>5, <1>6, <1>7 DEF Enqueue

LEMMA SinkInvReceive ==
  ASSUME TypeOK, ControlInv, SinkInv, NEW c \in Caller, LoopReceive(c)
  PROVE  SinkInv'
<1> DEFINE n == received + 1
           m == msg[c]
<1>1. n \in Nat \ {0} /\ m \in [size : Nat, pos : PositionKind] /\ received = n - 1
  BY DEF TypeOK, InputType, CallerType
<1>2. lpc = "select" /\ outgoing = EmptyBatch
  BY DEF LoopReceive, ControlInv
<1>3. PICK limit \in GetMaxBatchBytes : Enqueue(m, n, limit)
  BY DEF LoopReceive
<1>4. Held(batch) \subseteq 1..(n - 1)
  BY <1>1 DEF SinkInv
<1> HIDE DEF n, m
<1>5. \A i \in Positions(batch) : i < n
  BY <1>1, <1>4 DEF Held
<1>6. Payloads(outgoing') \cup Payloads(batch') =
        Payloads(batch) \cup (IF m.size > 0 THEN {n} ELSE {})
  BY <1>1, <1>2, <1>3, <1>5, EnqueueRanges
<1>7. /\ Held(outgoing') \cup Held(batch') \subseteq 1..n
      /\ Split(Held(outgoing'), Payloads(batch'))
  BY <1>1, <1>2, <1>3, <1>4, EnqueueSplits
<1>8. /\ received' = n
      /\ data' = data \cup (IF m.size > 0 THEN {n} ELSE {})
      /\ Payloads(wbatch') = Payloads(wbatch) /\ Held(wbatch') = Held(wbatch)
      /\ Settled' = Settled
  BY DEF LoopReceive, writerVars, outputVars, Settled, n, m
<1>9. Payloads(outgoing) = {}
  BY <1>2, BatchRanges
<1>10. 1..(n - 1) \subseteq 1..n /\ n \notin 1..(n - 1)
  BY <1>1
<1>11. Split(Held(wbatch'), Payloads(outgoing') \cup Payloads(batch'))
  <2>1. PICK a \in Nat : /\ \A i \in Held(wbatch) : i <= a
                         /\ \A i \in Payloads(outgoing) \cup Payloads(batch) : i > a
    BY DEF SinkInv, Split
  <2> DEFINE b == IF a < n THEN a ELSE n - 1
  <2>2. b \in Nat /\ b < n /\ (b = a \/ (b = n - 1 /\ b <= a))
    BY <1>1
  <2>3. \A i \in Held(wbatch) : i \in 1..(n - 1) /\ i <= a
    BY <1>1, <2>1 DEF SinkInv
  <2>4. \A i \in Held(wbatch') : i <= b
    BY <1>1, <1>8, <2>3
  <2>5. \A i \in Payloads(batch) : i \in 1..(n - 1) /\ i > a
    BY <1>4, <2>1 DEF Held
  <2>6. \A i \in Payloads(outgoing') \cup Payloads(batch') : i > b
    <3>1. \A i \in Payloads(batch) : i > b
      BY <1>1, <2>2, <2>5
    <3> HIDE DEF b
    <3>2. n > b
      BY <1>1, <2>2
    <3> QED BY <1>6, <3>1, <3>2
  <2> QED BY <2>2, <2>4, <2>6 DEF Split
<1> HIDE DEF Payloads, Held, Settled
<1>12. InFlight' \cup Settled' \subseteq data'
  BY <1>6, <1>8, <1>9 DEF SinkInv, InFlight
<1>13. InFlight' \cap Settled' = {}
  <2>1. Settled \subseteq 1..(n - 1)
    BY <1>1 DEF SinkInv
  <2> QED BY <1>6, <1>8, <1>9, <1>10, <2>1 DEF SinkInv, InFlight
<1>14. data' \cup Held(wbatch') \cup Held(outgoing') \cup Held(batch') \subseteq 1..received'
  <2>1. data \cup Held(wbatch) \subseteq 1..(n - 1) /\ n \in 1..n
    BY <1>1 DEF SinkInv
  <2> QED BY <1>7, <1>8, <1>10, <2>1
<1> QED BY <1>7, <1>11, <1>12, <1>13, <1>14 DEF SinkInv

LEMMA SinkInvHandOver ==
  ASSUME TypeOK, ControlInv, SinkInv, DrainHandOver
  PROVE  SinkInv'
<1>1. /\ wbatch = EmptyBatch /\ wbatch' = outgoing
      /\ \/ outgoing' = EmptyBatch /\ batch' = batch
         \/ outgoing' = batch /\ batch' = EmptyBatch
  BY DEF DrainHandOver, ControlInv
<1>2. /\ Payloads(wbatch) = {} /\ Held(wbatch) = {}
      /\ Payloads(wbatch') = Payloads(outgoing) /\ Held(wbatch') = Held(outgoing)
      /\ Payloads(outgoing') \cup Payloads(batch') = Payloads(batch)
      /\ Held(outgoing') \cup Held(batch') = Held(batch)
      /\ Held(outgoing') = {} \/ Payloads(batch') = {}
      /\ Payloads(batch') \subseteq Held(batch')
  BY <1>1, BatchRanges DEF Held
<1>3. /\ data' = data /\ received' = received /\ Settled' = Settled /\ received \in Nat
  BY DEF DrainHandOver, inputVars, outputVars, Settled, TypeOK, InputType
<1> HIDE DEF Payloads, Held, Settled
<1>4. Held(outgoing') \cup Payloads(batch') \subseteq 1..received
  BY <1>2 DEF SinkInv
<1>5. Split(Held(outgoing'), Payloads(batch'))
  BY <1>2, <1>3, <1>4, SplitTrivially
<1>6. Split(Held(wbatch'), Payloads(outgoing') \cup Payloads(batch'))
  BY <1>2 DEF SinkInv
<1> QED BY <1>2, <1>3, <1>5, <1>6 DEF SinkInv, InFlight

\* When the writer is done with its batch, its payloads are the ones that are next.
LEMMA SinkInvWritten ==
  ASSUME TypeOK, SinkInv, wbatch' = EmptyBatch,
         UNCHANGED <<batch, outgoing, data, received>>,
         Settled' = Settled \/ Settled' = Settled \cup Payloads(wbatch)
  PROVE  SinkInv'
<1>1. /\ Payloads(wbatch') = {} /\ Held(wbatch') = {}
      /\ Payloads(batch') = Payloads(batch) /\ Held(batch') = Held(batch)
      /\ Payloads(outgoing') = Payloads(outgoing) /\ Held(outgoing') = Held(outgoing)
      /\ Payloads(wbatch) \subseteq Held(wbatch)
      /\ Payloads(outgoing) \subseteq Held(outgoing) /\ Payloads(batch) \subseteq Held(batch)
      /\ received \in Nat
  BY BatchRanges DEF Held, TypeOK, InputType
<1> HIDE DEF Payloads, Held, Settled
<1>2. Held(wbatch') \cup (Payloads(outgoing') \cup Payloads(batch')) \subseteq 1..received
  BY <1>1 DEF SinkInv
<1>3. Split(Held(wbatch'), Payloads(outgoing') \cup Payloads(batch'))
  BY <1>1, <1>2, SplitTrivially
<1>4. Payloads(wbatch) \cap (Payloads(outgoing) \cup Payloads(batch)) = {}
  <2>1. PICK a \in Nat : /\ \A i \in Held(wbatch) : i <= a
                         /\ \A i \in Payloads(outgoing) \cup Payloads(batch) : i > a
    BY DEF SinkInv, Split
  <2>2. Payloads(outgoing) \cup Payloads(batch) \subseteq Nat
    BY <1>1 DEF SinkInv
  <2>3. \A i \in Payloads(outgoing) \cup Payloads(batch) : ~(i <= a)
    BY <2>1, <2>2
  <2> QED BY <1>1, <2>1, <2>3
<1>5. InFlight' \cup Settled' \subseteq data'
  BY <1>1 DEF SinkInv, InFlight
<1>6. InFlight' \cap Settled' = {}
  BY <1>1, <1>4 DEF SinkInv, InFlight
<1> QED BY <1>1, <1>3, <1>5, <1>6 DEF SinkInv

\* What the write of the writer's batch is to the sink: of the payloads up to some
\* number, those that are not settled.
LEMMA BatchIsNext ==
  ASSUME TypeOK, SinkInv, Covered, ~failed
  PROVE  \E k \in 0..received :
           /\ Settled \cup Payloads(wbatch) = Settled \cup {i \in data : i <= k}
           /\ Positions(wbatch) \subseteq 1..k
           /\ Payloads(wbatch) = (Settled \cup {i \in data : i <= k}) \ Settled
<1>1. PICK a \in Nat : /\ \A i \in Held(wbatch) : i <= a
                       /\ \A i \in Payloads(outgoing) \cup Payloads(batch) : i > a
  BY DEF SinkInv, Split
<1> DEFINE k == IF a <= received THEN a ELSE received
<1>2. k \in 0..received /\ k <= a /\ (k = a \/ k = received)
  BY DEF TypeOK, InputType
<1>3. Payloads(wbatch) \subseteq Held(wbatch) /\ Positions(wbatch) \subseteq Held(wbatch)
  BY DEF Held
<1>4. Held(wbatch) \subseteq 1..received /\ data \subseteq 1..received /\ received \in Nat
  BY DEF SinkInv, TypeOK, InputType
<1>5. Held(wbatch) \subseteq 1..k
  BY <1>1, <1>2, <1>4
<1>6. data \subseteq Settled \cup Payloads(wbatch) \cup Payloads(outgoing) \cup Payloads(batch)
  BY DEF Covered, InFlight
<1>7. /\ Payloads(wbatch) \cup Payloads(outgoing) \cup Payloads(batch) \subseteq data
      /\ Payloads(wbatch) \cap Settled = {}
  BY DEF SinkInv, InFlight
<1>8. \A i \in data : i <= k => i \notin Payloads(outgoing) \cup Payloads(batch)
  BY <1>1, <1>2, <1>4
<1> HIDE DEF k, Payloads, Positions, Held, Settled
<1>9. \A i \in Payloads(wbatch) : i \in data /\ i <= k
  BY <1>2, <1>3, <1>5, <1>7
<1>10. \A i \in data : i <= k => i \in Settled \cup Payloads(wbatch)
  BY <1>6, <1>8
<1> DEFINE upto == {i \in data : i <= k}
<1>11. Payloads(wbatch) \subseteq upto /\ upto \subseteq Settled \cup Payloads(wbatch)
  BY <1>9, <1>10
<1> HIDE DEF upto
<1>12. /\ Settled \cup Payloads(wbatch) = Settled \cup upto
       /\ Positions(wbatch) \subseteq 1..k
       /\ Payloads(wbatch) = (Settled \cup upto) \ Settled
  BY <1>3, <1>5, <1>7, <1>11
<1> QED BY <1>2, <1>12 DEF upto

\* What the writer's steps do to the payloads that are settled.
LEMMA SettledByWrite ==
  ASSUME TypeOK
  PROVE  /\ WriterSucceeds => Settled' = Settled \cup Payloads(wbatch)
         /\ WriterFails => \/ failed' /\ Settled' = Settled /\ UNCHANGED dropped
                           \/ /\ config.ignoreSendErrors
                              /\ Settled' = Settled \cup Payloads(wbatch)
                              /\ dropped' = dropped \cup Payloads(wbatch) /\ UNCHANGED failed
<1>1. ASSUME WriterSucceeds PROVE Settled' = Settled \cup Payloads(wbatch)
  <2>1. wbatch.msgs \in Seq(Nat) /\ delivered \in Seq(Nat)
    BY DEF TypeOK, WriterType, BatchType, OutputType
  <2>2. Range(delivered') = Range(delivered) \cup Range(wbatch.msgs)
    BY <1>1, <2>1, RangeConcatenation DEF WriterSucceeds
  <2> QED BY <1>1, <2>2 DEF WriterSucceeds, Settled, Payloads
<1>2. ASSUME WriterFails
      PROVE  \/ failed' /\ Settled' = Settled /\ UNCHANGED dropped
             \/ /\ config.ignoreSendErrors /\ Settled' = Settled \cup Payloads(wbatch)
                /\ dropped' = dropped \cup Payloads(wbatch) /\ UNCHANGED failed
  BY <1>2 DEF WriterFails, Settled, Payloads
<1> QED BY <1>1, <1>2

LEMMA SinkInvStep ==
  TypeOK /\ ControlInv /\ SinkInv /\ [Next]_vars => SinkInv'
<1> SUFFICES ASSUME TypeOK, ControlInv, SinkInv, [Next]_vars PROVE SinkInv'
  OBVIOUS
<1> USE DEF loopVars, writerVars, inputVars, outputVars
<1>1. CASE CallStep
  BY <1>1, SinkInvFrame DEF CallStep, CallAcquires, CallRefused, CallBlocks, BeginCall,
       GrantWaiter, CancelWait, SendStopped
<1>2. CASE LoopBoot \/ LoopSpawn \/ LoopSendErr \/ LoopPublish \/ LoopSignal \/ LoopEnd
           \/ LoopPanic
  BY <1>2, SinkInvFrame DEF LoopBoot, LoopSpawn, LoopSendErr, LoopPublish, LoopSignal,
       LoopEnd, LoopPanic
<1>3. ASSUME NEW c \in Caller, LoopReceive(c)
      PROVE  SinkInv'
  BY <1>3, SinkInvReceive
<1>4. CASE LoopTick
  BY <1>4, SinkInvDrain DEF LoopTick, ControlInv
<1>5. CASE LoopCancel
  BY <1>5, SinkInvDrain, SinkInvFrame DEF LoopCancel, ControlInv
<1>6. CASE DrainHandOver
  BY <1>6, SinkInvHandOver
<1>7. CASE DrainSendErr
  <2>1. errChan = "err"
    BY <1>7 DEF DrainSendErr, ControlInv, TypeOK, WriterType
  <2> QED BY <1>7, <2>1, SinkInvFrame DEF DrainSendErr
<1>8. CASE WriterSucceeds
  BY <1>8, SinkInvWritten, SettledByWrite DEF WriterSucceeds
<1>9. CASE WriterFails
  BY <1>9, SinkInvWritten, SettledByWrite DEF WriterFails
<1>10. CASE WriterReports \/ WriterExits \/ CloseCall \/ CloseWait \/ CancelParent
  BY <1>10, SinkInvFrame DEF WriterReports, WriterExits, CloseCall, CloseWait, CancelParent
<1>11. CASE UNCHANGED vars
  BY <1>11, SinkInvFrame DEF vars
<1> QED
  BY <1>1, <1>2, <1>3, <1>4, <1>5, <1>6, <1>7, <1>8, <1>9, <1>10, <1>11
  DEF Next, LoopStep, WriterStep

LEMMA SinkInvariance == Spec => []SinkInv
<1>1. Init => SinkInv
  <2> SUFFICES ASSUME Init PROVE SinkInv
    OBVIOUS
  <2>1. /\ data = {} /\ batch = EmptyBatch /\ outgoing = EmptyBatch /\ wbatch = EmptyBatch
        /\ received = 0 /\ delivered = <<>> /\ dropped = {}
    BY DEF Init
  <2>2. /\ Payloads(EmptyBatch) = {} /\ Held(EmptyBatch) = {} /\ Range(delivered) = {}
    BY <2>1, BatchRanges DEF Held, Range
  <2>3. Settled = {} /\ InFlight = {}
    BY <2>1, <2>2 DEF Settled, InFlight
  <2>4. Split({}, {})
    BY SplitTrivially
  <2> QED BY <2>1, <2>2, <2>3, <2>4 DEF SinkInv
<1> QED BY <1>1, SinkInvStep, TypeCorrect, Invariance, PTL DEF Spec

\* A step of the sender is a step of the sink, or the sink does not move.
LEMMA SinkStep ==
  TypeOK /\ ControlInv /\ DataInv /\ SinkInv /\ [Next]_vars => [Sink!Next]_(Sink!vars)
<1> SUFFICES ASSUME TypeOK, ControlInv, DataInv, SinkInv, [Next]_vars
             PROVE  [Sink!Next]_(Sink!vars)
  OBVIOUS
<1> USE DEF loopVars, writerVars, inputVars, outputVars
<1>1. ASSUME UNCHANGED <<config, received, data, delivered, dropped, acked>>
      PROVE  UNCHANGED Sink!vars
  BY <1>1 DEF Sink!vars, Settled
<1>2. CASE CallStep
  BY <1>1, <1>2 DEF CallStep, CallAcquires, CallRefused, CallBlocks, BeginCall,
       GrantWaiter, CancelWait, SendStopped
<1>3. CASE LoopBoot \/ LoopSpawn \/ LoopTick \/ LoopCancel \/ LoopSendErr \/ DrainHandOver
           \/ DrainSendErr \/ LoopPublish \/ LoopSignal \/ LoopEnd \/ LoopPanic
  BY <1>1, <1>3 DEF LoopBoot, LoopSpawn, LoopTick, LoopCancel, LoopSendErr, DrainHandOver,
       DrainSendErr, LoopPublish, LoopSignal, LoopEnd, LoopPanic
<1>4. ASSUME NEW c \in Caller, LoopReceive(c)
      PROVE  Sink!Receive
  BY <1>4 DEF LoopReceive, Sink!Receive, Settled
<1>5. CASE WriterSucceeds
  <2>1. ~failed /\ Covered
    BY <1>5 DEF WriterSucceeds, ControlInv, DataInv
  <2>2. PICK k \in 0..received :
          /\ Settled \cup Payloads(wbatch) = Settled \cup {i \in data : i <= k}
          /\ Positions(wbatch) \subseteq 1..k
    BY <2>1, BatchIsNext
  <2>3. /\ Settled' = Settled \cup {i \in data : i <= k}
        /\ acked' = acked \cup Positions(wbatch)
        /\ UNCHANGED <<config, received, data, dropped>>
    BY <1>5, <2>2, SettledByWrite DEF WriterSucceeds, Positions
  <2>4. acked' \in {acked \cup P : P \in SUBSET (1..k)}
    BY <2>2, <2>3
  <2>5. Sink!Write(k)
    BY <2>3, <2>4 DEF Sink!Write
  <2> QED BY <2>5 DEF Sink!Next
<1>6. CASE WriterFails
  <2>1. ~failed /\ Covered
    BY <1>6 DEF WriterFails, ControlInv, DataInv
  <2>2. UNCHANGED <<config, received, data, acked>>
    BY <1>6 DEF WriterFails
  <2>3. CASE Settled' = Settled /\ UNCHANGED dropped
    BY <2>2, <2>3 DEF Sink!vars
  <2>4. CASE /\ config.ignoreSendErrors /\ Settled' = Settled \cup Payloads(wbatch)
             /\ dropped' = dropped \cup Payloads(wbatch)
    <3>1. PICK k \in 0..received :
            /\ Settled \cup Payloads(wbatch) = Settled \cup {i \in data : i <= k}
            /\ Payloads(wbatch) = (Settled \cup {i \in data : i <= k}) \ Settled
      BY <2>1, BatchIsNext
    <3>2. /\ Settled' = Settled \cup {i \in data : i <= k}
          /\ dropped' = dropped \cup (Settled' \ Settled)
      BY <2>4, <3>1
    <3>3. Sink!Drop(k)
      BY <2>2, <2>4, <3>2 DEF Sink!Drop
    <3> QED BY <3>3 DEF Sink!Next
  <2> QED BY <1>6, <2>3, <2>4, SettledByWrite
<1>7. CASE WriterReports \/ WriterExits \/ CloseCall \/ CloseWait \/ CancelParent
  BY <1>1, <1>7 DEF WriterReports, WriterExits, CloseCall, CloseWait, CancelParent
<1>8. CASE UNCHANGED vars
  BY <1>1, <1>8 DEF vars
<1> QED
  BY <1>2, <1>3, <1>4, <1>5, <1>6, <1>7, <1>8 DEF Next, LoopStep, WriterStep, Sink!Next

\* The sender implements OrderedSink: payloads are taken in the order they were
\* received, none twice and none left out, and a position is only checkpointed when
\* every payload up to it has been settled.
THEOREM SenderIsOrderedSink == Spec => ImplementsOrderedSink
<1>1. Init => Sink!Init
  <2> SUFFICES ASSUME Init PROVE Sink!Init
    OBVIOUS
  <2>1. delivered = <<>> /\ dropped = {} /\ received = 0 /\ data = {} /\ acked = {}
    BY DEF Init
  <2>2. config.ignoreSendErrors \in BOOLEAN
    BY ConfigAssumption DEF Init, Config
  <2>3. Settled = {}
    BY <2>1 DEF Settled, Range
  <2> QED BY <2>1, <2>2, <2>3 DEF Sink!Init
<1> QED BY <1>1, SinkStep, TypeCorrect, Invariance, SinkInvariance, PTL
        DEF Spec, ImplementsOrderedSink, Sink!Spec

-----------------------------------------------------------------------------
(* Close waits for what was accepted. *)

\* The semaphore's queue holds callers that wait, each once.
WaitersInv ==
  /\ \A i \in DOMAIN waiters : pc[waiters[i]] = "waiting"
  /\ \A i, j \in DOMAIN waiters : waiters[i] = waiters[j] => i = j

\* A sequence without its i-th element keeps the others in their order.
Without(s, i) == SubSeq(s, 1, i - 1) \o SubSeq(s, i + 1, Len(s))

LEMMA WithoutIsShift ==
  ASSUME NEW S, NEW s \in Seq(S), NEW i \in DOMAIN s
  PROVE  /\ Without(s, i) \in Seq(S)
         /\ DOMAIN Without(s, i) = 1..(Len(s) - 1)
         /\ \A j \in 1..(Len(s) - 1) :
              Without(s, i)[j] = IF j < i THEN s[j] ELSE s[j + 1]
<1> DEFINE a == SubSeq(s, 1, i - 1)
           b == SubSeq(s, i + 1, Len(s))
<1>1. Len(s) \in Nat /\ i \in 1..Len(s) /\ \A j \in 1..Len(s) : s[j] \in S
  BY LenProperties
<1>2. a \in Seq(S) /\ Len(a) = i - 1 /\ \A j \in 1..(i - 1) : a[j] = s[j]
  BY <1>1, SubSeqProperties
<1>3. b \in Seq(S) /\ Len(b) = Len(s) - i /\ \A j \in 1..(Len(s) - i) : b[j] = s[i + j]
  BY <1>1, SubSeqProperties
<1> HIDE DEF a, b
<1>4. /\ a \o b \in Seq(S) /\ Len(a \o b) = Len(s) - 1
      /\ DOMAIN (a \o b) = 1..(Len(s) - 1)
      /\ \A j \in 1..(Len(s) - 1) : (a \o b)[j] = IF j <= i - 1 THEN a[j] ELSE b[j - (i - 1)]
  BY <1>1, <1>2, <1>3, ConcatProperties, LenProperties, SMTT(30)
<1>5. \A j \in 1..(Len(s) - 1) : (a \o b)[j] = IF j < i THEN s[j] ELSE s[j + 1]
  <2> TAKE j \in 1..(Len(s) - 1)
  <2>1. CASE j < i
    BY <1>1, <1>2, <1>4, <2>1
  <2>2. CASE ~(j < i)
    <3>1. j - (i - 1) \in 1..(Len(s) - i) /\ i + (j - (i - 1)) = j + 1
      BY <1>1, <2>2
    <3>2. (a \o b)[j] = b[j - (i - 1)]
      BY <1>1, <1>4, <2>2
    <3> QED BY <1>3, <2>2, <3>1, <3>2
  <2> QED BY <2>1, <2>2
<1> QED BY <1>4, <1>5 DEF a, b, Without

\* If they were different, they still are, and the one taken out is not among them.
LEMMA WithoutIsInjective ==
  ASSUME NEW n \in Nat, NEW i \in 1..n, NEW s, NEW t,
         \A j, k \in 1..n : s[j] = s[k] => j = k,
         \A j \in 1..(n - 1) : t[j] = IF j < i THEN s[j] ELSE s[j + 1]
  PROVE  /\ \A j \in 1..(n - 1) : t[j] # s[i] /\ \E k \in 1..n : t[j] = s[k]
         /\ \A j, k \in 1..(n - 1) : t[j] = t[k] => j = k
<1> DEFINE source(j) == IF j < i THEN j ELSE j + 1
<1>1. \A j \in 1..(n - 1) : source(j) \in 1..n /\ source(j) # i
  OBVIOUS
<1>2. \A j, k \in 1..(n - 1) : source(j) = source(k) => j = k
  OBVIOUS
<1>3. \A j \in 1..(n - 1) : t[j] = s[source(j)]
  OBVIOUS
<1> HIDE DEF source
<1> QED BY <1>1, <1>2, <1>3

LEMMA WaitersInvStep == TypeOK /\ WaitersInv /\ [Next]_vars => WaitersInv'
<1> SUFFICES ASSUME TypeOK, WaitersInv, [Next]_vars PROVE WaitersInv'
  OBVIOUS
<1> USE DEF WaitersInv, callerVars, semaVars
<1>0. /\ waiters \in Seq(Caller) /\ Len(waiters) \in Nat /\ DOMAIN waiters = 1..Len(waiters)
      /\ \A i \in DOMAIN waiters : waiters[i] \in Caller
      /\ pc \in [Caller -> {"idle", "waiting", "oversize", "sending"}]
  BY LenProperties DEF TypeOK, SemaType, CallerType
<1>1. ASSUME NEW c \in Caller, pc[c] # "waiting", UNCHANGED waiters,
             \/ UNCHANGED pc
             \/ \E there \in {"idle", "waiting", "oversize", "sending"} :
                  pc' = [pc EXCEPT ![c] = there]
      PROVE  WaitersInv'
  BY <1>0, <1>1
<1>2. ASSUME NEW c \in Caller, NEW m \in Message,
             CallAcquires(c, m) \/ CallRefused(c, m)
      PROVE  WaitersInv'
  BY <1>1, <1>2 DEF CallAcquires, CallRefused, BeginCall
<1>3. ASSUME NEW c \in Caller, NEW m \in Message, CallBlocks(c, m)
      PROVE  WaitersInv'
  <2>1. pc[c] = "idle"
    BY <1>3 DEF CallBlocks, BeginCall
  <2>2. CASE waiters' = Append(waiters, c) /\ pc' = [pc EXCEPT ![c] = "waiting"]
    <3>1. /\ DOMAIN waiters' = 1..(Len(waiters) + 1)
          /\ \A i \in 1..Len(waiters) : waiters'[i] = waiters[i]
          /\ waiters'[Len(waiters) + 1] = c
      BY <1>0, <2>2, AppendProperties
    <3>2. \A i \in DOMAIN waiters : waiters[i] # c
      BY <2>1
    <3> QED BY <1>0, <2>2, <3>1, <3>2
  <2> QED BY <1>1, <1>3, <2>1, <2>2 DEF CallBlocks
<1>4. CASE GrantWaiter
  <2>1. waiters # <<>> /\ Head(waiters) = waiters[1] /\ Len(waiters) >= 1
    BY <1>0, <1>4, HeadTailProperties, EmptySeq DEF GrantWaiter
  <2>2. /\ waiters' = Tail(waiters) /\ pc' = [pc EXCEPT ![waiters[1]] = "sending"]
        /\ DOMAIN waiters' = 1..(Len(waiters) - 1)
        /\ \A i \in 1..(Len(waiters) - 1) : waiters'[i] = waiters[i + 1]
    BY <1>0, <1>4, <2>1, HeadTailProperties, LenProperties DEF GrantWaiter
  <2> QED BY <1>0, <2>1, <2>2
<1>5. ASSUME NEW c \in Caller, CancelWait(c)
      PROVE  WaitersInv'
  <2>1. CASE pc[c] = "oversize" /\ UNCHANGED waiters
    BY <1>1, <1>5, <2>1 DEF CancelWait
  <2>2. ASSUME NEW i \in DOMAIN waiters, waiters[i] = c,
               waiters' = SubSeq(waiters, 1, i - 1) \o SubSeq(waiters, i + 1, Len(waiters))
        PROVE  WaitersInv'
    <3>1. waiters' = Without(waiters, i)
      BY <2>2 DEF Without
    <3>2. /\ DOMAIN waiters' = 1..(Len(waiters) - 1)
          /\ \A j \in 1..(Len(waiters) - 1) :
               waiters'[j] = IF j < i THEN waiters[j] ELSE waiters[j + 1]
      BY <1>0, <3>1, WithoutIsShift
    <3>3. /\ \A j \in DOMAIN waiters' :
               waiters'[j] # c /\ \E k \in DOMAIN waiters : waiters'[j] = waiters[k]
          /\ \A j, k \in DOMAIN waiters' : waiters'[j] = waiters'[k] => j = k
      <4> DEFINE n == Len(waiters)
                 t == waiters'
      <4>1. /\ n \in Nat /\ i \in 1..n
            /\ \A j, k \in 1..n : waiters[j] = waiters[k] => j = k
            /\ \A j \in 1..(n - 1) : t[j] = IF j < i THEN waiters[j] ELSE waiters[j + 1]
        BY <1>0, <3>2
      <4> HIDE DEF n, t
      <4>2. /\ \A j \in 1..(n - 1) : t[j] # waiters[i] /\ \E k \in 1..n : t[j] = waiters[k]
            /\ \A j, k \in 1..(n - 1) : t[j] = t[k] => j = k
        BY <4>1, WithoutIsInjective
      <4> QED BY <1>0, <2>2, <3>2, <4>2 DEF n, t
    <3>4. pc' = [pc EXCEPT ![c] = "idle"]
      BY <1>5 DEF CancelWait
    <3>5. \A j \in DOMAIN waiters' : waiters'[j] \in Caller /\ pc[waiters'[j]] = "waiting"
      BY <1>0, <3>3
    <3>6. \A j \in DOMAIN waiters' : pc'[waiters'[j]] = "waiting"
      BY <1>0, <3>3, <3>4, <3>5
    <3> QED BY <3>3, <3>6
  <2> QED BY <1>5, <2>1, <2>2 DEF CancelWait
<1>6. ASSUME NEW c \in Caller, SendStopped(c) \/ LoopReceive(c)
      PROVE  WaitersInv'
  BY <1>1, <1>6 DEF SendStopped, LoopReceive
<1>7. ASSUME UNCHANGED <<pc, waiters>> PROVE WaitersInv'
  BY <1>7
<1>8. CASE LoopBoot \/ LoopSpawn \/ LoopTick \/ LoopCancel \/ LoopSendErr \/ DrainHandOver
           \/ DrainSendErr \/ LoopPublish \/ LoopSignal \/ LoopEnd \/ LoopPanic
  BY <1>7, <1>8 DEF LoopBoot, LoopSpawn, LoopTick, LoopCancel, LoopSendErr, DrainHandOver,
       DrainSendErr, LoopPublish, LoopSignal, LoopEnd, LoopPanic
<1>9. CASE WriterStep \/ CloseCall \/ CloseWait \/ CancelParent
  BY <1>7, <1>9 DEF WriterStep, WriterSucceeds, WriterFails, WriterReports, WriterExits,
       CloseCall, CloseWait, CancelParent
<1>10. CASE UNCHANGED vars
  BY <1>7, <1>10 DEF vars
<1> QED
  BY <1>2, <1>3, <1>4, <1>5, <1>6, <1>8, <1>9, <1>10 DEF Next, CallStep, LoopStep

\* What Close finds: no caller is left, the loop has nothing in hand once it has
\* returned without a failed write, and the writer only leaves after a failure or
\* behind the loop.
CloseInv ==
  /\ cpc # "open" => \A c \in Caller : pc[c] = "idle"
  /\ lpc \in {"boot", "spawn"} => received = 0
  /\ wpc = "none" => lpc \in {"boot", "spawn"}
  /\ wpc = "failed" \/ errChan = "err" => failed
  /\ wpc = "exited" => failed \/ lpc = "ended"
  /\ cpc = "closed" => wpc = "exited" \/ received = 0
  /\ lpc = "drainExit" => Payloads(batch) = {}
  /\ lpc \in {"return", "signal", "defer", "ended"} /\ ~failed =>
       Payloads(batch) = {} /\ outgoing = EmptyBatch

LEMMA CloseInvStep ==
  TypeOK /\ ControlInv /\ WaitersInv /\ CloseInv /\ [Next]_vars => CloseInv'
<1> SUFFICES ASSUME TypeOK, ControlInv, WaitersInv, CloseInv, [Next]_vars PROVE CloseInv'
  OBVIOUS
<1> USE DEF CloseInv, callerVars, semaVars, loopVars, writerVars, doneVars,
            closeVars, inputVars, outputVars
<1>0. /\ Payloads(EmptyBatch) = {} /\ errChan \in {"open", "err", "closed"}
      /\ pc \in [Caller -> {"idle", "waiting", "oversize", "sending"}]
  BY BatchRanges DEF TypeOK, WriterType, CallerType
<1>1. ASSUME UNCHANGED <<lpc, batch, outgoing, wpc, errChan, cpc, received, failed>>,
             cpc # "open" =>
               UNCHANGED pc \/ \E c \in Caller : pc' = [pc EXCEPT ![c] = "idle"]
      PROVE  CloseInv'
  BY <1>0, <1>1 DEF Payloads
<1>2. ASSUME NEW c \in Caller, NEW m \in Message,
             CallAcquires(c, m) \/ CallRefused(c, m) \/ CallBlocks(c, m)
      PROVE  CloseInv'
  BY <1>1, <1>2 DEF CallAcquires, CallRefused, CallBlocks, BeginCall
<1>3. CASE CancelParent
  BY <1>1, <1>3 DEF CancelParent
<1>4. ASSUME NEW c \in Caller, CancelWait(c) \/ SendStopped(c)
      PROVE  CloseInv'
  BY <1>1, <1>4 DEF CancelWait, SendStopped
<1>5. CASE GrantWaiter
  <2>1. waiters \in Seq(Caller) /\ waiters # <<>>
    BY <1>5 DEF TypeOK, SemaType, GrantWaiter
  <2>2. 1 \in DOMAIN waiters /\ waiters[1] \in Caller
    BY <2>1, LenProperties, EmptySeq
  <2>3. cpc = "open"
    BY <2>2 DEF WaitersInv
  <2> QED BY <1>1, <1>5, <2>3 DEF GrantWaiter
<1>6. CASE LoopBoot \/ LoopSpawn
  BY <1>6 DEF LoopBoot, LoopSpawn, Payloads
<1>7. ASSUME NEW c \in Caller, LoopReceive(c)
      PROVE  CloseInv'
  <2>1. cpc = "open" /\ lpc = "select" /\ lpc' \in {"select", "drain"}
    BY <1>7 DEF LoopReceive, Enqueue
  <2> QED BY <1>7, <2>1 DEF LoopReceive
<1>8. CASE LoopTick
  BY <1>8 DEF LoopTick
<1>9. CASE LoopCancel
  <2>1. IsEmptyBatch(batch) => Payloads(batch) = {}
    BY DEF IsEmptyBatch, Payloads, Range
  <2> QED BY <1>0, <1>9, <2>1 DEF LoopCancel, ControlInv, Payloads
<1>10. CASE LoopSendErr
  BY <1>0, <1>10 DEF LoopSendErr, ControlInv
<1>11. CASE DrainHandOver
  BY <1>0, <1>11 DEF DrainHandOver, ControlInv, Payloads
<1>12. CASE DrainSendErr
  BY <1>0, <1>12 DEF DrainSendErr, ControlInv, Payloads
<1>13. CASE LoopPublish \/ LoopSignal \/ LoopEnd \/ LoopPanic
  BY <1>13 DEF LoopPublish, LoopSignal, LoopEnd, LoopPanic, Payloads
<1>14. CASE WriterSucceeds \/ WriterFails
  BY <1>14 DEF WriterSucceeds, WriterFails, Payloads
<1>nats. CASE WriterReports \/ WriterExits
  BY <1>nats DEF WriterReports, WriterExits, Payloads
<1>16. CASE CloseCall \/ CloseWait
  BY <1>16 DEF CloseCall, CloseWait, Payloads
<1>17. CASE UNCHANGED vars
  BY <1>1, <1>17 DEF vars
<1> QED
  BY <1>2, <1>3, <1>4, <1>5, <1>6, <1>7, <1>8, <1>9, <1>10, <1>11, <1>12, <1>13,
     <1>14, <1>nats, <1>16, <1>17
  DEF Next, CallStep, LoopStep, WriterStep

LEMMA CloseInvariance == Spec => [](WaitersInv /\ CloseInv)
<1>1. Init => WaitersInv /\ CloseInv
  BY DEF Init, WaitersInv, CloseInv
<1>2. TypeOK /\ ControlInv /\ WaitersInv /\ CloseInv /\ [Next]_vars => (WaitersInv /\ CloseInv)'
  BY WaitersInvStep, CloseInvStep
<1> QED BY <1>1, <1>2, TypeCorrect, Invariance, PTL DEF Spec

\* When Close returns and no write failed, every payload that was accepted has been
\* written; and the loop, whose channel it closes, runs on only after a failure or
\* when it has received nothing yet.
THEOREM CloseWaitsForAll == Spec => []CloseWaits
<1>1. TypeOK /\ ControlInv /\ DataInv /\ SinkInv /\ CloseInv => CloseWaits
  <2> SUFFICES ASSUME TypeOK, ControlInv, DataInv, SinkInv, CloseInv, cpc = "closed"
               PROVE  /\ ~failed => data \subseteq Settled
                      /\ lpc # "ended" => failed \/ received = 0
    BY DEF CloseWaits
  <2>1. lpc # "ended" => failed \/ received = 0
    BY DEF CloseInv
  <2>2. ASSUME ~failed PROVE data \subseteq Settled
    <3>1. CASE received = 0
      BY <3>1 DEF SinkInv
    <3>2. CASE received # 0
      <4>1. wpc = "exited" /\ lpc = "ended"
        BY <2>2, <3>2 DEF CloseInv
      <4>2. wbatch = EmptyBatch /\ outgoing = EmptyBatch /\ Payloads(batch) = {}
        BY <2>2, <4>1 DEF CloseInv, ControlInv
      <4>3. InFlight = {}
        BY <4>2, BatchRanges DEF InFlight
      <4> QED BY <2>2, <4>3 DEF DataInv, Covered
    <3> QED BY <3>1, <3>2
  <2> QED BY <2>1, <2>2
<1> QED BY <1>1, TypeCorrect, Invariance, SinkInvariance, CloseInvariance, PTL

-----------------------------------------------------------------------------
(* Sums over finite sets, as MapThenSumSet builds them. *)

\* A set of numbers has a least one.
LEMMA Least ==
  ASSUME NEW S \in SUBSET Nat, S # {}
  PROVE  \E p \in S : \A q \in S : p <= q
<1> SUFFICES ASSUME \A p \in S : \E q \in S : q < p PROVE FALSE
  OBVIOUS
<1> DEFINE U == {n \in Nat : \A q \in S : n < q}
           next1 == [n \in U |-> n + 1]
<1>1. 0 \in U /\ \A n \in U : n + 1 \in U
  <2>1. \A n \in Nat : (\A q \in S : n <= q) => n \in U
    OBVIOUS
  <2> QED BY <2>1
<1>2. IsFiniteSet(U)
  <2>1. PICK m \in S : TRUE
    OBVIOUS
  <2>2. \A n \in U : n <= m
    OBVIOUS
  <2> QED BY <2>2, FS_BoundedSetOfNaturals
<1>3. next1 \in Injection(U, U)
  BY <1>1 DEF Injection, IsInjective
<1>4. next1 \in Surjection(U, U)
  BY <1>2, <1>3, FS_Injection
<1>5. PICK n \in U : next1[n] = 0
  BY <1>1, <1>4 DEF Surjection
<1> QED BY <1>5

\* Induction, for the numbers that have a property as a set.
LEMMA UpTo ==
  ASSUME NEW N \in Nat, NEW S, 0 \in S, \A n \in 0..N : n \in S /\ n < N => n + 1 \in S
  PROVE  \A n \in 0..N : n \in S
<1> DEFINE Other == {n \in 0..N : n \notin S}
<1> SUFFICES ASSUME Other # {} PROVE FALSE
  OBVIOUS
<1>1. PICK m \in Other : \A q \in Other : m <= q
  <2>1. Other \in SUBSET Nat
    OBVIOUS
  <2> HIDE DEF Other
  <2> QED BY <2>1, Least
<1>2. m # 0 /\ m - 1 \in 0..N /\ m - 1 \notin Other
  BY <1>1
<1> QED BY <1>1, <1>2

Chosen(s) == CHOOSE x \in s : TRUE

\* What MapThenSumSet builds for each subset, by taking out one element at a time.
Sums(f, S) == CHOOSE g : g = [s \in SUBSET S |->
                 IF s = {} THEN 0 ELSE f[Chosen(s)] + g[s \ {Chosen(s)}]]

Smaller(S, n) == {s \in SUBSET S : Cardinality(s) <= n}

\* Taking out the chosen element leaves a smaller set.
LEMMA TakeOne ==
  ASSUME NEW S, IsFiniteSet(S), NEW s \in SUBSET S
  PROVE  /\ Cardinality(s) \in Nat /\ Cardinality(s) <= Cardinality(S)
         /\ Cardinality(s) = 0 <=> s = {}
         /\ s # {} => /\ Chosen(s) \in s /\ s \ {Chosen(s)} \in SUBSET S
                      /\ Cardinality(s \ {Chosen(s)}) = Cardinality(s) - 1
<1>1. IsFiniteSet(s) /\ Cardinality(s) <= Cardinality(S)
  BY FS_Subset
<1>2. s # {} => Chosen(s) \in s
  BY DEF Chosen
<1> QED BY <1>1, <1>2, FS_CardinalityType, FS_EmptySet, FS_RemoveElement

LEMMA SmallerSets ==
  ASSUME NEW S, IsFiniteSet(S)
  PROVE  /\ Smaller(S, 0) = {{}} /\ S \in Smaller(S, Cardinality(S))
         /\ Smaller(S, Cardinality(S)) = SUBSET S /\ Cardinality(S) \in Nat
         /\ \A n \in Nat : \A s \in Smaller(S, n + 1) :
              /\ s \in SUBSET S
              /\ s # {} => Chosen(s) \in s /\ s \ {Chosen(s)} \in Smaller(S, n)
         /\ \A n \in Nat : Smaller(S, n) \subseteq Smaller(S, n + 1)
<1>1. /\ \A s \in SUBSET S : /\ Cardinality(s) \in Nat /\ Cardinality(s) <= Cardinality(S)
                             /\ Cardinality(s) = 0 <=> s = {}
      /\ {} \in SUBSET S /\ S \in SUBSET S
  BY TakeOne
<1>2. Smaller(S, 0) = {{}}
  BY <1>1 DEF Smaller
<1>3. Smaller(S, Cardinality(S)) = SUBSET S
  BY <1>1 DEF Smaller
<1>4. ASSUME NEW n \in Nat, NEW s \in Smaller(S, n + 1)
      PROVE  /\ s \in SUBSET S
             /\ s # {} => Chosen(s) \in s /\ s \ {Chosen(s)} \in Smaller(S, n)
  BY TakeOne DEF Smaller
<1>5. \A n \in Nat : Smaller(S, n) \subseteq Smaller(S, n + 1)
  BY <1>1 DEF Smaller
<1> QED BY <1>1, <1>2, <1>3, <1>4, <1>5

LEMMA SumsExist ==
  ASSUME NEW S, IsFiniteSet(S), NEW f \in [S -> Nat]
  PROVE  Sums(f, S) = [s \in SUBSET S |->
           IF s = {} THEN 0 ELSE f[Chosen(s)] + Sums(f, S)[s \ {Chosen(s)}]]
<1> DEFINE Body(g, s) == IF s = {} THEN 0 ELSE f[Chosen(s)] + g[s \ {Chosen(s)}]
           Good == {n \in Nat : \E g \in [Smaller(S, n) -> Nat] :
                                  \A s \in Smaller(S, n) : g[s] = Body(g, s)}
<1>1. \A n \in Nat : \A s \in Smaller(S, n + 1) :
        s \in SUBSET S /\ (s # {} => Chosen(s) \in S /\ s \ {Chosen(s)} \in Smaller(S, n))
  BY SmallerSets
<1>2. 0 \in Good
  <2> DEFINE g == [s \in Smaller(S, 0) |-> 0]
  <2>1. \A s \in Smaller(S, 0) : s = {}
    BY SmallerSets
  <2>2. g \in [Smaller(S, 0) -> Nat] /\ \A s \in Smaller(S, 0) : g[s] = Body(g, s)
    BY <2>1
  <2> HIDE DEF g, Body
  <2> QED BY <2>2
<1>3. ASSUME NEW n \in Nat, n \in Good PROVE n + 1 \in Good
  <2>1. PICK g \in [Smaller(S, n) -> Nat] : \A s \in Smaller(S, n) : g[s] = Body(g, s)
    BY <1>3
  <2> DEFINE h == [s \in Smaller(S, n + 1) |-> Body(g, s)]
  <2>2. ASSUME NEW s \in Smaller(S, n + 1) PROVE h[s] \in Nat /\ h[s] = Body(g, s)
    BY <1>1, <2>2
  <2>3. Smaller(S, n) \subseteq Smaller(S, n + 1)
    BY SmallerSets
  <2>4. h \in [Smaller(S, n + 1) -> Nat]
    BY <2>2
  <2>5. \A s \in Smaller(S, n) : h[s] = g[s]
    BY <2>1, <2>2, <2>3
  <2> HIDE DEF h
  <2>6. ASSUME NEW s \in Smaller(S, n + 1) PROVE h[s] = Body(h, s)
    BY <1>1, <2>2, <2>5, <2>6
  <2> HIDE DEF Body
  <2> QED BY <2>4, <2>6
<1>4. Cardinality(S) \in Nat /\ Smaller(S, Cardinality(S)) = SUBSET S
  BY SmallerSets
<1>5. Cardinality(S) \in Good
  <2> HIDE DEF Good
  <2> QED BY <1>2, <1>3, <1>4, UpTo
<1>6. PICK g \in [SUBSET S -> Nat] : \A s \in SUBSET S : g[s] = Body(g, s)
  BY <1>4, <1>5
<1>7. g = [s \in SUBSET S |-> IF s = {} THEN 0 ELSE f[Chosen(s)] + g[s \ {Chosen(s)}]]
  BY <1>6
<1> QED BY <1>7 DEF Sums

LEMMA SumsAreNumbers ==
  ASSUME NEW S, IsFiniteSet(S), NEW f \in [S -> Nat]
  PROVE  /\ Sums(f, S)[S] \in Nat
         /\ (\A x \in S : f[x] = 0) => Sums(f, S)[S] = 0
<1> DEFINE g == Sums(f, S)
           Good == {n \in Nat : \A s \in Smaller(S, n) :
                      g[s] \in Nat /\ ((\A x \in S : f[x] = 0) => g[s] = 0)}
<1>1. \A s \in SUBSET S : g[s] = IF s = {} THEN 0 ELSE f[Chosen(s)] + g[s \ {Chosen(s)}]
  <2> DEFINE B(s) == IF s = {} THEN 0 ELSE f[Chosen(s)] + g[s \ {Chosen(s)}]
  <2>1. g = [s \in SUBSET S |-> B(s)]
    BY SumsExist
  <2> HIDE DEF g
  <2> QED BY <2>1
<1> HIDE DEF g
<1>2. 0 \in Good
  <2>1. g[{}] = 0
    BY <1>1, Zenon
  <2>2. \A s \in Smaller(S, 0) : s = {}
    BY SmallerSets
  <2> QED BY <2>1, <2>2
<1>3. ASSUME NEW n \in Nat, n \in Good PROVE n + 1 \in Good
  <2> SUFFICES ASSUME NEW s \in Smaller(S, n + 1)
               PROVE  g[s] \in Nat /\ ((\A x \in S : f[x] = 0) => g[s] = 0)
    OBVIOUS
  <2>1. s \in SUBSET S /\ (s # {} => Chosen(s) \in S /\ s \ {Chosen(s)} \in Smaller(S, n))
    BY SmallerSets
  <2>2. CASE s = {}
    <3>1. g[{}] = 0
      BY <1>1, Zenon
    <3> QED BY <2>2, <3>1
  <2>3. CASE s # {}
    <3> DEFINE c == Chosen(s)
    <3>1. c \in S /\ s \ {c} \in Smaller(S, n) /\ g[s] = f[c] + g[s \ {c}]
      BY <1>1, <2>1, <2>3
    <3> HIDE DEF c
    <3>2. g[s \ {c}] \in Nat /\ ((\A x \in S : f[x] = 0) => g[s \ {c}] = 0)
      BY <1>3, <3>1
    <3> QED BY <3>1, <3>2
  <2> QED BY <2>2, <2>3
<1>4. Cardinality(S) \in Nat /\ S \in Smaller(S, Cardinality(S))
  BY SmallerSets
<1>5. Cardinality(S) \in Good
  <2> HIDE DEF Good
  <2> QED BY <1>2, <1>3, <1>4, UpTo
<1> QED BY <1>4, <1>5 DEF g

\* When one number changes, so does the sum.
LEMMA SumChanges ==
  ASSUME NEW S, IsFiniteSet(S), NEW f \in [S -> Nat], NEW e \in [S -> Nat], NEW x \in S,
         \A y \in S \ {x} : e[y] = f[y]
  PROVE  Sums(e, S)[S] = Sums(f, S)[S] + (e[x] - f[x])
<1> DEFINE g == Sums(f, S)
           h == Sums(e, S)
           Good == {n \in Nat : \A s \in Smaller(S, n) : /\ g[s] \in Nat
                      /\ h[s] = g[s] + (IF x \in s THEN e[x] - f[x] ELSE 0)}
<1>1. \A s \in SUBSET S :
        /\ g[s] = IF s = {} THEN 0 ELSE f[Chosen(s)] + g[s \ {Chosen(s)}]
        /\ h[s] = IF s = {} THEN 0 ELSE e[Chosen(s)] + h[s \ {Chosen(s)}]
  <2>1. /\ g = [s \in SUBSET S |-> IF s = {} THEN 0 ELSE f[Chosen(s)] + g[s \ {Chosen(s)}]]
        /\ h = [s \in SUBSET S |-> IF s = {} THEN 0 ELSE e[Chosen(s)] + h[s \ {Chosen(s)}]]
    BY SumsExist
  <2> HIDE DEF g, h
  <2> QED BY <2>1
<1> HIDE DEF g, h
<1>2. 0 \in Good
  BY <1>1, SmallerSets
<1>3. ASSUME NEW n \in Nat, n \in Good PROVE n + 1 \in Good
  <2> SUFFICES ASSUME NEW s \in Smaller(S, n + 1)
               PROVE  /\ g[s] \in Nat
                      /\ h[s] = g[s] + (IF x \in s THEN e[x] - f[x] ELSE 0)
    OBVIOUS
  <2> DEFINE c == Chosen(s)
  <2>1. s \in SUBSET S /\ (s # {} => c \in s /\ s \ {c} \in Smaller(S, n))
    BY SmallerSets
  <2> HIDE DEF c
  <2>2. CASE s = {}
    <3>1. g[{}] = 0 /\ h[{}] = 0
      BY <1>1, Zenon
    <3> QED BY <2>2, <3>1
  <2>3. CASE s # {}
    <3>1. g[s] = f[c] + g[s \ {c}] /\ h[s] = e[c] + h[s \ {c}]
      BY <1>1, <2>1, <2>3 DEF c
    <3>2. /\ g[s \ {c}] \in Nat
          /\ h[s \ {c}] = g[s \ {c}] + (IF x \in s \ {c} THEN e[x] - f[x] ELSE 0)
      BY <1>3, <2>1, <2>3
    <3>3. e[c] \in Nat /\ f[c] \in Nat /\ e[x] \in Nat /\ f[x] \in Nat
      BY <2>1, <2>3
    <3>4. CASE x = c
      BY <2>1, <2>3, <3>1, <3>2, <3>3, <3>4
    <3>5. CASE x # c
      <4>1. e[c] = f[c] /\ (x \in s \ {c} <=> x \in s)
        BY <2>1, <2>3, <3>5
      <4> QED BY <3>1, <3>2, <3>3, <4>1
    <3> QED BY <3>4, <3>5
  <2> QED BY <2>2, <2>3
<1>4. Cardinality(S) \in Nat /\ S \in Smaller(S, Cardinality(S))
  BY SmallerSets
<1>5. Cardinality(S) \in Good
  <2> HIDE DEF Good
  <2> QED BY <1>2, <1>3, <1>4, UpTo
<1> QED BY <1>4, <1>5 DEF g, h

LEMMA SumIsLast == ASSUME NEW f, NEW S PROVE MapThenSumSet(LAMBDA c : f[c], S) = Sums(f, S)[S]
BY DEF MapThenSumSet, MapThenFoldSet, Sums, Chosen

-----------------------------------------------------------------------------
(* The bytes of the queue. *)

LEMMA HeldIsSum ==
  ASSUME TypeOK, ConfigAssumption
  PROVE  /\ BytesHeld \in [Caller -> Nat] /\ IsFiniteSet(Caller)
         /\ BytesHeldByCallers = Sums(BytesHeld, Caller)[Caller]
         /\ BytesHeldByCallers \in Nat
<1>1. BytesHeld \in [Caller -> Nat] /\ IsFiniteSet(Caller)
  BY DEF BytesHeld, TypeOK, CallerType, ConfigAssumption
<1>2. BytesHeldByCallers = Sums(BytesHeld, Caller)[Caller]
  BY SumIsLast DEF BytesHeldByCallers
<1> QED BY <1>1, <1>2, SumsAreNumbers

LEMMA HeldBySame ==
  ASSUME BytesHeld' = BytesHeld
  PROVE  BytesHeldByCallers' = BytesHeldByCallers
BY DEF BytesHeldByCallers, MapThenSumSet, MapThenFoldSet

\* One caller at a time acquires bytes or hands them over.
LEMMA HeldByOne ==
  ASSUME TypeOK, TypeOK', ConfigAssumption, NEW c \in Caller,
         \A d \in Caller \ {c} : pc'[d] = pc[d] /\ msg'[d] = msg[d]
  PROVE  BytesHeldByCallers' = BytesHeldByCallers + (BytesHeld'[c] - BytesHeld[c])
<1>1. /\ BytesHeld \in [Caller -> Nat] /\ IsFiniteSet(Caller)
      /\ BytesHeldByCallers = Sums(BytesHeld, Caller)[Caller]
  BY HeldIsSum
<1>2. BytesHeld' \in [Caller -> Nat]
  BY DEF BytesHeld, TypeOK, CallerType
<1>3. BytesHeldByCallers' = Sums(BytesHeld', Caller)[Caller]
  BY DEF BytesHeldByCallers, MapThenSumSet, MapThenFoldSet, Sums, Chosen
<1>4. \A d \in Caller \ {c} : BytesHeld'[d] = BytesHeld[d]
  BY DEF BytesHeld
<1> QED BY <1>1, <1>2, <1>3, <1>4, SumChanges

\* The five places where bytes can be, and what a step does to their sum.
LEMMA BytesKept ==
  ASSUME TypeOK, TypeOK', ConfigAssumption, QueueBytesAccounted, sendDone => sendDone',
         free' + (BytesHeldByCallers' + batch'.totalBytes + outgoing'.totalBytes
                    + wbatch'.totalBytes)
           = free + (BytesHeldByCallers + batch.totalBytes + outgoing.totalBytes
                       + wbatch.totalBytes)
  PROVE  QueueBytesAccounted'
<1>1. free' + BytesInFlight' = free + BytesInFlight
  BY DEF BytesInFlight
<1> QED BY <1>1 DEF QueueBytesAccounted

LEMMA Totals ==
  ASSUME TypeOK
  PROVE  /\ free \in Nat /\ batch.totalBytes \in Nat
         /\ outgoing.totalBytes \in Nat /\ wbatch.totalBytes \in Nat
BY DEF TypeOK, SemaType, LoopType, WriterType, BatchType

\* Enqueueing puts the size of the message into the batches.
LEMMA EnqueueBytes ==
  ASSUME TypeOK, outgoing = EmptyBatch, NEW n, NEW limit,
         NEW m \in [size : Nat, pos : PositionKind], Enqueue(m, n, limit)
  PROVE  batch'.totalBytes + outgoing'.totalBytes = batch.totalBytes + m.size
<1> DEFINE added == AddToBatch(batch, m, n)
           alone == AddToBatch(EmptyBatch, m, n)
<1>1. added.totalBytes = batch.totalBytes + m.size /\ alone.totalBytes = 0 + m.size
  BY EmptyBatchType DEF AddToBatch
<1>2. \/ outgoing' = batch /\ batch' = alone
      \/ outgoing' = added /\ batch' = EmptyBatch
      \/ outgoing' = EmptyBatch /\ batch' = added
  BY DEF Enqueue
<1> HIDE DEF added, alone
<1> QED BY <1>1, <1>2, EmptyBatchType, Totals

LEMMA QueueBytesStep ==
  ConfigAssumption /\ TypeOK /\ TypeOK' /\ ControlInv /\ WaitersInv
    /\ QueueBytesAccounted /\ [Next]_vars => QueueBytesAccounted'
<1> SUFFICES ASSUME ConfigAssumption, TypeOK, TypeOK', ControlInv, WaitersInv,
                    QueueBytesAccounted, [Next]_vars
             PROVE  QueueBytesAccounted'
  OBVIOUS
<1> USE DEF callerVars, semaVars, loopVars, writerVars, doneVars, closeVars, inputVars,
            outputVars
<1>0. /\ pc \in [Caller -> {"idle", "waiting", "oversize", "sending"}]
      /\ msg \in [Caller -> [size : Nat, pos : PositionKind]]
      /\ EmptyBatch.totalBytes = 0 /\ sendDone \in BOOLEAN
      /\ BytesHeldByCallers \in Nat
  BY HeldIsSum, EmptyBatchType DEF TypeOK, CallerType, DoneType
<1>nats. /\ free \in Nat /\ batch.totalBytes \in Nat
      /\ outgoing.totalBytes \in Nat /\ wbatch.totalBytes \in Nat
  BY Totals
\* No caller's bytes change.
<1>1. ASSUME \A c \in Caller : /\ (pc'[c] = "sending") <=> (pc[c] = "sending")
                               /\ pc[c] = "sending" => msg'[c] = msg[c]
      PROVE  BytesHeldByCallers' = BytesHeldByCallers
  <2>1. BytesHeld' = BytesHeld
    BY <1>1 DEF BytesHeld
  <2> QED BY <2>1, HeldBySame
<1>2. ASSUME NEW c \in Caller, NEW m \in Message, CallAcquires(c, m)
      PROVE  QueueBytesAccounted'
  <2>0. m \in [size : Nat, pos : PositionKind]
    BY MessageType
  <2>1. /\ pc[c] = "idle" /\ pc' = [pc EXCEPT ![c] = "sending"]
        /\ msg' = [msg EXCEPT ![c] = m] /\ free' = free - m.size
        /\ UNCHANGED <<loopVars, writerVars, doneVars>>
    BY <1>2 DEF CallAcquires, BeginCall
  <2>2. BytesHeld[c] = 0 /\ BytesHeld'[c] = m.size
    BY <1>0, <2>1 DEF BytesHeld
  <2>3. BytesHeldByCallers' = BytesHeldByCallers + (m.size - 0)
    BY <1>0, <2>1, <2>2, HeldByOne
  <2> QED BY <1>0, <1>nats, <2>0, <2>1, <2>3, BytesKept
<1>3. ASSUME NEW c \in Caller, NEW m \in Message, CallRefused(c, m) \/ CallBlocks(c, m)
      PROVE  QueueBytesAccounted'
  <2>1. /\ pc[c] = "idle" /\ msg' = [msg EXCEPT ![c] = m] /\ free' = free
        /\ pc' = pc \/ pc' = [pc EXCEPT ![c] = "waiting"] \/ pc' = [pc EXCEPT ![c] = "oversize"]
        /\ UNCHANGED <<loopVars, writerVars, doneVars>>
    BY <1>3 DEF CallRefused, CallBlocks, BeginCall
  <2>2. BytesHeldByCallers' = BytesHeldByCallers
    BY <1>0, <1>1, <2>1
  <2> QED BY <2>1, <2>2, BytesKept
<1>4. CASE GrantWaiter
  <2> DEFINE c == Head(waiters)
  <2>1. waiters \in Seq(Caller) /\ waiters # <<>>
    BY <1>4 DEF TypeOK, SemaType, GrantWaiter
  <2>2. c = waiters[1] /\ 1 \in DOMAIN waiters /\ c \in Caller
    BY <2>1, LenProperties, EmptySeq
  <2>3. pc[c] = "waiting"
    BY <2>2 DEF WaitersInv
  <2>4. /\ pc' = [pc EXCEPT ![c] = "sending"] /\ free' = free - msg[c].size
        /\ UNCHANGED <<msg, loopVars, writerVars, doneVars>>
    BY <1>4 DEF GrantWaiter
  <2> HIDE DEF c
  <2>5. BytesHeld[c] = 0 /\ BytesHeld'[c] = msg[c].size /\ msg[c].size \in Nat
    BY <1>0, <2>2, <2>3, <2>4 DEF BytesHeld
  <2>6. BytesHeldByCallers' = BytesHeldByCallers + (msg[c].size - 0)
    BY <1>0, <2>2, <2>4, <2>5, HeldByOne
  <2> QED BY <1>0, <1>nats, <2>4, <2>5, <2>6, BytesKept
<1>5. ASSUME NEW c \in Caller, CancelWait(c)
      PROVE  QueueBytesAccounted'
  <2>1. /\ pc[c] \in {"waiting", "oversize"} /\ pc' = [pc EXCEPT ![c] = "idle"]
        /\ UNCHANGED <<msg, free, loopVars, writerVars, doneVars>>
    BY <1>5 DEF CancelWait
  <2>2. BytesHeldByCallers' = BytesHeldByCallers
    BY <1>0, <1>1, <2>1
  <2> QED BY <2>1, <2>2, BytesKept
\* The bytes a caller leaves behind when sending has stopped.
<1>6. ASSUME NEW c \in Caller, SendStopped(c)
      PROVE  QueueBytesAccounted'
  <2>1. /\ pc[c] = "sending" /\ pc' = [pc EXCEPT ![c] = "idle"] /\ sendDone /\ sendDone'
        /\ UNCHANGED <<msg, free, loopVars, writerVars>>
    BY <1>6 DEF SendStopped
  <2>2. BytesHeld[c] \in Nat /\ BytesHeld'[c] = 0
    BY <1>0, <2>1 DEF BytesHeld
  <2>3. BytesHeldByCallers' = BytesHeldByCallers + (0 - BytesHeld[c])
    BY <1>0, <2>1, <2>2, HeldByOne
  <2>4. free' + BytesInFlight' <= free + BytesInFlight
    BY <1>0, <1>nats, <2>1, <2>2, <2>3 DEF BytesInFlight
  <2>5. /\ free + BytesInFlight \in Int /\ free' + BytesInFlight' \in Int
        /\ MaxQueueBytes \in Int
    BY <1>0, <1>nats, <2>1, <2>2, <2>3 DEF BytesInFlight, ConfigAssumption, Config
  <2> QED BY <2>1, <2>4, <2>5 DEF QueueBytesAccounted
<1>7. ASSUME NEW c \in Caller, LoopReceive(c)
      PROVE  QueueBytesAccounted'
  <2>1. /\ pc[c] = "sending" /\ pc' = [pc EXCEPT ![c] = "idle"]
        /\ UNCHANGED <<msg, free, wbatch, doneVars>>
    BY <1>7 DEF LoopReceive
  <2>2. outgoing = EmptyBatch
    BY <1>7 DEF LoopReceive, ControlInv
  <2>3. BytesHeld[c] = msg[c].size /\ BytesHeld'[c] = 0 /\ msg[c].size \in Nat
    BY <1>0, <2>1 DEF BytesHeld
  <2>4. BytesHeldByCallers' = BytesHeldByCallers + (0 - msg[c].size)
    BY <1>0, <2>1, <2>3, HeldByOne
  <2>5. batch'.totalBytes + outgoing'.totalBytes = batch.totalBytes + msg[c].size
    BY <1>0, <1>7, <2>2, EnqueueBytes DEF LoopReceive
  <2>6. batch'.totalBytes \in Nat /\ outgoing'.totalBytes \in Nat
    BY Totals DEF TypeOK, LoopType, BatchType
  <2> QED BY <1>0, <1>nats, <2>1, <2>2, <2>3, <2>4, <2>5, <2>6, BytesKept
\* The callers stand still.
<1>8. ASSUME UNCHANGED <<pc, msg>>, sendDone => sendDone',
             free' + (batch'.totalBytes + outgoing'.totalBytes + wbatch'.totalBytes)
               = free + (batch.totalBytes + outgoing.totalBytes + wbatch.totalBytes)
      PROVE  QueueBytesAccounted'
  <2>1. BytesHeldByCallers' = BytesHeldByCallers
    BY <1>1, <1>8
  <2>2. /\ free' \in Nat /\ batch'.totalBytes \in Nat
        /\ outgoing'.totalBytes \in Nat /\ wbatch'.totalBytes \in Nat
    BY DEF TypeOK, SemaType, LoopType, WriterType, BatchType
  <2> QED BY <1>0, <1>nats, <1>8, <2>1, <2>2, BytesKept
<1>9. CASE LoopBoot \/ LoopSpawn \/ LoopSendErr \/ LoopPublish \/ LoopSignal \/ LoopEnd
             \/ LoopPanic \/ WriterReports \/ WriterExits \/ CloseCall \/ CloseWait
             \/ CancelParent
  BY <1>8, <1>9 DEF LoopBoot, LoopSpawn, LoopSendErr, LoopPublish, LoopSignal, LoopEnd,
       LoopPanic, WriterReports, WriterExits, CloseCall, CloseWait, CancelParent
<1>10. CASE LoopTick \/ LoopCancel
  <2>1. outgoing.totalBytes = 0
    BY <1>0, <1>10 DEF LoopTick, LoopCancel, ControlInv
  <2>2. /\ UNCHANGED <<pc, msg, free, wbatch, sendDone>>
        /\ \/ UNCHANGED <<batch, outgoing>>
           \/ outgoing' = batch /\ batch' = EmptyBatch
    BY <1>10 DEF LoopTick, LoopCancel
  <2> QED BY <1>0, <1>nats, <1>8, <2>1, <2>2
<1>11. CASE DrainHandOver
  <2>1. wbatch.totalBytes = 0
    BY <1>0, <1>11 DEF DrainHandOver, ControlInv
  <2>2. /\ UNCHANGED <<pc, msg, free, sendDone>> /\ wbatch' = outgoing
        /\ \/ outgoing' = EmptyBatch /\ batch' = batch
           \/ outgoing' = batch /\ batch' = EmptyBatch
    BY <1>11 DEF DrainHandOver
  <2> QED BY <1>0, <1>nats, <1>8, <2>1, <2>2
\* A nil from the closed channel, which would lose the batch, is not seen here.
<1>12. CASE DrainSendErr
  <2>1. errChan = "err"
    BY <1>12 DEF DrainSendErr, ControlInv, TypeOK, WriterType
  <2> QED BY <1>8, <1>12, <2>1 DEF DrainSendErr
<1>13. CASE WriterSucceeds \/ WriterFails
  <2>1. /\ UNCHANGED <<pc, msg, batch, outgoing, sendDone>>
        /\ free' = free + wbatch.totalBytes /\ wbatch' = EmptyBatch
    BY <1>13 DEF WriterSucceeds, WriterFails
  <2> QED BY <1>0, <1>nats, <1>8, <2>1
<1>14. CASE UNCHANGED vars
  BY <1>8, <1>14 DEF vars
<1> QED
  BY <1>2, <1>3, <1>4, <1>5, <1>6, <1>7, <1>9, <1>10, <1>11, <1>12, <1>13, <1>14
  DEF Next, CallStep, LoopStep, WriterStep

\* The weighted semaphore's bytes are those of the messages between SendMessage and
\* the end of their write (wal_batch_sender.go): while messages are taken, for
\* every number of callers and every mix of sizes, none leaks and none is released
\* twice, whichever writes fail.
THEOREM QueueIsAccounted == Spec => []QueueBytesAccounted
<1>1. Init /\ ConfigAssumption /\ TypeOK => QueueBytesAccounted
  <2> SUFFICES ASSUME Init, ConfigAssumption, TypeOK PROVE QueueBytesAccounted
    OBVIOUS
  <2>1. \A c \in Caller : BytesHeld[c] = 0
    BY DEF Init, BytesHeld
  <2>2. BytesHeldByCallers = 0
    BY <2>1, HeldIsSum, SumsAreNumbers
  <2>3. /\ free = MaxQueueBytes /\ MaxQueueBytes \in Nat /\ batch.totalBytes = 0
        /\ outgoing.totalBytes = 0 /\ wbatch.totalBytes = 0
    BY EmptyBatchType DEF Init, ConfigAssumption, Config
  <2> QED BY <2>2, <2>3 DEF QueueBytesAccounted, BytesInFlight
<1> QED
  BY <1>1, QueueBytesStep, TypeCorrect, Invariance, CloseInvariance, ConfigAssumption, PTL
  DEF Spec

-----------------------------------------------------------------------------
(* The tuner's search: what is measured stays inside the interval that is  *)
(* left, and the interval gets shorter.  The argument is about halves of   *)
(* whole numbers: the search goes on only with a length above Threshold,   *)
(* hence of two or more, and the half of it is then strictly inside.       *)

\* The setting being measured is a record, whatever its fields hold.
IsSetting(m) ==
  m = [value |-> m.value, direction |-> m.direction, throughputs |-> m.throughputs,
       count |-> m.count, skipped |-> m.skipped]

\* Before the first setting is through, nothing has moved.
AtStart ==
  /\ minBytes = MinTunedBytes /\ maxBytes = MaxTunedBytes
  /\ measurement.value = Median(minBytes, maxBytes)

IInv ==
  /\ TunerTypeOK
  /\ IsSetting(measurement)
  /\ candidate = {} => AtStart
  /\ InsideTheInterval

\* The interval the next setting is taken from, and what holds for it.
Halved(lo, hi, v) == v \in Int /\ lo <= v /\ v <= hi /\ (hi - lo > Threshold => lo < v /\ v < hi)

LEMMA MedianHalves ==
  ASSUME NEW lo \in Int, NEW hi \in Int, lo <= hi
  PROVE  Halved(lo, hi, Median(lo, hi))
BY TunerAssumption DEF AutoTuneConfig, Halved, Median

LEMMA BytesAreNumbers == Bytes \subseteq Int /\ MinTunedBytes \in Int /\ MaxTunedBytes \in Int
BY TunerAssumption DEF AutoTuneConfig, Bytes

\* A new setting is a record with the value and the direction it is made of.
LEMMA SettingFields ==
  ASSUME NEW v, NEW d
  PROVE  /\ IsSetting(Setting(v, d))
         /\ Setting(v, d).value = v /\ Setting(v, d).direction = d
BY DEF IsSetting, Setting

\* A measurement leaves the value and the direction of its setting.
LEMMA AddedFields ==
  ASSUME NEW m, IsSetting(m), NEW x
  PROVE  /\ IsSetting(AddThroughput(m, x))
         /\ AddThroughput(m, x).value = m.value
         /\ AddThroughput(m, x).direction = m.direction
BY DEF AddThroughput, IsSetting

LEMMA InitIsInside == TunerInit => IInv
<1> SUFFICES ASSUME TunerInit PROVE IInv
  OBVIOUS
<1>1. MinTunedBytes \in Int /\ MaxTunedBytes \in Int /\ MinTunedBytes <= MaxTunedBytes
  BY TunerAssumption DEF AutoTuneConfig
<1>2. Halved(MinTunedBytes, MaxTunedBytes, Median(MinTunedBytes, MaxTunedBytes))
  BY <1>1, MedianHalves
<1>3. /\ IsSetting(measurement) /\ measurement.direction = "none"
      /\ measurement.value = Median(MinTunedBytes, MaxTunedBytes)
  BY SettingFields DEF TunerInit
<1>4. /\ minBytes = MinTunedBytes /\ maxBytes = MaxTunedBytes /\ candidate = {}
      /\ tuningErr = FALSE /\ network \in Networks
  BY DEF TunerInit
<1> DEFINE v == measurement.value
<1>5. /\ v \in Int /\ minBytes <= v /\ v <= maxBytes
      /\ maxBytes - minBytes > Threshold => minBytes < v /\ v < maxBytes
  BY <1>2, <1>3, <1>4 DEF Halved
<1>6. TunerTypeOK
  <2>1. minBytes \in Bytes /\ maxBytes \in Bytes /\ minBytes <= maxBytes /\ v \in Bytes
    BY <1>1, <1>4, <1>5 DEF Bytes
  <2> QED  BY <1>3, <1>4, <2>1 DEF TunerTypeOK
<1>7. InsideTheInterval
  BY <1>1, <1>4, <1>5, TunerAssumption DEF AutoTuneConfig, InsideTheInterval, HasConverged
<1> QED  BY <1>3, <1>4, <1>6, <1>7 DEF IInv, AtStart

\* What the three ways of choosing the next setting have in common: the new
\* interval is a part of the old one, and the new setting halves a part of that.
Narrower(m) ==
  /\ \/ maxBytes' = m.value /\ minBytes' = minBytes
     \/ minBytes' = m.value /\ maxBytes' = maxBytes
  /\ IsSetting(measurement') /\ measurement'.direction \in {"left", "right"}
  /\ measurement'.value = Median(minBytes', maxBytes')

LEMMA NextNarrows ==
  ASSUME NEW m, IsSetting(m), candidate # {}, CalculateNextSetting(m)
  PROVE  Narrower(m) /\ candidate' \in {candidate, {m}}
<1>1. GoLeft(m) \/ GoRight(m)
  BY DEF CalculateNextSetting
<1>2. Narrower(m)
  <2>1. CASE GoLeft(m)
    BY <2>1, SettingFields DEF GoLeft, Narrower
  <2>2. CASE GoRight(m)
    BY <2>2, SettingFields DEF GoRight, Narrower
  <2> QED  BY <1>1, <2>1, <2>2
<1> QED  BY <1>2 DEF CalculateNextSetting

\* The step to the next setting preserves the invariant and, after the first one,
\* shortens the interval.
LEMMA NextSetting ==
  ASSUME IInv, ~HasConverged, network' = network, tuningErr' = tuningErr,
         NEW m, IsSetting(m), m.value = measurement.value, m.direction = measurement.direction,
         CalculateNextSetting(m)
  PROVE  /\ IInv'
         /\ minBytes <= minBytes' /\ maxBytes' <= maxBytes
         /\ candidate # {} /\ measurement.value # minBytes
            => maxBytes' - minBytes' < maxBytes - minBytes
<1> DEFINE v == measurement.value
<1>1. /\ minBytes \in Int /\ maxBytes \in Int /\ v \in Int
      /\ MinTunedBytes \in Int /\ MaxTunedBytes \in Int
      /\ MinTunedBytes <= minBytes /\ maxBytes <= MaxTunedBytes
      /\ minBytes <= v /\ v < maxBytes
      /\ v = minBytes => candidate # {} /\ minBytes = MinTunedBytes /\ maxBytes = MaxTunedBytes
  BY BytesAreNumbers DEF IInv, TunerTypeOK, InsideTheInterval, Bytes
<1>2. CASE candidate = {}
  <2>1. /\ measurement' = Setting(Median(minBytes, m.value), "left")
        /\ candidate' = {m} /\ minBytes' = minBytes /\ maxBytes' = maxBytes
    BY <1>2 DEF CalculateNextSetting, NextOfFirst
  <2>2. Halved(minBytes, v, Median(minBytes, v))
    BY <1>1, MedianHalves
  <2>3. /\ IsSetting(measurement') /\ measurement'.direction = "left"
        /\ measurement'.value = Median(minBytes, v)
    BY <2>1, SettingFields
  <2>4. v > minBytes
    BY <1>1, <1>2
  <2>5. measurement'.value >= minBytes /\ measurement'.value < maxBytes /\ measurement'.value \in Int
    BY <1>1, <2>2, <2>3 DEF Halved
  <2>6. minBytes = MinTunedBytes /\ maxBytes = MaxTunedBytes
    BY <1>2 DEF IInv, AtStart
  <2>7. TunerTypeOK'
    BY <1>1, <2>1, <2>3, <2>5 DEF IInv, TunerTypeOK, Bytes
  <2>8. InsideTheInterval'
    BY <1>1, <2>1, <2>5, <2>6 DEF InsideTheInterval
  <2> QED  BY <1>1, <1>2, <2>1, <2>3, <2>7, <2>8 DEF IInv
<1>3. CASE candidate # {}
  <2>1. Narrower(m) /\ candidate' \in {candidate, {m}}
    BY <1>3, NextNarrows
  <2>2. /\ minBytes' \in Int /\ maxBytes' \in Int
        /\ minBytes <= minBytes' /\ maxBytes' <= maxBytes /\ minBytes' <= maxBytes'
        /\ v # minBytes => maxBytes' - minBytes' < maxBytes - minBytes
    BY <1>1, <2>1 DEF Narrower
  <2>3. Halved(minBytes', maxBytes', measurement'.value)
    BY <2>1, <2>2, MedianHalves DEF Narrower
  <2>4. TunerTypeOK'
    BY <1>1, <2>1, <2>2, <2>3 DEF IInv, TunerTypeOK, Bytes, Narrower, Halved
  <2>5. InsideTheInterval'
    BY <2>2, <2>3, TunerAssumption DEF AutoTuneConfig, InsideTheInterval, HasConverged, Halved
  <2> QED  BY <1>3, <2>1, <2>2, <2>4, <2>5 DEF IInv, Narrower
<1> QED  BY <1>2, <1>3

\* What a step does, with the invariant.
Kept ==
  /\ IInv'
  /\ minBytes <= minBytes' /\ maxBytes' <= maxBytes
  /\ candidate # {} /\ measurement'.value # measurement.value /\ measurement.value # minBytes
     => maxBytes' - minBytes' < maxBytes - minBytes

\* A setting that keeps its value and direction keeps the invariant.
LEMMA SameSetting ==
  ASSUME IInv, UNCHANGED <<network, minBytes, maxBytes, candidate>>, tuningErr' \in BOOLEAN,
         IsSetting(measurement'), measurement'.value = measurement.value,
         measurement'.direction = measurement.direction
  PROVE  Kept
<1>1. TunerTypeOK'
  BY DEF IInv, TunerTypeOK
<1>2. minBytes \in Int /\ maxBytes \in Int
  BY BytesAreNumbers DEF IInv, TunerTypeOK
<1>3. (candidate = {} => AtStart)' /\ InsideTheInterval'
  BY DEF IInv, AtStart, InsideTheInterval, HasConverged
<1> QED  BY <1>1, <1>2, <1>3 DEF Kept, IInv

LEMMA Step ==
  ASSUME IInv, NEW bytes, NEW x, SendBatch(bytes, x)
  PROVE  Kept
<1>1. ~HasConverged
  BY DEF SendBatch
<1>2. CASE RecordMeasurement(x)
  <2> DEFINE m == AddThroughput(measurement, x)
  <2>1. IsSetting(m) /\ m.value = measurement.value /\ m.direction = measurement.direction
    BY AddedFields DEF IInv
  <2> HIDE DEF m
  <2>2. CASE HasMinSamples(m) /\ IsStable(m)
    <3>1. CalculateNextSetting(m) /\ network' = network /\ tuningErr' = tuningErr
      BY <1>2, <2>2 DEF RecordMeasurement, m
    <3>2. /\ IInv'
          /\ minBytes <= minBytes' /\ maxBytes' <= maxBytes
          /\ candidate # {} /\ measurement.value # minBytes
             => maxBytes' - minBytes' < maxBytes - minBytes
      BY <1>1, <2>1, <3>1, NextSetting
    <3> QED  BY <3>2 DEF Kept
  <2>3. CASE ~(HasMinSamples(m) /\ IsStable(m))
    <3>1. /\ UNCHANGED <<network, minBytes, maxBytes, candidate>> /\ measurement' = m
          /\ tuningErr' = (HasMinSamples(m) /\ HasMaxSamples(m))
      BY <1>2, <2>3 DEF RecordMeasurement, m
    <3>2. tuningErr' \in BOOLEAN
      BY <3>1
    <3> QED  BY <2>1, <3>1, <3>2, SameSetting
  <2> QED  BY <2>2, <2>3
<1>3. CASE SkipMeasurement
  <2>1. DOMAIN measurement = {"value", "direction", "throughputs", "count", "skipped"}
    BY DEF IInv, IsSetting
  <2>2. /\ IsSetting(measurement') /\ measurement'.value = measurement.value
        /\ measurement'.direction = measurement.direction
    BY <1>3, <2>1 DEF SkipMeasurement, IInv, IsSetting
  <2>3. UNCHANGED <<network, minBytes, maxBytes, candidate>> /\ tuningErr' \in BOOLEAN
    BY <1>3 DEF SkipMeasurement, IInv, TunerTypeOK
  <2> QED  BY <2>2, <2>3, SameSetting
<1> QED  BY <1>2, <1>3 DEF SendBatch

LEMMA EveryStep == IInv /\ [TunerNext]_tunerVars => Kept
<1> SUFFICES ASSUME IInv, [TunerNext]_tunerVars PROVE Kept
  OBVIOUS
<1>1. CASE TunerNext
  BY <1>1, Step DEF TunerNext, SendFullBatch, SendShortBatch
<1>2. CASE UNCHANGED tunerVars
  <2>1. IsSetting(measurement') /\ tuningErr' \in BOOLEAN
    BY <1>2 DEF IInv, TunerTypeOK, tunerVars
  <2> QED  BY <1>2, <2>1, SameSetting DEF tunerVars
<1> QED  BY <1>1, <1>2

\* The values measured and the ends of the interval stay within the configured
\* limits.
THEOREM TunerTypeCorrect == TunerSpec => []TunerTypeOK
<1>1. IInv => TunerTypeOK
  BY DEF IInv
<1>2. Kept => IInv'
  BY DEF Kept
<1> QED  BY InitIsInside, EveryStep, <1>1, <1>2, PTL DEF TunerSpec

\* What is measured is inside the interval that is left: the search cannot ask for
\* a setting it has ruled out.
THEOREM TunerStaysInside == TunerSpec => []InsideTheInterval
<1>1. IInv => InsideTheInterval
  BY DEF IInv
<1>2. Kept => IInv'
  BY DEF Kept
<1> QED  BY InitIsInside, EveryStep, <1>1, <1>2, PTL DEF TunerSpec

\* Every setting measured after the first shortens the interval: the search
\* cannot go round in circles.
THEOREM TunerSearchNarrows == TunerSpec => SearchNarrows
<1>1. IInv /\ Kept => IInv'
  BY DEF Kept
<1>2. Kept =>
        [ /\ minBytes <= minBytes' /\ maxBytes' <= maxBytes
          /\ candidate # {} /\ measurement'.value # measurement.value /\ measurement.value # minBytes
             => maxBytes' - minBytes' < maxBytes - minBytes ]_tunerVars
  BY DEF Kept
<1> QED  BY InitIsInside, EveryStep, <1>1, <1>2, PTL DEF TunerSpec, SearchNarrows

-----------------------------------------------------------------------------
(* Sequences that grow.                                                    *)

\* The elements of a sequence.
Elements(s) == {s[k] : k \in DOMAIN s}

\* Any sequence grown by an element.
LEMMA AppendsElement ==
  ASSUME NEW T, NEW s \in Seq(T), NEW x
  PROVE  /\ Append(s, x) \in Seq(Elements(Append(s, x)))
         /\ Elements(Append(s, x)) = Elements(s) \cup {x}
<1> DEFINE t == Append(s, x)
<1>1. s \in Seq(T \cup {x}) /\ x \in T \cup {x}
  OBVIOUS
<1>2. /\ t \in Seq(T \cup {x}) /\ Len(t) = Len(s) + 1 /\ \A i \in 1..Len(s) : t[i] = s[i]
      /\ t[Len(s) + 1] = x
  BY <1>1, AppendProperties
<1>3. /\ Len(s) \in Nat /\ DOMAIN s = 1..Len(s) /\ Len(t) \in Nat /\ DOMAIN t = 1..Len(t)
      /\ t = [i \in 1..Len(t) |-> t[i]]
  BY <1>2, LenProperties
<1> HIDE DEF t
<1>4. Elements(t) = Elements(s) \cup {x}
  BY <1>2, <1>3 DEF Elements
<1>5. t \in [1..Len(t) -> Elements(t)]
  BY <1>3 DEF Elements
<1>6. t \in Seq(Elements(t))
  BY <1>3, <1>5, SeqDef
<1> QED BY <1>4, <1>6 DEF t

-----------------------------------------------------------------------------
(* What is kept: the event chain.                                          *)

IsTable(t) == t = [id |-> t.id, atts |-> t.atts, cols |-> t.cols, key |-> t.key]

\* A message that describes a table: any but that of a drop.
IsDescription(e) == IsDDL(e) /\ e.op # "drop"
Describes(w, i, n) == IsDescription(w[i]) /\ n \in w[i].names

\* In the log w, the message at j is the last before position p that describes n.
LastWord(w, j, n, p) == Describes(w, j, n) /\ \A k \in j + 1..p - 1 : ~Describes(w, k, n)

\* A table is what the log before p says last, and the schema diffs name each of its
\* columns that was not there at the start.
Told(w, t, n, p) ==
  /\ \A j \in 1..p - 1 : LastWord(w, j, n, p) => t = w[j].table
  /\ n \in DOMAIN Tables \/ \E j \in 1..p - 1 : n \in DiffTables(w[j])
  /\ "shortAdd" \notin DDLOps =>
       \A c \in NamesIn(t) :
         \/ c \in NamesIn(StartingTables[n])
         \/ \E j \in 1..p - 1 : n \in DiffTables(w[j]) /\ c \in DiffColumns(w[j])

IsEntry(e) ==
  /\ IsDescription(e) => Exists(e.table) /\ \E n \in Name : e.names = {n}
  /\ IF IsDDL(e) THEN e.names \subseteq Name ELSE e.name \in Name

LogInv ==
  /\ wal \in Seq(Elements(wal))
  /\ catalog = [n \in Name |-> catalog[n]] /\ \A n \in Name : IsTable(catalog[n])
  /\ \A i \in 1..Len(wal) :
       IsEntry(wal[i]) /\ (~IsDDL(wal[i]) => Told(wal, wal[i].table, wal[i].name, i))
  /\ \A n \in Name : Exists(catalog[n]) => Told(wal, catalog[n], n, Len(wal) + 1)

\* The events that are not refused by the transformer.
Accepted == {e \in Elements(wal) : IsDDL(e) /\ ~Filtered(e) => ~Blocked(e)}

\* What the chain has processed, and what a restart may give it again, was accepted.
PositionInv ==
  /\ at \in 0..Len(wal) /\ flushed \in 0..Len(wal)
  /\ buffered \in Seq(Elements(buffered)) /\ \A m \in Elements(buffered) : m.pos \in 1..at
  /\ \A j \in 1..Len(wal) : j <= at \/ j <= flushed => wal[j] \in Accepted

\* The injector's description of a table that passes the filter is the last that the
\* log gives before the next event.
CacheInv ==
  /\ described = [s \in DOMAIN described |-> described[s]]
  /\ Name \subseteq DOMAIN described /\ seen \subseteq Name
  /\ status = "running" => \A n \in seen \ Quoted : ~SkipEvent(n) =>
       \E j \in 1..at : LastWord(wal, j, n, at + 1) /\ described[n] = wal[j].table

ChainInv ==
  /\ LogInv /\ PositionInv /\ CacheInv /\ InjectedIdsAreTheirs
  /\ "shortAdd" \notin DDLOps => NothingPassesUnmasked

-----------------------------------------------------------------------------
(* The event chain.                                                        *)

\* What a step of the source does to log and catalog.
Recorded(e) ==
  /\ wal' = Append(wal, e) /\ catalog' = [n \in Name |-> catalog'[n]]
  /\ UNCHANGED <<settings, chainVars, targetVars>>
  /\ \A n \in Name : IsTable(catalog'[n])
  /\ IsEntry(e)
  /\ ~IsDDL(e) => e.table = catalog[e.name] /\ Exists(catalog[e.name])
  /\ \A n \in Name : Exists(catalog'[n]) =>
       IF IsDescription(e) /\ n \in e.names
       THEN /\ catalog'[n] = e.table
            /\ n \in DiffTables(e) \/ Exists(catalog[n])
            /\ "shortAdd" \notin DDLOps =>
                 \A c \in NamesIn(e.table) :
                   \/ n \in DiffTables(e) /\ c \in DiffColumns(e)
                   \/ Exists(catalog[n]) /\ c \in NamesIn(catalog[n])
       ELSE catalog'[n] = catalog[n]

LEMMA TableParts ==
  ASSUME NEW i, NEW a, NEW c, NEW k, NEW t, t = [id |-> i, atts |-> a, cols |-> c, key |-> k]
  PROVE  IsTable(t) /\ t.id = i /\ t.atts = a /\ t.cols = c /\ t.key = k
BY DEF IsTable

LEMMA TableWithColumns ==
  ASSUME NEW t, IsTable(t), NEW c
  PROVE  [t EXCEPT !.cols = c] = [id |-> t.id, atts |-> t.atts, cols |-> c, key |-> t.key]
<1> DEFINE With(r) == [r EXCEPT !.cols = c]
           r == [id |-> t.id, atts |-> t.atts, cols |-> t.cols, key |-> t.key]
<1>1. With(r) = [id |-> t.id, atts |-> t.atts, cols |-> c, key |-> t.key]
  OBVIOUS
<1>2. t = r
  BY DEF IsTable
<1>3. With(t) = With(r)
  <2> HIDE DEF With, r
  <2> QED BY <1>2
<1> QED BY <1>1, <1>3

LEMMA TableWithKey ==
  ASSUME NEW t, IsTable(t), NEW k
  PROVE  [t EXCEPT !.key = k] = [id |-> t.id, atts |-> t.atts, cols |-> t.cols, key |-> k]
<1> DEFINE With(r) == [r EXCEPT !.key = k]
           r == [id |-> t.id, atts |-> t.atts, cols |-> t.cols, key |-> t.key]
<1>1. With(r) = [id |-> t.id, atts |-> t.atts, cols |-> t.cols, key |-> k]
  OBVIOUS
<1>2. t = r
  BY DEF IsTable
<1>3. With(t) = With(r)
  <2> HIDE DEF With, r
  <2> QED BY <1>2
<1> QED BY <1>1, <1>3

LEMMA TableWithColumn ==
  ASSUME NEW t, IsTable(t), NEW a, NEW c
  PROVE  [t EXCEPT !.atts = a, !.cols = c] = [id |-> t.id, atts |-> a, cols |-> c, key |-> t.key]
<1> DEFINE With(r) == [r EXCEPT !.atts = a, !.cols = c]
           r == [id |-> t.id, atts |-> t.atts, cols |-> t.cols, key |-> t.key]
           q == [id |-> t.id, atts |-> a, cols |-> t.cols, key |-> t.key]
<1>1. [r EXCEPT !.atts = a] = q
  OBVIOUS
<1>2. [q EXCEPT !.cols = c] = [id |-> t.id, atts |-> a, cols |-> c, key |-> t.key]
  OBVIOUS
<1>3. With(r) = [id |-> t.id, atts |-> a, cols |-> c, key |-> t.key]
  <2> DEFINE f(x) == [x EXCEPT !.cols = c]
             g(x) == [x EXCEPT !.atts = a]
  <2>1. f(g(r)) = f(q)
    <3> HIDE DEF f, q
    <3> QED BY <1>1
  <2> QED BY <1>2, <2>1
<1>4. t = r
  BY DEF IsTable
<1>5. With(t) = With(r)
  <2> HIDE DEF With, r
  <2> QED BY <1>4
<1> QED BY <1>3, <1>5
\* A statement about one table, which it leaves as t.
LEMMA OneTable ==
  ASSUME LogInv, NEW e, NEW n \in Name, NEW t,
         Logged(e, [catalog EXCEPT ![n] = t]), IsDescription(e), e.names = {n}, e.table = t,
         IsTable(t), Exists(t),
         n \in DiffTables(e) \/ Exists(catalog[n]),
         "shortAdd" \notin DDLOps =>
           \A c \in NamesIn(t) : \/ n \in DiffTables(e) /\ c \in DiffColumns(e)
                                 \/ Exists(catalog[n]) /\ c \in NamesIn(catalog[n])
  PROVE  Recorded(e)
<1>1. /\ wal' = Append(wal, e) /\ catalog' = [catalog EXCEPT ![n] = t]
      /\ UNCHANGED <<settings, chainVars, targetVars>>
  BY DEF Logged
<1>2. catalog = [m \in Name |-> catalog[m]] /\ \A m \in Name : IsTable(catalog[m])
  BY DEF LogInv
<1>3. /\ catalog' = [m \in Name |-> catalog'[m]] /\ catalog'[n] = t
      /\ \A m \in Name \ {n} : catalog'[m] = catalog[m]
  BY <1>1, <1>2
<1>4. IsEntry(e)
  BY DEF IsEntry, IsDescription
<1>5. \A m \in Name : IsTable(catalog'[m])
  BY <1>2, <1>3
<1> QED BY <1>1, <1>3, <1>4, <1>5 DEF Recorded, IsDescription

LEMMA Creates ==
  ASSUME LogInv, NEW n \in Name, NEW l \in Layouts, CreateTable(n, l)
  PROVE  \E e : Recorded(e)
<1> DEFINE t == Made(l, 10 + Len(wal))
           e == OnTable("create", n, "-", "-", t)
<1>1. Len(wal) \in Nat
  BY LenProperties DEF LogInv
<1>2. IsTable(t) /\ Exists(t)
  BY <1>1 DEF IsTable, Made, Exists
<1> HIDE DEF t
<1>3. IsDescription(e) /\ e.names = {n} /\ e.table = t /\ n \in DiffTables(e)
  BY DEF IsDescription, IsDDL, AllDDL, OnTable, DDLMessage, DiffTables
<1>4. DiffColumns(e) = NamesIn(t)
  BY DEF DiffColumns, OnTable, DDLMessage
<1>5. Logged(e, [catalog EXCEPT ![n] = t])
  BY DEF CreateTable, t
<1> HIDE DEF e
<1> QED BY <1>2, <1>3, <1>4, <1>5, OneTable

LEMMA DropsTables ==
  ASSUME LogInv, NEW S \in SUBSET Name, DropTables(S)
  PROVE  \E e : Recorded(e)
<1> DEFINE e == DDLMessage("drop", S, FALSE, "-", "-", "-", NoTable)
<1>1. /\ wal' = Append(wal, e)
      /\ catalog' = [n \in Name |-> IF n \in S THEN NoTable ELSE catalog[n]]
      /\ UNCHANGED <<settings, chainVars, targetVars>>
  BY DEF DropTables, Logged
<1>2. IsDDL(e) /\ ~IsDescription(e) /\ e.names \subseteq Name
  BY DEF IsDescription, IsDDL, AllDDL, DDLMessage
<1> HIDE DEF e
<1>3. ~Exists(NoTable) /\ IsTable(NoTable)
  BY DEF Exists, NoTable, IsTable
<1>4. \A n \in Name : IsTable(catalog'[n])
  BY <1>1, <1>3 DEF LogInv
<1> QED BY <1>1, <1>2, <1>3, <1>4 DEF Recorded, IsEntry

LEMMA AddsColumn ==
  ASSUME LogInv, NEW op, NEW n \in Name, NEW c, NEW kind, AddColumn(op, n, c, kind)
  PROVE  \E e : Recorded(e)
<1> DEFINE col == [att |-> catalog[n].atts + 1, name |-> c, kind |-> kind]
           t == [catalog[n] EXCEPT !.atts = @ + 1, !.cols = @ \cup {col}]
           e == OnTable(op, n, c, kind, t)
<1>1. /\ op \in {"addColumn", "shortAdd"} /\ op \in DDLOps /\ Exists(catalog[n])
      /\ Logged(e, [catalog EXCEPT ![n] = t])
  BY DEF AddColumn, Runs
<1>2. IsTable(catalog[n])
  BY DEF LogInv
<1>3. t.cols = catalog[n].cols \cup {col} /\ t.id = catalog[n].id /\ IsTable(t)
  <2>1. t = [id |-> catalog[n].id, atts |-> catalog[n].atts + 1,
             cols |-> catalog[n].cols \cup {col}, key |-> catalog[n].key]
    BY <1>2, TableWithColumn, Zenon
  <2> HIDE DEF t, col
  <2> QED BY <2>1, TableParts
<1>4. \A d \in NamesIn(t) : d = c \/ d \in NamesIn(catalog[n])
  BY <1>3 DEF NamesIn
<1>5. Exists(t)
  BY <1>1, <1>3 DEF Exists
<1> HIDE DEF t
<1>6. /\ IsDescription(e) /\ e.names = {n} /\ e.table = t
      /\ op = "addColumn" => n \in DiffTables(e) /\ DiffColumns(e) = {c}
  BY <1>1 DEF IsDescription, IsDDL, AllDDL, OnTable, DDLMessage, DiffTables, DiffColumns
<1> HIDE DEF e
<1> QED BY <1>1, <1>3, <1>4, <1>5, <1>6, OneTable

LEMMA DropsColumn ==
  ASSUME LogInv, NEW n \in Name, NEW c, DropColumn(n, c)
  PROVE  \E e : Recorded(e)
<1> DEFINE t == [catalog[n] EXCEPT !.cols = {d \in @ : d.name # c}]
           e == OnTable("dropColumn", n, c, "-", t)
<1>1. Exists(catalog[n]) /\ Logged(e, [catalog EXCEPT ![n] = t])
  BY DEF DropColumn
<1>2. IsTable(catalog[n])
  BY DEF LogInv
<1>3. t.cols \subseteq catalog[n].cols /\ t.id = catalog[n].id /\ IsTable(t)
  <2> DEFINE left == {d \in catalog[n].cols : d.name # c}
  <2>1. t = [id |-> catalog[n].id, atts |-> catalog[n].atts, cols |-> left, key |-> catalog[n].key]
    BY <1>2, TableWithColumns, Zenon
  <2>2. left \subseteq catalog[n].cols
    OBVIOUS
  <2> HIDE DEF t, left
  <2> QED BY <2>1, <2>2, TableParts
<1>4. NamesIn(t) \subseteq NamesIn(catalog[n])
  BY <1>3 DEF NamesIn
<1>5. Exists(t)
  BY <1>1, <1>3 DEF Exists
<1> HIDE DEF t
<1>6. IsDescription(e) /\ e.names = {n} /\ e.table = t
  BY DEF IsDescription, IsDDL, AllDDL, OnTable, DDLMessage
<1> HIDE DEF e
<1> QED BY <1>1, <1>3, <1>4, <1>5, <1>6, OneTable

LEMMA RenamesColumn ==
  ASSUME LogInv, NEW op \in {"renameColumn", "renameGenerated"}, NEW n \in Name, NEW c, NEW d,
         RenameColumn(op, n, c, d)
  PROVE  \E e : Recorded(e)
<1> DEFINE t == Renamed(catalog[n], c, d)
           e == DDLMessage(op, {n}, TRUE, c, d, "-", t)
<1>1. Exists(catalog[n]) /\ Logged(e, [catalog EXCEPT ![n] = t])
  BY DEF RenameColumn
<1>2. IsTable(catalog[n])
  BY DEF LogInv
<1>3. /\ t.cols = {IF x.name = c THEN [x EXCEPT !.name = d] ELSE x : x \in catalog[n].cols}
      /\ t.id = catalog[n].id /\ IsTable(t)
  <2> DEFINE now == {IF x.name = c THEN [x EXCEPT !.name = d] ELSE x : x \in catalog[n].cols}
  <2>1. t = [id |-> catalog[n].id, atts |-> catalog[n].atts, cols |-> now, key |-> catalog[n].key]
    BY <1>2, TableWithColumns, Zenon DEF Renamed
  <2> HIDE DEF t, now
  <2>2. t.cols = now /\ t.id = catalog[n].id /\ IsTable(t)
    BY <2>1, TableParts
  <2> QED BY <2>2 DEF now
<1>4. \A x \in NamesIn(t) : x = d \/ x \in NamesIn(catalog[n])
  <2> SUFFICES ASSUME NEW y \in t.cols, y.name # d PROVE y.name \in NamesIn(catalog[n])
    BY DEF NamesIn
  <2>1. PICK z \in catalog[n].cols : y = IF z.name = c THEN [z EXCEPT !.name = d] ELSE z
    BY <1>3
  <2>2. z.name = c => y.name = d
    BY <2>1
  <2> QED BY <2>1, <2>2 DEF NamesIn
<1>5. Exists(t)
  BY <1>1, <1>3 DEF Exists
<1> HIDE DEF t
<1>6. /\ IsDescription(e) /\ e.names = {n} /\ e.table = t
      /\ n \in DiffTables(e) /\ DiffColumns(e) = {d}
  BY DEF IsDescription, IsDDL, AllDDL, DDLMessage, DiffTables, DiffColumns
<1> HIDE DEF e
<1> QED BY <1>1, <1>3, <1>4, <1>5, <1>6, OneTable

LEMMA RenamesTable ==
  ASSUME LogInv, NEW n \in Name, NEW m \in Name, RenameTable(n, m)
  PROVE  \E e : Recorded(e)
<1> DEFINE e == DDLMessage("renameTable", {m}, FALSE, n, "-", "-", catalog[n])
<1>1. /\ Exists(catalog[n]) /\ ~Exists(catalog[m]) /\ wal' = Append(wal, e)
      /\ catalog' = [catalog EXCEPT ![n] = NoTable, ![m] = catalog[n]]
      /\ UNCHANGED <<settings, chainVars, targetVars>>
  BY DEF RenameTable, Logged
<1>2. catalog = [x \in Name |-> catalog[x]] /\ \A x \in Name : IsTable(catalog[x])
  BY DEF LogInv
<1>3. /\ catalog' = [x \in Name |-> catalog'[x]]
      /\ catalog'[n] = NoTable /\ catalog'[m] = catalog[n]
      /\ \A x \in Name \ {n, m} : catalog'[x] = catalog[x]
  BY <1>1, <1>2
<1>4. ~Exists(NoTable) /\ IsTable(NoTable)
  BY DEF Exists, NoTable, IsTable
<1>5. \A x \in Name : IsTable(catalog'[x])
  BY <1>2, <1>3, <1>4
<1>6. /\ IsDescription(e) /\ e.names = {m} /\ e.table = catalog[n]
      /\ m \in DiffTables(e) /\ DiffColumns(e) = NamesIn(catalog[n])
  BY DEF IsDescription, IsDDL, AllDDL, DDLMessage, DiffTables, DiffColumns
<1> HIDE DEF e
<1>7. IsEntry(e) /\ IsDDL(e)
  BY <1>1, <1>6 DEF IsEntry, IsDescription
<1>8. ASSUME NEW x \in Name, Exists(catalog'[x]), x \notin e.names
      PROVE  catalog'[x] = catalog[x]
  BY <1>3, <1>4, <1>6, <1>8
<1>9. ASSUME NEW x \in Name, x \in e.names
      PROVE  x = m /\ catalog'[x] = e.table /\ DiffColumns(e) = NamesIn(e.table)
  BY <1>3, <1>6, <1>9
<1>10. Recorded(e)
  BY <1>1, <1>3, <1>5, <1>6, <1>7, <1>8, <1>9 DEF Recorded
<1> QED BY <1>10

LEMMA AddsKey ==
  ASSUME LogInv, NEW n \in Name, AddPrimaryKey(n)
  PROVE  \E e : Recorded(e)
<1> DEFINE t == [catalog[n] EXCEPT !.key = TRUE]
           e == OnTable("addKey", n, "-", "-", t)
<1>1. Exists(catalog[n]) /\ Logged(e, [catalog EXCEPT ![n] = t])
  BY DEF AddPrimaryKey
<1>2. IsTable(catalog[n])
  BY DEF LogInv
<1>3. t.cols = catalog[n].cols /\ t.id = catalog[n].id /\ IsTable(t)
  <2>1. t = [id |-> catalog[n].id, atts |-> catalog[n].atts, cols |-> catalog[n].cols,
             key |-> TRUE]
    BY <1>2, TableWithKey, Zenon
  <2> HIDE DEF t
  <2> QED BY <2>1, TableParts
<1>4. NamesIn(t) = NamesIn(catalog[n]) /\ Exists(t)
  BY <1>1, <1>3 DEF NamesIn, Exists
<1> HIDE DEF t
<1>5. IsDescription(e) /\ e.names = {n} /\ e.table = t
  BY DEF IsDescription, IsDDL, AllDDL, OnTable, DDLMessage
<1> HIDE DEF e
<1> QED BY <1>1, <1>3, <1>4, <1>5, OneTable

LEMMA WritesRow ==
  ASSUME LogInv, NEW op \in {"I", "U"}, NEW n \in Name, NEW nul, WriteRow(op, n, nul)
  PROVE  \E e : Recorded(e)
<1> DEFINE e == [op |-> op, name |-> n, nul |-> nul, table |-> catalog[n]]
<1>1. /\ wal' = Append(wal, e) /\ catalog' = catalog /\ Exists(catalog[n])
      /\ UNCHANGED <<settings, chainVars, targetVars>>
  BY DEF WriteRow, Logged
<1>2. ~IsDDL(e) /\ e.name = n /\ e.table = catalog[n]
  BY DEF IsDDL, AllDDL
<1> HIDE DEF e
<1> QED BY <1>1, <1>2 DEF Recorded, IsEntry, IsDescription, LogInv

LEMMA SourceRecords == ASSUME LogInv, SourceStep PROVE \E e : Recorded(e)
<1>1. CASE \E n \in Name, l \in Layouts : CreateTable(n, l)
  BY <1>1, Creates
<1>2. CASE \E S \in (SUBSET Name) \ {{}} : DropTables(S)
  BY <1>2, DropsTables
<1>3. CASE \E n \in Name, c \in Column, k \in {"plain", "generated"},
              op \in {"addColumn", "shortAdd"} : AddColumn(op, n, c, k)
  BY <1>3, AddsColumn
<1>4. CASE \E n \in Name, c \in Column : DropColumn(n, c)
  BY <1>4, DropsColumn
<1>5. CASE \E n \in Name, c, d \in Column, op \in {"renameColumn", "renameGenerated"} :
             RenameColumn(op, n, c, d)
  BY <1>5, RenamesColumn
<1>6. CASE \E n, m \in Name : RenameTable(n, m)
  BY <1>6, RenamesTable
<1>7. CASE \E n \in Name : AddPrimaryKey(n)
  BY <1>7, AddsKey
<1>8. CASE \E n \in Name, op \in {"I", "U"}, nul \in BOOLEAN :
             (nul => op = "I") /\ WriteRow(op, n, nul)
  BY <1>8, WritesRow
<1> QED BY <1>1, <1>2, <1>3, <1>4, <1>5, <1>6, <1>7, <1>8 DEF SourceStep

\* What a longer log says, with nothing new about the table, with a new message about
\* it, and before the position where it grew.
LEMMA ToldBefore ==
  ASSUME NEW w, NEW v, NEW t, NEW n, NEW p \in Nat, \A j \in 1..p - 1 : v[j] = w[j],
         Told(w, t, n, p)
  PROVE  Told(v, t, n, p)
<1>1. \A j \in 1..p - 1 : LastWord(v, j, n, p) => LastWord(w, j, n, p)
  BY DEF LastWord, Describes
<1> QED BY <1>1 DEF Told

LEMMA LastWordStays ==
  ASSUME NEW w, NEW n, NEW p \in Nat \ {0}, ~Describes(w, p, n), NEW j \in 1..p - 1
  PROVE  LastWord(w, j, n, p + 1) <=> LastWord(w, j, n, p)
BY DEF LastWord

LEMMA ToldStays ==
  ASSUME NEW w, NEW t, NEW n, NEW p \in Nat \ {0}, ~Describes(w, p, n), Told(w, t, n, p)
  PROVE  Told(w, t, n, p + 1)
<1>1. \A j \in 1..p : LastWord(w, j, n, p + 1) => t = w[j].table
  <2> SUFFICES ASSUME NEW j \in 1..p, LastWord(w, j, n, p + 1) PROVE t = w[j].table
    OBVIOUS
  <2>1. j \in 1..p - 1
    BY DEF LastWord
  <2> QED BY <2>1, LastWordStays DEF Told
<1>2. (p + 1) - 1 = p /\ \A j \in 1..p - 1 : j \in 1..p
  OBVIOUS
<1> QED BY <1>1, <1>2 DEF Told

LEMMA ToldNow ==
  ASSUME NEW w, NEW t, NEW n, NEW p \in Nat \ {0}, Describes(w, p, n), t = w[p].table,
         n \in DiffTables(w[p]) \/ n \in DOMAIN Tables
           \/ \E j \in 1..p - 1 : n \in DiffTables(w[j]),
         "shortAdd" \notin DDLOps => \A c \in NamesIn(t) :
           \/ c \in NamesIn(StartingTables[n])
           \/ \E j \in 1..p : n \in DiffTables(w[j]) /\ c \in DiffColumns(w[j])
  PROVE  Told(w, t, n, p + 1)
<1>1. \A j \in 1..p : LastWord(w, j, n, p + 1) => j = p
  BY DEF LastWord
<1>2. (p + 1) - 1 = p /\ p \in 1..p /\ \A j \in 1..p - 1 : j \in 1..p
  OBVIOUS
<1> QED BY <1>1, <1>2 DEF Told

LEMMA LogStarts == ChainInit => LogInv
<1> SUFFICES ASSUME ChainInit PROVE LogInv
  OBVIOUS
<1>1. wal = <<>> /\ Len(wal) = 0 /\ catalog = StartingTables
  BY DEF ChainInit
<1>2. wal \in Seq(Elements(wal))
  BY <1>1
<1>3. \A n \in Name : IsTable(catalog[n]) /\ (Exists(catalog[n]) => n \in DOMAIN Tables)
  BY <1>1, ChainAssumption DEF ChainAssumption, Table, IsTable, StartingTables, NoTable, Exists
<1>4. \A n \in Name : Exists(catalog[n]) => Told(wal, catalog[n], n, 1)
  BY <1>1, <1>3 DEF Told
<1> QED BY <1>1, <1>2, <1>3, <1>4 DEF LogInv, StartingTables

LEMMA LogGrows ==
  ASSUME LogInv, NEW e, Recorded(e)
  PROVE  LogInv'
<1> DEFINE L == Len(wal)
<1>1. /\ L \in Nat /\ Len(wal') = L + 1 /\ wal'[L + 1] = e
      /\ \A i \in 1..L : wal'[i] = wal[i]
  <2>1. wal \in Seq(Elements(wal) \cup {e}) /\ e \in Elements(wal) \cup {e}
    BY DEF LogInv
  <2> QED BY <2>1, AppendProperties, LenProperties DEF Recorded
<1>2. wal' \in Seq(Elements(wal)')
  BY AppendsElement DEF LogInv, Recorded
<1>3. \A n \in Name : Exists(catalog[n]) => Told(wal', catalog[n], n, L + 1)
  BY <1>1, ToldBefore DEF LogInv
<1>4. ASSUME NEW i \in 1..L + 1
      PROVE  IsEntry(wal'[i]) /\ (~IsDDL(wal'[i]) => Told(wal', wal'[i].table, wal'[i].name, i))
  <2>1. CASE i \in 1..L
    BY <1>1, <2>1, ToldBefore DEF LogInv
  <2>2. CASE i = L + 1
    BY <1>1, <1>3, <2>2 DEF Recorded, IsEntry
  <2> QED BY <1>1, <2>1, <2>2
<1>5. ASSUME NEW n \in Name, Exists(catalog'[n])
      PROVE  Told(wal', catalog'[n], n, (L + 1) + 1)
  <2>1. CASE IsDescription(e) /\ n \in e.names
    <3>1. Describes(wal', L + 1, n) /\ catalog'[n] = wal'[L + 1].table
      BY <1>1, <1>5, <2>1 DEF Describes, Recorded
    <3>2. n \in DiffTables(wal'[L + 1]) \/ Exists(catalog[n])
      BY <1>1, <1>5, <2>1 DEF Recorded
    <3>3. \/ n \in DiffTables(wal'[L + 1]) \/ n \in DOMAIN Tables
          \/ \E j \in 1..(L + 1) - 1 : n \in DiffTables(wal'[j])
      BY <1>3, <3>2 DEF Told
    <3>4. ASSUME "shortAdd" \notin DDLOps, NEW c \in NamesIn(catalog'[n])
          PROVE  \/ c \in NamesIn(StartingTables[n])
                 \/ \E j \in 1..L + 1 : n \in DiffTables(wal'[j]) /\ c \in DiffColumns(wal'[j])
      <4>1. \/ n \in DiffTables(e) /\ c \in DiffColumns(e)
            \/ Exists(catalog[n]) /\ c \in NamesIn(catalog[n])
        BY <1>5, <2>1, <3>4 DEF Recorded
      <4>2. \A j \in 1..(L + 1) - 1 : j \in 1..L + 1
        BY <1>1
      <4>3. L + 1 \in 1..L + 1
        BY <1>1
      <4> QED BY <1>1, <1>3, <3>4, <4>1, <4>2, <4>3 DEF Told
    <3> DEFINE p == L + 1
               t == catalog'[n]
    <3>5. /\ p \in Nat \ {0} /\ Describes(wal', p, n) /\ t = wal'[p].table
          /\ \/ n \in DiffTables(wal'[p]) \/ n \in DOMAIN Tables
             \/ \E j \in 1..p - 1 : n \in DiffTables(wal'[j])
      BY <1>1, <3>1, <3>3
    <3>6. "shortAdd" \notin DDLOps => \A c \in NamesIn(t) :
            \/ c \in NamesIn(StartingTables[n])
            \/ \E j \in 1..p : n \in DiffTables(wal'[j]) /\ c \in DiffColumns(wal'[j])
      BY <3>4
    <3> HIDE DEF p, t
    <3>7. Told(wal', t, n, p + 1)
      BY <3>5, <3>6, ToldNow
    <3> QED BY <3>7 DEF p, t
  <2>2. CASE ~(IsDescription(e) /\ n \in e.names)
    <3>1. catalog'[n] = catalog[n] /\ ~Describes(wal', L + 1, n)
      BY <1>1, <1>5, <2>2 DEF Recorded, Describes
    <3>2. Told(wal', catalog'[n], n, L + 1)
      BY <1>3, <1>5, <3>1
    <3>3. L + 1 \in Nat \ {0}
      BY <1>1
    <3>4. Told(wal', catalog'[n], n, (L + 1) + 1)
      <4> DEFINE p == L + 1
                 t == catalog'[n]
      <4>1. p \in Nat \ {0} /\ ~Describes(wal', p, n) /\ Told(wal', t, n, p)
        BY <3>1, <3>2, <3>3
      <4> HIDE DEF p, t
      <4>2. Told(wal', t, n, p + 1)
        BY <4>1, ToldStays
      <4> QED BY <4>2 DEF p, t
    <3> QED BY <3>4
  <2> QED BY <2>1, <2>2
<1> QED BY <1>1, <1>2, <1>4, <1>5 DEF LogInv, Recorded

LEMMA SourceKeeps == ASSUME ChainInv, SourceStep PROVE ChainInv'
<1>1. PICK e : Recorded(e)
  BY SourceRecords DEF ChainInv
<1>2. LogInv'
  BY <1>1, LogGrows DEF ChainInv
<1>3. /\ UNCHANGED <<settings, status, at, described, observed, seen, given>>
      /\ UNCHANGED <<buffered, targetTables, flushed, refused>>
  BY <1>1 DEF Recorded, chainVars, targetVars
<1>4. /\ Len(wal) \in Nat /\ Len(wal') = Len(wal) + 1 /\ \A i \in 1..Len(wal) : wal'[i] = wal[i]
      /\ Elements(wal') = Elements(wal) \cup {e}
  <2>1. wal \in Seq(Elements(wal) \cup {e}) /\ e \in Elements(wal) \cup {e}
    BY DEF ChainInv, LogInv
  <2> QED BY <1>1, <2>1, AppendProperties, LenProperties, AppendsElement DEF Recorded
<1>5. \A x : Filtered(x)' = Filtered(x) /\ Blocked(x)' = Blocked(x) /\ SkipEvent(x)' = SkipEvent(x)
  BY <1>3 DEF Filtered, SkipDDLEvent, SkipEvent, ContainsSchemaTable, Blocked, ValidTableDDL, Strict
<1>6. PositionInv'
  <2>1. Accepted \subseteq Accepted'
    BY <1>4, <1>5 DEF Accepted
  <2>2. \A j \in 1..Len(wal') : j <= at \/ j <= flushed => wal'[j] \in Accepted'
    BY <1>4, <2>1 DEF ChainInv, PositionInv
  <2> QED BY <1>3, <1>4, <2>2 DEF ChainInv, PositionInv
<1>7. CacheInv'
  <2>1. at \in 0..Len(wal)
    BY DEF ChainInv, PositionInv
  <2>2. ASSUME NEW n, NEW j \in 1..at, LastWord(wal, j, n, at + 1)
        PROVE  LastWord(wal', j, n, at + 1) /\ wal'[j] = wal[j]
    <3>1. j \in 1..Len(wal) /\ \A k \in j + 1..(at + 1) - 1 : k \in 1..Len(wal)
      BY <1>4, <2>1
    <3>2. wal'[j] = wal[j] /\ \A k \in j + 1..(at + 1) - 1 : wal'[k] = wal[k]
      BY <1>4, <3>1
    <3> QED BY <2>2, <3>2, Zenon DEF LastWord, Describes
  <2> QED BY <1>3, <1>5, <2>2 DEF ChainInv, CacheInv
<1>8. InjectedIdsAreTheirs'
  BY <1>3 DEF ChainInv, InjectedIdsAreTheirs
<1>9. "shortAdd" \notin DDLOps => NothingPassesUnmasked'
  BY <1>3 DEF ChainInv, NothingPassesUnmasked, RulesFit, Strict, Active
<1> QED BY <1>2, <1>6, <1>7, <1>8, <1>9 DEF ChainInv

\* A step of the chain leaves log, configuration and target alone.
LEMMA ChainStays ==
  ASSUME ChainInv, UNCHANGED <<settings, catalog, wal>>
  PROVE  /\ LogInv' /\ Accepted' = Accepted /\ Len(wal) \in Nat
         /\ \A x : /\ Filtered(x)' = Filtered(x) /\ SkipEvent(x)' = SkipEvent(x)
                   /\ Blocked(x)' = Blocked(x)
         /\ given' = {} => InjectedIdsAreTheirs' /\ NothingPassesUnmasked'
<1>1. \A x : /\ Filtered(x)' = Filtered(x) /\ SkipEvent(x)' = SkipEvent(x)
             /\ Blocked(x)' = Blocked(x)
  BY DEF Filtered, SkipDDLEvent, SkipEvent, ContainsSchemaTable, Blocked, ValidTableDDL, Strict
<1>2. Accepted' = Accepted
  BY <1>1 DEF Accepted
<1>3. LogInv' /\ Len(wal) \in Nat
  BY LenProperties DEF ChainInv, LogInv
<1>4. given' = {} => InjectedIdsAreTheirs' /\ NothingPassesUnmasked'
  BY DEF InjectedIdsAreTheirs, NothingPassesUnmasked
<1> QED BY <1>1, <1>2, <1>3, <1>4

\* What is next in the log, when it is not refused and there is nothing else to it.
LEMMA PositionMoves ==
  ASSUME ChainInv, UNCHANGED <<settings, catalog, wal, flushed>>, Ready, at' = at + 1,
         IsDDL(Next1) /\ ~Filtered(Next1) => ~Blocked(Next1),
         buffered' = buffered \/ \E q : buffered' = Append(buffered, q) /\ q.pos = at + 1
  PROVE  PositionInv'
<1>1. /\ at \in 0..Len(wal) - 1 /\ Len(wal) \in Nat /\ wal[at + 1] \in Elements(wal)
      /\ Accepted' = Accepted
  <2>1. at \in 0..Len(wal) - 1 /\ Len(wal) \in Nat /\ Accepted' = Accepted
    BY ChainStays DEF ChainInv, PositionInv, Ready
  <2>2. DOMAIN wal = 1..Len(wal)
    BY LenProperties DEF ChainInv, LogInv
  <2> QED BY <2>1, <2>2 DEF Elements
<1>2. Next1 \in Accepted
  BY <1>1 DEF Accepted, Next1
<1>3. /\ buffered' \in Seq(Elements(buffered'))
      /\ \A m \in Elements(buffered') : m.pos \in 1..at + 1
  <2>1. CASE buffered' = buffered
    BY <1>1, <2>1 DEF ChainInv, PositionInv
  <2>2. CASE \E q : buffered' = Append(buffered, q) /\ q.pos = at + 1
    <3>1. PICK q : buffered' = Append(buffered, q) /\ q.pos = at + 1
      BY <2>2
    <3>2. /\ buffered' \in Seq(Elements(buffered'))
          /\ Elements(buffered') = Elements(buffered) \cup {q}
      BY <3>1, AppendsElement DEF ChainInv, PositionInv
    <3> QED BY <1>1, <3>1, <3>2 DEF ChainInv, PositionInv
  <2> QED BY <2>1, <2>2
<1>4. \A j \in 1..Len(wal) : j <= at + 1 \/ j <= flushed => wal[j] \in Accepted
  BY <1>1, <1>2 DEF ChainInv, PositionInv, Next1
<1> QED BY <1>1, <1>3, <1>4 DEF ChainInv, PositionInv

\* Names that need no quotes are found as they are.
LEMMA PlainNames ==
  ASSUME NEW n \in Name \ Quoted, NEW m \in Name
  PROVE  GetTable(n) = n /\ (GetTable(m) = n => m = n)
<1>1. GetTable(n) = n
  BY DEF GetTable
<1>2. m \in Quoted => GetTable(m) # n
  BY QuotingAssumption
<1>3. m \notin Quoted => GetTable(m) = m
  BY DEF GetTable
<1> QED BY <1>1, <1>2, <1>3

\* A table's description stays the last word over an event that does not describe it.
LEMMA CacheStays ==
  ASSUME ChainInv, status = "running", at < Len(wal), NEW n \in seen \ Quoted, ~SkipEvent(n),
         ~Describes(wal, at + 1, n)
  PROVE  \E j \in 1..at + 1 :
           LastWord(wal, j, n, (at + 1) + 1) /\ described[n] = wal[j].table
<1>1. at \in Nat
  BY LenProperties DEF ChainInv, PositionInv, LogInv
<1>2. PICK j \in 1..at : LastWord(wal, j, n, at + 1) /\ described[n] = wal[j].table
  BY DEF ChainInv, CacheInv
<1>3. LastWord(wal, j, n, (at + 1) + 1) /\ j \in 1..at + 1
  BY <1>1, <1>2 DEF LastWord
<1> QED BY <1>2, <1>3

\* The message about a table that passes the filter passes it, and one that is about
\* another does not describe it.
LEMMA Described ==
  ASSUME ChainInv, at < Len(wal), NEW n \in Name \ Quoted, Describes(wal, at + 1, n)
  PROVE  /\ IsDescription(Next1) /\ Next1.names = {n} /\ Exists(Next1.table)
         /\ ~SkipEvent(n) => ~Filtered(Next1)
<1>1. at + 1 \in 1..Len(wal)
  BY LenProperties DEF ChainInv, PositionInv, LogInv
<1>2. IsDescription(Next1) /\ Next1.names = {n} /\ Exists(Next1.table)
  BY <1>1 DEF ChainInv, LogInv, IsEntry, Describes, Next1
<1>3. ~SkipEvent(n) => ~Filtered(Next1)
  BY <1>2, PlainNames DEF Filtered, SkipDDLEvent, IsDescription
<1> QED BY <1>2, <1>3

LEMMA ChainSkips == ASSUME ChainInv, Skip PROVE ChainInv'
<1>1. /\ Ready /\ status = "running" /\ at < Len(wal) /\ Filtered(Next1)
      /\ at' = at + 1 /\ given' = {}
      /\ UNCHANGED <<settings, catalog, wal, status, flushed, described, seen, buffered>>
  BY DEF Skip, Passes, sourceVars, Ready
<1>2. PositionInv'
  BY <1>1, PositionMoves
<1>3. CacheInv'
  <2> SUFFICES ASSUME NEW n \in seen \ Quoted, ~SkipEvent(n)
               PROVE  \E j \in 1..at + 1 :
                        LastWord(wal, j, n, (at + 1) + 1) /\ described[n] = wal[j].table
    BY <1>1, ChainStays DEF ChainInv, CacheInv
  <2>1. ~Describes(wal, at + 1, n)
    BY <1>1, Described DEF ChainInv, CacheInv
  <2> QED BY <1>1, <2>1, CacheStays
<1> QED BY <1>1, <1>2, <1>3, ChainStays DEF ChainInv

LEMMA ChainBlocks == ASSUME ChainInv, Block PROVE ChainInv'
<1>1. /\ status' = "stopped" /\ given' = {} /\ described' = UpdateTableCache(Next1)
      /\ UNCHANGED <<settings, catalog, wal, at, seen, buffered, flushed>>
  BY DEF Block, sourceVars, targetVars
<1>2. /\ described' = [s \in DOMAIN described' |-> described'[s]]
      /\ DOMAIN described' = DOMAIN described
  BY <1>1 DEF UpdateTableCache
<1>3. CacheInv'
  BY <1>1, <1>2 DEF ChainInv, CacheInv
<1>4. PositionInv'
  BY <1>1, ChainStays DEF ChainInv, PositionInv
<1> QED BY <1>1, <1>3, <1>4, ChainStays DEF ChainInv

LEMMA ChainPassesDDL == ASSUME ChainInv, PassDDL PROVE ChainInv'
<1>1. /\ Ready /\ status = "running" /\ at < Len(wal) /\ IsDDL(Next1) /\ ~Blocked(Next1)
      /\ at' = at + 1 /\ given' = {} /\ described' = UpdateTableCache(Next1)
      /\ seen' = IF Next1.op = "drop" THEN seen \ Next1.names ELSE seen \cup Next1.names
      /\ buffered' = Append(buffered, MessageOf(Next1, at + 1))
      /\ UNCHANGED <<settings, catalog, wal, status, flushed>>
  BY DEF PassDDL, Passes, sourceVars, Ready
<1>2. PositionInv'
  <2>1. MessageOf(Next1, at + 1).pos = at + 1
    BY <1>1 DEF MessageOf
  <2> QED BY <1>1, <2>1, PositionMoves
<1>3. /\ described' = [s \in DOMAIN described' |-> described'[s]]
      /\ DOMAIN described' = DOMAIN described
  BY <1>1 DEF UpdateTableCache
<1>4. at + 1 \in 1..Len(wal) /\ at \in Nat
  BY <1>1, LenProperties DEF ChainInv, PositionInv, LogInv
<1>5. IsDescription(Next1) => \E m \in Name : Next1.names = {m}
  BY <1>4 DEF ChainInv, LogInv, IsEntry, Next1
<1>6. seen' \subseteq Name
  BY <1>1, <1>5 DEF ChainInv, CacheInv, IsDescription
<1>7. ASSUME NEW n \in seen' \ Quoted, ~SkipEvent(n)
      PROVE  \E j \in 1..at + 1 :
               LastWord(wal, j, n, (at + 1) + 1) /\ described'[n] = wal[j].table
  <2>1. n \in Name \ Quoted /\ n \in DOMAIN described
    BY <1>6, <1>7 DEF ChainInv, CacheInv
  <2>2. CASE Describes(wal, at + 1, n)
    <3>1. LastWord(wal, at + 1, n, (at + 1) + 1)
      BY <1>4, <2>2 DEF LastWord
    <3>2. GetTable(n) = n /\ n \in Next1.names /\ Next1.op # "drop"
      BY <1>1, <2>1, <2>2, Described, PlainNames DEF IsDescription
    <3>3. described'[n] = wal[at + 1].table
      BY <1>1, <2>1, <3>2 DEF UpdateTableCache, Next1
    <3> QED BY <1>4, <3>1, <3>3
  <2>3. CASE ~Describes(wal, at + 1, n)
    <3>1. n \in seen /\ n \notin Next1.names
      BY <1>1, <1>7, <2>3 DEF Describes, IsDescription, Next1
    <3>2. Next1.names \subseteq Name
      BY <1>4, <1>1 DEF ChainInv, LogInv, IsEntry, Next1
    <3>3. \A m \in Next1.names : GetTable(m) # n
      BY <2>1, <3>1, <3>2, PlainNames
    <3>4. described'[n] = described[n]
      BY <1>1, <2>1, <3>3 DEF UpdateTableCache
    <3> QED BY <1>1, <1>7, <2>3, <3>1, <3>4, CacheStays
  <2> QED BY <2>2, <2>3
<1>8. CacheInv'
  BY <1>1, <1>3, <1>6, <1>7, ChainStays DEF ChainInv, CacheInv
<1> QED BY <1>1, <1>2, <1>8, ChainStays DEF ChainInv

\* A table that passes strict validation has only columns with rules.
LEMMA ColumnsHaveRules ==
  ASSUME ChainInv, "shortAdd" \notin DDLOps, at < Len(wal), ~IsDDL(Next1), ~Filtered(Next1),
         RulesFit(StartingTables), settings.mode \in {"strict", "table_level"},
         Strict(Next1.name), Next1.name \notin Quoted,
         HasRules(Next1.name) \/ Next1.name \notin DOMAIN Tables
  PROVE  HasRules(Next1.name) /\ NamesIn(Next1.table) \subseteq RuleColumns(Next1.name)
<1> DEFINE n == Next1.name
           t == Next1.table
<1>1. at + 1 \in 1..Len(wal) /\ at \in Nat
  BY LenProperties DEF ChainInv, PositionInv, LogInv
<1>2. n \in Name \ Quoted /\ Told(wal, t, n, at + 1) /\ ~SkipEvent(n)
  BY <1>1 DEF ChainInv, LogInv, IsEntry, Next1, Filtered
<1>3. ASSUME NEW j \in 1..at, n \in DiffTables(wal[j])
      PROVE  HasRules(n) /\ DiffColumns(wal[j]) \subseteq RuleColumns(n)
  <2>1. IsDescription(wal[j]) /\ wal[j].names = {n}
    <3>1. j \in 1..Len(wal) /\ n \in wal[j].names /\ IsDescription(wal[j])
      BY <1>1, <1>3 DEF DiffTables, IsDescription, IsDDL, AllDDL
    <3> QED BY <3>1 DEF ChainInv, LogInv, IsEntry
  <2>2. ~Filtered(wal[j])
    BY <1>2, <2>1, PlainNames DEF Filtered, SkipDDLEvent, IsDescription
  <2>3. wal[j] \in Accepted
    BY <1>1 DEF ChainInv, PositionInv
  <2>4. ~Blocked(wal[j])
    BY <2>1, <2>2, <2>3 DEF Accepted, IsDescription
  <2> QED BY <1>3, <2>4 DEF Blocked, ValidTableDDL
<1>4. HasRules(n)
  <2>1. n \in DOMAIN Tables \/ \E j \in 1..(at + 1) - 1 : n \in DiffTables(wal[j])
    BY <1>2 DEF Told
  <2> QED BY <1>1, <1>3, <2>1
<1>5. ASSUME NEW c \in NamesIn(StartingTables[n]) PROVE c \in RuleColumns(n)
  <2>1. StartingTables[n] = IF n \in DOMAIN Tables THEN Tables[n] ELSE NoTable
    BY <1>2 DEF StartingTables
  <2>2. NamesIn(StartingTables[n]) \subseteq RuleColumns(n)
    BY <1>4 DEF RulesFit, HasRules
  <2> QED BY <2>2
<1>6. ASSUME NEW c \in NamesIn(t) PROVE c \in RuleColumns(n)
  <2>1. \/ c \in NamesIn(StartingTables[n])
        \/ \E j \in 1..(at + 1) - 1 : n \in DiffTables(wal[j]) /\ c \in DiffColumns(wal[j])
    BY <1>2, <1>6 DEF Told
  <2> QED BY <1>1, <1>3, <1>5, <2>1
<1> QED BY <1>4, <1>6

LEMMA ChainPassesRow == ASSUME ChainInv, PassRow PROVE ChainInv'
<1> DEFINE e == Next1
           t == TableObject(e)
           g == [row |-> e, ignored |-> Ignored(t), ids |-> Injected(e, t),
                 values |-> Transformed(e)]
<1>1. /\ Ready /\ status = "running" /\ at < Len(wal) /\ ~IsDDL(e) /\ ~Filtered(e)
      /\ at' = at + 1 /\ given' = {g} /\ described' = CacheAfter(e, t)
      /\ \/ buffered' = Append(buffered, KeepAlive(at + 1))
         \/ buffered' = Append(buffered, MessageOf(e, at + 1))
      /\ UNCHANGED <<settings, catalog, wal, status, flushed, seen>>
  BY DEF PassRow, Passes, sourceVars, Ready
<1>2. PositionInv'
  <2>1. MessageOf(e, at + 1).pos = at + 1 /\ KeepAlive(at + 1).pos = at + 1
    BY <1>1 DEF MessageOf, KeepAlive
  <2> QED BY <1>1, <2>1, PositionMoves
<1>3. at + 1 \in 1..Len(wal) /\ at \in Nat
  BY <1>1, LenProperties DEF ChainInv, PositionInv, LogInv
<1>4. e.name \in Name /\ Told(wal, e.table, e.name, at + 1) /\ ~SkipEvent(e.name)
  BY <1>1, <1>3 DEF ChainInv, LogInv, IsEntry, Next1, Filtered
<1>5. ASSUME e.name \in seen \ Quoted
      PROVE  t = e.table /\ Exists(t) /\ t = described[e.name]
  <2>1. PICK j \in 1..at : LastWord(wal, j, e.name, at + 1) /\ described[e.name] = wal[j].table
    BY <1>1, <1>4, <1>5 DEF ChainInv, CacheInv
  <2>2. e.table = wal[j].table
    BY <1>3, <1>4, <2>1 DEF Told
  <2>3. Exists(wal[j].table)
    BY <1>3, <2>1 DEF LastWord, Describes, ChainInv, LogInv, IsEntry
  <2> QED BY <2>1, <2>2, <2>3 DEF TableObject
<1>6. CacheInv'
  <2>1. /\ described' = [s \in DOMAIN described' |-> described'[s]]
        /\ DOMAIN described' = DOMAIN described
        /\ \A n \in DOMAIN described : n # e.name => described'[n] = described[n]
    BY <1>1 DEF CacheAfter, ChainInv, CacheInv
  <2>2. e.name \in seen \ Quoted => described'[e.name] = described[e.name]
    BY <1>1, <1>4, <1>5 DEF CacheAfter, ChainInv, CacheInv
  <2>3. ASSUME NEW n \in seen \ Quoted, ~SkipEvent(n)
        PROVE  \E j \in 1..at + 1 :
                 LastWord(wal, j, n, (at + 1) + 1) /\ described'[n] = wal[j].table
    <3>1. ~Describes(wal, at + 1, n)
      BY <1>1 DEF Describes, IsDescription, Next1
    <3>2. described'[n] = described[n]
      BY <2>1, <2>2, <2>3 DEF ChainInv, CacheInv
    <3> QED BY <1>1, <2>3, <3>1, <3>2, CacheStays
  <2> QED BY <1>1, <2>1, <2>3, ChainStays DEF ChainInv, CacheInv
<1>7. g.row = e /\ g.ignored = Ignored(t) /\ g.ids = Injected(e, t) /\ g.values = Transformed(e)
  OBVIOUS
<1> HIDE DEF e, t, g
<1>8. InjectedIdsAreTheirs'
  <2> SUFFICES ASSUME e.name \in seen \ Quoted
               PROVE  /\ g.ignored = ~HasIdentity(e.table)
                      /\ ~g.ignored => g.ids = ColumnIds(e, e.table)
    BY <1>1, <1>7 DEF InjectedIdsAreTheirs
  <2> QED BY <1>5, <1>7 DEF Ignored, Injected
<1>9. ASSUME "shortAdd" \notin DDLOps PROVE NothingPassesUnmasked'
  <2> SUFFICES ASSUME RulesFit(StartingTables), settings.mode \in {"strict", "table_level"},
                      Strict(e.name), e.name \notin Quoted,
                      HasRules(e.name) \/ e.name \notin DOMAIN Tables
               PROVE  /\ HasRules(e.name) /\ NamesIn(e.table) \subseteq RuleColumns(e.name)
                      /\ \A c \in Active(e.name) \cap NamesIn(e.table) : g.values[c] = "masked"
    BY <1>1, <1>7 DEF NothingPassesUnmasked, RulesFit, Strict, Active
  <2>1. \A c \in Active(e.name) \cap NamesIn(e.table) : g.values[c] = "masked"
    BY <1>7 DEF Transformed
  <2>2. HasRules(e.name) /\ NamesIn(e.table) \subseteq RuleColumns(e.name)
    BY <1>1, <1>9, ColumnsHaveRules DEF e
  <2> QED BY <2>1, <2>2
<1> QED BY <1>1, <1>2, <1>6, <1>8, <1>9, ChainStays DEF ChainInv

LEMMA ChainCrashes == ASSUME ChainInv, Crash PROVE ChainInv'
<1>1. /\ at' \in 0..flushed /\ described' = [s \in DOMAIN described |-> NoTable]
      /\ seen' = {} /\ given' = {} /\ buffered' = <<>>
      /\ UNCHANGED <<settings, catalog, wal, flushed>>
  BY DEF Crash, sourceVars
<1>2. buffered' \in Seq(Elements(buffered')) /\ Elements(buffered') = {}
  BY <1>1 DEF Elements
<1>3. PositionInv'
  BY <1>1, <1>2, ChainStays DEF ChainInv, PositionInv
<1>4. CacheInv'
  BY <1>1 DEF ChainInv, CacheInv
<1> QED BY <1>1, <1>3, <1>4, ChainStays DEF ChainInv

LEMMA ChainFlushes == ASSUME ChainInv, Flush PROVE ChainInv'
<1>1. /\ buffered # <<>> /\ buffered' = <<>> /\ flushed' = buffered[Len(buffered)].pos
      /\ UNCHANGED <<settings, catalog, wal, status, at, described, observed, seen, given>>
  BY Zenon DEF Flush, Last, sourceVars, chainVars
<1>2. buffered' \in Seq(Elements(buffered')) /\ Elements(buffered') = {}
  BY <1>1 DEF Elements
<1>3. flushed' \in 1..at
  <2>1. buffered[Len(buffered)] \in Elements(buffered)
    BY <1>1, LenProperties, EmptySeq DEF ChainInv, PositionInv, Elements
  <2> QED BY <1>1, <2>1 DEF ChainInv, PositionInv
<1>4. PositionInv'
  BY <1>1, <1>2, <1>3, ChainStays DEF ChainInv, PositionInv
<1>5. CacheInv' /\ InjectedIdsAreTheirs'
  BY <1>1, ChainStays DEF ChainInv, CacheInv, InjectedIdsAreTheirs
<1>6. "shortAdd" \notin DDLOps => NothingPassesUnmasked'
  BY <1>1 DEF ChainInv, NothingPassesUnmasked, RulesFit, Strict, Active
<1> QED BY <1>1, <1>4, <1>5, <1>6, ChainStays DEF ChainInv

LEMMA ChainStarts == ChainInit => ChainInv
<1> SUFFICES ASSUME ChainInit PROVE ChainInv
  OBVIOUS
<1>1. /\ wal = <<>> /\ Len(wal) = 0 /\ at = 0 /\ buffered = <<>> /\ flushed = 0 /\ seen = {}
      /\ given = {} /\ described = [s \in Name \cup {GetTable(n) : n \in Name} |-> NoTable]
  BY DEF ChainInit
<1>2. buffered \in Seq(Elements(buffered)) /\ Elements(buffered) = {}
  BY <1>1 DEF Elements
<1>3. PositionInv
  BY <1>1, <1>2 DEF PositionInv
<1>4. CacheInv
  BY <1>1 DEF CacheInv
<1> QED BY <1>1, <1>3, <1>4, LogStarts DEF ChainInv, InjectedIdsAreTheirs, NothingPassesUnmasked

LEMMA ChainSteps == ChainInv /\ [ChainNext]_allVars => ChainInv'
<1> SUFFICES ASSUME ChainInv, [ChainNext]_allVars PROVE ChainInv'
  OBVIOUS
<1>1. CASE SourceStep
  BY <1>1, SourceKeeps
<1>2. CASE ChainStep
  BY <1>2, ChainSkips, ChainBlocks, ChainPassesDDL, ChainPassesRow, ChainFlushes DEF ChainStep
<1>3. CASE Crash
  BY <1>3, ChainCrashes
<1>4. CASE UNCHANGED allVars
  <2>1. /\ UNCHANGED <<settings, catalog, wal, status, at, described, observed, seen, given>>
        /\ UNCHANGED <<buffered, targetTables, flushed, refused>>
    BY <1>4 DEF allVars, sourceVars, chainVars, targetVars
  <2>2. PositionInv' /\ CacheInv' /\ InjectedIdsAreTheirs'
    BY <2>1, ChainStays DEF ChainInv, PositionInv, CacheInv, InjectedIdsAreTheirs
  <2>3. "shortAdd" \notin DDLOps => NothingPassesUnmasked'
    BY <2>1 DEF ChainInv, NothingPassesUnmasked, RulesFit, Strict, Active
  <2> QED BY <2>1, <2>2, <2>3, ChainStays DEF ChainInv
<1> QED BY <1>1, <1>2, <1>3, <1>4 DEF ChainNext

(* A row gets the ids of the table it was written to, or is passed over    *)
(* for want of an identity of that table, once a DDL message has described *)
(* it: for any tables, statements, filter, batches and restarts.           *)
THEOREM IdsAreOfTheRowsTable == ChainSpec => []InjectedIdsAreTheirs
<1>1. ChainInv => InjectedIdsAreTheirs
  BY DEF ChainInv
<1> QED BY <1>1, ChainStarts, ChainSteps, PTL DEF ChainSpec

(* Under strict validation no column goes on without a rule, nor unmasked  *)
(* where its rule masks it.  The statement that leaves out the word COLUMN *)
(* is excepted: the schema diff does not see its column.                   *)
THEOREM ColumnsAreMasked == "shortAdd" \notin DDLOps => (ChainSpec => []NothingPassesUnmasked)
<1> SUFFICES ASSUME "shortAdd" \notin DDLOps PROVE ChainSpec => []NothingPassesUnmasked
  OBVIOUS
<1>1. ChainInv => NothingPassesUnmasked
  BY DEF ChainInv
<1> QED BY <1>1, ChainStarts, ChainSteps, PTL DEF ChainSpec

-----------------------------------------------------------------------------
(* What is kept: the target of the event chain.                            *)

\* The names a statement concerns, as in Crossing.
Concerned(e) == e.names \cup (IF e.op = "renameTable" THEN {e.from} ELSE {})

IsCatalog(h) == h = [n \in Name |-> h[n]] /\ \A n \in Name : IsTable(h[n])

WithColumn(t, c, kind) ==
  [id |-> t.id, atts |-> t.atts + 1,
   cols |-> t.cols \cup {[att |-> t.atts + 1, name |-> c, kind |-> kind]}, key |-> t.key]
WithColumns(t, cols) == [id |-> t.id, atts |-> t.atts, cols |-> cols, key |-> t.key]
RenamedColumns(t, c, d) == {IF x.name = c THEN [x EXCEPT !.name = d] ELSE x : x \in t.cols}
WithKey(t) == [id |-> t.id, atts |-> t.atts, cols |-> t.cols, key |-> TRUE]

\* A statement about the table n is one that the catalog h allows, and its message
\* says what becomes of the table.
StatementFits(h, e, n) ==
  /\ e.names = {n} /\ IsTable(e.table) /\ Exists(e.table)
  /\ e.columnObject <=> e.op \in {"renameColumn", "renameGenerated"}
  /\ IF e.op \in {"create", "renameTable"} THEN ~Exists(h[n]) ELSE Exists(h[n])
  /\ e.op \in {"addColumn", "shortAdd"} =>
       /\ e.col \notin NamesIn(h[n]) /\ e.kind \in {"plain", "generated"}
       /\ e.table = WithColumn(h[n], e.col, e.kind)
  /\ e.op = "create" => \E l \in Layouts : e.table.cols = l.cols
  /\ e.op = "dropColumn" => e.table = WithColumns(h[n], {c \in h[n].cols : c.name # e.col})
  /\ e.op \in {"renameColumn", "renameGenerated"} =>
       /\ e.from \in NamesIn(h[n]) /\ e.col \notin NamesIn(h[n]) /\ e.from # KeyColumn
       /\ e.table = WithColumns(h[n], RenamedColumns(h[n], e.from, e.col))
  /\ e.op = "renameColumn" => e.from \notin OfKind(h[n], {"generated"})
  /\ e.op = "renameTable" => e.from \in Name /\ Exists(h[e.from]) /\ e.table = h[e.from]
  /\ e.op = "addKey" => e.table = WithKey(h[n])

\* An entry of the log fits the catalog before it.
EntryFits(h, e) ==
  CASE ~IsDDL(e) -> /\ e.name \in Name /\ Exists(h[e.name]) /\ e.table = h[e.name]
                    /\ e.op \in {"I", "U"}
    [] e.op = "drop" -> /\ e.names \subseteq Name /\ e.names # {} /\ ~e.columnObject
                        /\ e.table = NoTable /\ \A n \in e.names : Exists(h[n])
    [] OTHER -> e.op \in DDLOps /\ \E n \in Name : StatementFits(h, e, n)

\* The catalog after it.
Changed(h, e) ==
  [n \in Name |->
     IF ~IsDDL(e) THEN h[n]
     ELSE IF n \in e.names THEN e.table
     ELSE IF e.op = "renameTable" /\ n = e.from THEN NoTable ELSE h[n]]

\* The catalogs from the start of the log to its end.
History(w, H) ==
  /\ H[0] = StartingTables
  /\ \A i \in 0..Len(w) : IsCatalog(H[i])
  /\ \A i \in 1..Len(w) : EntryFits(H[i - 1], w[i]) /\ H[i] = Changed(H[i - 1], w[i])

\* The statements of the source fit its catalog.
Grows(e) ==
  /\ wal' = Append(wal, e) /\ EntryFits(catalog, e) /\ catalog' = Changed(catalog, e)
  /\ UNCHANGED <<settings, chainVars, targetVars>>

\* A statement about one table changes that table only.
LEMMA NewTable ==
  ASSUME IsCatalog(catalog), NEW e, NEW n \in Name, NEW t, Logged(e, [catalog EXCEPT ![n] = t]),
         IsDDL(e), e.op \notin {"drop", "renameTable"}, e.op \in DDLOps, e.table = t,
         StatementFits(catalog, e, n)
  PROVE  Grows(e)
<1>1. /\ wal' = Append(wal, e) /\ catalog' = [catalog EXCEPT ![n] = t]
      /\ UNCHANGED <<settings, chainVars, targetVars>>
  BY DEF Logged
<1>2. e.names = {n} /\ EntryFits(catalog, e)
  BY DEF StatementFits, EntryFits
<1>3. Changed(catalog, e) = [m \in Name |-> IF m = n THEN t ELSE catalog[m]]
  BY <1>2 DEF Changed
<1>4. catalog' = [m \in Name |-> IF m = n THEN t ELSE catalog[m]]
  BY <1>1 DEF IsCatalog
<1> QED BY <1>1, <1>2, <1>3, <1>4 DEF Grows

\* Each statement of the source, and each row, is such an entry of the log.
LEMMA GrowsByCreate ==
  ASSUME IsCatalog(catalog), Len(wal) \in Nat, NEW n \in Name, NEW l \in Layouts, CreateTable(n, l)
  PROVE  \E e : Grows(e)
<1> DEFINE t == Made(l, 10 + Len(wal))
           e == OnTable("create", n, "-", "-", t)
<1>1. IsTable(t) /\ Exists(t) /\ t.cols = l.cols
  BY DEF IsTable, Made, Exists
<1>2. ~Exists(catalog[n]) /\ Logged(e, [catalog EXCEPT ![n] = t]) /\ "create" \in DDLOps
  BY DEF CreateTable, Runs
<1> HIDE DEF t
<1>3. e.op = "create" /\ e.names = {n} /\ e.table = t /\ ~e.columnObject
  BY DEF OnTable, DDLMessage
<1> HIDE DEF e
<1>4. StatementFits(catalog, e, n) /\ IsDDL(e)
  BY <1>1, <1>2, <1>3 DEF StatementFits, IsDDL, AllDDL
<1> QED BY <1>2, <1>3, <1>4, NewTable

LEMMA GrowsByDrop ==
  ASSUME IsCatalog(catalog), NEW S \in (SUBSET Name) \ {{}}, DropTables(S)
  PROVE  \E e : Grows(e)
<1> DEFINE e == DDLMessage("drop", S, FALSE, "-", "-", "-", NoTable)
<1>1. /\ wal' = Append(wal, e) /\ \A n \in S : Exists(catalog[n])
      /\ catalog' = [n \in Name |-> IF n \in S THEN NoTable ELSE catalog[n]]
      /\ UNCHANGED <<settings, chainVars, targetVars>>
  BY DEF DropTables, Logged
<1>2. e.op = "drop" /\ IsDDL(e) /\ e.names = S /\ ~e.columnObject /\ e.table = NoTable
  BY DEF IsDDL, AllDDL, DDLMessage
<1> HIDE DEF e
<1>3. EntryFits(catalog, e)
  <2>1. S \subseteq Name /\ S # {}
    OBVIOUS
  <2> QED BY <1>1, <1>2, <2>1, Zenon DEF EntryFits
<1>4. Changed(catalog, e) = [n \in Name |-> IF n \in S THEN NoTable ELSE catalog[n]]
  BY <1>2 DEF Changed
<1> QED BY <1>1, <1>3, <1>4 DEF Grows

LEMMA GrowsByColumn ==
  ASSUME IsCatalog(catalog), NEW op, NEW n \in Name, NEW c, NEW kind \in {"plain", "generated"},
         AddColumn(op, n, c, kind)
  PROVE  \E e : Grows(e)
<1> DEFINE col == [att |-> catalog[n].atts + 1, name |-> c, kind |-> kind]
           t == [catalog[n] EXCEPT !.atts = @ + 1, !.cols = @ \cup {col}]
           e == OnTable(op, n, c, kind, t)
<1>1. /\ op \in {"addColumn", "shortAdd"} /\ op \in DDLOps /\ Exists(catalog[n])
      /\ c \notin NamesIn(catalog[n]) /\ Logged(e, [catalog EXCEPT ![n] = t])
  BY DEF AddColumn, Runs
<1>2. IsTable(catalog[n])
  BY DEF IsCatalog
<1>3. t = WithColumn(catalog[n], c, kind)
  BY <1>2, TableWithColumn, Zenon DEF WithColumn
<1>4. t.id = catalog[n].id /\ IsTable(t)
  <2> HIDE DEF t, col
  <2> QED BY <1>3, TableParts DEF WithColumn
<1> HIDE DEF t
<1>5. /\ e.op = op /\ e.names = {n} /\ e.table = t /\ ~e.columnObject /\ e.col = c
      /\ e.kind = kind
  BY DEF OnTable, DDLMessage
<1> HIDE DEF e
<1>6. StatementFits(catalog, e, n) /\ IsDDL(e)
  BY <1>1, <1>3, <1>4, <1>5 DEF StatementFits, IsDDL, AllDDL, Exists
<1> QED BY <1>1, <1>5, <1>6, NewTable

LEMMA GrowsByDropColumn ==
  ASSUME IsCatalog(catalog), NEW n \in Name, NEW c, DropColumn(n, c)
  PROVE  \E e : Grows(e)
<1> DEFINE t == [catalog[n] EXCEPT !.cols = {d \in @ : d.name # c}]
           left == {d \in catalog[n].cols : d.name # c}
           e == OnTable("dropColumn", n, c, "-", t)
<1>1. Exists(catalog[n]) /\ Logged(e, [catalog EXCEPT ![n] = t]) /\ "dropColumn" \in DDLOps
  BY DEF DropColumn, Runs
<1>2. IsTable(catalog[n])
  BY DEF IsCatalog
<1>3. t = WithColumns(catalog[n], left)
  BY <1>2, TableWithColumns, Zenon DEF WithColumns
<1>4. t.id = catalog[n].id /\ IsTable(t)
  <2> HIDE DEF t, left
  <2> QED BY <1>3, TableParts DEF WithColumns
<1> HIDE DEF t
<1>5. e.op = "dropColumn" /\ e.names = {n} /\ e.table = t /\ ~e.columnObject /\ e.col = c
  BY DEF OnTable, DDLMessage
<1> HIDE DEF e
<1>6. StatementFits(catalog, e, n) /\ IsDDL(e)
  BY <1>1, <1>3, <1>4, <1>5 DEF StatementFits, IsDDL, AllDDL, Exists
<1> QED BY <1>1, <1>5, <1>6, NewTable

LEMMA GrowsByRenameColumn ==
  ASSUME IsCatalog(catalog), NEW op \in {"renameColumn", "renameGenerated"}, NEW n \in Name,
         NEW c, NEW d, RenameColumn(op, n, c, d)
  PROVE  \E e : Grows(e)
<1> DEFINE t == Renamed(catalog[n], c, d)
           now == RenamedColumns(catalog[n], c, d)
           e == DDLMessage(op, {n}, TRUE, c, d, "-", t)
<1>1. /\ Exists(catalog[n]) /\ Logged(e, [catalog EXCEPT ![n] = t]) /\ op \in DDLOps
      /\ op = IF c \in OfKind(catalog[n], {"generated"}) THEN "renameGenerated"
              ELSE "renameColumn"
      /\ c \in NamesIn(catalog[n]) /\ c # KeyColumn /\ d \notin NamesIn(catalog[n])
  BY DEF RenameColumn, Runs
<1>2. IsTable(catalog[n])
  BY DEF IsCatalog
<1>3. t = WithColumns(catalog[n], now)
  BY <1>2, TableWithColumns, Zenon DEF Renamed, WithColumns, RenamedColumns
<1>4. t.id = catalog[n].id /\ IsTable(t)
  <2> HIDE DEF t, now
  <2> QED BY <1>3, TableParts DEF WithColumns
<1> HIDE DEF t
<1>5. e.op = op /\ e.names = {n} /\ e.table = t /\ e.columnObject /\ e.col = d /\ e.from = c
  BY DEF DDLMessage
<1> HIDE DEF e
<1>6. StatementFits(catalog, e, n) /\ IsDDL(e)
  BY <1>1, <1>3, <1>4, <1>5 DEF StatementFits, IsDDL, AllDDL, Exists
<1> QED BY <1>1, <1>5, <1>6, NewTable

LEMMA GrowsByRenameTable ==
  ASSUME IsCatalog(catalog), NEW n \in Name, NEW m \in Name, RenameTable(n, m)
  PROVE  \E e : Grows(e)
<1> DEFINE e == DDLMessage("renameTable", {m}, FALSE, n, "-", "-", catalog[n])
<1>1. /\ Exists(catalog[n]) /\ ~Exists(catalog[m]) /\ wal' = Append(wal, e)
      /\ catalog' = [catalog EXCEPT ![n] = NoTable, ![m] = catalog[n]]
      /\ UNCHANGED <<settings, chainVars, targetVars>> /\ "renameTable" \in DDLOps
  BY DEF RenameTable, Logged, Runs
<1>2. /\ e.op = "renameTable" /\ IsDDL(e) /\ e.names = {m} /\ e.table = catalog[n]
      /\ ~e.columnObject /\ e.from = n
  BY DEF IsDDL, AllDDL, DDLMessage
<1> HIDE DEF e
<1>3. StatementFits(catalog, e, m)
  BY <1>1, <1>2 DEF StatementFits, IsCatalog
<1>4. EntryFits(catalog, e)
  BY <1>1, <1>2, <1>3 DEF EntryFits
<1>5. n # m
  BY <1>1
<1>6. Changed(catalog, e) =
        [x \in Name |-> IF x = m THEN catalog[n] ELSE IF x = n THEN NoTable ELSE catalog[x]]
  BY <1>2 DEF Changed
<1>7. catalog' =
        [x \in Name |-> IF x = m THEN catalog[n] ELSE IF x = n THEN NoTable ELSE catalog[x]]
  BY <1>1, <1>5 DEF IsCatalog
<1> QED BY <1>1, <1>4, <1>6, <1>7 DEF Grows

LEMMA GrowsByKey ==
  ASSUME IsCatalog(catalog), NEW n \in Name, AddPrimaryKey(n)
  PROVE  \E e : Grows(e)
<1> DEFINE t == [catalog[n] EXCEPT !.key = TRUE]
           e == OnTable("addKey", n, "-", "-", t)
<1>1. Exists(catalog[n]) /\ Logged(e, [catalog EXCEPT ![n] = t]) /\ "addKey" \in DDLOps
  BY DEF AddPrimaryKey, Runs
<1>2. IsTable(catalog[n])
  BY DEF IsCatalog
<1>3. t = WithKey(catalog[n])
  BY <1>2, TableWithKey, Zenon DEF WithKey
<1>4. t.id = catalog[n].id /\ IsTable(t)
  <2> HIDE DEF t
  <2> QED BY <1>3, TableParts DEF WithKey
<1> HIDE DEF t
<1>5. e.op = "addKey" /\ e.names = {n} /\ e.table = t /\ ~e.columnObject
  BY DEF OnTable, DDLMessage
<1> HIDE DEF e
<1>6. StatementFits(catalog, e, n) /\ IsDDL(e)
  BY <1>1, <1>3, <1>4, <1>5 DEF StatementFits, IsDDL, AllDDL, Exists
<1> QED BY <1>1, <1>5, <1>6, NewTable

LEMMA GrowsByRow ==
  ASSUME IsCatalog(catalog), NEW op \in {"I", "U"}, NEW n \in Name, NEW nul, WriteRow(op, n, nul)
  PROVE  \E e : Grows(e)
<1> DEFINE e == [op |-> op, name |-> n, nul |-> nul, table |-> catalog[n]]
<1>1. /\ wal' = Append(wal, e) /\ catalog' = catalog /\ Exists(catalog[n])
      /\ UNCHANGED <<settings, chainVars, targetVars>>
  BY DEF WriteRow, Logged
<1>2. ~IsDDL(e) /\ e.name = n /\ e.table = catalog[n] /\ e.op = op
  BY DEF IsDDL, AllDDL
<1> HIDE DEF e
<1>3. EntryFits(catalog, e)
  BY <1>1, <1>2 DEF EntryFits
<1>4. Changed(catalog, e) = catalog
  BY <1>2 DEF Changed, IsCatalog
<1> QED BY <1>1, <1>3, <1>4 DEF Grows

LEMMA SourceGrows ==
  ASSUME IsCatalog(catalog), Len(wal) \in Nat, SourceStep
  PROVE  \E e : Grows(e)
<1>1. CASE \E n \in Name, l \in Layouts : CreateTable(n, l)
  BY <1>1, GrowsByCreate
<1>2. CASE \E S \in (SUBSET Name) \ {{}} : DropTables(S)
  BY <1>2, GrowsByDrop
<1>3. CASE \E n \in Name, c \in Column, k \in {"plain", "generated"},
              op \in {"addColumn", "shortAdd"} : AddColumn(op, n, c, k)
  BY <1>3, GrowsByColumn
<1>4. CASE \E n \in Name, c \in Column : DropColumn(n, c)
  BY <1>4, GrowsByDropColumn
<1>5. CASE \E n \in Name, c, d \in Column, op \in {"renameColumn", "renameGenerated"} :
             RenameColumn(op, n, c, d)
  BY <1>5, GrowsByRenameColumn
<1>6. CASE \E n, m \in Name : RenameTable(n, m)
  BY <1>6, GrowsByRenameTable
<1>7. CASE \E n \in Name : AddPrimaryKey(n)
  BY <1>7, GrowsByKey
<1>8. CASE \E n \in Name, op \in {"I", "U"}, nul \in BOOLEAN :
             (nul => op = "I") /\ WriteRow(op, n, nul)
  BY <1>8, GrowsByRow
<1> QED BY <1>1, <1>2, <1>3, <1>4, <1>5, <1>6, <1>7, <1>8 DEF SourceStep

-----------------------------------------------------------------------------
(* A statement, executed on a target that is where the source was before   *)
(* it, does what it did there; executed once more, it does nothing.        *)

\* A statement that depends on no other table than those it concerns.
LEMMA FitsLocally ==
  ASSUME NEW h, NEW t, NEW e, IsDDL(e), EntryFits(h, e), \A n \in Concerned(e) : t[n] = h[n]
  PROVE  EntryFits(t, e)
<1>1. CASE e.op = "drop"
  BY <1>1 DEF EntryFits, Concerned
<1>2. CASE e.op # "drop"
  <2>1. PICK n \in Name : StatementFits(h, e, n)
    BY <1>2 DEF EntryFits
  <2>2. n \in Concerned(e) /\ (e.op = "renameTable" => e.from \in Concerned(e))
    BY <2>1 DEF StatementFits, Concerned
  <2>3. t[n] = h[n] /\ (e.op = "renameTable" => t[e.from] = h[e.from])
    BY <2>2
  <2>4. StatementFits(t, e, n)
    BY <2>1, <2>3 DEF StatementFits
  <2> QED BY <1>2, <2>4 DEF EntryFits
<1> QED BY <1>1, <1>2

\* It concerns tables of the schema, one at least.
LEMMA ConcernsNames ==
  ASSUME NEW h, NEW e, IsDDL(e), EntryFits(h, e)
  PROVE  Concerned(e) \subseteq Name /\ e.names # {} /\ e.names \subseteq Concerned(e)
BY DEF EntryFits, StatementFits, Concerned

\* One table in the place of another.
Put(h, n, t) == [m \in Name |-> IF m = n THEN t ELSE h[m]]

LEMMA Puts ==
  ASSUME NEW h, IsCatalog(h), NEW n \in Name, NEW t
  PROVE  [h EXCEPT ![n] = t] = Put(h, n, t)
BY DEF IsCatalog, Put

\* The ways in which Altered changes a table.
LEMMA AltersColumns ==
  ASSUME NEW h, IsCatalog(h), NEW n \in Name, NEW cols
  PROVE  [h EXCEPT ![n].cols = cols] = Put(h, n, WithColumns(h[n], cols))
<1>1. [h EXCEPT ![n].cols = cols] = [h EXCEPT ![n] = [h[n] EXCEPT !.cols = cols]]
  OBVIOUS
<1>2. [h[n] EXCEPT !.cols = cols] = WithColumns(h[n], cols)
  BY TableWithColumns, Zenon DEF IsCatalog, WithColumns
<1> QED BY <1>1, <1>2, Puts

LEMMA AltersKey ==
  ASSUME NEW h, IsCatalog(h), NEW n \in Name, NEW k
  PROVE  [h EXCEPT ![n].key = k] =
           Put(h, n, [id |-> h[n].id, atts |-> h[n].atts, cols |-> h[n].cols, key |-> k])
<1>1. [h EXCEPT ![n].key = k] = [h EXCEPT ![n] = [h[n] EXCEPT !.key = k]]
  OBVIOUS
<1>2. [h[n] EXCEPT !.key = k] = [id |-> h[n].id, atts |-> h[n].atts, cols |-> h[n].cols, key |-> k]
  BY TableWithKey, Zenon DEF IsCatalog
<1> QED BY <1>1, <1>2, Puts

\* As Altered adds a column.
ColumnAdded(h, n, c, kind) ==
  [h EXCEPT ![n].cols = @ \cup {[att |-> h[n].atts + 1, name |-> c, kind |-> kind]},
            ![n].atts = @ + 1]

LEMMA AltersColumn ==
  ASSUME NEW h, IsCatalog(h), NEW n \in Name, NEW c, NEW kind
  PROVE  ColumnAdded(h, n, c, kind) = Put(h, n, WithColumn(h[n], c, kind))
<1> DEFINE cols == h[n].cols \cup {[att |-> h[n].atts + 1, name |-> c, kind |-> kind]}
           g == [h EXCEPT ![n].cols = cols]
<1>1. g = Put(h, n, WithColumns(h[n], cols))
  BY AltersColumns
<1>2. g = [m \in Name |-> g[m]] /\ g[n] = WithColumns(h[n], cols)
  BY <1>1 DEF Put
<1>3. g[n].atts = h[n].atts /\ IsTable(g[n])
  <2> HIDE DEF g, cols
  <2> QED BY <1>2, TableParts DEF WithColumns
<1>4. [g[n] EXCEPT !.atts = @ + 1] = WithColumn(h[n], c, kind)
  <2>1. [WithColumns(h[n], cols) EXCEPT !.atts = @ + 1] = WithColumn(h[n], c, kind)
    BY DEF WithColumns, WithColumn
  <2> HIDE DEF g
  <2> QED BY <1>2, <2>1
<1>5. [g EXCEPT ![n].atts = @ + 1] = Put(h, n, WithColumn(h[n], c, kind))
  <2>1. [g EXCEPT ![n].atts = @ + 1] = [g EXCEPT ![n] = [g[n] EXCEPT !.atts = @ + 1]]
    OBVIOUS
  <2>2. \A m \in Name : m # n => g[m] = h[m]
    BY <1>1 DEF Put
  <2> HIDE DEF g
  <2> QED BY <1>2, <1>4, <2>1, <2>2 DEF Put
<1> QED BY <1>5 DEF ColumnAdded

\* On a catalog that the statement fits the target does what the source did.
LEMMA AltersAsChanged ==
  ASSUME NEW t, IsCatalog(t), NEW e, IsDDL(e), EntryFits(t, e)
  PROVE  Altered(t, e) = Changed(t, e)
<1>1. CASE e.op = "drop"
  <2>1. \A m \in e.names : Exists(t[m])
    BY <1>1 DEF EntryFits
  <2>2. Altered(t, e) = [m \in Name |-> IF m \in e.names THEN NoTable ELSE t[m]]
    BY <1>1, <2>1 DEF Altered
  <2>3. e.table = NoTable
    BY <1>1 DEF EntryFits
  <2> QED BY <1>1, <2>2, <2>3 DEF Changed
<1>2. CASE e.op # "drop"
  <2>1. PICK n \in Name : StatementFits(t, e, n)
    BY <1>2 DEF EntryFits
  <2>2. e.names = {n} /\ (CHOOSE m \in e.names : TRUE) = n
    BY <2>1 DEF StatementFits
  <2>3. e.op # "renameTable" => Changed(t, e) = Put(t, n, e.table)
    BY <2>2 DEF Changed, Put
  <2>4. CASE e.op = "create"
    BY <2>1, <2>2, <2>3, <2>4, Puts DEF Altered, StatementFits
  <2>5. CASE e.op \in {"addColumn", "shortAdd"}
    <3>1. Exists(t[n]) /\ e.col \notin NamesIn(t[n]) /\ e.table = WithColumn(t[n], e.col, e.kind)
      BY <2>1, <2>5 DEF StatementFits
    <3>2. Altered(t, e) = ColumnAdded(t, n, e.col, e.kind)
      BY <2>2, <2>5, <3>1 DEF Altered, ColumnAdded
    <3> QED BY <2>3, <2>5, <3>1, <3>2, AltersColumn
  <2>6. CASE e.op = "dropColumn"
    <3> DEFINE left == {c \in t[n].cols : c.name # e.col}
    <3>1. e.table = WithColumns(t[n], left)
      BY <2>1, <2>6 DEF StatementFits
    <3>2. Altered(t, e) = [t EXCEPT ![n].cols = left]
      BY <2>2, <2>6 DEF Altered
    <3> HIDE DEF left
    <3> QED BY <2>3, <2>6, <3>1, <3>2, AltersColumns
  <2>7. CASE e.op \in {"renameColumn", "renameGenerated"}
    <3> DEFINE now == RenamedColumns(t[n], e.from, e.col)
    <3>1. /\ e.from \in NamesIn(t[n]) /\ e.col \notin NamesIn(t[n])
          /\ e.table = WithColumns(t[n], now)
      BY <2>1, <2>7 DEF StatementFits
    <3>2. Altered(t, e) = [t EXCEPT ![n] = Renamed(t[n], e.from, e.col)]
      BY <2>2, <2>7, <3>1 DEF Altered
    <3>3. Renamed(t[n], e.from, e.col) = WithColumns(t[n], now)
      BY TableWithColumns, Zenon DEF Renamed, WithColumns, RenamedColumns, IsCatalog
    <3> HIDE DEF now
    <3> QED BY <2>3, <2>7, <3>1, <3>2, <3>3, Puts
  <2>8. CASE e.op = "renameTable"
    <3>1. Exists(t[e.from]) /\ ~Exists(t[n]) /\ e.from \in Name /\ e.table = t[e.from]
      BY <2>1, <2>8 DEF StatementFits
    <3>2. e.from # n
      BY <3>1
    <3>3. Altered(t, e) = [t EXCEPT ![n] = t[e.from], ![e.from] = NoTable]
      BY <2>2, <2>8, <3>1 DEF Altered
    <3>4. Changed(t, e) =
            [m \in Name |-> IF m = n THEN t[e.from] ELSE IF m = e.from THEN NoTable ELSE t[m]]
      BY <2>2, <2>8, <3>1 DEF Changed
    <3>5. [t EXCEPT ![n] = t[e.from], ![e.from] = NoTable] =
            [m \in Name |-> IF m = n THEN t[e.from] ELSE IF m = e.from THEN NoTable ELSE t[m]]
      BY <3>1, <3>2 DEF IsCatalog
    <3> QED BY <3>3, <3>4, <3>5
  <2>9. CASE e.op = "addKey"
    <3>1. Exists(t[n]) /\ e.table = WithKey(t[n])
      BY <2>1, <2>9 DEF StatementFits
    <3>2. Altered(t, e) = [t EXCEPT ![n].key = TRUE]
      BY <2>2, <2>9, <3>1 DEF Altered
    <3>3. [t EXCEPT ![n].key = TRUE] = Put(t, n, WithKey(t[n]))
      BY AltersKey, Zenon DEF WithKey
    <3> QED BY <2>3, <2>9, <3>1, <3>2, <3>3
  <2> QED BY <1>2, <2>4, <2>5, <2>6, <2>7, <2>8, <2>9 DEF IsDDL, AllDDL
<1> QED BY <1>1, <1>2

\* What a statement has done, as far as a second execution of it can tell.
Settles(t, e) ==
  IF e.op = "drop" THEN e.names # {} /\ \A n \in e.names : ~Exists(t[n])
  ELSE \E n \in Name :
    /\ e.names = {n}
    /\ e.op = "create" => Exists(t[n])
    /\ e.op \in {"addColumn", "shortAdd"} => e.col \in NamesIn(t[n])
    /\ e.op = "dropColumn" => e.col \notin NamesIn(t[n])
    /\ e.op \in {"renameColumn", "renameGenerated"} => e.from \notin NamesIn(t[n])
    /\ e.op = "renameTable" => Exists(t[n])
    /\ e.op = "addKey" => Exists(t[n]) /\ t[n].key = TRUE

\* The second execution does nothing.
LEMMA SettledStays ==
  ASSUME NEW t, IsCatalog(t), NEW e, IsDDL(e), Settles(t, e)
  PROVE  Altered(t, e) = t
<1>1. CASE e.op = "drop"
  <2>1. ~\A m \in e.names : Exists(t[m])
    BY <1>1 DEF Settles
  <2> QED BY <1>1, <2>1 DEF Altered
<1>2. CASE e.op # "drop"
  <2>1. PICK n \in Name :
          /\ e.names = {n}
          /\ e.op = "create" => Exists(t[n])
          /\ e.op \in {"addColumn", "shortAdd"} => e.col \in NamesIn(t[n])
          /\ e.op = "dropColumn" => e.col \notin NamesIn(t[n])
          /\ e.op \in {"renameColumn", "renameGenerated"} => e.from \notin NamesIn(t[n])
          /\ e.op = "renameTable" => Exists(t[n])
          /\ e.op = "addKey" => Exists(t[n]) /\ t[n].key = TRUE
    BY <1>2 DEF Settles
  <2>2. (CHOOSE m \in e.names : TRUE) = n
    BY <2>1
  <2>3. CASE e.op \in {"create", "addColumn", "shortAdd", "renameColumn", "renameGenerated",
                       "renameTable"}
    BY <2>1, <2>2, <2>3 DEF Altered
  <2>4. WithColumns(t[n], t[n].cols) = t[n] /\ Put(t, n, t[n]) = t
    BY DEF IsCatalog, IsTable, WithColumns, Put
  <2>5. CASE e.op = "dropColumn"
    <3> DEFINE left == {c \in t[n].cols : c.name # e.col}
    <3>1. left = t[n].cols
      BY <2>1, <2>5 DEF NamesIn
    <3>2. Altered(t, e) = [t EXCEPT ![n].cols = left]
      BY <2>2, <2>5 DEF Altered
    <3> HIDE DEF left
    <3> QED BY <2>4, <3>1, <3>2, AltersColumns
  <2>6. CASE e.op = "addKey"
    <3>1. Altered(t, e) = [t EXCEPT ![n].key = TRUE]
      BY <2>1, <2>2, <2>6 DEF Altered
    <3>2. WithKey(t[n]) = t[n]
      BY <2>1, <2>6 DEF IsCatalog, IsTable, WithKey
    <3>3. [t EXCEPT ![n].key = TRUE] = Put(t, n, WithKey(t[n]))
      BY AltersKey, Zenon DEF WithKey
    <3> QED BY <2>4, <3>1, <3>2, <3>3
  <2> QED BY <1>2, <2>3, <2>5, <2>6 DEF IsDDL, AllDDL
<1> QED BY <1>1, <1>2

\* One execution is enough for that.
LEMMA SettlesOnce ==
  ASSUME NEW h, IsCatalog(h), NEW e, IsDDL(e), EntryFits(h, e)
  PROVE  Settles(Changed(h, e), e)
<1> DEFINE t == Changed(h, e)
<1>1. \A n \in Name : n \in e.names => t[n] = e.table
  BY DEF Changed
<1> HIDE DEF t
<1>2. CASE e.op = "drop"
  <2>1. e.names \subseteq Name /\ e.names # {} /\ e.table = NoTable
    BY <1>2 DEF EntryFits
  <2>2. ~Exists(NoTable)
    BY DEF Exists, NoTable
  <2> QED BY <1>1, <1>2, <2>1, <2>2 DEF Settles, t
<1>3. CASE e.op # "drop"
  <2>1. PICK n \in Name : StatementFits(h, e, n)
    BY <1>3 DEF EntryFits
  <2>2. e.names = {n} /\ t[n] = e.table /\ Exists(t[n])
    BY <1>1, <2>1 DEF StatementFits
  <2>3. e.op \in {"addColumn", "shortAdd"} => e.col \in NamesIn(t[n])
    <3> SUFFICES ASSUME e.op \in {"addColumn", "shortAdd"} PROVE e.col \in NamesIn(t[n])
      OBVIOUS
    <3> DEFINE col == [att |-> h[n].atts + 1, name |-> e.col, kind |-> e.kind]
    <3>1. col \in t[n].cols /\ col.name = e.col
      BY <2>1, <2>2 DEF StatementFits, WithColumn
    <3> HIDE DEF col
    <3> QED BY <3>1 DEF NamesIn
  <2>4. e.op = "dropColumn" => e.col \notin NamesIn(t[n])
    <3> SUFFICES ASSUME e.op = "dropColumn" PROVE e.col \notin NamesIn(t[n])
      OBVIOUS
    <3>1. t[n].cols = {c \in h[n].cols : c.name # e.col}
      BY <2>1, <2>2 DEF StatementFits, WithColumns
    <3> QED BY <3>1 DEF NamesIn
  <2>5. e.op \in {"renameColumn", "renameGenerated"} => e.from \notin NamesIn(t[n])
    <3> SUFFICES ASSUME e.op \in {"renameColumn", "renameGenerated"}, NEW x \in t[n].cols
                 PROVE  x.name # e.from
      BY DEF NamesIn
    <3>1. /\ t[n].cols = RenamedColumns(h[n], e.from, e.col)
          /\ e.from \in NamesIn(h[n]) /\ e.col \notin NamesIn(h[n])
      BY <2>1, <2>2 DEF StatementFits, WithColumns
    <3>2. PICK y \in h[n].cols : x = IF y.name = e.from THEN [y EXCEPT !.name = e.col] ELSE y
      BY <3>1 DEF RenamedColumns
    <3>3. CASE y.name = e.from
      <4>1. x = [y EXCEPT !.name = e.col]
        BY <3>2, <3>3
      <4>2. x.name = e.col \/ x.name = y.name
        BY <4>1
      <4> QED BY <3>1, <3>2, <3>3, <4>1, <4>2 DEF NamesIn
    <3>4. CASE y.name # e.from
      BY <3>2, <3>4
    <3> QED BY <3>3, <3>4
  <2>6. e.op = "addKey" => t[n].key = TRUE
    BY <2>1, <2>2 DEF StatementFits, WithKey
  <2> QED BY <1>3, <2>2, <2>3, <2>4, <2>5, <2>6 DEF Settles, t
<1> QED BY <1>2, <1>3

\* And only the tables the statement concerns matter.
LEMMA SettlesLocally ==
  ASSUME NEW h, NEW t, NEW e, Settles(h, e), \A n \in Concerned(e) : t[n] = h[n]
  PROVE  Settles(t, e)
<1>1. \A n \in e.names : t[n] = h[n]
  BY DEF Concerned
<1> QED BY <1>1 DEF Settles

-----------------------------------------------------------------------------
(* The batch is executed message by message.                               *)

\* FoldLeft builds its result from those of all sets of positions: these are
\* the ones of the sets up to n.
FoldsBatch(start, messages, n, f) ==
  f = [S \in SUBSET (1..n) |->
         IF S = {} THEN start ELSE Executed(f[S \ {Max(S)}], messages[Max(S)])]

\* The last of the first n positions is taken off first.
LEMMA LastOfUpTo ==
  ASSUME NEW n \in Nat, NEW S \in SUBSET (1..n), n \in S
  PROVE  Max(S) = n
<1>1. \A x \in S : (\A y \in S : x >= y) <=> x = n
  OBVIOUS
<1>2. Max(S) = CHOOSE x \in S : \A y \in S : x >= y
  BY DEF Max
<1>3. Max(S) \in S /\ \A y \in S : Max(S) >= y
  BY <1>1, <1>2
<1> QED BY <1>1, <1>3

\* FoldLeft chooses such a function: there is one.
LEMMA BatchFolds ==
  ASSUME NEW start, NEW messages, NEW N \in Nat
  PROVE  \E f : FoldsBatch(start, messages, N, f)
<1> DEFINE Done == {n \in 0..N : \E f : FoldsBatch(start, messages, n, f)}
<1>1. 0 \in Done
  <2> DEFINE f == [S \in SUBSET (1..0) |-> start]
  <2>1. f = [S \in SUBSET (1..0) |->
               IF S = {} THEN start ELSE Executed(f[S \ {Max(S)}], messages[Max(S)])]
    <3>1. \A S \in SUBSET (1..0) : S = {}
      OBVIOUS
    <3> QED BY <3>1
  <2> HIDE DEF f
  <2>2. FoldsBatch(start, messages, 0, f)
    BY <2>1, Zenon DEF FoldsBatch
  <2>3. 0 \in 0..N
    OBVIOUS
  <2> QED BY <2>2, <2>3, Zenon
<1>2. ASSUME NEW n \in 0..N, n \in Done, n < N PROVE n + 1 \in Done
  <2>1. PICK f : FoldsBatch(start, messages, n, f)
    BY <1>2
  <2> DEFINE g == [S \in SUBSET (1..n + 1) |->
                     IF n + 1 \in S THEN Executed(f[S \ {n + 1}], messages[n + 1]) ELSE f[S]]
  <2>2. \A S \in SUBSET (1..n + 1) : S \ {n + 1} \in SUBSET (1..n)
    BY <1>2
  <2>3. \A S \in SUBSET (1..n) : S \in SUBSET (1..n + 1) /\ n + 1 \notin S /\ g[S] = f[S]
    BY <1>2
  <2>4. ASSUME NEW S \in SUBSET (1..n + 1)
        PROVE  g[S] = IF S = {} THEN start
                      ELSE Executed(g[S \ {Max(S)}], messages[Max(S)])
    <3>1. CASE n + 1 \in S
      <4>1. Max(S) = n + 1
        BY <1>2, <3>1, LastOfUpTo
      <4>2. g[S] = Executed(f[S \ {n + 1}], messages[n + 1])
        BY <3>1
      <4>3. g[S \ {n + 1}] = f[S \ {n + 1}]
        BY <2>2, <2>3
      <4> HIDE DEF g
      <4> QED BY <3>1, <4>1, <4>2, <4>3
    <3>2. CASE n + 1 \notin S
      <4>1. S \in SUBSET (1..n) /\ g[S] = f[S]
        BY <2>2, <3>2
      <4> HIDE DEF g
      <4>2. f[S] = IF S = {} THEN start ELSE Executed(f[S \ {Max(S)}], messages[Max(S)])
        BY <2>1, <4>1 DEF FoldsBatch
      <4>3. g[S \ {Max(S)}] = f[S \ {Max(S)}]
        BY <2>3, <4>1
      <4> QED BY <4>1, <4>2, <4>3
    <3> QED BY <3>1, <3>2
  <2>5. g = [S \in SUBSET (1..n + 1) |-> g[S]]
    OBVIOUS
  <2> HIDE DEF g
  <2>6. FoldsBatch(start, messages, n + 1, g)
    BY <2>4, <2>5, Zenon DEF FoldsBatch
  <2> QED BY <1>2, <2>6
<1>3. N \in Done
  <2> HIDE DEF Done
  <2>1. \A n \in 0..N : n \in Done /\ n < N => n + 1 \in Done
    BY <1>2
  <2>2. \A n \in 0..N : n \in Done
    BY <1>1, <2>1, UpTo
  <2> QED BY <2>2
<1> QED BY <1>3

\* What the first n messages of a batch have made of the target, for every n.
Execution(start, messages, t) ==
  /\ t[0] = start
  /\ \A n \in 1..Len(messages) : t[n] = Executed(t[n - 1], messages[n])

\* The sets that matter are those of the first positions.
LEMMA FoldExecutes ==
  ASSUME NEW start, NEW messages, Len(messages) \in Nat, NEW f,
         FoldsBatch(start, messages, Len(messages), f)
  PROVE  \E t : Execution(start, messages, t) /\ t[Len(messages)] = f[1..Len(messages)]
<1> DEFINE N == Len(messages)
<1>1. FoldsBatch(start, messages, N, f)
  OBVIOUS
<1> DEFINE t == [n \in 0..N |-> f[1..n]]
<1> HIDE DEF N
<1>0. N \in Nat
  BY DEF N
<1>2. t[0] = start
  <2>1. 1..0 = {} /\ {} \in SUBSET (1..N) /\ 0 \in 0..N
    BY <1>0
  <2>2. t[0] = f[{}]
    BY <2>1
  <2> HIDE DEF t
  <2> QED BY <1>1, <2>1, <2>2 DEF FoldsBatch
<1>3. ASSUME NEW n \in 1..N PROVE t[n] = Executed(t[n - 1], messages[n])
  <2>1. n \in Nat /\ n - 1 \in 0..N /\ n \in 0..N /\ n \in 1..n
    BY <1>0
  <2>5. 1..n \in SUBSET (1..N) /\ 1..n # {}
    <3>1. 1..n # {}
      BY <2>1
    <3>2. n <= N
      BY <1>0
    <3>3. \A x \in 1..n : x \in 1..N
      BY <1>0, <2>1, <3>2
    <3> QED BY <3>1, <3>3
  <2>6. (1..n) \ {n} = 1..(n - 1)
    BY <2>1
  <2>2. Max(1..n) = n
    BY <2>1, <2>5, LastOfUpTo
  <2>3. t[n] = f[1..n] /\ t[n - 1] = f[1..(n - 1)]
    BY <2>1
  <2> HIDE DEF t
  <2>4. f[1..n] = IF 1..n = {} THEN start
                  ELSE Executed(f[(1..n) \ {Max(1..n)}], messages[Max(1..n)])
    BY <1>1, <2>5 DEF FoldsBatch
  <2> QED BY <2>2, <2>3, <2>4, <2>5, <2>6
<1>4. t[N] = f[1..N]
  <2>1. N \in 0..N
    BY <1>0
  <2> QED BY <2>1
<1> HIDE DEF t
<1> QED BY <1>2, <1>3, <1>4 DEF Execution, N

\* The batch, executed.
LEMMA BatchExecutes ==
  ASSUME NEW T, NEW messages \in Seq(T), NEW start
  PROVE  \E t : /\ Execution(start, messages, t)
                /\ t[Len(messages)] = FoldLeft(Executed, start, messages)
<1> DEFINE N == Len(messages)
           IsFold(g) == g = [S \in SUBSET (DOMAIN messages) |->
                IF S = {} THEN start ELSE Executed(g[S \ {Max(S)}], messages[Max(S)])]
           f == CHOOSE g : IsFold(g)
<1>1. DOMAIN messages = 1..N /\ N \in Nat
  BY LenProperties
<1>2. FoldLeft(Executed, start, messages) = f[1..N]
  BY <1>1 DEF FoldLeft, MapThenFoldSet
<1>3. \A g : IsFold(g) <=> FoldsBatch(start, messages, N, g)
  <2> HIDE DEF N
  <2> QED BY <1>1 DEF FoldsBatch
<1>4. \E g : IsFold(g)
  BY <1>1, <1>3, BatchFolds
<1>5. IsFold(f)
  BY <1>4
<1> HIDE DEF f, IsFold
<1>6. \E t : Execution(start, messages, t) /\ t[N] = f[1..N]
  BY <1>1, <1>3, <1>5, FoldExecutes
<1> QED BY <1>2, <1>6

-----------------------------------------------------------------------------
(* The filter lets the statements through that the target's tables need.   *)

\* The tables that pass the filter, and the catalogs that have the same of them.
Replicated == {n \in Name : ~SkipEvent(n)}
Agree(h, g) == \A n \in Replicated : h[n] = g[n]

\* A statement is filtered with all the tables it concerns.
LEMMA FilteredWhole ==
  ASSUME NEW h, NEW e, IsDDL(e), EntryFits(h, e), ~Crossing(e)
  PROVE  /\ ~Filtered(e) => Concerned(e) \subseteq Replicated
         /\ Filtered(e) => Concerned(e) \cap Replicated = {}
<1>1. Concerned(e) \subseteq Name /\ e.names # {} /\ e.names \subseteq Concerned(e)
  BY ConcernsNames
<1>2. CASE settings.filter = "none"
  <2>1. \A n : ~SkipEvent(n)
    BY <1>2 DEF SkipEvent
  <2> QED BY <1>1, <2>1 DEF Replicated, Filtered, SkipDDLEvent
<1>3. CASE settings.filter # "none"
  <2>1. /\ Concerned(e) \cap Quoted = {}
        /\ \A n, m \in Concerned(e) : SkipEvent(n) = SkipEvent(m)
    BY <1>3 DEF Crossing, Concerned
  <2>2. \A n \in e.names : GetTable(n) = n
    BY <1>1, <2>1 DEF GetTable
  <2>3. Filtered(e) <=> \E n \in e.names : SkipEvent(n)
    BY <2>2 DEF Filtered, SkipDDLEvent
  <2> HIDE DEF Concerned
  <2> QED BY <1>1, <2>1, <2>3 DEF Replicated
<1> QED BY <1>2, <1>3

\* A row changes no table.
LEMMA RowKeepsTables ==
  ASSUME NEW h, IsCatalog(h), NEW e, ~IsDDL(e)
  PROVE  Changed(h, e) = h
<1>1. Changed(h, e) = [n \in Name |-> h[n]]
  BY DEF Changed
<1>2. h = [n \in Name |-> h[n]]
  BY DEF IsCatalog
<1> QED BY <1>1, <1>2

\* What the filter takes out changes no table that is replicated.
LEMMA FilteredStays ==
  ASSUME NEW h, IsCatalog(h), NEW e, EntryFits(h, e), ~Crossing(e), Filtered(e)
  PROVE  Agree(Changed(h, e), h)
<1>1. CASE ~IsDDL(e)
  <2>1. Changed(h, e) = h
    BY <1>1, RowKeepsTables
  <2> QED BY <2>1, Zenon DEF Agree
<1>2. CASE IsDDL(e)
  <2>1. Concerned(e) \cap Replicated = {}
    BY <1>2, FilteredWhole
  <2>2. ASSUME NEW n \in Replicated PROVE Changed(h, e)[n] = h[n]
    <3>1. n \in Name /\ n \notin e.names /\ (e.op = "renameTable" => n # e.from)
      BY <2>1 DEF Concerned, Replicated
    <3> QED BY <3>1 DEF Changed
  <2> QED BY <2>2 DEF Agree
<1> QED BY <1>1, <1>2

\* A catalog stays one.
LEMMA ChangedCatalog ==
  ASSUME NEW h, IsCatalog(h), NEW e, EntryFits(h, e)
  PROVE  IsCatalog(Changed(h, e))
<1>2. IsTable(NoTable)
  BY DEF IsTable, NoTable
<1>1. IsDDL(e) => IsTable(e.table)
  BY <1>2 DEF EntryFits, StatementFits
<1> QED BY <1>1, <1>2 DEF IsCatalog, Changed

\* A message is executed on a target that has the tables of the statement's catalog,
\* before the statement or, when it comes again, after it.
LEMMA StatementApplies ==
  ASSUME NEW h, IsCatalog(h), NEW t, IsCatalog(t), NEW e, IsDDL(e), EntryFits(h, e),
         ~Crossing(e), ~Filtered(e), Agree(t, h) \/ Agree(t, Changed(h, e))
  PROVE  IsCatalog(Altered(t, e)) /\ Agree(Altered(t, e), Changed(h, e))
<1>1. Concerned(e) \subseteq Replicated
  BY FilteredWhole
<1>2. CASE Agree(t, h)
  <2>1. EntryFits(t, e)
    BY <1>1, <1>2, FitsLocally DEF Agree
  <2>2. Altered(t, e) = Changed(t, e)
    BY <2>1, AltersAsChanged
  <2>3. Agree(Changed(t, e), Changed(h, e))
    BY <1>2 DEF Agree, Changed, Replicated
  <2> QED BY <2>1, <2>2, <2>3, ChangedCatalog
<1>3. CASE Agree(t, Changed(h, e))
  <2>1. Settles(Changed(h, e), e)
    BY SettlesOnce
  <2>2. Settles(t, e)
    BY <1>1, <1>3, <2>1, SettlesLocally DEF Agree
  <2>3. Altered(t, e) = t
    BY <2>2, SettledStays
  <2> QED BY <1>3, <2>3
<1> QED BY <1>2, <1>3

-----------------------------------------------------------------------------
(* What the observer knows stays enough.                                   *)

\* No column is renamed whose kind a query depends on: the message of the rename is
\* not about the table, and the observer does not take it in.
PlainRenames ==
  /\ "renameGenerated" \notin DDLOps
  /\ \A l \in Layouts : OfKind(l, {"identity"}) \subseteq {KeyColumn}
  /\ \A n \in DOMAIN Tables : OfKind(Tables[n], {"identity"}) \subseteq {KeyColumn}

IdentityKeys(t) == OfKind(t, {"identity"}) \subseteq {KeyColumn}

\* The table t has no generated column and no identity that u has not.
Narrows(t, u) ==
  /\ OfKind(t, {"generated"}) \subseteq OfKind(u, {"generated"})
  /\ OfKind(t, {"identity"}) \subseteq OfKind(u, {"identity"})

\* A table that is not there has no such columns.
LEMMA NoTableNarrows == \A t : Narrows(NoTable, t) /\ IdentityKeys(NoTable) /\ Narrows(t, t)
BY DEF Narrows, IdentityKeys, OfKind, NoTable

\* A plain column gets another name: no column of such a kind is new.
LEMMA RenameNarrows ==
  ASSUME NEW t, NEW u, NEW c, NEW d, c # KeyColumn, c \notin OfKind(t, {"generated"}),
         IdentityKeys(t), u.cols = RenamedColumns(t, c, d)
  PROVE  Narrows(u, t) /\ IdentityKeys(u)
<1>1. ASSUME NEW x \in u.cols, x.kind \in {"generated", "identity"} PROVE x \in t.cols
  <2>1. PICK y \in t.cols : x = IF y.name = c THEN [y EXCEPT !.name = d] ELSE y
    BY DEF RenamedColumns
  <2>2. CASE y.name = c
    <3>1. x = [y EXCEPT !.name = d]
      BY <2>1, <2>2
    <3>2. x.kind = y.kind
      BY <3>1
    <3> QED BY <1>1, <2>2, <3>2 DEF OfKind, IdentityKeys
  <2>3. CASE y.name # c
    BY <2>1, <2>3
  <2> QED BY <2>2, <2>3
<1>2. Narrows(u, t)
  BY <1>1 DEF Narrows, OfKind
<1> QED BY <1>2 DEF Narrows, IdentityKeys

\* A table that no message describes to the observer gets no column of a kind that
\* it should know of.
LEMMA KindsNarrow ==
  ASSUME PlainRenames, NEW h, IsCatalog(h), NEW e, IsDDL(e), EntryFits(h, e), NEW n \in Name,
         IdentityKeys(h[n]), n \notin e.names \/ e.columnObject
  PROVE  Narrows(Changed(h, e)[n], h[n])
<1>1. CASE n \notin e.names
  BY <1>1, NoTableNarrows DEF Changed
<1>2. CASE n \in e.names /\ e.columnObject
  <2>1. e.op # "drop"
    BY <1>2 DEF EntryFits
  <2>2. StatementFits(h, e, n) /\ e.op \in DDLOps
    BY <1>2, <2>1 DEF EntryFits, StatementFits
  <2>3. e.op = "renameColumn"
    BY <1>2, <2>2 DEF StatementFits, PlainRenames
  <2>4. /\ e.from # KeyColumn /\ e.from \notin OfKind(h[n], {"generated"})
        /\ e.table = WithColumns(h[n], RenamedColumns(h[n], e.from, e.col))
    BY <2>2, <2>3 DEF StatementFits
  <2>5. e.table.cols = RenamedColumns(h[n], e.from, e.col)
    BY <2>4 DEF WithColumns
  <2>6. Narrows(e.table, h[n])
    BY <2>4, <2>5, RenameNarrows
  <2> QED BY <1>2, <2>6 DEF Changed
<1> QED BY <1>1, <1>2

\* Identities stay what the key is made of.
LEMMA IdentityStays ==
  ASSUME PlainRenames, NEW h, IsCatalog(h), NEW e, EntryFits(h, e),
         \A n \in Name : IdentityKeys(h[n])
  PROVE  \A n \in Name : IdentityKeys(Changed(h, e)[n])
<1> SUFFICES ASSUME NEW n \in Name PROVE IdentityKeys(Changed(h, e)[n])
  OBVIOUS
<1>1. CASE ~IsDDL(e) \/ n \notin e.names
  BY <1>1, NoTableNarrows DEF Changed
<1>2. CASE IsDDL(e) /\ n \in e.names
  <2>1. Changed(h, e)[n] = e.table
    BY <1>2 DEF Changed
  <2>2. CASE e.op = "drop"
    BY <1>2, <2>1, <2>2, NoTableNarrows DEF EntryFits
  <2>3. CASE e.op # "drop"
    <3>1. StatementFits(h, e, n) /\ e.op \in DDLOps
      BY <1>2, <2>3 DEF EntryFits, StatementFits
    <3>2. CASE e.op = "create"
      BY <2>1, <3>1, <3>2 DEF StatementFits, PlainRenames, IdentityKeys, OfKind
    <3>3. CASE e.op \in {"addColumn", "shortAdd"}
      <4> DEFINE col == [att |-> h[n].atts + 1, name |-> e.col, kind |-> e.kind]
      <4>1. e.table = WithColumn(h[n], e.col, e.kind) /\ e.kind \in {"plain", "generated"}
        BY <3>1, <3>3 DEF StatementFits
      <4>2. e.table.cols = h[n].cols \cup {col} /\ col.kind # "identity"
        BY <4>1 DEF WithColumn
      <4> HIDE DEF col
      <4>3. {d \in e.table.cols : d.kind \in {"identity"}} \subseteq h[n].cols
        BY <4>2
      <4> QED BY <2>1, <4>3 DEF IdentityKeys, OfKind
    <3>4. CASE e.op = "dropColumn"
      <4>1. e.table = WithColumns(h[n], {c \in h[n].cols : c.name # e.col})
        BY <3>1, <3>4 DEF StatementFits
      <4>2. e.table.cols \subseteq h[n].cols
        BY <4>1 DEF WithColumns
      <4> QED BY <2>1, <4>2 DEF IdentityKeys, OfKind
    <3>5. CASE e.op \in {"renameColumn", "renameGenerated"}
      <4>0. e.op = "renameColumn"
        BY <3>1, <3>5 DEF PlainRenames
      <4>1. /\ e.from # KeyColumn /\ e.from \notin OfKind(h[n], {"generated"})
            /\ e.table = WithColumns(h[n], RenamedColumns(h[n], e.from, e.col))
        BY <3>1, <4>0 DEF StatementFits
      <4>2. e.table.cols = RenamedColumns(h[n], e.from, e.col)
        BY <4>1 DEF WithColumns
      <4> QED BY <2>1, <4>1, <4>2, RenameNarrows
    <3>6. CASE e.op = "renameTable"
      BY <2>1, <3>1, <3>6 DEF StatementFits
    <3>7. CASE e.op = "addKey"
      <4>1. e.table.cols = h[n].cols
        BY <3>1, <3>7 DEF StatementFits, WithKey
      <4> QED BY <2>1, <4>1 DEF IdentityKeys, OfKind
    <3> QED BY <1>2, <2>3, <3>2, <3>3, <3>4, <3>5, <3>6, <3>7 DEF IsDDL, AllDDL
  <2> QED BY <2>2, <2>3
<1> QED BY <1>1, <1>2

\* Over a whole log.
LEMMA IdentitiesAreKeys ==
  ASSUME PlainRenames, NEW w, Len(w) \in Nat, NEW H, History(w, H)
  PROVE  \A i \in 0..Len(w) : \A n \in Name : IdentityKeys(H[i][n])
<1> DEFINE P(i) == \A n \in Name : IdentityKeys(H[i][n])
           D == {i \in 0..Len(w) : P(i)}
<1>1. 0 \in D
  <2>1. \A n \in Name : IdentityKeys(StartingTables[n])
    BY NoTableNarrows DEF PlainRenames, StartingTables, IdentityKeys
  <2> QED BY <2>1 DEF History
<1>2. \A i \in 0..Len(w) : i \in D /\ i < Len(w) => i + 1 \in D
  <2> SUFFICES ASSUME NEW i \in 0..Len(w), i \in D, i < Len(w) PROVE i + 1 \in D
    OBVIOUS
  <2>1. i + 1 \in 1..Len(w) /\ i + 1 \in 0..Len(w) /\ (i + 1) - 1 = i
    OBVIOUS
  <2>2. IsCatalog(H[i]) /\ EntryFits(H[i], w[i + 1]) /\ H[i + 1] = Changed(H[i], w[i + 1])
    <3>1. \A j \in 1..Len(w) : EntryFits(H[j - 1], w[j]) /\ H[j] = Changed(H[j - 1], w[j])
      BY DEF History
    <3>2. EntryFits(H[(i + 1) - 1], w[i + 1]) /\ H[i + 1] = Changed(H[(i + 1) - 1], w[i + 1])
      BY <2>1, <3>1
    <3> QED BY <2>1, <3>2 DEF History
  <2>3. P(i + 1)
    BY <2>2, IdentityStays
  <2> QED BY <2>1, <2>3
<1> HIDE DEF D
<1>3. \A i \in 0..Len(w) : i \in D
  BY <1>1, <1>2, UpTo
<1> QED BY <1>3 DEF D

-----------------------------------------------------------------------------
(* The target follows the log.                                             *)

\* The position the target has reached after k messages of the batch.
Reached(f, b, k) == IF k = 0 THEN f ELSE b[k].pos

\* After position i, what is at p comes next for the target, or comes again.
Follows(H, i, p) == Agree(H[i], H[p - 1]) \/ i = p

\* The row's query sets what the table had, and no column the target computes.
QueryFits(q, e) ==
  /\ q.name = e.name /\ q.sets \subseteq NamesIn(e.table) /\ (q.nul => ~settings.sanitize)
  /\ PlainRenames =>
       /\ q.sets \cap OfKind(e.table, {"generated"}) = {}
       /\ q.op = "U" => q.sets \cap OfKind(e.table, {"identity"}) = {}

MessageFits(q) ==
  /\ ~Filtered(wal[q.pos]) /\ (IsDDL(q) <=> IsDDL(wal[q.pos]))
  /\ IsRowQuery(q) => QueryFits(q, wal[q.pos])

\* The target's tables are those of the catalog that the position f has reached, and
\* the messages b lead from there to where the chain is, at p.
TargetAt(H, t, f, p, b) ==
  /\ IsCatalog(t) /\ Agree(t, H[f]) /\ f - 1 <= p
  /\ \A k \in 1..Len(b) :
       /\ f <= b[k].pos /\ MessageFits(b[k]) /\ Follows(H, Reached(f, b, k - 1), b[k].pos)
  /\ Follows(H, Reached(f, b, Len(b)), p + 1)

TargetInv(H) == TargetAt(H, targetTables, flushed, at, buffered)

\* The observer knows a table's columns, or may ask the target for them.
Shows(o, t) ==
  /\ OfKind(t, {"generated"}) \subseteq o.generated
  /\ OfKind(t, {"identity"}) \subseteq o.always

OnlyNulls(rows) == \A q \in rows : q.nul /\ ~settings.sanitize

ObserverInv(H) ==
  /\ observed = [n \in Name |-> observed[n]] /\ OnlyNulls(refused)
  /\ \A n \in Replicated :
       IF observed[n].known THEN flushed <= at /\ Shows(observed[n], H[at][n])
       ELSE \A j \in flushed..at : Narrows(H[at][n], H[j][n])

FollowInv ==
  \E H : /\ History(wal, H) /\ H[Len(wal)] = catalog
         /\ NoneCrosses => TargetInv(H) /\ (PlainRenames => ObserverInv(H))

\* A step that leaves the configuration alone leaves the filter alone.
LEMMA FilterStays ==
  ASSUME settings' = settings
  PROVE  /\ Replicated' = Replicated
         /\ \A x : /\ Filtered(x)' = Filtered(x) /\ Crossing(x)' = Crossing(x)
                 /\ SkipEvent(x)' = SkipEvent(x)
<1>1. \A x : SkipEvent(x)' = SkipEvent(x)
  BY DEF SkipEvent, ContainsSchemaTable
<1> QED BY <1>1 DEF Replicated, Filtered, SkipDDLEvent, Crossing

\* What is known of a position in the log.
LEMMA HistoryAt ==
  ASSUME NEW w, Len(w) \in Nat, NEW H, History(w, H), NEW p \in 1..Len(w)
  PROVE  /\ p - 1 \in 0..Len(w) /\ p \in 0..Len(w) /\ IsCatalog(H[p - 1]) /\ IsCatalog(H[p])
         /\ EntryFits(H[p - 1], w[p]) /\ H[p] = Changed(H[p - 1], w[p])
<1>1. p - 1 \in 0..Len(w) /\ p \in 0..Len(w)
  OBVIOUS
<1>2. \A i \in 1..Len(w) : EntryFits(H[i - 1], w[i]) /\ H[i] = Changed(H[i - 1], w[i])
  BY DEF History
<1> QED BY <1>1, <1>2 DEF History

\* And of the next one of the chain.
LEMMA NextEvent ==
  ASSUME ChainInv, NEW H, History(wal, H), at < Len(wal)
  PROVE  /\ at \in Nat /\ at + 1 \in 1..Len(wal) /\ (at + 1) - 1 = at
         /\ IsCatalog(H[at]) /\ IsCatalog(H[at + 1])
         /\ EntryFits(H[at], Next1) /\ H[at + 1] = Changed(H[at], Next1)
         /\ NoneCrosses => ~Crossing(Next1)
<1>1. /\ at \in Nat /\ Len(wal) \in Nat /\ at + 1 \in 1..Len(wal) /\ (at + 1) - 1 = at
      /\ at + 1 \in DOMAIN wal
  BY LenProperties DEF ChainInv, LogInv, PositionInv
<1> DEFINE p == at + 1
<1>2. /\ IsCatalog(H[p - 1]) /\ IsCatalog(H[p])
      /\ EntryFits(H[p - 1], wal[p]) /\ H[p] = Changed(H[p - 1], wal[p])
  <2>1. p \in 1..Len(wal) /\ Len(wal) \in Nat
    BY <1>1
  <2> HIDE DEF p
  <2> QED BY <2>1, HistoryAt
<1>3. NoneCrosses => ~Crossing(Next1)
  BY <1>1 DEF NoneCrosses, Next1
<1> QED BY <1>1, <1>2, <1>3 DEF Next1

\* The positions that the invariant speaks of.
LEMMA ChainPositions ==
  ASSUME ChainInv
  PROVE  /\ Len(wal) \in Nat /\ Len(buffered) \in Nat /\ at \in 0..Len(wal)
         /\ flushed \in 0..Len(wal) /\ DOMAIN wal = 1..Len(wal)
         /\ \A k \in 1..Len(buffered) :
              buffered[k].pos \in 1..at /\ k - 1 \in 0..Len(buffered)
         /\ \A k \in 0..Len(buffered) : Reached(flushed, buffered, k) \in 0..Len(wal)
<1>1. /\ Len(wal) \in Nat /\ Len(buffered) \in Nat /\ at \in 0..Len(wal)
      /\ flushed \in 0..Len(wal) /\ DOMAIN wal = 1..Len(wal)
      /\ DOMAIN buffered = 1..Len(buffered)
  BY LenProperties DEF ChainInv, LogInv, PositionInv
<1>2. \A k \in 1..Len(buffered) : buffered[k].pos \in 1..at
  BY <1>1 DEF ChainInv, PositionInv, Elements
<1>3. \A k \in 0..Len(buffered) : Reached(flushed, buffered, k) \in 0..Len(wal)
  BY <1>1, <1>2 DEF Reached
<1> QED BY <1>1, <1>2, <1>3

\* The invariant holds at the start, and the source keeps it.
LEMMA FollowStarts == ChainInit => FollowInv
<1> SUFFICES ASSUME ChainInit PROVE FollowInv
  OBVIOUS
<1>1. /\ wal = <<>> /\ Len(wal) = 0 /\ at = 0 /\ flushed = 0 /\ buffered = <<>>
      /\ Len(buffered) = 0 /\ catalog = StartingTables /\ targetTables = catalog
      /\ refused = {} /\ observed = [n \in Name |-> Unobserved]
  BY DEF ChainInit
<1>2. LogInv
  BY LogStarts
<1> DEFINE H == [i \in {0} |-> StartingTables]
<1>3. H[0] = StartingTables
  OBVIOUS
<1> HIDE DEF H
<1>4. IsCatalog(StartingTables)
  BY <1>1, <1>2 DEF LogInv, IsCatalog
<1>5. History(wal, H) /\ H[Len(wal)] = catalog
  BY <1>1, <1>3, <1>4 DEF History
<1>6. TargetInv(H)
  <2>1. Agree(targetTables, H[0]) /\ Agree(H[0], H[(0 + 1) - 1]) /\ Reached(flushed, buffered, 0) = 0
    BY <1>1, <1>3 DEF Agree, Reached
  <2> QED BY <1>1, <1>4, <2>1 DEF TargetInv, TargetAt, Follows
<1>7. ObserverInv(H)
  <2>1. \A n \in Name : observed[n] = Unobserved
    BY <1>1
  <2>2. ~Unobserved.known
    BY DEF Unobserved
  <2>3. OnlyNulls({})
    BY DEF OnlyNulls
  <2>4. \A j \in 0..0 : j = 0
    OBVIOUS
  <2>5. \A n \in Replicated : ~observed[n].known /\ \A j \in 0..0 : Narrows(H[0][n], H[j][n])
    BY <2>1, <2>2, <2>4, NoTableNarrows DEF Replicated
  <2> QED BY <1>1, <2>3, <2>5 DEF ObserverInv
<1> QED BY <1>5, <1>6, <1>7 DEF FollowInv

LEMMA FollowsSource == ASSUME ChainInv, FollowInv, SourceStep PROVE FollowInv'
<1>1. PICK H : /\ History(wal, H) /\ H[Len(wal)] = catalog
               /\ NoneCrosses => TargetInv(H) /\ (PlainRenames => ObserverInv(H))
  BY DEF FollowInv
<1>2. IsCatalog(catalog) /\ Len(wal) \in Nat
  BY LenProperties DEF ChainInv, LogInv, IsCatalog
<1>3. PICK e : Grows(e)
  BY <1>2, SourceGrows
<1> DEFINE L == Len(wal)
<1>4. /\ L \in Nat /\ Len(wal') = L + 1 /\ wal'[L + 1] = e
      /\ \A i \in 1..L : wal'[i] = wal[i]
      /\ DOMAIN wal = 1..L /\ DOMAIN wal' = 1..L + 1
  <2>1. wal \in Seq(Elements(wal) \cup {e}) /\ e \in Elements(wal) \cup {e}
    BY DEF ChainInv, LogInv
  <2> QED BY <1>3, <2>1, AppendProperties, LenProperties DEF Grows
<1>5. PICK G : (\A i \in 0..L : G[i] = H[i]) /\ G[L + 1] = catalog'
  <2> DEFINE G == [i \in 0..L + 1 |-> IF i <= L THEN H[i] ELSE catalog']
  <2>1. (\A i \in 0..L : G[i] = H[i]) /\ G[L + 1] = catalog'
    BY <1>4
  <2> HIDE DEF G
  <2> QED BY <2>1
<1>6. /\ EntryFits(catalog, e) /\ catalog' = Changed(catalog, e)
      /\ UNCHANGED <<settings, at, observed, buffered, targetTables, flushed, refused>>
  BY <1>3 DEF Grows, chainVars, targetVars
<1>7. IsCatalog(catalog')
  BY <1>2, <1>6, ChangedCatalog
<1>8. History(wal', G)
  <2>1. G[0] = StartingTables /\ \A i \in 0..L + 1 : IsCatalog(G[i])
    <3>1. G[0] = H[0] /\ \A i \in 0..L + 1 : i \in 0..L \/ i = L + 1
      BY <1>4, <1>5
    <3> QED BY <1>1, <1>5, <1>7, <3>1 DEF History
  <2>2. ASSUME NEW i \in 1..L + 1
        PROVE  EntryFits(G[i - 1], wal'[i]) /\ G[i] = Changed(G[i - 1], wal'[i])
    <3>1. CASE i \in 1..L
      <4>1. i - 1 \in 0..L /\ i \in 0..L
        BY <1>4, <3>1
      <4> QED BY <1>1, <1>4, <1>5, <3>1, <4>1 DEF History
    <3>2. CASE i = L + 1
      <4>1. i - 1 = L /\ L \in 0..L
        BY <1>4, <3>2
      <4>2. G[i - 1] = catalog /\ G[i] = catalog' /\ wal'[i] = e
        BY <1>1, <1>4, <1>5, <3>2, <4>1
      <4> QED BY <1>6, <4>2
    <3> QED BY <1>4, <3>1, <3>2
  <2> QED BY <1>4, <2>1, <2>2 DEF History
<1>9. NoneCrosses' => NoneCrosses
  <2> SUFFICES ASSUME NEW i \in DOMAIN wal, NoneCrosses' PROVE ~Crossing(wal[i])
    BY DEF NoneCrosses
  <2>1. i \in DOMAIN wal' /\ wal'[i] = wal[i]
    BY <1>4
  <2>2. ~Crossing(wal[i])'
    BY <2>1 DEF NoneCrosses
  <2>3. \A x : SkipEvent(x)' = SkipEvent(x)
    BY <1>6, FilterStays
  <2>4. Crossing(wal[i])' <=> Crossing(wal[i])
    BY <1>6, <2>1, <2>3 DEF Crossing
  <2> QED BY <2>2, <2>4
<1>10. TargetInv(H) => TargetInv(G)'
  <2> SUFFICES ASSUME TargetInv(H) PROVE TargetInv(G)'
    OBVIOUS
  <2>1. /\ Replicated' = Replicated /\ \A x : Filtered(x)' = Filtered(x)
        /\ \A k : Reached(flushed, buffered, k)' = Reached(flushed, buffered, k)
    BY <1>6, FilterStays DEF Reached
  <2>2. \A k \in 1..Len(buffered) : wal'[buffered[k].pos] = wal[buffered[k].pos]
    BY <1>4, ChainPositions
  <2>3. \A k \in 1..Len(buffered) : MessageFits(buffered[k])'
    <3> SUFFICES ASSUME NEW k \in 1..Len(buffered) PROVE MessageFits(buffered[k])'
      OBVIOUS
    <3>1. MessageFits(buffered[k])
      BY DEF TargetInv, TargetAt
    <3>2. wal'[buffered[k].pos] = wal[buffered[k].pos] /\ buffered'[k] = buffered[k]
      BY <1>6, <2>2
    <3>3. Filtered(wal[buffered[k].pos])' = Filtered(wal[buffered[k].pos])
      BY <1>6, <3>2, FilterStays DEF Filtered, SkipDDLEvent
    <3> QED BY <1>6, <3>1, <3>2, <3>3 DEF MessageFits, QueryFits
  <2>4. ASSUME NEW i \in 0..L, NEW p \in 1..L + 1, Follows(H, i, p) PROVE Follows(G, i, p)'
    <3>1. p - 1 \in 0..L
      BY <1>4
    <3>2. G[i] = H[i] /\ G[p - 1] = H[p - 1]
      BY <1>5, <3>1
    <3> QED BY <2>1, <2>4, <3>2 DEF Follows, Agree
  <2>5. \A k \in 1..Len(buffered) : Follows(G, Reached(flushed, buffered, k - 1), buffered[k].pos)'
    <3> SUFFICES ASSUME NEW k \in 1..Len(buffered)
                 PROVE  Follows(G, Reached(flushed, buffered, k - 1), buffered[k].pos)'
      OBVIOUS
    <3>1. Reached(flushed, buffered, k - 1) \in 0..L /\ buffered[k].pos \in 1..L + 1
      BY <1>4, ChainPositions
    <3>2. Follows(H, Reached(flushed, buffered, k - 1), buffered[k].pos)
      BY DEF TargetInv, TargetAt
    <3>3. /\ Reached(flushed, buffered, k - 1)' = Reached(flushed, buffered, k - 1)
          /\ buffered'[k].pos = buffered[k].pos
      BY <1>6, <2>1
    <3> QED BY <2>4, <3>1, <3>2, <3>3 DEF Follows, Agree
  <2>6. Follows(G, Reached(flushed, buffered, Len(buffered)), at + 1)'
    <3>1. Reached(flushed, buffered, Len(buffered)) \in 0..L /\ at + 1 \in 1..L + 1
      BY <1>4, ChainPositions
    <3>2. Follows(H, Reached(flushed, buffered, Len(buffered)), at + 1)
      BY DEF TargetInv, TargetAt
    <3>3. /\ Reached(flushed, buffered, Len(buffered))' = Reached(flushed, buffered, Len(buffered))
          /\ (at + 1)' = at + 1
      BY <1>6, <2>1 DEF Reached
    <3> QED BY <2>4, <3>1, <3>2, <3>3 DEF Follows, Agree
  <2>7. Agree(targetTables, G[flushed])'
    <3>1. G[flushed] = H[flushed]
      BY <1>5, ChainPositions
    <3> QED BY <1>6, <2>1, <3>1 DEF TargetInv, TargetAt, Agree
  <2> QED BY <1>6, <2>3, <2>5, <2>6, <2>7 DEF TargetInv, TargetAt, IsCatalog
<1>11. ObserverInv(H) => ObserverInv(G)'
  <2> SUFFICES ASSUME ObserverInv(H) PROVE ObserverInv(G)'
    OBVIOUS
  <2>1. Replicated' = Replicated
    BY <1>6, FilterStays
  <2>2. G[at] = H[at] /\ \A j \in flushed..at : G[j] = H[j]
    BY <1>5, ChainPositions
  <2>3. OnlyNulls(refused)'
    BY <1>6 DEF ObserverInv, OnlyNulls
  <2>4. ASSUME NEW n \in Replicated
        PROVE  IF observed[n].known THEN flushed <= at /\ Shows(observed[n], G[at][n])
               ELSE \A j \in flushed..at : Narrows(G[at][n], G[j][n])
    BY <2>2 DEF ObserverInv
  <2> QED BY <1>6, <2>1, <2>3, <2>4 DEF ObserverInv
<1> QED BY <1>1, <1>4, <1>5, <1>8, <1>9, <1>10, <1>11 DEF FollowInv

\* Steps that change nothing of this.
LEMMA FollowStays ==
  ASSUME FollowInv,
         UNCHANGED <<settings, catalog, wal, at, observed, buffered, targetTables, flushed, refused>>
  PROVE  FollowInv'
<1>1. PICK H : /\ History(wal, H) /\ H[Len(wal)] = catalog
               /\ NoneCrosses => TargetInv(H) /\ (PlainRenames => ObserverInv(H))
  BY DEF FollowInv
<1>2. Replicated' = Replicated /\ \A x : Filtered(x)' = Filtered(x) /\ Crossing(x)' = Crossing(x)
  BY FilterStays
<1>3. NoneCrosses' <=> NoneCrosses
  BY <1>2 DEF NoneCrosses, Crossing
<1>4. TargetInv(H) => TargetInv(H)'
  BY <1>2 DEF TargetInv, TargetAt, MessageFits, QueryFits, Follows, Agree, Reached
<1>5. ObserverInv(H) => ObserverInv(H)'
  BY <1>2 DEF ObserverInv, OnlyNulls
<1> QED BY <1>1, <1>3, <1>4, <1>5 DEF FollowInv

\* The same, as far as arithmetic needs it.
LEMMA PositionsAreNaturals ==
  ASSUME ChainInv
  PROVE  /\ at \in Nat /\ flushed \in Nat /\ Len(buffered) \in Nat
         /\ (at + 1) - 1 = at /\ ((at + 1) + 1) - 1 = at + 1
<1>1. /\ at \in 0..Len(wal) /\ flushed \in 0..Len(wal) /\ Len(wal) \in Nat
      /\ Len(buffered) \in Nat
  BY ChainPositions
<1> QED BY <1>1

\* What is said of the target holds after a step that leaves filter and log alone.
LEMMA TargetPrimed ==
  ASSUME UNCHANGED <<settings, wal>>, NEW H,
         TargetAt(H, targetTables', flushed', at', buffered')
  PROVE  TargetInv(H)'
<1>1. Replicated' = Replicated /\ \A x : Filtered(x)' = Filtered(x)
  BY FilterStays
<1> QED BY <1>1 DEF TargetInv, TargetAt, MessageFits, QueryFits, Follows, Agree, Reached

\* The event that the chain takes, when it changes no table that is replicated.
LEMMA TargetWaits ==
  ASSUME ChainInv, NEW H, TargetInv(H), UNCHANGED <<settings, wal, targetTables, flushed, buffered>>,
         at' = at + 1, Agree(H[at], H[at + 1])
  PROVE  TargetInv(H)'
<1>1. Follows(H, Reached(flushed, buffered, Len(buffered)), (at + 1) + 1)
  <2>1. Follows(H, Reached(flushed, buffered, Len(buffered)), at + 1)
    BY DEF TargetInv, TargetAt
  <2> QED BY <2>1, PositionsAreNaturals DEF Follows, Agree
<1>2. flushed - 1 <= at + 1
  BY PositionsAreNaturals DEF TargetInv, TargetAt
<1>3. TargetAt(H, targetTables, flushed, at + 1, buffered)
  BY <1>1, <1>2 DEF TargetInv, TargetAt
<1> QED BY <1>3, TargetPrimed

\* A batch that grows by the message of the next event.
LEMMA TargetAppends ==
  ASSUME ChainInv, NEW H, TargetInv(H), NEW q, q.pos = at + 1, MessageFits(q)
  PROVE  TargetAt(H, targetTables, flushed, at + 1, Append(buffered, q))
<1> DEFINE N == Len(buffered)
           b == Append(buffered, q)
<1>1. /\ at \in Nat /\ flushed \in Nat /\ (at + 1) - 1 = at /\ ((at + 1) + 1) - 1 = at + 1
      /\ N \in Nat
  BY PositionsAreNaturals
<1>2. Len(b) = N + 1 /\ b[N + 1] = q /\ \A k \in 1..N : b[k] = buffered[k]
  <2>1. buffered \in Seq(Elements(buffered) \cup {q}) /\ q \in Elements(buffered) \cup {q}
    BY DEF ChainInv, PositionInv
  <2> QED BY <2>1, AppendProperties
<1>3. /\ IsCatalog(targetTables) /\ Agree(targetTables, H[flushed]) /\ flushed - 1 <= at
      /\ \A k \in 1..N :
           /\ flushed <= buffered[k].pos /\ MessageFits(buffered[k])
           /\ Follows(H, Reached(flushed, buffered, k - 1), buffered[k].pos)
      /\ Follows(H, Reached(flushed, buffered, N), at + 1)
  BY DEF TargetInv, TargetAt
<1> HIDE DEF N, b
<1>4. (\A k \in 0..N : Reached(flushed, b, k) = Reached(flushed, buffered, k))
      /\ Reached(flushed, b, N + 1) = at + 1
  <2>1. N + 1 # 0 /\ \A k \in 0..N : k = 0 \/ k \in 1..N
    BY <1>1
  <2> QED BY <1>2, <2>1 DEF Reached
<1>5. ASSUME NEW k \in 1..N + 1
      PROVE  /\ flushed <= b[k].pos /\ MessageFits(b[k])
             /\ Follows(H, Reached(flushed, b, k - 1), b[k].pos)
  <2>1. CASE k \in 1..N
    <3>1. k - 1 \in 0..N
      BY <1>1, <2>1
    <3> QED BY <1>2, <1>3, <1>4, <2>1, <3>1
  <2>2. CASE k = N + 1
    <3>1. k - 1 = N /\ N \in 0..N
      BY <1>1, <2>2
    <3>2. flushed <= at + 1
      BY <1>1, <1>3
    <3> QED BY <1>2, <1>3, <1>4, <2>2, <3>1, <3>2
  <2> QED BY <1>1, <2>1, <2>2
<1>6. Follows(H, at + 1, (at + 1) + 1)
  BY <1>1 DEF Follows, Agree
<1>7. flushed - 1 <= at + 1
  BY <1>1, <1>3
<1> QED BY <1>2, <1>3, <1>4, <1>5, <1>6, <1>7 DEF TargetAt, b

\* What the observer makes of an event.
LEMMA ObserverTakes ==
  ASSUME ChainInv, NEW H, TargetInv(H), ObserverInv(H), UNCHANGED <<settings, refused, flushed>>,
         at' = at + 1, observed' = [n \in Name |-> observed'[n]],
         \A n \in Replicated :
           \/ observed'[n].known /\ Shows(observed'[n], H[at + 1][n])
           \/ observed'[n] = observed[n] /\ Narrows(H[at + 1][n], H[at][n])
  PROVE  ObserverInv(H)'
<1>1. Replicated' = Replicated
  BY FilterStays
<1>2. at \in Nat /\ flushed \in Nat /\ flushed <= at + 1
  BY PositionsAreNaturals DEF TargetInv, TargetAt
<1>3. OnlyNulls(refused)'
  BY DEF ObserverInv, OnlyNulls
<1>4. ASSUME NEW n \in Replicated
      PROVE  IF observed'[n].known THEN flushed <= at + 1 /\ Shows(observed'[n], H[at + 1][n])
             ELSE \A j \in flushed..at + 1 : Narrows(H[at + 1][n], H[j][n])
  <2>1. CASE observed'[n].known /\ Shows(observed'[n], H[at + 1][n])
    BY <1>2, <2>1
  <2>2. CASE observed'[n] = observed[n] /\ Narrows(H[at + 1][n], H[at][n])
    <3>1. CASE observed[n].known
      <4>1. Shows(observed[n], H[at][n])
        BY <3>1 DEF ObserverInv
      <4>2. Shows(observed[n], H[at + 1][n])
        BY <2>2, <4>1 DEF Shows, Narrows
      <4> QED BY <1>2, <2>2, <3>1, <4>2
    <3>2. CASE ~observed[n].known
      <4>1. \A j \in flushed..at : Narrows(H[at][n], H[j][n])
        BY <3>2 DEF ObserverInv
      <4>2. ASSUME NEW j \in flushed..at + 1 PROVE Narrows(H[at + 1][n], H[j][n])
        <5>1. CASE j = at + 1
          BY <5>1, NoTableNarrows
        <5>2. CASE j # at + 1
          <6>1. j \in flushed..at
            BY <1>2, <5>2
          <6> QED BY <2>2, <4>1, <6>1 DEF Narrows
        <5> QED BY <5>1, <5>2
      <4> QED BY <2>2, <3>2, <4>2
    <3> QED BY <3>1, <3>2
  <2> QED BY <2>1, <2>2
<1> QED BY <1>1, <1>3, <1>4 DEF ObserverInv

\* The events that are filtered.
LEMMA FollowsSkip == ASSUME ChainInv, FollowInv, Skip PROVE FollowInv'
<1>1. PICK H : /\ History(wal, H) /\ H[Len(wal)] = catalog
               /\ NoneCrosses => TargetInv(H) /\ (PlainRenames => ObserverInv(H))
  BY DEF FollowInv
<1>2. /\ at < Len(wal) /\ Filtered(Next1) /\ at' = at + 1
      /\ UNCHANGED <<settings, catalog, wal, targetTables, flushed, refused, observed, buffered>>
  BY DEF Skip, Ready, Passes, sourceVars
<1>3. /\ IsCatalog(H[at]) /\ EntryFits(H[at], Next1) /\ H[at + 1] = Changed(H[at], Next1)
      /\ NoneCrosses => ~Crossing(Next1)
  BY <1>1, <1>2, NextEvent
<1>4. NoneCrosses' <=> NoneCrosses
  BY <1>2, FilterStays DEF NoneCrosses, Crossing
<1>5. ASSUME NoneCrosses PROVE Agree(H[at + 1], H[at])
  BY <1>2, <1>3, <1>5, FilteredStays
<1>6. ASSUME NoneCrosses PROVE TargetInv(H)'
  <2>1. Agree(H[at], H[at + 1])
    BY <1>5, <1>6 DEF Agree
  <2> QED BY <1>1, <1>2, <1>6, <2>1, TargetWaits
<1>7. ASSUME NoneCrosses, PlainRenames PROVE ObserverInv(H)'
  <2>1. \A n \in Replicated : Narrows(H[at + 1][n], H[at][n])
    BY <1>5, <1>7, NoTableNarrows DEF Agree
  <2>2. observed' = [n \in Name |-> observed'[n]]
    BY <1>1, <1>2, <1>7 DEF ObserverInv
  <2> QED BY <1>1, <1>2, <1>7, <2>1, <2>2, ObserverTakes
<1> QED BY <1>1, <1>2, <1>4, <1>6, <1>7 DEF FollowInv

\* From the message about a table the observer learns all of its columns.
LEMMA MessageShows == \A t : FromMessage(t).known /\ Shows(FromMessage(t), t)
BY DEF FromMessage, Shows, OfKind

\* The DDL statements that pass.
LEMMA FollowsPassDDL == ASSUME ChainInv, FollowInv, PassDDL PROVE FollowInv'
<1>1. PICK H : /\ History(wal, H) /\ H[Len(wal)] = catalog
               /\ NoneCrosses => TargetInv(H) /\ (PlainRenames => ObserverInv(H))
  BY DEF FollowInv
<1> DEFINE e == Next1
           q == MessageOf(e, at + 1)
<1>2. /\ at < Len(wal) /\ ~Filtered(e) /\ IsDDL(e) /\ at' = at + 1
      /\ observed' = Update(e) /\ buffered' = Append(buffered, q)
      /\ UNCHANGED <<settings, catalog, wal, targetTables, flushed, refused>>
  BY DEF PassDDL, Ready, Passes, sourceVars
<1>3. /\ IsCatalog(H[at]) /\ EntryFits(H[at], e) /\ H[at + 1] = Changed(H[at], e)
      /\ at \in 0..Len(wal) /\ Len(wal) \in Nat
  BY <1>1, <1>2, NextEvent, ChainPositions
<1>4. NoneCrosses' <=> NoneCrosses
  BY <1>2, FilterStays DEF NoneCrosses, Crossing
<1>5. q.pos = at + 1 /\ MessageFits(q)
  <2>1. q.pos = at + 1 /\ q.op = e.op /\ wal[q.pos] = e
    BY <1>2 DEF MessageOf, Next1
  <2> HIDE DEF q, e
  <2>2. IsDDL(q) /\ ~IsRowQuery(q)
    BY <1>2, <2>1 DEF IsDDL, AllDDL, IsRowQuery
  <2> QED BY <1>2, <2>1, <2>2 DEF MessageFits
<1> HIDE DEF e, q
<1>6. ASSUME NoneCrosses PROVE TargetInv(H)'
  <2>1. TargetAt(H, targetTables', flushed', at', buffered')
    BY <1>1, <1>2, <1>5, <1>6, TargetAppends
  <2> QED BY <1>2, <2>1, TargetPrimed
<1>7. ASSUME NoneCrosses, PlainRenames PROVE ObserverInv(H)'
  <2>1. TargetInv(H) /\ ObserverInv(H)
    BY <1>1, <1>7
  <2>2. observed' = [n \in Name |-> observed'[n]]
    BY <1>2, <2>1 DEF ObserverInv, Update
  <2>3. ASSUME NEW n \in Replicated
        PROVE  \/ observed'[n].known /\ Shows(observed'[n], H[at + 1][n])
               \/ observed'[n] = observed[n] /\ Narrows(H[at + 1][n], H[at][n])
    <3>1. n \in Name
      BY DEF Replicated
    <3>2. CASE n \in e.names /\ ~e.columnObject
      <4>1. observed'[n] = FromMessage(e.table)
        BY <1>2, <3>1, <3>2 DEF Update
      <4>2. H[at + 1][n] = e.table
        BY <1>2, <1>3, <3>1, <3>2 DEF Changed
      <4> QED BY <4>1, <4>2, MessageShows
    <3>3. CASE n \notin e.names \/ e.columnObject
      <4>1. observed'[n] = observed[n]
        BY <1>2, <3>1, <3>3 DEF Update
      <4>2. IdentityKeys(H[at][n])
        BY <1>1, <1>3, <1>7, <3>1, IdentitiesAreKeys
      <4>3. Narrows(H[at + 1][n], H[at][n])
        BY <1>2, <1>3, <1>7, <3>1, <3>3, <4>2, KindsNarrow
      <4> QED BY <4>1, <4>3
    <3> QED BY <3>2, <3>3
  <2> QED BY <1>2, <2>1, <2>2, <2>3, ObserverTakes
<1> QED BY <1>1, <1>2, <1>4, <1>6, <1>7 DEF FollowInv

\* What a row in the log says.
LEMMA RowEntry ==
  ASSUME NEW h, NEW e, ~IsDDL(e), EntryFits(h, e)
  PROVE  e.name \in Name /\ e.table = h[e.name] /\ e.op \in {"I", "U"}
<1>1. e.op # "drop"
  BY DEF IsDDL, AllDDL
<1> QED BY <1>1 DEF EntryFits

\* A row that passes the filter, as it finds its table, and as the observer does.
LEMMA RowFound ==
  ASSUME ChainInv, NEW H, History(wal, H), TargetInv(H), at < Len(wal), ~IsDDL(Next1),
         ~Filtered(Next1)
  PROVE  /\ Next1.name \in Replicated /\ Next1.table = H[at][Next1.name]
         /\ H[at + 1] = H[at] /\ Next1.op \in {"I", "U"}
         /\ ObserverInv(H) => Shows(Observation(Next1.name), Next1.table)
<1> DEFINE e == Next1
           n == Next1.name
<1>1. /\ at \in Nat /\ IsCatalog(H[at]) /\ EntryFits(H[at], e) /\ H[at + 1] = Changed(H[at], e)
  BY NextEvent
<1>2. n \in Replicated /\ n \in Name /\ e.table = H[at][n] /\ e.op \in {"I", "U"}
  <2> HIDE DEF e
  <2>1. e.name \in Name /\ e.table = H[at][e.name] /\ e.op \in {"I", "U"}
    BY <1>1, RowEntry DEF e
  <2>2. ~SkipEvent(e.name)
    BY DEF Filtered, e
  <2> QED BY <2>1, <2>2 DEF Replicated, e
<1>3. H[at + 1] = H[at]
  BY <1>1, RowKeepsTables
<1>4. ASSUME ObserverInv(H) PROVE Shows(Observation(n), e.table)
  <2> HIDE DEF n, e
  <2>1. CASE observed[n].known
    <3>1. Shows(observed[n], H[at][n])
      BY <1>2, <1>4, <2>1 DEF ObserverInv
    <3> QED BY <1>2, <2>1, <3>1 DEF Observation
  <2>2. CASE ~observed[n].known
    <3>1. Observation(n) = FromTarget(n) /\ targetTables[n] = H[flushed][n]
      BY <1>2, <2>2 DEF Observation, TargetInv, TargetAt, Agree
    <3>2. Shows(FromTarget(n), H[flushed][n])
      BY <3>1 DEF Shows, FromTarget
    <3>3. CASE flushed <= at
      <4>1. flushed \in flushed..at
        BY <3>3, PositionsAreNaturals
      <4>2. Narrows(H[at][n], H[flushed][n])
        BY <1>2, <1>4, <2>2, <4>1 DEF ObserverInv
      <4> QED BY <1>2, <3>1, <3>2, <4>2 DEF Shows, Narrows
    <3>4. CASE ~(flushed <= at)
      <4>1. flushed = at + 1
        BY <3>4, PositionsAreNaturals DEF TargetInv, TargetAt
      <4> QED BY <1>2, <1>3, <3>1, <3>2, <4>1
    <3> QED BY <3>3, <3>4
  <2> QED BY <2>1, <2>2
<1> QED BY <1>2, <1>3, <1>4

\* The query that the adapter makes of a row.
LEMMA RowQueryFits ==
  ASSUME NEW e, ~IsDDL(e), NEW p, PlainRenames => Shows(Observation(e.name), e.table)
  PROVE  QueryFits(MessageOf(e, p), e)
<1> DEFINE q == MessageOf(e, p)
<1>1. /\ q.name = e.name /\ q.op = e.op /\ q.sets = SetColumns(e)
      /\ q.nul = (e.nul /\ ~settings.sanitize)
  BY DEF MessageOf
<1> HIDE DEF q
<1>2. q.sets \subseteq NamesIn(e.table)
  BY <1>1 DEF SetColumns
<1>3. q.nul => ~settings.sanitize
  BY <1>1, Zenon
<1>4. PlainRenames =>
       /\ q.sets \cap OfKind(e.table, {"generated"}) = {}
       /\ q.op = "U" => q.sets \cap OfKind(e.table, {"identity"}) = {}
  BY <1>1 DEF SetColumns, Shows
<1> QED BY <1>1, <1>2, <1>3, <1>4 DEF QueryFits, q

\* The rows that pass.
LEMMA FollowsPassRow == ASSUME ChainInv, FollowInv, PassRow PROVE FollowInv'
<1>1. PICK H : /\ History(wal, H) /\ H[Len(wal)] = catalog
               /\ NoneCrosses => TargetInv(H) /\ (PlainRenames => ObserverInv(H))
  BY DEF FollowInv
<1> DEFINE e == Next1
<1>2. /\ at < Len(wal) /\ ~Filtered(e) /\ ~IsDDL(e) /\ at' = at + 1
      /\ UNCHANGED <<settings, catalog, wal, targetTables, flushed, refused>>
      /\ \/ buffered' = Append(buffered, KeepAlive(at + 1)) /\ UNCHANGED observed
         \/ buffered' = Append(buffered, MessageOf(e, at + 1)) /\ observed' = ObservedAfter(e.name)
  BY DEF PassRow, Ready, Passes, sourceVars
<1>3. NoneCrosses' <=> NoneCrosses
  BY <1>2, FilterStays DEF NoneCrosses, Crossing
<1>4. ASSUME NoneCrosses
      PROVE  /\ e.name \in Replicated /\ e.table = H[at][e.name] /\ H[at + 1] = H[at]
             /\ e.op \in {"I", "U"}
             /\ PlainRenames => Shows(Observation(e.name), e.table)
  BY <1>1, <1>2, <1>4, RowFound
<1>5. wal[at + 1] = e
  BY DEF Next1
<1> HIDE DEF e
<1>6. ASSUME NoneCrosses PROVE TargetInv(H)'
  <2>1. \E q : buffered' = Append(buffered, q) /\ q.pos = at + 1 /\ MessageFits(q)
    <3>1. CASE buffered' = Append(buffered, KeepAlive(at + 1))
      <4> DEFINE q == KeepAlive(at + 1)
      <4>1. q.pos = at + 1 /\ q.op = "keepAlive"
        BY DEF KeepAlive
      <4> HIDE DEF q
      <4>2. MessageFits(q)
        BY <1>2, <1>5, <4>1 DEF MessageFits, IsDDL, AllDDL, IsRowQuery
      <4> QED BY <3>1, <4>1, <4>2 DEF q
    <3>2. CASE buffered' = Append(buffered, MessageOf(e, at + 1))
      <4> DEFINE q == MessageOf(e, at + 1)
      <4>1. q.pos = at + 1 /\ q.op = e.op
        BY <1>2 DEF MessageOf
      <4>2. QueryFits(q, e)
        BY <1>2, <1>4, <1>6, RowQueryFits
      <4> HIDE DEF q
      <4>3. MessageFits(q)
        BY <1>2, <1>5, <4>1, <4>2 DEF MessageFits, IsDDL
      <4> QED BY <3>2, <4>1, <4>3 DEF q
    <3> QED BY <1>2, <3>1, <3>2
  <2>2. PICK q : buffered' = Append(buffered, q) /\ q.pos = at + 1 /\ MessageFits(q)
    BY <2>1
  <2>3. TargetAt(H, targetTables', flushed', at', buffered')
    BY <1>1, <1>2, <1>6, <2>2, TargetAppends
  <2> QED BY <1>2, <2>3, TargetPrimed
<1>7. ASSUME NoneCrosses, PlainRenames PROVE ObserverInv(H)'
  <2>1. TargetInv(H) /\ ObserverInv(H)
    BY <1>1, <1>7
  <2>2. observed' = [n \in Name |-> observed'[n]]
    BY <1>2, <2>1 DEF ObserverInv, ObservedAfter
  <2>3. ASSUME NEW n \in Replicated
        PROVE  \/ observed'[n].known /\ Shows(observed'[n], H[at + 1][n])
               \/ observed'[n] = observed[n] /\ Narrows(H[at + 1][n], H[at][n])
    <3>1. Narrows(H[at + 1][n], H[at][n])
      BY <1>4, <1>7, NoTableNarrows
    <3>2. CASE observed' = ObservedAfter(e.name) /\ n = e.name
      <4>1. observed'[n] = Observation(n)
        BY <2>1, <3>2 DEF ObservedAfter, ObserverInv, Replicated
      <4>2. Observation(n).known
        BY DEF Observation, FromTarget
      <4> QED BY <1>4, <1>7, <3>2, <4>1, <4>2
    <3>3. CASE UNCHANGED observed \/ n # e.name
      <4>1. observed'[n] = observed[n]
        BY <1>2, <2>1, <3>3 DEF ObservedAfter, ObserverInv, Replicated
      <4> QED BY <3>1, <4>1
    <3> QED BY <1>2, <3>2, <3>3
  <2> QED BY <1>2, <2>1, <2>2, <2>3, ObserverTakes
<1> QED BY <1>1, <1>2, <1>3, <1>6, <1>7 DEF FollowInv

\* A restart, which delivers the last event executed once more.
LEMMA FollowsCrash == ASSUME ChainInv, Redelivered <= 1, FollowInv, Crash PROVE FollowInv'
<1>1. PICK H : /\ History(wal, H) /\ H[Len(wal)] = catalog
               /\ NoneCrosses => TargetInv(H) /\ (PlainRenames => ObserverInv(H))
  BY DEF FollowInv
<1>2. /\ at' \in 0..flushed /\ at' + Redelivered >= flushed /\ buffered' = <<>>
      /\ observed' = [n \in Name |-> Unobserved]
      /\ UNCHANGED <<settings, catalog, wal, targetTables, flushed, refused>>
  BY DEF Crash, sourceVars
<1>3. NoneCrosses' <=> NoneCrosses
  BY <1>2, FilterStays DEF NoneCrosses, Crossing
<1>4. at' \in Nat /\ flushed \in Nat /\ (at' = flushed \/ at' + 1 = flushed)
  <2>1. Redelivered \in Nat /\ flushed \in Nat
    BY ChainAssumption, PositionsAreNaturals DEF ChainAssumption
  <2>2. \A f, r \in Nat : \A p \in 0..f :
          r <= 1 /\ p + r >= f => p \in Nat /\ (p = f \/ p + 1 = f)
    OBVIOUS
  <2> QED BY <1>2, <2>1, <2>2
<1>5. ASSUME NoneCrosses PROVE TargetInv(H)'
  <2>1. Len(<<>>) = 0 /\ Reached(flushed, <<>>, 0) = flushed
    BY DEF Reached
  <2>2. Follows(H, flushed, at' + 1)
    <3>1. CASE at' = flushed
      <4>1. (at' + 1) - 1 = flushed
        BY <1>4, <3>1
      <4> QED BY <4>1 DEF Follows, Agree
    <3>2. CASE at' + 1 = flushed
      BY <3>2 DEF Follows
    <3> QED BY <1>4, <3>1, <3>2
  <2>3. IsCatalog(targetTables) /\ Agree(targetTables, H[flushed])
    BY <1>1, <1>5 DEF TargetInv, TargetAt
  <2>4. flushed - 1 <= at'
    <3>1. \A p, f \in Nat : p = f \/ p + 1 = f => f - 1 <= p
      OBVIOUS
    <3> QED BY <1>4, <3>1
  <2>5. TargetAt(H, targetTables', flushed', at', buffered')
    BY <1>2, <2>1, <2>2, <2>3, <2>4 DEF TargetAt
  <2> QED BY <1>2, <2>5, TargetPrimed
<1>6. ASSUME NoneCrosses, PlainRenames PROVE ObserverInv(H)'
  <2>1. Replicated' = Replicated /\ Replicated \subseteq Name
    BY <1>2, FilterStays DEF Replicated
  <2>2. OnlyNulls(refused)'
    BY <1>1, <1>2, <1>6 DEF ObserverInv, OnlyNulls
  <2>3. \A n \in Name : observed'[n] = Unobserved /\ ~Unobserved.known
    BY <1>2 DEF Unobserved
  <2>4. \A n \in Replicated : \A j \in flushed..at' : Narrows(H[at'][n], H[j][n])
    <3> SUFFICES ASSUME NEW n \in Replicated, NEW j \in flushed..at'
                 PROVE  Narrows(H[at'][n], H[j][n])
      OBVIOUS
    <3>0. \A p, f \in Nat : (p = f \/ p + 1 = f) => \A i \in f..p : i = p
      OBVIOUS
    <3>1. j = at'
      BY <1>4, <3>0
    <3> QED BY <3>1, NoTableNarrows
  <2> QED BY <1>2, <2>1, <2>2, <2>3, <2>4 DEF ObserverInv
<1> QED BY <1>1, <1>2, <1>3, <1>5, <1>6 DEF FollowInv

\* One message, executed where the target has come to.
LEMMA MessageExecutes ==
  ASSUME Len(wal) \in Nat, NEW H, History(wal, H), NEW q, q.pos \in 1..Len(wal), MessageFits(q),
         ~Crossing(wal[q.pos]), NEW i, Follows(H, i, q.pos), NEW t, NEW rows,
         IsCatalog(t), Agree(t, H[i])
  PROVE  LET s == Executed([tables |-> t, refused |-> rows], q) IN
           /\ s = [tables |-> s.tables, refused |-> s.refused]
           /\ IsCatalog(s.tables) /\ Agree(s.tables, H[q.pos])
           /\ PlainRenames /\ OnlyNulls(rows) => OnlyNulls(s.refused)
<1> DEFINE e == wal[q.pos]
           h == H[q.pos - 1]
           r == [tables |-> t, refused |-> rows]
           s == Executed(r, q)
<1>1. IsCatalog(h) /\ EntryFits(h, e) /\ H[q.pos] = Changed(h, e)
  BY HistoryAt
<1>2. ~Filtered(e) /\ (IsDDL(q) <=> IsDDL(e)) /\ (IsRowQuery(q) => QueryFits(q, e))
      /\ ~Crossing(e)
  BY DEF MessageFits
<1>3. Agree(t, h) \/ Agree(t, Changed(h, e))
  BY <1>1 DEF Follows, Agree
<1>4. r.tables = t /\ r.refused = rows
  OBVIOUS
<1>5. CASE IsDDL(e)
  <2>1. IsCatalog(Altered(t, e)) /\ Agree(Altered(t, e), Changed(h, e))
    <3> HIDE DEF e, h
    <3> QED BY <1>1, <1>2, <1>3, <1>5, StatementApplies
  <2>2. s = [r EXCEPT !.tables = Altered(t, e)]
    BY <1>2, <1>5 DEF Executed, IsDDL
  <2>3. s = [tables |-> Altered(t, e), refused |-> rows]
    BY <2>2
  <2>4. s.tables = Altered(t, e) /\ s.refused = rows
    BY <2>3
  <2> HIDE DEF s, e, h
  <2> QED BY <1>1, <2>1, <2>3, <2>4 DEF s, r
<1>6. CASE ~IsDDL(e)
  <2>1. Changed(h, e) = h
    BY <1>1, <1>6, RowKeepsTables
  <2>2. Agree(t, h) /\ Agree(t, H[q.pos])
    BY <1>1, <1>3, <2>1
  <2>3. e.name \in Replicated /\ e.table = t[e.name] /\ Exists(t[e.name])
    <3> HIDE DEF e, h
    <3>1. e.name \in Name /\ e.table = h[e.name] /\ Exists(h[e.name])
      <4>1. e.op # "drop"
        BY <1>6 DEF IsDDL, AllDDL
      <4> QED BY <1>1, <1>6, <4>1 DEF EntryFits
    <3>2. ~SkipEvent(e.name)
      BY <1>2, <1>6 DEF Filtered
    <3> QED BY <2>2, <3>1, <3>2 DEF Replicated, Agree
  <2>4. q.op \notin AllDDL
    BY <1>2, <1>6 DEF IsDDL
  <2>5. CASE IsRowQuery(q) /\ Refuses(t, q)
    <3>1. s = [r EXCEPT !.refused = @ \cup {q}]
      BY <2>4, <2>5 DEF Executed
    <3>2. s = [tables |-> t, refused |-> rows \cup {q}]
      BY <3>1
    <3>3. s.tables = t /\ s.refused = rows \cup {q}
      BY <3>2
    <3>4. PlainRenames => q.nul /\ ~settings.sanitize
      <4> HIDE DEF e, h, s
      <4>1. QueryFits(q, e)
        BY <1>2, <2>5
      <4>2. PlainRenames => q.nul
        BY <2>3, <2>5, <4>1 DEF QueryFits, Refuses
      <4>3. q.nul => ~settings.sanitize
        BY <4>1 DEF QueryFits
      <4> QED BY <4>2, <4>3
    <3> HIDE DEF s
    <3>5. PlainRenames /\ OnlyNulls(rows) => OnlyNulls(s.refused)
      BY <3>3, <3>4 DEF OnlyNulls
    <3> QED BY <2>2, <3>2, <3>3, <3>5 DEF s
  <2>6. CASE ~(IsRowQuery(q) /\ Refuses(t, q))
    <3>1. s = r
      BY <2>4, <2>6 DEF Executed
    <3> HIDE DEF s
    <3> QED BY <1>4, <2>2, <3>1 DEF s
  <2> QED BY <2>5, <2>6
<1> QED BY <1>5, <1>6

\* The batch leaves the target where its last message was.
LEMMA BatchFollows ==
  ASSUME ChainInv, NEW H, History(wal, H), NoneCrosses, TargetInv(H), buffered # <<>>
  PROVE  LET s == FoldLeft(Executed, [tables |-> targetTables, refused |-> refused], buffered) IN
           /\ IsCatalog(s.tables)
           /\ Agree(s.tables, H[Reached(flushed, buffered, Len(buffered))])
           /\ PlainRenames /\ OnlyNulls(refused) => OnlyNulls(s.refused)
<1> DEFINE N == Len(buffered)
           start == [tables |-> targetTables, refused |-> refused]
<1>1. PICK f : Execution(start, buffered, f) /\ f[N] = FoldLeft(Executed, start, buffered)
  BY BatchExecutes DEF ChainInv, PositionInv
<1> DEFINE Good(k) ==
             /\ f[k] = [tables |-> f[k].tables, refused |-> f[k].refused]
             /\ IsCatalog(f[k].tables) /\ Agree(f[k].tables, H[Reached(flushed, buffered, k)])
             /\ PlainRenames /\ OnlyNulls(refused) => OnlyNulls(f[k].refused)
           D == {k \in 0..N : Good(k)}
<1>2. N \in Nat /\ Len(wal) \in Nat
  BY ChainPositions
<1>3. 0 \in D
  <2>1. f[0] = start /\ start.tables = targetTables /\ start.refused = refused
    BY <1>1 DEF Execution
  <2>2. Reached(flushed, buffered, 0) = flushed
    BY DEF Reached
  <2>3. IsCatalog(targetTables) /\ Agree(targetTables, H[flushed])
    BY DEF TargetInv, TargetAt
  <2> QED BY <1>2, <2>1, <2>2, <2>3
<1>4. \A k \in 0..N : k \in D /\ k < N => k + 1 \in D
  <2> SUFFICES ASSUME NEW k \in 0..N, Good(k), k < N PROVE k + 1 \in D
    OBVIOUS
  <2> DEFINE q == buffered[k + 1]
  <2>1. k + 1 \in 1..N /\ k + 1 \in 0..N /\ (k + 1) - 1 = k
    BY <1>2
  <2>2. f[k + 1] = Executed(f[k], q)
    <3>1. \A n \in 1..N : f[n] = Executed(f[n - 1], buffered[n])
      BY <1>1 DEF Execution
    <3>2. f[k + 1] = Executed(f[(k + 1) - 1], q)
      BY <2>1, <3>1
    <3> QED BY <2>1, <3>2
  <2>3. q.pos \in 1..Len(wal) /\ wal[q.pos] = wal[q.pos]
    <3>1. q.pos \in 1..at /\ at \in 0..Len(wal)
      BY <2>1, ChainPositions
    <3> QED BY <1>2, <3>1
  <2>4. MessageFits(q) /\ Follows(H, Reached(flushed, buffered, k), q.pos)
    <3>1. \A n \in 1..N : /\ MessageFits(buffered[n])
                          /\ Follows(H, Reached(flushed, buffered, n - 1), buffered[n].pos)
      BY DEF TargetInv, TargetAt
    <3>2. MessageFits(q) /\ Follows(H, Reached(flushed, buffered, (k + 1) - 1), q.pos)
      BY <2>1, <3>1
    <3> QED BY <2>1, <3>2
  <2>5. ~Crossing(wal[q.pos])
    <3>1. q.pos \in DOMAIN wal
      BY <2>3, ChainPositions
    <3> QED BY <3>1 DEF NoneCrosses
  <2>6. Reached(flushed, buffered, k + 1) = q.pos
    BY <2>1 DEF Reached
  <2> HIDE DEF q
  <2> DEFINE t == f[k].tables
             rows == f[k].refused
             s == Executed([tables |-> t, refused |-> rows], q)
  <2>7. IsCatalog(t) /\ Agree(t, H[Reached(flushed, buffered, k)])
    OBVIOUS
  <2>8. f[k + 1] = s
    BY <2>2
  <2> HIDE DEF t, rows
  <2>9. /\ s = [tables |-> s.tables, refused |-> s.refused]
        /\ IsCatalog(s.tables) /\ Agree(s.tables, H[q.pos])
        /\ PlainRenames /\ OnlyNulls(rows) => OnlyNulls(s.refused)
    BY <1>2, <2>3, <2>4, <2>5, <2>7, MessageExecutes
  <2> HIDE DEF s
  <2>10. PlainRenames /\ OnlyNulls(refused) => OnlyNulls(f[k + 1].refused)
    BY <2>8, <2>9 DEF rows
  <2> QED BY <2>1, <2>6, <2>8, <2>9, <2>10
<1> HIDE DEF D
<1>5. \A k \in 0..N : k \in D
  BY <1>2, <1>3, <1>4, UpTo
<1>6. Good(N)
  BY <1>2, <1>5 DEF D
<1> QED BY <1>1, <1>6

\* The flush of a batch.
LEMMA FollowsFlush == ASSUME ChainInv, FollowInv, Flush PROVE FollowInv'
<1>1. PICK H : /\ History(wal, H) /\ H[Len(wal)] = catalog
               /\ NoneCrosses => TargetInv(H) /\ (PlainRenames => ObserverInv(H))
  BY DEF FollowInv
<1> DEFINE N == Len(buffered)
           s == FoldLeft(Executed, [tables |-> targetTables, refused |-> refused], buffered)
<1>2. /\ buffered # <<>> /\ buffered' = <<>> /\ flushed' = buffered[N].pos
      /\ targetTables' = s.tables /\ refused' = s.refused
      /\ UNCHANGED <<settings, catalog, wal, at, observed>>
  BY Zenon DEF Flush, Last, sourceVars, chainVars
<1>3. NoneCrosses' <=> NoneCrosses
  BY <1>2, FilterStays DEF NoneCrosses, Crossing
<1>4. N \in Nat /\ N # 0 /\ N \in 1..N /\ at \in Nat /\ flushed \in Nat /\ flushed' \in 1..at
  <2>1. N \in Nat /\ N # 0 /\ N \in 1..N
    BY <1>2, LenProperties, EmptySeq DEF ChainInv, PositionInv
  <2>2. buffered[N].pos \in 1..at
    BY <2>1, ChainPositions
  <2> QED BY <1>2, <2>1, <2>2, PositionsAreNaturals
<1>5. Reached(flushed, buffered, N) = flushed'
  BY <1>2, <1>4 DEF Reached
<1>6. NoneCrosses => /\ IsCatalog(targetTables') /\ Agree(targetTables', H[flushed'])
                     /\ PlainRenames /\ OnlyNulls(refused) => OnlyNulls(refused')
  BY <1>1, <1>2, <1>5, BatchFollows
<1> HIDE DEF s
<1>7. ASSUME NoneCrosses PROVE TargetInv(H)'
  <2>1. Len(<<>>) = 0 /\ Reached(flushed', <<>>, 0) = flushed'
    BY DEF Reached
  <2>2. Follows(H, flushed', at + 1)
    BY <1>1, <1>5, <1>7 DEF TargetInv, TargetAt
  <2>3. flushed' - 1 <= at
    <3>1. \A f \in 1..at : f - 1 <= at
      BY <1>4
    <3> QED BY <1>4, <3>1
  <2>4. TargetAt(H, targetTables', flushed', at', buffered')
    BY <1>2, <1>6, <1>7, <2>1, <2>2, <2>3 DEF TargetAt
  <2> QED BY <1>2, <2>4, TargetPrimed
<1>8. ASSUME NoneCrosses, PlainRenames PROVE ObserverInv(H)'
  <2>1. Replicated' = Replicated
    BY <1>2, FilterStays
  <2>2. TargetInv(H) /\ ObserverInv(H)
    BY <1>1, <1>8
  <2>3. OnlyNulls(refused)'
    BY <1>2, <1>6, <1>8, <2>2 DEF ObserverInv, OnlyNulls
  <2>4. flushed <= flushed' /\ flushed' <= at
    <3>1. flushed <= buffered[N].pos
      BY <1>4, <2>2 DEF TargetInv, TargetAt
    <3>2. \A f \in 1..at : f <= at
      BY <1>4
    <3> QED BY <1>2, <1>4, <3>1, <3>2
  <2>5. \A j \in flushed'..at : j \in flushed..at
    <3>1. \A f \in 1..at : flushed <= f => \A j \in f..at : j \in flushed..at
      BY <1>4
    <3> QED BY <1>4, <2>4, <3>1
  <2>6. ASSUME NEW n \in Replicated
        PROVE  IF observed[n].known THEN flushed' <= at /\ Shows(observed[n], H[at][n])
               ELSE \A j \in flushed'..at : Narrows(H[at][n], H[j][n])
    BY <2>2, <2>4, <2>5 DEF ObserverInv
  <2>7. observed = [n \in Name |-> observed[n]]
    BY <2>2 DEF ObserverInv
  <2> QED BY <1>2, <2>1, <2>3, <2>6, <2>7 DEF ObserverInv
<1> QED BY <1>1, <1>2, <1>3, <1>7, <1>8 DEF FollowInv

\* All of the steps.
LEMMA FollowSteps ==
  ASSUME Redelivered <= 1
  PROVE  ChainInv /\ FollowInv /\ [ChainNext]_allVars => FollowInv'
<1> SUFFICES ASSUME ChainInv, FollowInv, [ChainNext]_allVars PROVE FollowInv'
  OBVIOUS
<1>1. CASE SourceStep
  BY <1>1, FollowsSource
<1>2. CASE Block
  <2>1. UNCHANGED <<settings, catalog, wal, at, observed, buffered, targetTables, flushed, refused>>
    BY <1>2 DEF Block, sourceVars, targetVars
  <2> QED BY <2>1, FollowStays
<1>3. CASE Skip \/ PassDDL \/ PassRow \/ Flush
  BY <1>3, FollowsSkip, FollowsPassDDL, FollowsPassRow, FollowsFlush
<1>4. CASE Crash
  BY <1>4, FollowsCrash
<1>5. CASE UNCHANGED allVars
  <2>1. UNCHANGED <<settings, catalog, wal, at, observed, buffered, targetTables, flushed, refused>>
    BY <1>5 DEF allVars, sourceVars, chainVars, targetVars
  <2> QED BY <2>1, FollowStays
<1> QED BY <1>1, <1>2, <1>3, <1>4, <1>5 DEF ChainNext, ChainStep

\* What the invariant says of the target when there is nothing left to do.
LEMMA FollowKeeps ==
  ASSUME ChainInv, FollowInv
  PROVE  TargetFollows /\ (PlainRenames => NothingRefused)
<1>1. PICK H : /\ History(wal, H) /\ H[Len(wal)] = catalog
               /\ NoneCrosses => TargetInv(H) /\ (PlainRenames => ObserverInv(H))
  BY DEF FollowInv
<1>2. PlainRenames => NothingRefused
  BY <1>1 DEF ObserverInv, OnlyNulls, NothingRefused
<1>3. ASSUME at = Len(wal), buffered = <<>>, NoneCrosses, NEW n \in Name, ~SkipEvent(n)
      PROVE  targetTables[n] = catalog[n]
  <2>1. Len(buffered) = 0 /\ Reached(flushed, buffered, Len(buffered)) = flushed
    BY <1>3 DEF Reached
  <2>2. Follows(H, flushed, at + 1) /\ Agree(targetTables, H[flushed])
    BY <1>1, <1>3, <2>1 DEF TargetInv, TargetAt
  <2>3. flushed # at + 1 /\ (at + 1) - 1 = Len(wal)
    BY <1>3, ChainPositions, PositionsAreNaturals
  <2>4. Agree(H[flushed], H[Len(wal)])
    BY <2>2, <2>3 DEF Follows
  <2> QED BY <1>1, <1>3, <2>2, <2>4 DEF Agree, Replicated
<1>4. TargetFollows
  BY <1>3 DEF TargetFollows
<1> QED BY <1>2, <1>4

(* With every message executed, the target has the tables of the source    *)
(* that pass the filter, with their columns and keys: for any tables,      *)
(* statements, rules, batches and restarts, when a restart delivers no     *)
(* more than the last event executed again.                                *)
THEOREM TargetKeepsUp == Redelivered <= 1 => (ChainSpec => []TargetFollows)
<1> SUFFICES ASSUME Redelivered <= 1 PROVE ChainSpec => []TargetFollows
  OBVIOUS
<1>1. ChainInv /\ FollowInv => TargetFollows
  BY FollowKeeps
<1>2. ChainInv /\ FollowInv /\ [ChainNext]_allVars => FollowInv'
  BY FollowSteps
<1> QED BY <1>1, <1>2, ChainStarts, ChainSteps, FollowStarts, PTL DEF ChainSpec

(* No query of a row is refused but for a null byte that no sanitizer      *)
(* takes out, when no column is renamed whose kind the observer must know. *)
THEOREM RowsAreTaken == Redelivered <= 1 /\ PlainRenames => (ChainSpec => []NothingRefused)
<1> SUFFICES ASSUME Redelivered <= 1, PlainRenames PROVE ChainSpec => []NothingRefused
  OBVIOUS
<1>1. ChainInv /\ FollowInv => NothingRefused
  BY FollowKeeps
<1>2. ChainInv /\ FollowInv /\ [ChainNext]_allVars => FollowInv'
  BY FollowSteps
<1> QED BY <1>1, <1>2, ChainStarts, ChainSteps, FollowStarts, PTL DEF ChainSpec
===============================================================================
