--------------------------- MODULE CommandProofs ---------------------------
(***************************************************************************)
(* Theorems about the commands that run and, at the end, those that set    *)
(* up, for every set of configurations, every size of the queues, any      *)
(* number of events and of failures.                                       *)
(*                                                                         *)
(* That no position is confirmed through a closed handler follows from the *)
(* order in which the components are built: the processor is deferred      *)
(* behind the handler and the checkpointer, so it is closed before them,   *)
(* and its Close returns only when it will write no more.  That the        *)
(* snapshot is before the stream follows from the data snapshot's closing  *)
(* its processor before it returns.  The two sections on setting up have   *)
(* their own headers.                                                      *)
(***************************************************************************)
EXTENDS StreamRun, StreamSetup, SequenceTheorems, TLAPS

-----------------------------------------------------------------------------
(* Types.                                                                  *)

SnapItems == {"table", "row", "index"}
Items == SnapItems \cup {"wal"}

\* The events of the stream go to the processor of a run command, a snapshot goes
\* to one of its own.
ItemsOf(p) == IF cfg.command = "run" /\ p = "processor" THEN {"wal"} ELSE SnapItems

Parts == {"health", "init", "handler", "checkpointer", "processor", "modifiers",
          "snapProcessor", "snapModifiers", "generator"}
Phases == {"build", "wait", "close", "returned", "crashed"}
SnapStages == {"idle", "lsn", "schema", "rows", "drain"}
LaterStages == {"indices", "snapped", "replicate"}
Stages == SnapStages \cup LaterStages \cup {"stream", "done"}
SenderStates == {"none", "runs", "closing", "closed", "stopped", "failed", "failedClosed"}

Shape ==
  /\ cfg \in Configs
  /\ phase \in Phases /\ built \in 0..Len(Plan)
  /\ deferred \in Seq(Parts)
  /\ stage \in Stages
  /\ sender \in [Processors -> SenderStates]
  /\ queue \in [Processors -> Seq(Items)]
  /\ \A p \in Processors : \A i \in DOMAIN queue[p] : queue[p][i] \in ItemsOf(p)
  /\ written \in Seq(Items)
  /\ misused \in BOOLEAN
  /\ phase = "build" => /\ stage = "idle" /\ written = <<>>
                        /\ \A p \in Processors : queue[p] = <<>>
  /\ cfg.command = "snapshot" => stage \notin {"replicate", "stream"}

\* What a run command builds, and in what order.
LEMMA PlanOfRun ==
  ASSUME cfg.command = "run"
  PROVE  /\ Len(Plan) \in Nat /\ Len(Plan) >= 6
         /\ \A k \in 1..Len(Plan) : Plan[k] \in Parts
         /\ Plan[3] = "handler" /\ Plan[4] = "checkpointer" /\ Plan[5] = "processor"
         /\ \A k \in 1..Len(Plan) : /\ Plan[k] = "processor" => k = 5
                                    /\ Plan[k] \in {"handler", "checkpointer"} => k < 5
<1> DEFINE first == <<"health", "init", "handler", "checkpointer", "processor", "modifiers">>
           snap == IF cfg.snapshot = {} THEN <<>>
                   ELSE <<"snapProcessor", "snapModifiers", "generator">>
<1>1. Plan = first \o snap
  BY DEF Plan
<1>2. /\ first \in Seq(Parts) /\ Len(first) = 6
      /\ first[3] = "handler" /\ first[4] = "checkpointer" /\ first[5] = "processor"
      /\ \A k \in 1..6 : /\ first[k] = "processor" => k = 5
                         /\ first[k] \in {"handler", "checkpointer"} => k < 5
  <2>1. /\ first \in Seq(Parts) /\ Len(first) = 6
        /\ first[1] = "health" /\ first[2] = "init" /\ first[3] = "handler"
        /\ first[4] = "checkpointer" /\ first[5] = "processor" /\ first[6] = "modifiers"
    BY DEF Parts
  <2> HIDE DEF first
  <2>2. \A k \in 1..6 : k \in {1, 2, 3, 4, 5, 6}
    OBVIOUS
  <2> QED BY <2>1, <2>2
<1>3. /\ snap \in Seq(Parts) /\ Len(snap) \in Nat
      /\ \A k \in 1..Len(snap) : snap[k] \notin {"processor", "handler", "checkpointer"}
  <2>1. CASE cfg.snapshot = {}
    <3>1. snap = <<>>
      BY <2>1
    <3> QED BY <3>1
  <2>2. CASE cfg.snapshot # {}
    <3>1. snap = <<"snapProcessor", "snapModifiers", "generator">>
      BY <2>2
    <3> HIDE DEF snap
    <3>2. /\ snap \in Seq(Parts) /\ Len(snap) = 3
          /\ snap[1] = "snapProcessor" /\ snap[2] = "snapModifiers" /\ snap[3] = "generator"
      BY <3>1 DEF Parts
    <3>3. \A k \in 1..3 : k \in {1, 2, 3}
      OBVIOUS
    <3> QED BY <3>2, <3>3
  <2> QED BY <2>1, <2>2
<1> HIDE DEF first, snap
<1>4. /\ Len(Plan) = 6 + Len(snap) /\ Plan \in Seq(Parts)
      /\ \A k \in 1..(6 + Len(snap)) : Plan[k] = IF k <= 6 THEN first[k] ELSE snap[k - 6]
  <2>1. first \in Seq(Parts) /\ snap \in Seq(Parts)
    BY <1>2, <1>3
  <2>2. /\ first \o snap \in Seq(Parts) /\ Len(first \o snap) = Len(first) + Len(snap)
        /\ \A k \in 1..(Len(first) + Len(snap)) :
             (first \o snap)[k] = IF k <= Len(first) THEN first[k] ELSE snap[k - Len(first)]
    BY <2>1, ConcatProperties
  <2> QED BY <1>1, <1>2, <2>2
<1>5. \A k \in 1..Len(Plan) : Plan[k] \in Parts
  BY <1>4, LenProperties
<1>6. \A k \in 1..Len(Plan) : /\ Plan[k] = "processor" => k = 5
                              /\ Plan[k] \in {"handler", "checkpointer"} => k < 5
  <2> TAKE k \in 1..Len(Plan)
  <2>1. CASE k <= 6
    BY <1>2, <1>4, <2>1
  <2>2. CASE ~(k <= 6)
    <3>1. k - 6 \in 1..Len(snap) /\ Plan[k] = snap[k - 6]
      BY <1>3, <1>4, <2>2
    <3> QED BY <1>3, <3>1
  <2> QED BY <2>1, <2>2
<1> QED BY <1>2, <1>3, <1>4, <1>5, <1>6

LEMMA PlanIsPlan ==
  ASSUME ConfigAssumption, cfg \in Configs
  PROVE  Len(Plan) \in Nat /\ \A k \in 1..Len(Plan) : Plan[k] \in Parts
<1>1. CASE cfg.command = "run"
  BY <1>1, PlanOfRun
<1>2. CASE cfg.command = "snapshot"
  <2>1. Plan = <<"health", "processor", "modifiers", "generator">>
    BY <1>2 DEF Plan
  <2>2. Plan \in Seq(Parts)
    BY <2>1 DEF Parts
  <2> QED BY <2>2, LenProperties
<1> QED BY <1>1, <1>2 DEF ConfigAssumption, Commands

LEMMA SnapProcessorType ==
  /\ SnapProcessor \in Processors
  /\ cfg.command = "run" => SnapProcessor # "processor"
  /\ ItemsOf(SnapProcessor) = SnapItems
BY DEF SnapProcessor, Processors, ItemsOf

-----------------------------------------------------------------------------
(* What a step of the listener does to the processors.                     *)

\* An event was written at once, or accepted, or neither.
Handed(p, item) ==
  /\ UNCHANGED <<sender, misused>> /\ phase' \in {phase, "crashed"}
  /\ \/ written' = Append(written, item) /\ UNCHANGED queue
     \/ Enqueued(p, item) /\ UNCHANGED written
     \/ UNCHANGED <<written, queue>>

\* The steps of the listener: those of a snapshot, the closing of its processor, and
\* the events of the stream.
SnapshotStep ==
  /\ \E item \in SnapItems : Handed(SnapProcessor, item)
  /\ \/ stage \in {"lsn", "schema", "rows"} /\ stage' \in {"schema", "rows", "drain"}
     \/ stage = "rows" /\ stage' = "indices" /\ "data" \notin cfg.snapshot
     \/ stage = "indices" /\ stage' = "snapped"
     \/ stage = "snapped" /\ stage' = "replicate" /\ cfg.command # "snapshot"
     \/ stage = "replicate" /\ stage' = "stream"
     \/ stage \notin {"stream", "done"} /\ stage' \in {stage, "done"}

ClosingStep ==
  /\ stage = "drain" /\ stage' = "indices"
  /\ sender' = ClosedSender(SnapProcessor)
  /\ UNCHANGED <<phase, queue, written, misused>>

StreamStep == stage = "stream" /\ stage' \in {"stream", "done"} /\ Handed("processor", "wal")

LEMMA ListenSteps ==
  ASSUME Listen
  PROVE  /\ phase = "wait" /\ UNCHANGED <<cfg, built, deferred, open>>
         /\ SnapshotStep \/ ClosingStep \/ StreamStep
<1>1. phase = "wait" /\ UNCHANGED <<cfg, built, deferred, open>>
  BY DEF Listen
<1> SUFFICES SnapshotStep \/ ClosingStep \/ StreamStep
  BY <1>1
<1>2. ASSUME UNCHANGED <<sender, queue, written, misused>>, phase' = phase
      PROVE  Handed("processor", "wal") /\ \E item \in SnapItems : Handed(SnapProcessor, item)
  BY <1>2 DEF Handed, SnapItems
<1>3. CASE ListenerFails
  BY <1>2, <1>3 DEF ListenerFails, Ends, SnapshotStep, StreamStep
<1>4. CASE GetCurrentLSN \/ SnapshotDone \/ StartReplication
  BY <1>2, <1>4
  DEF GetCurrentLSN, SnapshotDone, StartReplication, Goes, Ends, processing, SnapshotStep
<1>5. CASE SnapshotSchema
  <2>1. CASE "schema" \in cfg.snapshot
    <3>1. stage = "schema" /\ Restore("table", Goes("rows"))
      BY <1>5, <2>1 DEF SnapshotSchema
    <3>2. Handed(SnapProcessor, "table") /\ stage' \in {"rows", "schema", "done"}
      BY <3>1 DEF Restore, Process, Handed, Refused, Ends, Goes, processing, listener
    <3> QED BY <3>1, <3>2 DEF SnapshotStep, SnapItems
  <2>2. CASE "schema" \notin cfg.snapshot
    BY <1>2, <1>5, <2>2 DEF SnapshotSchema, Goes, processing, SnapshotStep
  <2> QED BY <2>1, <2>2
<1>6. CASE SnapshotRows
  <2>1. CASE "data" \in cfg.snapshot
    <3>1. stage = "rows" /\ Process(SnapProcessor, "row", Goes("drain"))
      BY <1>6, <2>1 DEF SnapshotRows
    <3>2. Handed(SnapProcessor, "row") /\ stage' \in {"drain", "rows", "done"}
      BY <3>1 DEF Process, Handed, Refused, Ends, Goes, processing, listener
    <3> QED BY <3>1, <3>2 DEF SnapshotStep, SnapItems
  <2>2. CASE "data" \notin cfg.snapshot
    BY <1>2, <1>6, <2>2 DEF SnapshotRows, Goes, processing, SnapshotStep
  <2> QED BY <2>1, <2>2
<1>7. CASE CloseSnapshotProcessor
  BY <1>7 DEF CloseSnapshotProcessor, ClosingStep, Goes
<1>8. CASE SnapshotIndices
  <2>1. CASE "schema" \in cfg.snapshot
    <3>1. stage = "indices" /\ Restore("index", Goes("snapped"))
      BY <1>8, <2>1 DEF SnapshotIndices
    <3>2. Handed(SnapProcessor, "index") /\ stage' \in {"snapped", "indices", "done"}
      BY <3>1 DEF Restore, Process, Handed, Refused, Ends, Goes, processing, listener
    <3> QED BY <3>1, <3>2 DEF SnapshotStep, SnapItems
  <2>2. CASE "schema" \notin cfg.snapshot
    BY <1>2, <1>8, <2>2 DEF SnapshotIndices, Goes, processing, SnapshotStep
  <2> QED BY <2>1, <2>2
<1>9. CASE Receive
  <2>1. stage = "stream" /\ Handed("processor", "wal") /\ stage' \in {"stream", "done"}
    BY <1>9 DEF Receive, Process, Handed, Refused, Ends, processing, listener
  <2> QED BY <2>1 DEF StreamStep
<1> QED BY <1>1, <1>3, <1>4, <1>5, <1>6, <1>7, <1>8, <1>9 DEF Listen, ListenerStep

\* Lemmas about sequences.
LEMMA AppendItem ==
  ASSUME NEW S, NEW T, NEW s \in Seq(S), \A i \in DOMAIN s : s[i] \in T, NEW e \in S, e \in T
  PROVE  /\ Append(s, e) \in Seq(S) /\ \A i \in DOMAIN Append(s, e) : Append(s, e)[i] \in T
         /\ Append(s, e) # <<>>
OBVIOUS

LEMMA TailItems ==
  ASSUME NEW S, NEW T, NEW s \in Seq(S), \A i \in DOMAIN s : s[i] \in T, s # <<>>
  PROVE  /\ Tail(s) \in Seq(S) /\ \A i \in DOMAIN Tail(s) : Tail(s)[i] \in T
         /\ Head(s) \in S /\ Head(s) \in T
OBVIOUS

-----------------------------------------------------------------------------
(* The shape of the state.                                                 *)

\* A step that leaves the processors alone.
LEMMA ShapeFrame ==
  ASSUME Shape, UNCHANGED <<cfg, queue, written, misused>>,
         phase' \in Phases, phase' = "build" => phase = "build" /\ UNCHANGED stage,
         built' \in 0..Len(Plan), deferred' \in Seq(Parts),
         stage' \in Stages, sender' \in [Processors -> SenderStates],
         cfg.command = "snapshot" => stage' \notin {"replicate", "stream"}
  PROVE  Shape'
BY DEF Shape, Plan, ItemsOf

LEMMA ShapeHanded ==
  ASSUME Shape, NEW p \in Processors, NEW item \in ItemsOf(p), Handed(p, item),
         phase = "wait", UNCHANGED <<cfg, built, deferred>>,
         stage' \in Stages, cfg.command = "snapshot" => stage' \notin {"replicate", "stream"}
  PROVE  Shape'
<1>1. item \in Items
  BY DEF ItemsOf, Items, SnapItems
<1>2. /\ queue \in [Processors -> Seq(Items)] /\ written \in Seq(Items)
      /\ \A q \in Processors : \A i \in DOMAIN queue[q] : queue[q][i] \in ItemsOf(q)
  BY DEF Shape
<1>3. /\ Append(queue[p], item) \in Seq(Items)
      /\ \A i \in DOMAIN Append(queue[p], item) : Append(queue[p], item)[i] \in ItemsOf(p)
  BY <1>1, <1>2, AppendItem
<1>4. written' \in Seq(Items)
  <2>1. written' \in {written, Append(written, item)}
    BY DEF Handed
  <2> QED BY <1>1, <1>2, <2>1, AppendProperties
<1>5. /\ queue' \in [Processors -> Seq(Items)]
      /\ \A q \in Processors : \A i \in DOMAIN queue'[q] : queue'[q][i] \in ItemsOf(q)
  <2>1. CASE queue' = queue
    BY <1>2, <2>1
  <2>2. CASE Enqueued(p, item)
    <3>1. queue' = [queue EXCEPT ![p] = Append(queue[p], item)]
      BY <2>2 DEF Enqueued
    <3> QED BY <1>2, <1>3, <3>1
  <2> QED BY <2>1, <2>2 DEF Handed
<1>6. ItemsOf(p)' = ItemsOf(p) /\ \A q : ItemsOf(q)' = ItemsOf(q)
  BY DEF ItemsOf
<1>7. phase' \in Phases /\ phase' # "build" /\ Plan' = Plan
      /\ UNCHANGED <<cfg, built, deferred, sender, misused>>
  BY DEF Handed, Phases, Plan
<1> QED BY <1>4, <1>5, <1>6, <1>7 DEF Shape

LEMMA ShapeWrite ==
  ASSUME Shape, NEW p \in Processors, Write(p)
  PROVE  Shape'
<1>1. /\ queue \in [Processors -> Seq(Items)] /\ written \in Seq(Items)
      /\ \A q \in Processors : \A i \in DOMAIN queue[q] : queue[q][i] \in ItemsOf(q)
      /\ queue[p] # <<>>
  BY DEF Shape, Write
<1>2. /\ Tail(queue[p]) \in Seq(Items) /\ Head(queue[p]) \in Items
      /\ \A i \in DOMAIN Tail(queue[p]) : Tail(queue[p])[i] \in ItemsOf(p)
  BY <1>1, TailItems
<1>3. queue' = [queue EXCEPT ![p] = Tail(queue[p])]
  BY DEF Write
<1>4. /\ queue' \in [Processors -> Seq(Items)]
      /\ \A q \in Processors : \A i \in DOMAIN queue'[q] : queue'[q][i] \in ItemsOf(q)
  BY <1>1, <1>2, <1>3
<1>5. written' \in Seq(Items)
  <2>1. written' \in {written, Append(written, Head(queue[p]))}
    BY DEF Write
  <2> QED BY <1>1, <1>2, <2>1, AppendProperties
<1>6. /\ UNCHANGED <<cfg, phase, built, deferred, stage>>
      /\ sender' \in [Processors -> SenderStates] /\ misused' \in BOOLEAN
      /\ phase # "build"
  <2>1. UNCHANGED <<cfg, phase, built, deferred, stage>>
    BY DEF Write, main, listener
  <2>2. sender' \in {sender, [sender EXCEPT ![p] = "failed"]}
    BY DEF Write
  <2>3. sender' \in [Processors -> SenderStates]
    BY <2>2 DEF Shape, SenderStates
  <2>4. misused' \in BOOLEAN
    BY DEF Write, Shape
  <2>5. phase # "build"
    BY <1>1 DEF Shape
  <2> QED BY <2>1, <2>3, <2>4, <2>5
<1>7. \A q : ItemsOf(q)' = ItemsOf(q)
  BY <1>6 DEF ItemsOf
<1>8. Plan' = Plan
  BY <1>6 DEF Plan
<1> QED BY <1>4, <1>5, <1>6, <1>7, <1>8 DEF Shape

\* A sequence without one of its elements.
LEMMA RemoveAtType ==
  ASSUME NEW S, NEW s \in Seq(S), s # <<>>
  PROVE  /\ RemoveAt(s, Len(s)) \in Seq(S) /\ Len(s) \in Nat \ {0}
         /\ DOMAIN RemoveAt(s, Len(s)) = 1..(Len(s) - 1)
         /\ \A i \in 1..(Len(s) - 1) : RemoveAt(s, Len(s))[i] = s[i]
<1> DEFINE n == Len(s)
           a == SubSeq(s, 1, n - 1)
           b == SubSeq(s, n + 1, n)
<1>1. n \in Nat /\ n # 0 /\ \A i \in 1..n : s[i] \in S
  BY LenProperties, EmptySeq
<1>2. a \in Seq(S) /\ Len(a) = n - 1 /\ \A i \in 1..(n - 1) : a[i] = s[i]
  <2> HIDE DEF n
  <2>1. n - 1 \in Nat /\ \A i \in 1..(n - 1) : i \in 1..n /\ s[i] \in S
    BY <1>1
  <2>2. a \in Seq(S) /\ Len(a) = IF 1 <= n - 1 THEN (n - 1) - 1 + 1 ELSE 0
    BY <2>1, SubSeqProperties
  <2>3. \A i \in 1..((n - 1) - 1 + 1) : a[i] = s[1 + i - 1]
    BY <2>1, SubSeqProperties
  <2> HIDE DEF a
  <2> QED BY <2>1, <2>2, <2>3
<1>3. b = <<>>
  BY <1>1, SubSeqEmpty
<1>4. RemoveAt(s, Len(s)) = a
  BY <1>2, <1>3, ConcatEmptySeq DEF RemoveAt
<1> HIDE DEF a, n
<1> QED BY <1>1, <1>2, <1>4, LenProperties DEF n

LEMMA FrontType ==
  ASSUME NEW S, NEW s \in Seq(S)
  PROVE  /\ Front(s) \in Seq(S) /\ DOMAIN Front(s) \subseteq DOMAIN s
         /\ \A i \in DOMAIN Front(s) : Front(s)[i] = s[i]
<1>1. Len(s) \in Nat /\ DOMAIN s = 1..Len(s) /\ \A i \in 1..Len(s) : s[i] \in S
  BY LenProperties
<1> DEFINE n == Len(s) - 1
<1>2. n \in Int /\ \A i \in 1..n : i \in 1..Len(s) /\ s[i] \in S
  BY <1>1
<1>3. /\ Front(s) \in Seq(S) /\ Len(Front(s)) = IF 1 <= n THEN n ELSE 0
      /\ \A i \in 1..n : Front(s)[i] = s[i]
  <2> HIDE DEF n
  <2>1. SubSeq(s, 1, n) \in Seq(S) /\ Len(SubSeq(s, 1, n)) = IF 1 <= n THEN n - 1 + 1 ELSE 0
    BY <1>2, SubSeqProperties
  <2>2. \A i \in 1..(n - 1 + 1) : SubSeq(s, 1, n)[i] = s[1 + i - 1]
    BY <1>2, SubSeqProperties
  <2> QED BY <1>2, <2>1, <2>2 DEF Front, n
<1>4. DOMAIN Front(s) \subseteq 1..n
  BY <1>2, <1>3, LenProperties
<1>5. \A i \in DOMAIN Front(s) : i \in 1..n
  BY <1>4
<1>6. \A i \in DOMAIN Front(s) : i \in DOMAIN s /\ Front(s)[i] = s[i]
  <2> HIDE DEF n
  <2> QED BY <1>1, <1>2, <1>3, <1>5
<1> HIDE DEF n
<1> QED BY <1>3, <1>6

\* Closing leaves a sender in one of its states, and ends it for good.
LEMMA ClosedSenderType ==
  ASSUME Shape, NEW p \in Processors, sender' = ClosedSender(p)
  PROVE  /\ sender' \in [Processors -> SenderStates]
         /\ \A q \in Processors : q # p => sender'[q] = sender[q]
         /\ cfg.target # "webhook" =>
              sender'[p] = IF Failed(p) THEN "failedClosed" ELSE "closed"
BY DEF Shape, ClosedSender, SenderStates

LEMMA ShapeStep == ConfigAssumption /\ Shape /\ [Next]_vars => Shape'
<1> SUFFICES ASSUME ConfigAssumption, Shape, [Next]_vars PROVE Shape'
  OBVIOUS
<1> USE DEF main, listener, processing
<1>0. /\ cfg \in Configs /\ built \in 0..Len(Plan) /\ deferred \in Seq(Parts)
      /\ phase \in Phases /\ stage \in Stages /\ sender \in [Processors -> SenderStates]
      /\ cfg.command = "snapshot" => stage \notin {"replicate", "stream"}
      /\ Len(Plan) \in Nat /\ \A k \in 1..Len(Plan) : Plan[k] \in Parts
  BY PlanIsPlan DEF Shape
<1>1. CASE Build
  <2>1. built + 1 \in 1..Len(Plan) /\ built' = built + 1
    BY <1>0, <1>1 DEF Build
  <2>2. Plan[built + 1] \in Parts
    BY <1>0, <2>1
  <2>3. deferred' \in {deferred, Append(deferred, Plan[built + 1])}
    BY <1>1 DEF Build
  <2>4. deferred' \in Seq(Parts)
    BY <1>0, <2>2, <2>3, AppendProperties
  <2>5. sender' \in {sender, [sender EXCEPT ![Plan[built + 1]] = "runs"]}
    BY <1>1 DEF Build
  <2>6. sender' \in [Processors -> SenderStates]
    BY <1>0, <2>5 DEF SenderStates
  <2>7. /\ UNCHANGED <<cfg, queue, written, misused, stage, phase>> /\ built' \in 0..Len(Plan)
    BY <1>0, <1>1, <2>1 DEF Build
  <2> QED BY <1>0, <2>4, <2>6, <2>7, ShapeFrame
<1>2. CASE BuildFails
  <2>1. deferred' \in {deferred, Front(deferred)}
    BY <1>2 DEF BuildFails
  <2>2. deferred' \in Seq(Parts)
    BY <1>0, <2>1, FrontType
  <2>3. /\ UNCHANGED <<cfg, queue, written, misused, stage, built, sender>> /\ phase' = "close"
    BY <1>2 DEF BuildFails
  <2> QED BY <1>0, <2>2, <2>3, ShapeFrame DEF Phases
<1>3. CASE Start
  <2>1. /\ UNCHANGED <<cfg, queue, written, misused, built, deferred, sender>> /\ phase' = "wait"
        /\ stage' \in Stages
        /\ cfg.command = "snapshot" => stage' \notin {"replicate", "stream"}
    BY <1>3 DEF Start, Stages, SnapStages, LaterStages
  <2> QED BY <1>0, <2>1, ShapeFrame DEF Phases
<1>4. CASE Wait
  <2>1. /\ UNCHANGED <<cfg, queue, written, misused, built, deferred, sender, stage>>
        /\ phase' = "close"
    BY <1>4 DEF Wait
  <2> QED BY <1>0, <2>1, ShapeFrame DEF Phases
<1>5. CASE Close
  <2>1. /\ UNCHANGED <<cfg, queue, written, misused, built, stage, phase>> /\ deferred # <<>>
        /\ deferred' = RemoveAt(deferred, Len(deferred))
        /\ \/ UNCHANGED sender
           \/ \E p \in Processors : sender' = ClosedSender(p)
    BY <1>5 DEF Close, NextToClose
  <2>2. deferred' \in Seq(Parts)
    BY <1>0, <2>1, RemoveAtType
  <2>3. sender' \in [Processors -> SenderStates]
    BY <1>0, <2>1, ClosedSenderType
  <2> QED BY <1>0, <2>1, <2>2, <2>3, ShapeFrame
<1>6. CASE Return
  <2>1. /\ UNCHANGED <<cfg, queue, written, misused, built, deferred, sender, stage>>
        /\ phase' = "returned"
    BY <1>6 DEF Return
  <2> QED BY <1>0, <2>1, ShapeFrame DEF Phases
<1>7. CASE Signal
  <2>1. UNCHANGED <<cfg, queue, written, misused, built, deferred, sender, stage, phase>>
    BY <1>7 DEF Signal
  <2> QED BY <1>0, <2>1, ShapeFrame
<1>8. CASE Listen
  <2>1. phase = "wait" /\ UNCHANGED <<cfg, built, deferred, open>>
    BY <1>8, ListenSteps
  <2>2. CASE SnapshotStep
    <3>1. PICK item \in SnapItems : Handed(SnapProcessor, item)
      BY <2>2 DEF SnapshotStep
    <3>2. stage' \in Stages /\ (cfg.command = "snapshot" => stage' \notin {"replicate", "stream"})
      BY <1>0, <2>2 DEF SnapshotStep, Stages, SnapStages, LaterStages
    <3> QED BY <2>1, <3>1, <3>2, SnapProcessorType, ShapeHanded
  <2>3. CASE ClosingStep
    <3>1. /\ UNCHANGED <<phase, queue, written, misused>> /\ stage' = "indices"
          /\ sender' \in [Processors -> SenderStates]
      BY <2>3, SnapProcessorType, ClosedSenderType DEF ClosingStep
    <3> QED BY <1>0, <2>1, <3>1, ShapeFrame DEF Stages, LaterStages
  <2>4. CASE StreamStep
    <3>1. /\ stage = "stream" /\ stage' \in {"stream", "done"} /\ Handed("processor", "wal")
      BY <2>4 DEF StreamStep
    <3>2. cfg.command = "run"
      BY <1>0, <3>1 DEF ConfigAssumption, Commands
    <3>3. "wal" \in ItemsOf("processor") /\ "processor" \in Processors
      BY <3>2 DEF ItemsOf, Processors
    <3>4. stage' \in Stages /\ (cfg.command = "snapshot" => stage' \notin {"replicate", "stream"})
      BY <3>1, <3>2 DEF Stages
    <3> QED BY <2>1, <3>1, <3>3, <3>4, ShapeHanded
  <2> QED BY <1>8, <2>2, <2>3, <2>4, ListenSteps
<1>9. ASSUME NEW p \in Processors, Write(p) PROVE Shape'
  BY <1>9, ShapeWrite
<1>10. ASSUME NEW p \in Processors, SenderStops(p) PROVE Shape'
  <2>1. /\ UNCHANGED <<cfg, queue, written, misused, built, deferred, stage, phase>>
        /\ sender' \in {[sender EXCEPT ![p] = "stopped"], [sender EXCEPT ![p] = "closed"]}
    BY <1>10 DEF SenderStops
  <2>2. sender' \in [Processors -> SenderStates]
    BY <1>0, <2>1 DEF SenderStates
  <2> QED BY <1>0, <2>1, <2>2, ShapeFrame
<1>11. CASE UNCHANGED vars
  <2>1. UNCHANGED <<cfg, queue, written, misused, built, deferred, stage, phase, sender>>
    BY <1>11 DEF vars
  <2> QED BY <1>0, <2>1, ShapeFrame
<1> QED
  BY <1>1, <1>2, <1>3, <1>4, <1>5, <1>6, <1>7, <1>8, <1>9, <1>10, <1>11 DEF Next, Command

LEMMA ShapeInit == ConfigAssumption /\ Init => Shape
<1> SUFFICES ASSUME ConfigAssumption, Init PROVE Shape
  OBVIOUS
<1>1. /\ cfg \in Configs /\ phase = "build" /\ built = 0 /\ deferred = <<>> /\ stage = "idle"
      /\ sender = [p \in Processors |-> "none"] /\ queue = [p \in Processors |-> <<>>]
      /\ written = <<>> /\ misused = FALSE
  BY DEF Init
<1>2. /\ sender \in [Processors -> SenderStates] /\ queue \in [Processors -> Seq(Items)]
      /\ \A p \in Processors :
           queue[p] = <<>> /\ \A i \in DOMAIN queue[p] : queue[p][i] \in ItemsOf(p)
  BY <1>1 DEF SenderStates
<1>3. built \in 0..Len(Plan)
  BY <1>1, PlanIsPlan
<1>4. /\ phase \in Phases /\ stage \in Stages /\ misused \in BOOLEAN
      /\ stage \notin {"replicate", "stream"}
  BY <1>1 DEF Phases, Stages, SnapStages
<1>5. deferred \in Seq(Parts) /\ written \in Seq(Items)
  BY <1>1
<1> QED BY <1>1, <1>2, <1>3, <1>4, <1>5 DEF Shape

-----------------------------------------------------------------------------
(* Positions are confirmed through an open handler.                        *)

IsDeferred(x) == \E i \in DOMAIN deferred : deferred[i] = x

\* The processor of the stream may still write, and what it writes is confirmed.
Confirming == sender["processor"] \in {"runs", "closing"} /\ queue["processor"] # <<>>

\* The handler is open, and the processor will be closed before it.
Held == "handler" \in open /\ IsDeferred("processor")

ProcessorIsLater ==
  \A i, j \in DOMAIN deferred :
    deferred[i] \in {"handler", "checkpointer"} /\ deferred[j] = "processor" => i < j

Confirms ==
  /\ ProcessorIsLater
  /\ phase = "build" => /\ built >= 3 => "handler" \in open
                        /\ built < 5 => ~IsDeferred("processor")
                        /\ built >= 5 => IsDeferred("processor")
  /\ phase = "wait" => Held
  /\ phase = "close" /\ Confirming => Held
  /\ phase = "returned" => ~Confirming

ConfInv == cfg.target # "webhook" => (cfg.command = "run" => Confirms) /\ ~misused

\* A step that leaves alone what is deferred and open.
LEMMA ConfirmsFrame ==
  ASSUME Confirms, UNCHANGED <<built, deferred, open>>, Confirming' => Confirming,
         phase' = phase \/ phase' = "crashed"
  PROVE  Confirms'
BY DEF Confirms, Held, ProcessorIsLater, IsDeferred

LEMMA ConfirmsBuild ==
  ASSUME Shape, Confirms, cfg.command = "run", Build
  PROVE  Confirms'
<1> DEFINE x == Plan[built + 1]
<1>1. /\ phase = "build" /\ phase' = "build" /\ built' = built + 1 /\ built \in Nat
      /\ built + 1 \in 1..Len(Plan)
      /\ deferred' = IF Deferred(x) THEN Append(deferred, x) ELSE deferred
      /\ open' = IF x = "init" THEN open ELSE open \cup {x}
  BY PlanOfRun DEF Build, Shape
<1>2. /\ built + 1 = 3 => x = "handler"
      /\ built + 1 = 5 => x = "processor"
      /\ x = "processor" => built + 1 = 5
      /\ x \in {"handler", "checkpointer"} => built + 1 < 5
      /\ x \in Parts
  BY <1>1, PlanOfRun
<1> HIDE DEF x
<1>3. deferred \in Seq(Parts) /\ Len(deferred) \in Nat /\ DOMAIN deferred = 1..Len(deferred)
  BY LenProperties DEF Shape
<1>4. CASE deferred' = deferred /\ ~Deferred(x)
  <2>1. x # "processor" /\ x # "handler"
    BY <1>4 DEF Deferred
  <2> QED BY <1>1, <1>2, <1>4, <2>1 DEF Confirms, ProcessorIsLater, IsDeferred
<1>5. CASE deferred' = Append(deferred, x)
  <2> DEFINE n == Len(deferred)
  <2>1. /\ DOMAIN deferred' = 1..(n + 1) /\ deferred'[n + 1] = x
        /\ \A i \in 1..n : deferred'[i] = deferred[i]
    BY <1>2, <1>3, <1>5, AppendProperties
  <2> HIDE DEF n
  <2>2. n \in Nat /\ DOMAIN deferred = 1..n
    BY <1>3 DEF n
  <2>3. \A y : IsDeferred(y)' <=> IsDeferred(y) \/ y = x
    BY <2>1, <2>2 DEF IsDeferred
  <2>4. ProcessorIsLater'
    <3> SUFFICES ASSUME NEW i \in 1..(n + 1), NEW j \in 1..(n + 1),
                        deferred'[i] \in {"handler", "checkpointer"}, deferred'[j] = "processor"
                 PROVE  i < j
      BY <2>1 DEF ProcessorIsLater
    <3>1. CASE i \in 1..n /\ j \in 1..n
      BY <2>1, <2>2, <3>1 DEF Confirms, ProcessorIsLater
    <3>2. CASE i = n + 1
      <4>1. x \in {"handler", "checkpointer"} /\ x # "processor" /\ built < 5
        BY <1>1, <1>2, <2>1, <3>2
      <4>2. j \in 1..n /\ deferred[j] = "processor"
        BY <2>1, <2>2, <4>1
      <4>3. IsDeferred("processor")
        BY <2>2, <4>2 DEF IsDeferred
      <4> QED BY <1>1, <4>1, <4>3 DEF Confirms
    <3>3. CASE i \in 1..n /\ j = n + 1
      BY <2>2, <3>3
    <3> QED BY <2>2, <3>1, <3>2, <3>3
  <2> QED BY <1>1, <1>2, <2>3, <2>4 DEF Confirms
<1> QED BY <1>1, <1>4, <1>5

\* The newest of what is deferred is closed: the processor before the handler.
LEMMA ConfirmsClose ==
  ASSUME Shape, Confirms, cfg.command = "run", cfg.target # "webhook", Close
  PROVE  Confirms'
<1> DEFINE x == deferred[Len(deferred)]
           n == Len(deferred)
<1>1. /\ phase = "close" /\ phase' = "close" /\ deferred # <<>> /\ UNCHANGED queue
      /\ x \in Processors => Finished(x)
      /\ sender' = IF x \in Processors THEN ClosedSender(x) ELSE sender
      /\ open' = open \ (IF x = "checkpointer" THEN {x, "handler"} ELSE {x})
      /\ deferred' = RemoveAt(deferred, Len(deferred))
  BY DEF Close, NextToClose
<1>2. /\ n \in Nat /\ n > 0 /\ DOMAIN deferred = 1..n /\ DOMAIN deferred' = 1..(n - 1)
      /\ \A i \in 1..(n - 1) : deferred'[i] = deferred[i]
  <2>1. deferred \in Seq(Parts)
    BY DEF Shape
  <2>2. /\ Len(deferred) \in Nat \ {0} /\ DOMAIN deferred' = 1..(Len(deferred) - 1)
        /\ \A i \in 1..(Len(deferred) - 1) : deferred'[i] = deferred[i]
    BY <1>1, <2>1, RemoveAtType
  <2> QED BY <2>1, <2>2, LenProperties
<1>3. x = deferred[n]
  OBVIOUS
<1> HIDE DEF x, n
<1>4. ProcessorIsLater'
  BY <1>2 DEF Confirms, ProcessorIsLater
<1>5. Confirming' => Held'
  <2>1. CASE x = "processor"
    <3>1. "processor" \in Processors
      BY DEF Processors
    <3>2. queue["processor"] = <<>> \/ Failed("processor")
      BY <1>1, <2>1, <3>1 DEF Finished
    <3>3. sender'["processor"] = IF Failed("processor") THEN "failedClosed" ELSE "closed"
      BY <1>1, <2>1, <3>1, ClosedSenderType
    <3> QED BY <3>3 DEF Confirming
  <2>2. CASE x # "processor"
    <3>1. sender'["processor"] = sender["processor"]
      <4>1. CASE x \in Processors
        BY <1>1, <2>2, <4>1, ClosedSenderType DEF Processors
      <4> QED BY <1>1, <4>1
    <3>2. Confirming' => Confirming
      BY <1>1, <3>1 DEF Confirming
    <3> SUFFICES ASSUME Confirming, Held PROVE Held'
      BY <1>1, <3>2 DEF Confirms
    <3>3. PICK j \in 1..n : deferred[j] = "processor"
      BY <1>2 DEF Held, IsDeferred
    <3>4. j \in 1..(n - 1) /\ j < n
      BY <1>2, <1>3, <2>2, <3>3
    <3>5. IsDeferred("processor")'
      BY <1>2, <3>3, <3>4 DEF IsDeferred
    <3>6. x \notin {"handler", "checkpointer"}
      <4>1. n \in DOMAIN deferred /\ j \in DOMAIN deferred /\ ~(n < j)
        BY <1>2, <3>4
      <4> QED BY <1>3, <3>3, <4>1 DEF Confirms, ProcessorIsLater
    <3> QED BY <1>1, <3>5, <3>6 DEF Held
  <2> QED BY <2>1, <2>2
<1> QED BY <1>1, <1>4, <1>5 DEF Confirms

\* The configuration stays as it is.
LEMMA CfgFixed == [Next]_vars => cfg' = cfg
<1>1. Command => cfg' = cfg
  BY DEF Command, Build, BuildFails, Start, Wait, Close, Return
<1>2. Signal \/ Listen => cfg' = cfg
  BY DEF Signal, Listen
<1>3. \A p \in Processors : Write(p) \/ SenderStops(p) => cfg' = cfg
  BY DEF Write, SenderStops
<1>4. UNCHANGED vars => cfg' = cfg
  BY DEF vars
<1> QED BY <1>1, <1>2, <1>3, <1>4 DEF Next

LEMMA ConfStep == ConfigAssumption /\ Shape /\ ConfInv /\ [Next]_vars => ConfInv'
<1> SUFFICES ASSUME ConfigAssumption, Shape, ConfInv, [Next]_vars, cfg.target # "webhook"
             PROVE  (cfg.command = "run" => Confirms') /\ ~misused'
  <2> QED BY CfgFixed DEF ConfInv
<1> USE DEF main, listener, processing
<1>0. (cfg.command = "run" => Confirms) /\ ~misused
  BY DEF ConfInv
<1>1. CASE Build
  BY <1>0, <1>1, ConfirmsBuild DEF Build
<1>2. CASE BuildFails
  <2>1. /\ phase = "build" /\ phase' = "close" /\ UNCHANGED <<queue, misused>>
        /\ deferred' \in {deferred, Front(deferred)}
    BY <1>2 DEF BuildFails
  <2>2. ~Confirming'
    BY <2>1 DEF Shape, Confirming, Processors
  <2>3. /\ DOMAIN deferred' \subseteq DOMAIN deferred
        /\ \A i \in DOMAIN deferred' : deferred'[i] = deferred[i]
    BY <2>1, FrontType DEF Shape
  <2> QED BY <1>0, <2>1, <2>2, <2>3 DEF Confirms, ProcessorIsLater
<1>3. CASE Start
  <2>1. /\ phase = "build" /\ phase' = "wait" /\ built = Len(Plan)
        /\ UNCHANGED <<deferred, open, misused>>
    BY <1>3 DEF Start
  <2>2. cfg.command = "run" => built >= 5 /\ built >= 3
    BY <2>1, PlanOfRun
  <2> QED BY <1>0, <2>1, <2>2 DEF Confirms, Held, ProcessorIsLater, IsDeferred
<1>4. CASE Wait
  <2>1. phase = "wait" /\ phase' = "close" /\ UNCHANGED <<deferred, open, misused>>
    BY <1>4 DEF Wait
  <2> QED BY <1>0, <2>1 DEF Confirms, Held, ProcessorIsLater, IsDeferred
<1>5. CASE Close
  BY <1>0, <1>5, ConfirmsClose DEF Close
<1>6. CASE Return
  <2>1. /\ phase = "close" /\ phase' = "returned" /\ deferred = <<>>
        /\ UNCHANGED <<deferred, open, misused, sender, queue>>
    BY <1>6 DEF Return
  <2>2. ~IsDeferred("processor")
    BY <2>1 DEF IsDeferred
  <2> QED BY <1>0, <2>1, <2>2 DEF Confirms, Held, ProcessorIsLater, Confirming
<1>7. CASE Signal
  <2>1. UNCHANGED <<phase, built, deferred, open, misused, sender, queue>>
    BY <1>7 DEF Signal
  <2> QED BY <1>0, <2>1, ConfirmsFrame DEF Confirming
<1>8. CASE Listen
  <2>1. /\ phase = "wait" /\ UNCHANGED <<built, deferred, open>>
        /\ misused' = misused /\ (phase' = phase \/ phase' = "crashed")
    BY <1>8, ListenSteps DEF SnapshotStep, ClosingStep, StreamStep, Handed
  <2> QED BY <1>0, <2>1 DEF Confirms, Held, ProcessorIsLater, IsDeferred
<1>9. ASSUME NEW p \in Processors, Write(p)
      PROVE  (cfg.command = "run" => Confirms') /\ ~misused'
  <2>1. /\ UNCHANGED <<phase, built, deferred, open>> /\ phase # "crashed"
        /\ sender[p] \in {"runs", "closing"} /\ queue[p] # <<>>
        /\ queue' = [queue EXCEPT ![p] = Tail(queue[p])]
        /\ sender' \in {sender, [sender EXCEPT ![p] = "failed"]}
        /\ \/ misused' = misused
           \/ misused' = (misused \/ (Head(queue[p]) = "wal" /\ "handler" \notin open))
    BY <1>9 DEF Write
  <2>2. /\ sender \in [Processors -> SenderStates] /\ queue \in [Processors -> Seq(Items)]
        /\ \A i \in DOMAIN queue[p] : queue[p][i] \in ItemsOf(p)
        /\ phase \in Phases /\ (phase = "build" => queue[p] = <<>>)
    BY DEF Shape
  <2>3. Confirming' => Confirming
    BY <2>1, <2>2 DEF Confirming, Processors
  <2>4. cfg.command = "run" => Confirms'
    BY <1>0, <2>1, <2>3, ConfirmsFrame
  <2>5. Head(queue[p]) = "wal" => "handler" \in open
    <3> SUFFICES ASSUME Head(queue[p]) = "wal" PROVE "handler" \in open
      OBVIOUS
    <3>1. "wal" \in ItemsOf(p)
      BY <2>1, <2>2, TailItems
    <3>2. cfg.command = "run" /\ p = "processor"
      BY <3>1 DEF ItemsOf, SnapItems
    <3>3. Confirming /\ phase \in {"wait", "close", "returned"}
      BY <2>1, <2>2, <3>2 DEF Confirming, Phases
    <3> QED BY <1>0, <3>2, <3>3 DEF Confirms, Held
  <2>6. ~misused'
    <3>1. ~misused /\ ~(Head(queue[p]) = "wal" /\ "handler" \notin open)
      BY <1>0, <2>5
    <3> QED BY <2>1, <3>1, Zenon
  <2> QED BY <2>4, <2>6
<1>10. ASSUME NEW p \in Processors, SenderStops(p)
       PROVE  (cfg.command = "run" => Confirms') /\ ~misused'
  <2>1. /\ UNCHANGED <<phase, built, deferred, open, misused, queue>>
        /\ sender' \in {[sender EXCEPT ![p] = "stopped"], [sender EXCEPT ![p] = "closed"]}
    BY <1>10 DEF SenderStops
  <2>2. sender \in [Processors -> SenderStates]
    BY DEF Shape
  <2>3. Confirming' => Confirming
    BY <2>1, <2>2 DEF Confirming, Processors
  <2> QED BY <1>0, <2>1, <2>3, ConfirmsFrame
<1>11. CASE UNCHANGED vars
  <2>1. UNCHANGED <<phase, built, deferred, open, misused, sender, queue>>
    BY <1>11 DEF vars
  <2> QED BY <1>0, <2>1, ConfirmsFrame DEF Confirming
<1> QED
  BY <1>1, <1>2, <1>3, <1>4, <1>5, <1>6, <1>7, <1>8, <1>9, <1>10, <1>11 DEF Next, Command

LEMMA ConfInit == Init => ConfInv
BY DEF Init, ConfInv, Confirms, ProcessorIsLater, IsDeferred

\* For a target whose processor is waited for: whatever fails and whenever the
\* command is asked to stop, the position of an event is never sent through a
\* replication handler that Run's deferred calls have closed (stream_run.go).
THEOREM ConfirmsThroughOpenHandler == Spec => []ConfirmsWhileOpen
<1>1. ConfigAssumption
  BY RunAssumption
<1>2. Init => Shape /\ ConfInv
  BY <1>1, ShapeInit, ConfInit
<1>3. Shape /\ ConfInv /\ [Next]_vars => Shape' /\ ConfInv'
  BY <1>1, ShapeStep, ConfStep
<1>4. ConfInv => ConfirmsWhileOpen
  BY DEF ConfInv, ConfirmsWhileOpen
<1> QED BY <1>2, <1>3, <1>4, PTL DEF Spec

-----------------------------------------------------------------------------
(* The snapshot comes before the stream.                                   *)

InOrder(s) == \A i, j \in 1..Len(s) : i < j /\ s[i] = "wal" => s[j] = "wal"

\* An event of the stream has reached the processor, or the target.
WalSeen ==
  \/ \E i \in DOMAIN written : written[i] = "wal"
  \/ cfg.command = "run" /\ queue["processor"] # <<>>

SnapClosed == sender[SnapProcessor] \in {"closed", "failedClosed"}

Follows ==
  /\ stage \in {"indices", "snapped", "replicate", "stream"} => SnapClosed
  /\ WalSeen => cfg.command = "run" /\ stage \in {"stream", "done"} /\ SnapClosed
  /\ InOrder(written)

FollowInv == "data" \in cfg.snapshot /\ cfg.target # "webhook" => Follows

LEMMA AppendInOrder ==
  ASSUME NEW s \in Seq(Items), InOrder(s), NEW e \in Items,
         e = "wal" \/ \A i \in DOMAIN s : s[i] # "wal"
  PROVE  /\ InOrder(Append(s, e))
         /\ (\E i \in DOMAIN Append(s, e) : Append(s, e)[i] = "wal")
              => e = "wal" \/ \E i \in DOMAIN s : s[i] = "wal"
<1>1. Len(s) \in Nat /\ DOMAIN s = 1..Len(s)
  BY LenProperties
<1> DEFINE a == Append(s, e)
           n == Len(s)
<1>2. /\ Len(a) = n + 1 /\ DOMAIN a = 1..(n + 1) /\ a[n + 1] = e
      /\ \A i \in 1..n : a[i] = s[i]
  BY <1>1, AppendProperties
<1> HIDE DEF a, n
<1>3. n \in Nat /\ DOMAIN s = 1..n /\ Len(s) = n
  BY <1>1 DEF n
<1>4. \A i \in 1..(n + 1) : i = n + 1 \/ i \in 1..n
  BY <1>3
<1>5. InOrder(a)
  <2> SUFFICES ASSUME NEW i \in 1..(n + 1), NEW j \in 1..(n + 1), i < j, a[i] = "wal"
               PROVE  a[j] = "wal"
    BY <1>2 DEF InOrder
  <2>1. i \in 1..n
    BY <1>3
  <2>2. s[i] = "wal"
    BY <1>2, <2>1
  <2>3. CASE j = n + 1
    BY <1>2, <1>3, <2>1, <2>2, <2>3
  <2>4. CASE j \in 1..n
    BY <1>2, <1>3, <2>1, <2>2, <2>4 DEF InOrder
  <2> QED BY <1>4, <2>3, <2>4
<1>6. (\E i \in DOMAIN a : a[i] = "wal") => e = "wal" \/ \E i \in DOMAIN s : s[i] = "wal"
  BY <1>2, <1>3, <1>4
<1> QED BY <1>5, <1>6 DEF a

\* A step that brings no event, and keeps the processor of the snapshot closed.
LEMMA FollowsFrame ==
  ASSUME Follows, UNCHANGED <<cfg, written>>,
         \/ stage' = stage
         \/ stage \in {"indices", "snapped", "replicate", "stream"} /\ stage' \in
              {"snapped", "replicate", "stream", "done"} /\ ~WalSeen
         \/ stage' \in {"schema", "rows", "drain", "lsn", "done"} /\ ~WalSeen,
         WalSeen' => WalSeen, SnapClosed => SnapClosed'
  PROVE  Follows'
BY DEF Follows

LEMMA FollowStep == ConfigAssumption /\ Shape /\ FollowInv /\ [Next]_vars => FollowInv'
<1> SUFFICES ASSUME ConfigAssumption, Shape, [Next]_vars, Follows, cfg' = cfg,
                    "data" \in cfg.snapshot, cfg.target # "webhook"
             PROVE  Follows'
  BY CfgFixed DEF FollowInv
<1> USE DEF main, listener, processing
<1>0. /\ sender \in [Processors -> SenderStates] /\ queue \in [Processors -> Seq(Items)]
      /\ written \in Seq(Items)
      /\ phase = "build" => ~WalSeen /\ stage = "idle"
      /\ SnapProcessor \in Processors /\ SnapProcessor' = SnapProcessor
      /\ WalSeen => cfg.command = "run" /\ stage \in {"stream", "done"} /\ SnapClosed
  <2>1. phase = "build" => ~WalSeen
    BY DEF Shape, WalSeen, Processors
  <2> QED BY <2>1, SnapProcessorType DEF Shape, SnapProcessor, Follows
<1>1. CASE Build
  <2>1. phase = "build" /\ UNCHANGED <<stage, queue, written>>
    BY <1>1 DEF Build
  <2> QED BY <1>0, <2>1 DEF Follows, WalSeen
<1>2. CASE BuildFails \/ Wait \/ Return \/ Signal \/ UNCHANGED vars
  <2>1. UNCHANGED <<stage, sender, queue, written>>
    BY <1>2 DEF BuildFails, Wait, Return, Signal, vars
  <2> QED BY <1>0, <2>1, FollowsFrame DEF WalSeen, SnapClosed
<1>3. CASE Start
  <2>1. phase = "build" /\ UNCHANGED <<sender, queue, written>>
        /\ stage' = IF cfg.command = "snapshot" THEN "schema"
                    ELSE IF cfg.source = "kafka" THEN "stream"
                    ELSE IF cfg.snapshot = {} THEN "replicate" ELSE "lsn"
    BY <1>3 DEF Start
  <2>2. cfg.snapshot # {} /\ cfg.source # "kafka"
    BY DEF ConfigAssumption, Shape
  <2>3. stage' \in {"schema", "lsn"}
    BY <2>1, <2>2
  <2> QED BY <1>0, <2>1, <2>3, FollowsFrame DEF WalSeen, SnapClosed
<1>4. CASE Close
  <2>1. /\ UNCHANGED <<stage, queue, written>>
        /\ \/ UNCHANGED sender
           \/ \E p \in Processors : sender' = ClosedSender(p)
    BY <1>4 DEF Close
  <2>2. SnapClosed => SnapClosed'
    BY <1>0, <2>1, ClosedSenderType DEF SnapClosed
  <2> QED BY <1>0, <2>1, <2>2, FollowsFrame DEF WalSeen
<1>5. CASE Listen
  <2>1. CASE SnapshotStep
    <3>1. PICK item \in SnapItems : Handed(SnapProcessor, item)
      BY <2>1 DEF SnapshotStep
    <3>2. stage \notin {"stream", "done"} /\ ~WalSeen
      BY <1>0, <2>1 DEF SnapshotStep
    <3>3. item \in Items /\ item # "wal"
      BY DEF Items, SnapItems
    <3>4. InOrder(written') /\ ~\E i \in DOMAIN written' : written'[i] = "wal"
      <4>1. InOrder(written) /\ ~\E i \in DOMAIN written : written[i] = "wal"
        BY <3>2 DEF Follows, WalSeen
      <4>2. CASE written' = written
        BY <4>1, <4>2
      <4>3. CASE written' = Append(written, item)
        BY <1>0, <3>3, <4>1, <4>3, AppendInOrder
      <4> QED BY <3>1, <4>2, <4>3 DEF Handed
    <3>5. cfg.command = "run" => queue'["processor"] = queue["processor"]
      BY <1>0, <3>1, SnapProcessorType DEF Handed, Enqueued, Processors
    <3>6. ~WalSeen'
      BY <3>2, <3>4, <3>5 DEF WalSeen
    <3>7. stage' \in {"indices", "snapped", "replicate", "stream"} => SnapClosed
      BY <2>1 DEF SnapshotStep, Follows
    <3>8. SnapClosed => SnapClosed'
      BY <1>0, <3>1 DEF SnapClosed, Handed
    <3> QED BY <3>4, <3>6, <3>7, <3>8 DEF Follows
  <2>2. CASE ClosingStep
    <3>1. stage = "drain" /\ UNCHANGED <<queue, written>> /\ sender' = ClosedSender(SnapProcessor)
      BY <2>2 DEF ClosingStep
    <3>2. SnapClosed'
      BY <1>0, <3>1, ClosedSenderType DEF SnapClosed
    <3>3. ~WalSeen'
      BY <1>0, <3>1 DEF WalSeen
    <3> QED BY <3>1, <3>2, <3>3 DEF Follows
  <2>3. CASE StreamStep
    <3>1. stage = "stream" /\ stage' \in {"stream", "done"} /\ Handed("processor", "wal")
      BY <2>3 DEF StreamStep
    <3>2. SnapClosed'
      BY <1>0, <3>1 DEF SnapClosed, Handed, Follows
    <3>3. cfg.command = "run"
      BY <3>1 DEF Shape, ConfigAssumption, Commands
    <3>4. InOrder(written')
      <4>1. written' \in {written, Append(written, "wal")}
        BY <3>1 DEF Handed
      <4> QED BY <1>0, <4>1, AppendInOrder DEF Items, Follows
    <3> QED BY <3>1, <3>2, <3>3, <3>4 DEF Follows
  <2> QED BY <1>5, <2>1, <2>2, <2>3, ListenSteps
<1>6. ASSUME NEW p \in Processors, Write(p) PROVE Follows'
  <2>1. /\ UNCHANGED stage /\ sender[p] \in {"runs", "closing"} /\ queue[p] # <<>>
        /\ queue' = [queue EXCEPT ![p] = Tail(queue[p])]
        /\ written' \in {written, Append(written, Head(queue[p]))}
        /\ sender' \in {sender, [sender EXCEPT ![p] = "failed"]}
    BY <1>6 DEF Write
  <2> DEFINE e == Head(queue[p])
  <2>2. e \in Items /\ e \in ItemsOf(p)
    <3>1. \A i \in DOMAIN queue[p] : queue[p][i] \in ItemsOf(p)
      BY DEF Shape
    <3> QED BY <1>0, <2>1, <3>1, TailItems
  <2>3. SnapClosed => SnapClosed' /\ p # SnapProcessor
    BY <1>0, <2>1 DEF SnapClosed
  <2>4. e = "wal" => WalSeen
    BY <2>1, <2>2 DEF ItemsOf, SnapItems, WalSeen
  <2>5. WalSeen => e = "wal"
    <3> SUFFICES ASSUME WalSeen PROVE e = "wal"
      OBVIOUS
    <3>1. cfg.command = "run" /\ p = "processor"
      BY <1>0, <2>3 DEF SnapProcessor, Processors
    <3> QED BY <2>2, <3>1 DEF ItemsOf
  <2> HIDE DEF e
  <2>6. InOrder(written') /\ ((\E i \in DOMAIN written' : written'[i] = "wal") => WalSeen)
    <3>1. CASE written' = written
      BY <3>1 DEF Follows, WalSeen
    <3>2. CASE written' = Append(written, e)
      <4>1. e = "wal" \/ \A i \in DOMAIN written : written[i] # "wal"
        BY <2>5 DEF WalSeen
      <4>2. InOrder(written)
        BY DEF Follows
      <4> QED BY <1>0, <2>2, <2>4, <3>2, <4>1, <4>2, AppendInOrder DEF WalSeen
    <3> QED BY <2>1, <3>1, <3>2 DEF e
  <2>7. queue'["processor"] # <<>> => queue["processor"] # <<>>
    BY <1>0, <2>1 DEF Processors
  <2>8. WalSeen' => WalSeen
    BY <2>6, <2>7 DEF WalSeen
  <2> QED BY <1>0, <2>1, <2>3, <2>6, <2>8 DEF Follows
<1>7. ASSUME NEW p \in Processors, SenderStops(p) PROVE Follows'
  <2>1. /\ UNCHANGED <<stage, queue, written>> /\ sender[p] \in {"runs", "closing"}
        /\ sender' \in {[sender EXCEPT ![p] = "stopped"], [sender EXCEPT ![p] = "closed"]}
    BY <1>7 DEF SenderStops
  <2>2. SnapClosed => SnapClosed'
    BY <1>0, <2>1 DEF SnapClosed
  <2> QED BY <1>0, <2>1, <2>2, FollowsFrame DEF WalSeen
<1> QED BY <1>1, <1>2, <1>3, <1>4, <1>5, <1>6, <1>7 DEF Next, Command

LEMMA FollowInit == Init => FollowInv
<1> SUFFICES ASSUME Init PROVE Follows
  BY DEF FollowInv
<1>1. /\ stage = "idle" /\ written = <<>> /\ Len(written) = 0 /\ queue["processor"] = <<>>
  BY DEF Init, Processors
<1>2. InOrder(written) /\ ~WalSeen
  BY <1>1 DEF InOrder, WalSeen
<1> QED BY <1>1, <1>2 DEF Follows

\* With a data snapshot, and a target whose processor is waited for, the target is
\* given the whole of what the snapshot writes before the first event of the
\* stream: the processor of the snapshot is closed before replication starts
\* (pg_snapshot_generator.go, stream_run.go:131).
THEOREM SnapshotComesFirst == Spec => []SnapshotBeforeStream
<1>1. ConfigAssumption
  BY RunAssumption
<1>2. Init => Shape /\ FollowInv
  BY <1>1, ShapeInit, FollowInit
<1>3. Shape /\ FollowInv /\ [Next]_vars => Shape' /\ FollowInv'
  BY <1>1, ShapeStep, FollowStep
<1>4. FollowInv => SnapshotBeforeStream
  BY DEF FollowInv, Follows, InOrder, SnapshotBeforeStream
<1> QED BY <1>2, <1>3, <1>4, PTL DEF Spec

-----------------------------------------------------------------------------
(* An accepted snapshot is processed.                                      *)

\* No snapshot of schema and data passes through a processor that the copy of the
\* rows closes before the indices come: that one loses them (run_schema).
NotBothThroughAQueue == \A c \in Configs : c.target = "queue" => c.snapshot # {"schema", "data"}

\* What the target has been given of the snapshot, or will be by its processor.
Given(x) ==
  \/ \E i \in DOMAIN written : written[i] = x
  \/ \E i \in DOMAIN queue[SnapProcessor] : queue[SnapProcessor][i] = x

BeforeRows == {"idle", "lsn", "schema"}
AfterIndices == {"snapped", "replicate", "stream", "done"}

GivenSoFar ==
  /\ "schema" \in cfg.snapshot /\ stage \notin BeforeRows => Given("table")
  /\ "data" \in cfg.snapshot /\ stage \notin BeforeRows \cup {"rows"} => Given("row")
  /\ "schema" \in cfg.snapshot /\ stage \in AfterIndices => Given("index")

\* The place of the snapshot's processor in the plan.
PlaceOfSnapProcessor == IF cfg.command = "snapshot" THEN 2 ELSE 7

\* The processor is deferred when it is built, and closed with nothing queued.
WaitedFor ==
  /\ phase = "build" /\ built >= PlaceOfSnapProcessor => IsDeferred(SnapProcessor)
  /\ phase = "wait" => IsDeferred(SnapProcessor)
  /\ phase = "close" /\ result = "ok" =>
       IsDeferred(SnapProcessor) \/ queue[SnapProcessor] = <<>>
  /\ phase = "returned" /\ result = "ok" => queue[SnapProcessor] = <<>>

\* While nothing has failed and nobody has asked to stop, the processors run until
\* the listener is done, but for the one that the copy of the rows closes.
Undisturbed ==
  /\ phase \in {"build", "wait"} => context = "live" /\ result = "none"
  /\ result = "ok" => stage = "done"
  /\ \A p \in Processors :
       /\ ~Failed(p) /\ sender[p] # "closing"
       /\ phase \in {"build", "wait"} => sender[p] # "stopped"
  /\ phase = "wait" /\ SnapClosed =>
       "data" \in cfg.snapshot /\ stage \notin BeforeRows \cup {"rows", "drain"}
  /\ phase = "build" => ~SnapClosed
  /\ stage = "drain" => "data" \in cfg.snapshot
  /\ WaitedFor /\ GivenSoFar

Waits == cfg.snapshot # {} /\ cfg.target # "webhook"

GivenInv == faults \in Nat /\ (Waits /\ ~asked /\ faults = 0 => Undisturbed)

\* Where the snapshot's processor is in the plan.
LEMMA PlaceInPlan ==
  ASSUME ConfigAssumption, cfg \in Configs, cfg.snapshot # {}
  PROVE  /\ Len(Plan) \in Nat /\ Len(Plan) >= PlaceOfSnapProcessor
         /\ PlaceOfSnapProcessor \in 1..Len(Plan)
         /\ Plan[PlaceOfSnapProcessor] = SnapProcessor
<1>1. CASE cfg.command = "snapshot"
  BY <1>1 DEF Plan, PlaceOfSnapProcessor, SnapProcessor
<1>2. CASE cfg.command = "run"
  <2> DEFINE first == <<"health", "init", "handler", "checkpointer", "processor", "modifiers">>
             snap == <<"snapProcessor", "snapModifiers", "generator">>
  <2>1. Plan = first \o snap
    BY <1>2 DEF Plan
  <2>2. /\ first \in Seq(Parts) /\ Len(first) = 6 /\ snap \in Seq(Parts) /\ Len(snap) = 3
        /\ snap[1] = "snapProcessor"
    BY DEF Parts
  <2> HIDE DEF first, snap
  <2>3. /\ Len(first \o snap) = Len(first) + Len(snap)
        /\ \A k \in 1..(Len(first) + Len(snap)) :
             (first \o snap)[k] = IF k <= Len(first) THEN first[k] ELSE snap[k - Len(first)]
    BY <2>2, ConcatProperties
  <2>4. Len(Plan) = 9 /\ Plan[7] = snap[1]
    BY <2>1, <2>2, <2>3
  <2> QED BY <1>2, <2>2, <2>4 DEF PlaceOfSnapProcessor, SnapProcessor
<1> QED BY <1>1, <1>2 DEF ConfigAssumption, Commands

\* A step of the listener that gives the target, or the snapshot's processor, an item.
Gave(p, item) ==
  \/ written' = Append(written, item) /\ UNCHANGED queue
  \/ Enqueued(p, item) /\ UNCHANGED written

LEMMA GaveItem ==
  ASSUME Shape, cfg' = cfg, NEW item \in Items, Gave(SnapProcessor, item)
  PROVE  Given(item)' /\ \A x : Given(x) => Given(x)'
<1>1. /\ SnapProcessor \in Processors /\ SnapProcessor' = SnapProcessor
      /\ written \in Seq(Items) /\ queue \in [Processors -> Seq(Items)]
  BY SnapProcessorType DEF Shape, SnapProcessor
<1>2. \A s \in Seq(Items) :
        /\ \E i \in DOMAIN Append(s, item) : Append(s, item)[i] = item
        /\ \A x : (\E i \in DOMAIN s : s[i] = x) =>
                    \E i \in DOMAIN Append(s, item) : Append(s, item)[i] = x
  <2> TAKE s \in Seq(Items)
  <2>1. /\ Len(s) \in Nat /\ DOMAIN s = 1..Len(s) /\ DOMAIN Append(s, item) = 1..(Len(s) + 1)
        /\ Append(s, item)[Len(s) + 1] = item
        /\ \A i \in 1..Len(s) : Append(s, item)[i] = s[i]
    BY LenProperties, AppendProperties
  <2>2. Len(s) + 1 \in 1..(Len(s) + 1) /\ 1..Len(s) \subseteq 1..(Len(s) + 1)
    BY <2>1
  <2> QED BY <2>1, <2>2
<1>3. CASE written' = Append(written, item) /\ UNCHANGED queue
  BY <1>1, <1>2, <1>3 DEF Given
<1>4. CASE Enqueued(SnapProcessor, item) /\ UNCHANGED written
  <2>1. queue'[SnapProcessor] = Append(queue[SnapProcessor], item)
    BY <1>1, <1>4 DEF Enqueued
  <2>2. queue[SnapProcessor] \in Seq(Items)
    BY <1>1
  <2>3. \E i \in DOMAIN queue'[SnapProcessor] : queue'[SnapProcessor][i] = item
    BY <1>2, <2>1, <2>2
  <2>4. ASSUME NEW x, \E i \in DOMAIN queue[SnapProcessor] : queue[SnapProcessor][i] = x
        PROVE  \E i \in DOMAIN queue'[SnapProcessor] : queue'[SnapProcessor][i] = x
    BY <1>2, <2>1, <2>2, <2>4
  <2> QED BY <1>1, <1>4, <2>3, <2>4 DEF Given
<1> QED BY <1>3, <1>4 DEF Gave

\* A processor only ever passes on what it was given.
LEMMA WriteKeepsGiven ==
  ASSUME Shape, NEW p \in Processors, Write(p), faults \in Nat, faults' = 0
  PROVE  /\ \A x : Given(x) => Given(x)'
         /\ UNCHANGED sender /\ faults' = faults
         /\ \A q \in Processors : queue[q] = <<>> => queue'[q] = <<>>
<1>1. /\ SnapProcessor \in Processors /\ SnapProcessor' = SnapProcessor
      /\ written \in Seq(Items) /\ queue \in [Processors -> Seq(Items)]
  BY SnapProcessorType DEF Shape, SnapProcessor, Write
<1>2. /\ queue[p] # <<>> /\ queue' = [queue EXCEPT ![p] = Tail(queue[p])]
      /\ written' = Append(written, Head(queue[p])) /\ UNCHANGED <<sender, faults>>
  BY DEF Write
<1>3. \A q \in Processors : queue[q] = <<>> => queue'[q] = <<>>
  BY <1>1, <1>2
<1>4. \A x : (\E i \in DOMAIN written : written[i] = x) =>
               \E i \in DOMAIN written' : written'[i] = x
  <2>1. Head(queue[p]) \in Items
    BY <1>1, <1>2
  <2>2. /\ Len(written) \in Nat /\ DOMAIN written = 1..Len(written)
        /\ DOMAIN written' = 1..(Len(written) + 1)
        /\ \A i \in 1..Len(written) : written'[i] = written[i]
    BY <1>1, <1>2, <2>1, LenProperties, AppendProperties
  <2> QED BY <2>2
<1>5. \A x : (\E i \in DOMAIN queue[p] : queue[p][i] = x) =>
               \/ \E i \in DOMAIN written' : written'[i] = x
               \/ \E i \in DOMAIN queue'[p] : queue'[p][i] = x
  <2> DEFINE s == queue[p]
             e == Head(s)
             t == Tail(s)
  <2>1. s \in Seq(Items) /\ s # <<>> /\ e \in Items /\ e = s[1]
    BY <1>1, <1>2
  <2>2. /\ Len(s) \in Nat /\ Len(s) # 0 /\ DOMAIN s = 1..Len(s)
        /\ DOMAIN t = 1..(Len(s) - 1) /\ \A i \in 1..(Len(s) - 1) : t[i] = s[i + 1]
    BY <2>1, HeadTailProperties, LenProperties, EmptySeq
  <2>3. /\ Len(written) \in Nat /\ DOMAIN written' = 1..(Len(written) + 1)
        /\ written'[Len(written) + 1] = e
    BY <1>1, <1>2, <2>1, LenProperties, AppendProperties
  <2>4. queue'[p] = t
    BY <1>1, <1>2
  <2> HIDE DEF s, t, e
  <2> SUFFICES ASSUME NEW x, NEW i \in 1..Len(s), s[i] = x
               PROVE  \/ \E j \in DOMAIN written' : written'[j] = x
                      \/ \E j \in DOMAIN t : t[j] = x
    BY <2>2, <2>4 DEF s
  <2>5. CASE i = 1
    <3>1. x = e /\ Len(written) + 1 \in 1..(Len(written) + 1)
      BY <2>1, <2>3, <2>5
    <3> QED BY <2>3, <3>1
  <2>6. CASE i # 1
    <3>1. i - 1 \in 1..(Len(s) - 1) /\ (i - 1) + 1 = i
      BY <2>2, <2>6
    <3>2. t[i - 1] = s[(i - 1) + 1]
      BY <2>2, <3>1
    <3> QED BY <2>2, <3>1, <3>2
  <2> QED BY <2>5, <2>6
<1>6. p # SnapProcessor => queue'[SnapProcessor] = queue[SnapProcessor]
  BY <1>1, <1>2
<1>7. ASSUME NEW x, Given(x) PROVE Given(x)'
  <2>1. CASE \E i \in DOMAIN written : written[i] = x
    BY <1>4, <2>1 DEF Given
  <2>2. CASE \E i \in DOMAIN queue[SnapProcessor] : queue[SnapProcessor][i] = x
    <3>1. CASE p = SnapProcessor
      BY <1>1, <1>5, <2>2, <3>1 DEF Given
    <3>2. CASE p # SnapProcessor
      BY <1>1, <1>6, <2>2, <3>2 DEF Given
    <3> QED BY <3>1, <3>2
  <2> QED BY <1>7, <2>1, <2>2 DEF Given
<1> QED BY <1>2, <1>3, <1>7

\* What an undisturbed listener does to the snapshot.
LEMMA ListenGives ==
  ASSUME ConfigAssumption, NotBothThroughAQueue, Shape, Waits, Listen, Undisturbed,
         faults \in Nat, faults' = 0
  PROVE  /\ \A x : Given(x) => Given(x)'
         /\ GivenSoFar'
         /\ \/ UNCHANGED sender
            \/ ClosingStep /\ "data" \in cfg.snapshot
         /\ stage \notin BeforeRows \cup {"rows", "drain"} =>
              stage' \notin BeforeRows \cup {"rows", "drain"}
         /\ stage' = "drain" => "data" \in cfg.snapshot
<1>0. /\ phase = "wait" /\ context = "live" /\ UNCHANGED cfg /\ cfg.target # "webhook"
      /\ sender \in [Processors -> SenderStates] /\ queue \in [Processors -> Seq(Items)]
      /\ written \in Seq(Items) /\ stage \in Stages
      /\ SnapProcessor \in Processors /\ SnapProcessor' = SnapProcessor
      /\ \A p \in Processors : sender[p] \notin {"failed", "failedClosed", "stopped"}
      /\ stage \in BeforeRows \cup {"rows", "drain"} => sender[SnapProcessor] # "closed"
      /\ cfg \in Configs /\ GivenSoFar
  BY SnapProcessorType DEF Listen, Undisturbed, Shape, SnapProcessor, Failed, SnapClosed, Waits
<1>1. ASSUME UNCHANGED <<written, queue>> PROVE \A x : Given(x) => Given(x)'
  BY <1>0, <1>1 DEF Given
<1>3. CASE ListenerFails
  BY <1>0, <1>3 DEF ListenerFails
<1>4. CASE GetCurrentLSN \/ SnapshotDone \/ StartReplication
  <2>1. /\ UNCHANGED <<written, queue, sender>>
        /\ \/ stage = "lsn" /\ stage' = "schema"
           \/ stage = "snapped" /\ stage' \in {"done", "replicate"}
           \/ stage = "replicate" /\ stage' = "stream"
    BY <1>4 DEF GetCurrentLSN, SnapshotDone, StartReplication, Goes, Ends, processing
  <2> QED BY <1>0, <1>1, <2>1 DEF GivenSoFar, BeforeRows, AfterIndices
<1>5. CASE SnapshotSchema
  <2>1. CASE "schema" \in cfg.snapshot
    <3>1. stage = "schema" /\ Restore("table", Goes("rows"))
      BY <1>5, <2>1 DEF SnapshotSchema
    <3>2. stage' = "rows" /\ UNCHANGED sender /\ Gave(SnapProcessor, "table")
      BY <1>0, <3>1 DEF Restore, Process, Gave, Goes, BeforeRows
    <3>3. Given("table")' /\ \A x : Given(x) => Given(x)'
      BY <1>0, <3>2, GaveItem DEF Items, SnapItems
    <3> QED BY <1>0, <3>1, <3>2, <3>3 DEF GivenSoFar, BeforeRows, AfterIndices
  <2>2. CASE "schema" \notin cfg.snapshot
    <3>1. stage = "schema" /\ stage' = "rows" /\ UNCHANGED <<written, queue, sender>>
      BY <1>5, <2>2 DEF SnapshotSchema, Goes, processing
    <3> QED BY <1>0, <1>1, <2>2, <3>1 DEF GivenSoFar, BeforeRows, AfterIndices
  <2> QED BY <2>1, <2>2
<1>6. CASE SnapshotRows
  <2>1. CASE "data" \in cfg.snapshot
    <3>1. stage = "rows" /\ Process(SnapProcessor, "row", Goes("drain"))
      BY <1>6, <2>1 DEF SnapshotRows
    <3>2. stage' = "drain" /\ UNCHANGED sender /\ Gave(SnapProcessor, "row")
      BY <1>0, <3>1 DEF Process, Gave, Goes, BeforeRows
    <3>3. Given("row")' /\ \A x : Given(x) => Given(x)'
      BY <1>0, <3>2, GaveItem DEF Items, SnapItems
    <3>4. "schema" \in cfg.snapshot => Given("table")
      BY <1>0, <3>1 DEF GivenSoFar, BeforeRows
    <3> QED BY <1>0, <2>1, <3>1, <3>2, <3>3, <3>4 DEF GivenSoFar, BeforeRows, AfterIndices
  <2>2. CASE "data" \notin cfg.snapshot
    <3>1. stage = "rows" /\ stage' = "indices" /\ UNCHANGED <<written, queue, sender>>
      BY <1>6, <2>2 DEF SnapshotRows, Goes, processing
    <3> QED BY <1>0, <1>1, <2>2, <3>1 DEF GivenSoFar, BeforeRows, AfterIndices
  <2> QED BY <2>1, <2>2
<1>7. CASE CloseSnapshotProcessor
  <2>1. ClosingStep /\ stage = "drain" /\ stage' = "indices" /\ UNCHANGED <<written, queue>>
    BY <1>7 DEF CloseSnapshotProcessor, ClosingStep, Goes
  <2>2. "data" \in cfg.snapshot
    BY <2>1 DEF Undisturbed
  <2> QED BY <1>0, <1>1, <2>1, <2>2 DEF GivenSoFar, BeforeRows, AfterIndices
<1>8. CASE SnapshotIndices
  <2>1. CASE "schema" \in cfg.snapshot
    <3>1. stage = "indices" /\ Restore("index", Goes("snapped"))
      BY <1>8, <2>1 DEF SnapshotIndices
    <3>2. cfg.target = "queue" => sender[SnapProcessor] # "closed"
      <4> SUFFICES ASSUME cfg.target = "queue", sender[SnapProcessor] = "closed" PROVE FALSE
        OBVIOUS
      <4>1. "data" \in cfg.snapshot
        BY <1>0 DEF Undisturbed, SnapClosed
      <4>2. cfg.snapshot = {"schema", "data"}
        BY <1>0, <2>1, <4>1 DEF ConfigAssumption
      <4> QED BY <1>0, <4>2 DEF NotBothThroughAQueue
    <3>3. stage' = "snapped" /\ UNCHANGED sender /\ Gave(SnapProcessor, "index")
      BY <1>0, <3>1, <3>2 DEF Restore, Process, Gave, Goes
    <3>4. Given("index")' /\ \A x : Given(x) => Given(x)'
      BY <1>0, <3>3, GaveItem DEF Items, SnapItems
    <3> QED BY <1>0, <3>1, <3>3, <3>4 DEF GivenSoFar, BeforeRows, AfterIndices
  <2>2. CASE "schema" \notin cfg.snapshot
    <3>1. stage = "indices" /\ stage' = "snapped" /\ UNCHANGED <<written, queue, sender>>
      BY <1>8, <2>2 DEF SnapshotIndices, Goes, processing
    <3> QED BY <1>0, <1>1, <2>2, <3>1 DEF GivenSoFar, BeforeRows, AfterIndices
  <2> QED BY <2>1, <2>2
<1>9. CASE Receive
  <2>1. /\ stage = "stream" /\ stage' \in {"stream", "done"} /\ Handed("processor", "wal")
        /\ cfg.command = "run"
    BY <1>9 DEF Receive, Process, Handed, Refused, Ends, processing, listener,
                Shape, ConfigAssumption, Commands
  <2>2. \A x : Given(x) => Given(x)'
    <3>1. SnapProcessor # "processor" /\ "wal" \in Items
      BY <2>1, SnapProcessorType DEF Items
    <3>2. queue'[SnapProcessor] = queue[SnapProcessor]
      BY <1>0, <2>1, <3>1 DEF Handed, Enqueued, Processors
    <3>3. CASE written' = written
      BY <1>0, <3>2, <3>3 DEF Given
    <3>4. CASE written' = Append(written, "wal")
      <4>1. /\ DOMAIN written = 1..Len(written) /\ Len(written) \in Nat
            /\ DOMAIN written' = 1..(Len(written) + 1)
            /\ \A i \in 1..Len(written) : written'[i] = written[i]
        BY <1>0, <3>1, <3>4, LenProperties, AppendProperties
      <4> QED BY <1>0, <3>2, <4>1 DEF Given
    <3> QED BY <2>1, <3>3, <3>4 DEF Handed
  <2> QED BY <1>0, <2>1, <2>2 DEF GivenSoFar, BeforeRows, AfterIndices, Handed
<1> QED BY <1>3, <1>4, <1>5, <1>6, <1>7, <1>8, <1>9 DEF Listen, ListenerStep

\* A step that gives and takes nothing, and leaves the senders and the stage alone.
LEMMA UndisturbedFrame ==
  ASSUME Shape, Undisturbed, GivenSoFar', UNCHANGED <<cfg, stage>>,
         \A p \in Processors : sender'[p] \notin {"failed", "failedClosed", "closing"},
         phase' \in {"build", "wait"} => UNCHANGED <<phase, sender, context, result>>,
         result' = "ok" => stage = "done",
         WaitedFor'
  PROVE  Undisturbed'
<1>1. SnapProcessor' = SnapProcessor /\ SnapProcessor \in Processors
  BY SnapProcessorType DEF SnapProcessor
<1>2. ASSUME phase' \in {"build", "wait"} PROVE (SnapClosed' <=> SnapClosed)
  <2>1. sender' = sender
    BY <1>2
  <2> QED BY <1>1, <2>1 DEF SnapClosed
<1> QED BY <1>2 DEF Undisturbed, Failed

\* Every step keeps the promise of an undisturbed command.
LEMMA GivenStep ==
  ASSUME ConfigAssumption, NotBothThroughAQueue, Shape, GivenInv, [Next]_vars
  PROVE  GivenInv'
<1> USE DEF main, listener, processing
<1>1. faults' \in Nat /\ (faults' = 0 => faults = 0) /\ (~asked' => ~asked) /\ cfg' = cfg
  <2>1. faults' \in {faults, faults + 1}
    BY DEF Next, Command, Build, BuildFails, Fails, Start, Wait, Close, Return, Signal, Listen,
           ListenerFails, Write, SenderStops, vars
  <2>2. asked' \in {asked, TRUE}
    BY DEF Next, Command, Build, BuildFails, Start, Wait, Close, Return, Signal, Listen,
           Write, SenderStops, vars
  <2>3. faults' \in Nat /\ (faults' = 0 => faults = 0)
    BY <2>1 DEF GivenInv
  <2>4. ~asked' => ~asked
    BY <2>2, Zenon
  <2> QED BY <2>3, <2>4, CfgFixed
<1> SUFFICES ASSUME Waits, ~asked', faults' = 0 PROVE Undisturbed'
  BY <1>1 DEF GivenInv, Waits
<1>2. Undisturbed /\ faults = 0 /\ ~asked
  BY <1>1 DEF GivenInv
<1>3. /\ cfg \in Configs /\ cfg.target # "webhook" /\ cfg.snapshot # {}
      /\ sender \in [Processors -> SenderStates] /\ queue \in [Processors -> Seq(Items)]
      /\ deferred \in Seq(Parts) /\ SnapProcessor \in Processors
      /\ SnapProcessor' = SnapProcessor /\ PlaceOfSnapProcessor' = PlaceOfSnapProcessor
      /\ \A p \in Processors : sender[p] \notin {"failed", "failedClosed", "closing"}
      /\ phase \in Phases
      /\ phase = "build" => stage = "idle" /\ \A p \in Processors : queue[p] = <<>>
  BY <1>1, <1>2, SnapProcessorType
  DEF Waits, Shape, Undisturbed, Failed, SnapProcessor, PlaceOfSnapProcessor
<1>4. /\ Len(Plan) \in Nat /\ PlaceOfSnapProcessor \in 1..Len(Plan)
      /\ Plan[PlaceOfSnapProcessor] = SnapProcessor
      /\ \A k \in 1..Len(Plan) : Plan[k] \in Parts
  BY <1>3, PlaceInPlan, PlanIsPlan
<1>5. ASSUME UNCHANGED <<written, queue, stage>> PROVE GivenSoFar'
  BY <1>1, <1>2, <1>3, <1>5 DEF Undisturbed, GivenSoFar, Given
<1>6. CASE Build
  <2> DEFINE x == Plan[built + 1]
  <2>1. /\ phase = "build" /\ phase' = "build" /\ built' = built + 1 /\ built \in Nat
        /\ built + 1 \in 1..Len(Plan) /\ UNCHANGED <<stage, context, result, queue, written>>
        /\ deferred' = IF Deferred(x) THEN Append(deferred, x) ELSE deferred
        /\ sender' = IF x \in Processors THEN [sender EXCEPT ![x] = "runs"] ELSE sender
    BY <1>4, <1>6 DEF Build, Shape
  <2>2. x \in Parts
    BY <1>4, <2>1
  <2>3. built + 1 = PlaceOfSnapProcessor => x = SnapProcessor
    BY <1>4
  <2> HIDE DEF x
  <2>4. \A p \in Processors : sender'[p] \in {sender[p], "runs"}
    BY <1>3, <2>1
  <2>5. \A y : IsDeferred(y) => IsDeferred(y)'
    <3>1. /\ DOMAIN deferred = 1..Len(deferred) /\ Len(deferred) \in Nat
          /\ \/ deferred' = deferred
             \/ /\ DOMAIN deferred' = 1..(Len(deferred) + 1)
                /\ \A i \in 1..Len(deferred) : deferred'[i] = deferred[i]
      BY <1>3, <2>1, <2>2, LenProperties, AppendProperties
    <3> QED BY <3>1 DEF IsDeferred
  <2>6. built + 1 = PlaceOfSnapProcessor => IsDeferred(SnapProcessor)'
    <3> SUFFICES ASSUME built + 1 = PlaceOfSnapProcessor PROVE IsDeferred(SnapProcessor)'
      OBVIOUS
    <3>1. deferred' = Append(deferred, x) /\ x = SnapProcessor
      BY <1>3, <2>1, <2>3 DEF Deferred, Processors
    <3>2. DOMAIN deferred' = 1..(Len(deferred) + 1) /\ deferred'[Len(deferred) + 1] = x
          /\ Len(deferred) \in Nat
      BY <1>3, <2>2, <3>1, LenProperties, AppendProperties
    <3> QED BY <1>3, <3>1, <3>2 DEF IsDeferred
  <2>7. WaitedFor'
    <3>1. PlaceOfSnapProcessor \in Nat
      BY <1>4
    <3> QED BY <1>2, <1>3, <2>1, <2>5, <2>6, <3>1 DEF Undisturbed, WaitedFor
  <2>8. /\ ~SnapClosed'
        /\ \A p \in Processors :
             sender'[p] \notin {"failed", "failedClosed", "closing", "stopped"}
    BY <1>2, <1>3, <2>1, <2>4 DEF Undisturbed, SnapClosed
  <2> QED BY <1>1, <1>2, <1>5, <2>1, <2>7, <2>8 DEF Undisturbed, Failed
<1>7. CASE BuildFails
  <2>1. /\ phase' = "close" /\ result' = "error"
        /\ UNCHANGED <<stage, sender, queue, written>>
    BY <1>7 DEF BuildFails
  <2>2. WaitedFor'
    BY <2>1 DEF WaitedFor
  <2> QED BY <1>1, <1>2, <1>3, <1>5, <2>1, <2>2, UndisturbedFrame
<1>8. CASE Start
  <2>1. /\ phase = "build" /\ phase' = "wait" /\ built = Len(Plan)
        /\ UNCHANGED <<deferred, sender, context, result, queue, written>>
        /\ stage' = IF cfg.command = "snapshot" THEN "schema"
                    ELSE IF cfg.source = "kafka" THEN "stream"
                    ELSE IF cfg.snapshot = {} THEN "replicate" ELSE "lsn"
    BY <1>8 DEF Start
  <2>2. stage' \in BeforeRows
    BY <1>3, <2>1 DEF ConfigAssumption, BeforeRows
  <2>3. IsDeferred(SnapProcessor)
    BY <1>2, <1>4, <2>1 DEF Undisturbed, WaitedFor
  <2>4. WaitedFor'
    BY <1>3, <2>1, <2>3 DEF WaitedFor, IsDeferred
  <2>5. GivenSoFar'
    BY <2>2 DEF GivenSoFar, BeforeRows, AfterIndices
  <2>6. ~SnapClosed'
    BY <1>2, <1>3, <2>1 DEF Undisturbed, SnapClosed
  <2> QED BY <1>1, <1>2, <1>3, <2>1, <2>2, <2>4, <2>5, <2>6 DEF Undisturbed, Failed, BeforeRows
<1>9. CASE Wait
  <2>1. /\ phase = "wait" /\ phase' = "close" /\ stage = "done"
        /\ UNCHANGED <<stage, deferred, sender, queue, written>>
    BY <1>9 DEF Wait
  <2>2. WaitedFor'
    BY <1>2, <1>3, <2>1 DEF Undisturbed, WaitedFor, IsDeferred
  <2> QED BY <1>1, <1>2, <1>3, <1>5, <2>1, <2>2, UndisturbedFrame
<1>10. CASE Close
  <2> DEFINE x == deferred[Len(deferred)]
             n == Len(deferred)
  <2>1. /\ phase = "close" /\ phase' = "close" /\ deferred # <<>>
        /\ UNCHANGED <<stage, result, queue, written>>
        /\ x \in Processors => Finished(x)
        /\ sender' = IF x \in Processors THEN ClosedSender(x) ELSE sender
        /\ deferred' = RemoveAt(deferred, Len(deferred))
    BY <1>10 DEF Close, NextToClose
  <2>2. /\ n \in Nat /\ DOMAIN deferred = 1..n /\ DOMAIN deferred' = 1..(n - 1)
        /\ \A i \in 1..(n - 1) : deferred'[i] = deferred[i]
    BY <1>3, <2>1, RemoveAtType, LenProperties
  <2>3. x = deferred[n]
    OBVIOUS
  <2> HIDE DEF x, n
  <2>4. x # SnapProcessor /\ IsDeferred(SnapProcessor) => IsDeferred(SnapProcessor)'
    <3> SUFFICES ASSUME x # SnapProcessor, NEW i \in 1..n, deferred[i] = SnapProcessor
                 PROVE  IsDeferred(SnapProcessor)'
      BY <2>2 DEF IsDeferred
    <3>1. i \in 1..(n - 1)
      BY <2>2, <2>3
    <3> QED BY <1>3, <2>2, <3>1 DEF IsDeferred
  <2>5. x = SnapProcessor => queue[SnapProcessor] = <<>>
    BY <1>3, <2>1 DEF Finished, Failed
  <2>6. WaitedFor'
    BY <1>2, <1>3, <2>1, <2>4, <2>5 DEF Undisturbed, WaitedFor
  <2>7. \A p \in Processors : sender'[p] \notin {"failed", "failedClosed", "closing"}
    BY <1>3, <2>1, ClosedSenderType DEF Failed
  <2>8. result' = "ok" => stage = "done"
    BY <1>2, <2>1 DEF Undisturbed
  <2> QED BY <1>1, <1>2, <1>5, <2>1, <2>6, <2>7, <2>8, UndisturbedFrame
<1>11. CASE Return
  <2>1. /\ phase = "close" /\ phase' = "returned" /\ deferred = <<>>
        /\ UNCHANGED <<stage, result, sender, queue, written>>
    BY <1>11 DEF Return
  <2>2. ~IsDeferred(SnapProcessor)
    BY <2>1 DEF IsDeferred
  <2>3. WaitedFor'
    BY <1>2, <1>3, <2>1, <2>2 DEF Undisturbed, WaitedFor
  <2>4. result' = "ok" => stage = "done"
    BY <1>2, <2>1 DEF Undisturbed
  <2> QED BY <1>1, <1>2, <1>3, <1>5, <2>1, <2>3, <2>4, UndisturbedFrame
<1>12. CASE Listen
  <2>1. /\ phase = "wait" /\ phase' \in {"wait", "crashed"}
        /\ UNCHANGED <<deferred, result, context>>
    BY <1>12, ListenSteps DEF Listen, SnapshotStep, ClosingStep, StreamStep, Handed
  <2>2. /\ \A x : Given(x) => Given(x)'
        /\ GivenSoFar'
        /\ UNCHANGED sender \/ (ClosingStep /\ "data" \in cfg.snapshot)
        /\ stage \notin BeforeRows \cup {"rows", "drain"} =>
             stage' \notin BeforeRows \cup {"rows", "drain"}
        /\ stage' = "drain" => "data" \in cfg.snapshot
    BY <1>2, <1>12, ListenGives DEF GivenInv
  <2>3. WaitedFor'
    BY <1>2, <1>3, <2>1 DEF Undisturbed, WaitedFor, IsDeferred
  <2>4. CASE UNCHANGED sender
    <3>1. SnapClosed' <=> SnapClosed
      BY <1>3, <2>4 DEF SnapClosed
    <3> QED BY <1>1, <1>2, <2>1, <2>2, <2>3, <2>4, <3>1 DEF Undisturbed, Failed
  <2>5. CASE ClosingStep /\ "data" \in cfg.snapshot
    <3>1. /\ stage' = "indices" /\ UNCHANGED phase
          /\ \A p \in Processors : sender'[p] \in {sender[p], "closed"}
      BY <1>3, <2>5, ClosedSenderType DEF ClosingStep, Failed
    <3> QED BY <1>1, <1>2, <1>3, <2>1, <2>2, <2>3, <2>5, <3>1 DEF Undisturbed, Failed, BeforeRows
  <2> QED BY <2>2, <2>4, <2>5
<1>13. ASSUME NEW p \in Processors, Write(p) PROVE Undisturbed'
  <2>1. UNCHANGED <<stage, phase, deferred, result, context, built>>
    BY <1>13 DEF Write
  <2>2. /\ \A x : Given(x) => Given(x)'
        /\ UNCHANGED sender
        /\ \A q \in Processors : queue[q] = <<>> => queue'[q] = <<>>
    BY <1>13, WriteKeepsGiven DEF GivenInv
  <2>3. GivenSoFar'
    BY <1>1, <1>2, <2>1, <2>2 DEF Undisturbed, GivenSoFar
  <2>4. WaitedFor'
    BY <1>2, <1>3, <2>1, <2>2 DEF Undisturbed, WaitedFor, IsDeferred
  <2>5. result' = "ok" => stage = "done"
    BY <1>2, <2>1 DEF Undisturbed
  <2> QED BY <1>1, <1>2, <1>3, <2>1, <2>2, <2>3, <2>4, <2>5, UndisturbedFrame
<1>14. ASSUME NEW p \in Processors, SenderStops(p) PROVE Undisturbed'
  <2>1. /\ UNCHANGED <<stage, phase, deferred, result, context, built, queue, written>>
        /\ \/ context = "cancelled" /\ sender' = [sender EXCEPT ![p] = "stopped"]
           \/ sender[p] = "closing"
    BY <1>14 DEF SenderStops
  <2>2. WaitedFor'
    BY <1>2, <1>3, <2>1 DEF Undisturbed, WaitedFor, IsDeferred
  <2>3. sender[p] # "closing"
    BY <1>2 DEF Undisturbed
  <2>4. phase \notin {"build", "wait"}
    BY <1>2, <2>1, <2>3 DEF Undisturbed
  <2>5. \A q \in Processors : sender'[q] \notin {"failed", "failedClosed", "closing"}
    BY <1>3, <2>1, <2>3
  <2>6. result' = "ok" => stage = "done"
    BY <1>2, <2>1 DEF Undisturbed
  <2> QED BY <1>1, <1>2, <1>5, <2>1, <2>2, <2>4, <2>5, <2>6, UndisturbedFrame
<1>15. CASE UNCHANGED vars
  <2>1. UNCHANGED <<stage, phase, deferred, result, context, built, queue, written, sender>>
    BY <1>15 DEF vars
  <2>2. WaitedFor'
    BY <1>2, <1>3, <2>1 DEF Undisturbed, WaitedFor, IsDeferred
  <2>3. result' = "ok" => stage = "done"
    BY <1>2, <2>1 DEF Undisturbed
  <2> QED BY <1>1, <1>2, <1>3, <1>5, <2>1, <2>2, <2>3, UndisturbedFrame
<1>16. ~Signal
  BY DEF Signal
<1> QED
  BY <1>6, <1>7, <1>8, <1>9, <1>10, <1>11, <1>12, <1>13, <1>14, <1>15, <1>16
  DEF Next, Command

LEMMA GivenInit == Init => GivenInv
<1> SUFFICES ASSUME Init PROVE GivenInv
  OBVIOUS
<1>1. /\ phase = "build" /\ built = 0 /\ context = "live" /\ result = "none" /\ stage = "idle"
      /\ faults = 0 /\ \A p \in Processors : sender[p] = "none"
  BY DEF Init
<1>2. PlaceOfSnapProcessor \in {2, 7} /\ ~SnapClosed
  BY <1>1, SnapProcessorType DEF PlaceOfSnapProcessor, SnapClosed
<1>3. WaitedFor /\ GivenSoFar
  BY <1>1, <1>2 DEF WaitedFor, GivenSoFar, BeforeRows, AfterIndices
<1> QED BY <1>1, <1>2, <1>3 DEF GivenInv, Undisturbed, Failed

\* A command that returns without an error, unasked and undisturbed, has given the
\* target all of the snapshot, for any configurations none of which takes schema and
\* data through a queue: there the processor that the copy of the rows closes is
\* the one the indices need (run_schema shows the property false; CreateSnapshot of
\* the data generator, pg_snapshot_wal_restore.go).
THEOREM AcceptedSnapshotIsWhole ==
  NotBothThroughAQueue => (Spec => []AcceptedSnapshotIsProcessed)
<1> SUFFICES ASSUME NotBothThroughAQueue PROVE Spec => []AcceptedSnapshotIsProcessed
  OBVIOUS
<1>1. ConfigAssumption
  BY RunAssumption
<1>2. Init => Shape /\ GivenInv
  BY <1>1, ShapeInit, GivenInit
<1>3. Shape /\ GivenInv /\ [Next]_vars => Shape' /\ GivenInv'
  BY <1>1, ShapeStep, GivenStep
<1>4. ASSUME Shape, GivenInv PROVE AcceptedSnapshotIsProcessed
  <2> SUFFICES ASSUME phase = "returned", result = "ok", ~asked, faults = 0,
                      cfg.target # "webhook", NEW x \in SnapshotItems
               PROVE  x \in ToSet(written)
    BY DEF AcceptedSnapshotIsProcessed
  <2>1. Undisturbed
    BY <1>4 DEF GivenInv, Waits, SnapshotItems
  <2>2. stage = "done" /\ queue[SnapProcessor] = <<>>
    BY <2>1 DEF Undisturbed, WaitedFor
  <2>3. Given(x)
    BY <2>1, <2>2 DEF Undisturbed, GivenSoFar, SnapshotItems, BeforeRows, AfterIndices
  <2> QED BY <2>2, <2>3 DEF Given, ToSet
<1> QED BY <1>2, <1>3, <1>4, PTL DEF Spec

-----------------------------------------------------------------------------
(***************************************************************************)
(* Setting up: the DDL log of StreamSetup never breaks the DDL it logs,    *)
(* for every number of processes and commands, every database to start     *)
(* from and every place where a command is cut off.                        *)
(*                                                                         *)
(* DDLKeepsWorking says nothing of the applied versions, so it is not      *)
(* inductive.  The invariant, Sound, adds what a version stands for        *)
(* (Level): a table that is not dirty tells what the database has (Told),  *)
(* and while it is dirty the process that holds its lock knows (Turn).     *)
(* The two tables are not independent: the core's functions may only be    *)
(* taken back when the injector's are, which is why the order of Down, and *)
(* that a destroy runs alone (Alone), are part of it.                      *)
(***************************************************************************)
Tables == {"core", "injector"}
Bodies == {"none", "core", "injector"}
Helpers == {"is_system_schema", "xid", "table_ids"}

Labels ==
  {"idle", "schema", "cleanup", "list", "dropTriggers", "dropOld", "open", "lock", "next", "run",
   "clean", "slot", "createSlot", "succeed", "remove", "dropSlot", "validateSchema",
   "validateVersion", "validateSlot"}

Types ==
  /\ db \in [emit : Bodies, triggers : SUBSET Triggers, helpers : SUBSET Helpers]
  /\ migrated \in [Tables -> [exists : BOOLEAN, version : 0..5, dirty : BOOLEAN]]
  /\ \A m \in Tables : migrated[m].version <= Migrations[m]
  /\ locks \in [Tables -> Proc \cup {Free}]
  /\ pc \in [Proc -> Labels] /\ command \in [Proc -> Invocation] /\ asset \in [Proc -> {1, 2}]
  /\ \A p \in Proc : asset[p] = 2 => command[p].injector

\* What a database with migration v of a table applied has at least, and at most.
Level(m, v) ==
  IF m = "core"
  THEN /\ v >= 1 => "is_system_schema" \in db.helpers
       /\ v <= 1 => db.triggers = {}
  ELSE /\ v >= 1 => "xid" \in db.helpers
       /\ v >= 2 => "table_ids" \in db.helpers
       /\ v <= 2 => db.emit # "injector"

EmitWorks == db.triggers # {} => db.emit # "none" /\ Calls[db.emit] \subseteq db.helpers

Reverted(m) == migrated[m].version = 0 /\ ~migrated[m].dirty

\* The version that a file which is about to run starts from.
Before(p) ==
  IF Is(p, "destroy") THEN migrated[Current(p)].version + 1 ELSE migrated[Current(p)].version - 1

\* What a process inside the migrator, or behind it, relies on.
Turn(p) ==
  /\ pc[p] \in {"next", "run", "clean"} => locks[Current(p)] = p
  /\ pc[p] = "next" => ~migrated[Current(p)].dirty
  /\ pc[p] \in {"run", "clean"} => migrated[Current(p)].dirty
  /\ pc[p] = "run" => Before(p) \in 0..Migrations[Current(p)] /\ Level(Current(p), Before(p))
  /\ pc[p] = "clean" => Level(Current(p), migrated[Current(p)].version)
  /\ pc[p] \in {"lock", "next", "run", "clean"} /\ Is(p, "destroy") /\ asset[p] = 2 =>
       Reverted("injector")
  /\ pc[p] = "remove" =>
       Is(p, "destroy") /\ \A m \in Tables : (m = "injector" => command[p].injector) => Reverted(m)

\* A table that is not dirty tells what the database has.
Told == \A m \in Tables : ~migrated[m].dirty => Level(m, migrated[m].version)

\* A destroy runs alone.
Alone ==
  \A p, q \in Proc : p # q /\ pc[p] # "idle" /\ pc[q] # "idle" => ~Is(p, "destroy")

OldWorks ==
  /\ \A p \in Proc : listed[p] \subseteq OldTriggers \cup Triggers
  /\ old \cap OldTriggers # {} => "log_schema" \in old

Sound == Types /\ Alone /\ EmitWorks /\ Told /\ (\A p \in Proc : Turn(p)) /\ OldWorks

\* The table a command is at, on its way up the assets or down them.
LEMMA TablesOfCommand ==
  ASSUME Types, NEW p \in Proc
  PROVE  /\ Len(Assets(command[p])) = IF command[p].injector THEN 2 ELSE 1
         /\ Table(p) = IF asset[p] = 1 THEN "core" ELSE "injector"
         /\ Current(p) = IF command[p].injector /\ (asset[p] = 1 <=> Is(p, "destroy"))
                         THEN "injector" ELSE "core"
<1>1. command[p] \in Invocation /\ asset[p] \in {1, 2} /\ (asset[p] = 2 => command[p].injector)
  BY DEF Types
<1> DEFINE a == Assets(command[p])
<1>2. CASE command[p].injector
  <2>1. a = <<"core", "injector">> /\ Len(a) = 2 /\ a[1] = "core" /\ a[2] = "injector"
    BY <1>2 DEF Assets
  <2>2. Current(p) = IF Is(p, "destroy") THEN a[3 - asset[p]] ELSE a[asset[p]]
    <3>1. Current(p) = IF Is(p, "destroy") THEN a[Len(a) + 1 - asset[p]] ELSE a[asset[p]]
      BY DEF Current
    <3>2. Len(a) + 1 - asset[p] = 3 - asset[p]
      BY <1>1, <2>1
    <3> QED BY <3>1, <3>2
  <2> HIDE DEF a
  <2>3. Table(p) = IF asset[p] = 1 THEN "core" ELSE "injector"
    <3>1. Table(p) = a[asset[p]]
      BY DEF Table, a
    <3> QED BY <1>1, <2>1, <3>1
  <2> QED BY <1>1, <1>2, <2>1, <2>2, <2>3 DEF a
<1>3. CASE ~command[p].injector
  <2>1. a = <<"core">> /\ Len(a) = 1 /\ a[1] = "core" /\ asset[p] = 1
    BY <1>1, <1>3 DEF Assets
  <2>2. Current(p) = IF Is(p, "destroy") THEN a[2 - asset[p]] ELSE a[asset[p]]
    <3>1. Current(p) = IF Is(p, "destroy") THEN a[Len(a) + 1 - asset[p]] ELSE a[asset[p]]
      BY DEF Current
    <3>2. Len(a) + 1 - asset[p] = 2 - asset[p]
      BY <1>1, <2>1
    <3> QED BY <3>1, <3>2
  <2>3. Table(p) = a[asset[p]]
    BY DEF Table
  <2> HIDE DEF a
  <2> QED BY <1>1, <1>3, <2>1, <2>2, <2>3 DEF a
<1> QED BY <1>2, <1>3

\* The table a command is at is one of the two.
LEMMA CurrentIsTable ==
  ASSUME Types, NEW p \in Proc
  PROVE  Table(p) \in Tables /\ Current(p) \in Tables
BY TablesOfCommand DEF Tables

-----------------------------------------------------------------------------
(* The migration files.                                                    *)

\* Running the next file, or taking the last one back, leads from one level to the
\* next, leaves the other table's level alone, and keeps emit_ddl working.
LEMMA UpLeads ==
  ASSUME Types, EmitWorks, NEW m \in Tables, NEW v \in 1..Migrations[m], Level(m, v - 1),
         ~UpFails(m, v, db), db' = Up(m, v, db)
  PROVE  /\ db' \in [emit : Bodies, triggers : SUBSET Triggers, helpers : SUBSET Helpers]
         /\ EmitWorks' /\ Level(m, v)'
         /\ \A o \in Tables \ {m} : \A w \in Nat : Level(o, w) => Level(o, w)'
<1>1. db \in [emit : Bodies, triggers : SUBSET Triggers, helpers : SUBSET Helpers]
  BY DEF Types
<1>2. CASE m = "core"
  <2>1. v \in {1, 2, 3}
    BY <1>2 DEF Migrations
  <2>2. db' = CoreUp(v, db)
    BY <1>2 DEF Up
  <2>3. CASE v = 1
    <3>1. db' = [db EXCEPT !.helpers = @ \cup {"is_system_schema"}]
      BY <2>2, <2>3 DEF CoreUp
    <3>2. db.triggers = {}
      BY <1>2, <2>3 DEF Level
    <3> QED BY <1>1, <1>2, <2>3, <3>1, <3>2 DEF EmitWorks, Level, Tables, Bodies, Helpers
  <2>4. CASE v = 2
    <3>1. db' = [db EXCEPT !.emit = "core", !.triggers = Triggers]
      BY <2>2, <2>4 DEF CoreUp
    <3>2. "is_system_schema" \in db.helpers
      BY <1>2, <2>4 DEF Level
    <3>3. db' = [emit |-> "core", triggers |-> Triggers, helpers |-> db.helpers]
      BY <1>1, <3>1
    <3> QED BY <1>1, <1>2, <2>4, <3>2, <3>3 DEF EmitWorks, Level, Tables, Bodies, Helpers, Calls
  <2>5. CASE v = 3
    <3>1. db' = [db EXCEPT !.emit = "core"]
      BY <2>2, <2>5 DEF CoreUp
    <3>2. "is_system_schema" \in db.helpers
      BY <1>2, <2>5 DEF Level
    <3> QED BY <1>1, <1>2, <2>5, <3>1, <3>2 DEF EmitWorks, Level, Tables, Bodies, Helpers, Calls
  <2> QED BY <2>1, <2>3, <2>4, <2>5
<1>3. CASE m = "injector"
  <2>1. v \in {1, 2, 3, 4, 5}
    BY <1>3 DEF Migrations
  <2>2. db' = InjectorUp(v, db)
    BY <1>3 DEF Up
  <2>3. CASE v = 1
    <3>1. db' = [db EXCEPT !.helpers = @ \cup {"xid"}]
      BY <2>2, <2>3 DEF InjectorUp
    <3> QED BY <1>1, <1>3, <2>3, <3>1 DEF EmitWorks, Level, Tables, Bodies, Helpers
  <2>4. CASE v = 2
    <3>1. db' = [db EXCEPT !.helpers = @ \cup {"table_ids"}]
      BY <2>2, <2>4 DEF InjectorUp
    <3> QED BY <1>1, <1>3, <2>4, <3>1 DEF EmitWorks, Level, Tables, Bodies, Helpers
  <2>5. CASE v \in {3, 4, 5}
    <3>1. db' = [db EXCEPT !.emit = IF v = 5 THEN @ ELSE "injector"]
      BY <1>1, <2>2, <2>5 DEF InjectorUp
    <3>2. "xid" \in db.helpers /\ "table_ids" \in db.helpers
      BY <1>3, <2>5 DEF Level
    <3>3. db.triggers # {} => "is_system_schema" \in db.helpers
      BY <1>1 DEF EmitWorks, Calls, Bodies
    <3> QED
      BY <1>1, <1>3, <2>5, <3>1, <3>2, <3>3
      DEF EmitWorks, Level, Tables, Bodies, Helpers, Calls
  <2> QED BY <2>1, <2>3, <2>4, <2>5
<1> QED BY <1>2, <1>3 DEF Tables

\* Taking the last file back does the same for the level below.
LEMMA DownLeads ==
  ASSUME Types, EmitWorks, NEW m \in Tables, NEW v \in 1..Migrations[m], Level(m, v),
         db' = Down(m, v, db)
  PROVE  /\ db' \in [emit : Bodies, triggers : SUBSET Triggers, helpers : SUBSET Helpers]
         /\ EmitWorks' /\ Level(m, v - 1)'
         /\ \A o \in Tables \ {m} : \A w \in Nat : Level(o, w) => Level(o, w)'
<1>1. db \in [emit : Bodies, triggers : SUBSET Triggers, helpers : SUBSET Helpers]
  BY DEF Types
<1>0. db.triggers # {} => "is_system_schema" \in db.helpers
  BY <1>1 DEF EmitWorks, Calls, Bodies
<1>2. CASE m = "core"
  <2>1. v \in {1, 2, 3}
    BY <1>2 DEF Migrations
  <2>2. db' = CoreDown(v, db)
    BY <1>2 DEF Down
  <2>3. CASE v = 1
    <3>1. db' = [db EXCEPT !.helpers = @ \ {"is_system_schema"}]
      BY <2>2, <2>3 DEF CoreDown
    <3>2. db.triggers = {}
      BY <1>2, <2>3 DEF Level
    <3> QED BY <1>1, <1>2, <2>3, <3>1, <3>2 DEF EmitWorks, Level, Tables, Bodies, Helpers
  <2>4. CASE v = 2
    <3>1. db' = [db EXCEPT !.emit = "none", !.triggers = {}]
      BY <2>2, <2>4 DEF CoreDown
    <3>2. db' = [emit |-> "none", triggers |-> {}, helpers |-> db.helpers]
      BY <1>1, <3>1
    <3> QED BY <1>1, <1>2, <2>4, <3>2 DEF EmitWorks, Level, Tables, Bodies, Helpers
  <2>5. CASE v = 3
    <3>1. db' = [db EXCEPT !.emit = "core"]
      BY <2>2, <2>5 DEF CoreDown
    <3> QED BY <1>0, <1>1, <1>2, <2>5, <3>1 DEF EmitWorks, Level, Tables, Bodies, Helpers, Calls
  <2> QED BY <2>1, <2>3, <2>4, <2>5
<1>3. CASE m = "injector"
  <2>1. v \in {1, 2, 3, 4, 5}
    BY <1>3 DEF Migrations
  <2>2. db' = InjectorDown(v, db)
    BY <1>3 DEF Down
  <2>3. CASE v \in {4, 5}
    <3>1. db' = [db EXCEPT !.emit = IF v = 5 THEN @ ELSE "injector"]
      BY <1>1, <2>2, <2>3 DEF InjectorDown
    <3>2. "xid" \in db.helpers /\ "table_ids" \in db.helpers
      BY <1>3, <2>3 DEF Level
    <3> QED
      BY <1>0, <1>1, <1>3, <2>3, <3>1, <3>2
      DEF EmitWorks, Level, Tables, Bodies, Helpers, Calls
  <2>4. CASE v = 3
    <3>1. db' = [db EXCEPT !.emit = "core"]
      BY <2>2, <2>4 DEF InjectorDown
    <3> QED BY <1>0, <1>1, <1>3, <2>4, <3>1 DEF EmitWorks, Level, Tables, Bodies, Helpers, Calls
  <2>5. CASE v \in {1, 2}
    <3>1. db' = [db EXCEPT !.helpers = @ \ {IF v = 2 THEN "table_ids" ELSE "xid"}]
      BY <2>2, <2>5 DEF InjectorDown
    <3>2. db.emit # "injector"
      BY <1>3, <2>5 DEF Level
    <3> QED
      BY <1>0, <1>1, <1>3, <2>5, <3>1, <3>2
      DEF EmitWorks, Level, Tables, Bodies, Helpers, Calls
  <2> QED BY <2>1, <2>3, <2>4, <2>5
<1> QED BY <1>2, <1>3 DEF Tables

-----------------------------------------------------------------------------
(* Steps.                                                                  *)

\* A step of a command is one of a running process, which moves it to a label.
LEMMA Moves ==
  ASSUME Types, NEW p \in Proc, Step(p) \/ CutOff(p)
  PROVE  /\ pc[p] # "idle" /\ command' = command
         /\ \E l \in Labels : pc' = [pc EXCEPT ![p] = l]
<1> USE DEF local, database, GoesTo, Goto, Returns, Labels
<1>0. command[p] \in Invocation
  BY DEF Types
<1>1. CASE InitStep(p)
  BY <1>1 DEF InitStep, CreatePGStreamSchema, CheckV09, ListTriggers, DropTrigger, DropOldObject,
              ReplicationSlotExists, CreateReplicationSlot, Succeed
<1>2. CASE OpenMigrator(p)
  <2>1. CASE ~schema
    BY <1>2, <2>1 DEF OpenMigrator
  <2>2. CASE schema
    <3>1. NextAsset(p, "open", CASE Installs(p) -> "lock" [] Is(p, "destroy") -> "lock"
                                 [] Is(p, "status") -> "validateVersion")
      BY <1>2, <2>2 DEF OpenMigrator
    <3>2. (CASE Installs(p) -> "lock" [] Is(p, "destroy") -> "lock"
             [] Is(p, "status") -> "validateVersion") \in {"lock", "validateVersion"}
      BY <1>0 DEF Installs, Is, Invocation
    <3> QED BY <1>2, <3>1, <3>2 DEF OpenMigrator, NextAsset
  <2> QED BY <2>1, <2>2
<1>3. CASE LockMigrations(p) \/ RunMigration(p) \/ CleanMigration(p)
  BY <1>3 DEF LockMigrations, RunMigration, CleanMigration
<1>4. CASE NextMigration(p)
  BY <1>4 DEF NextMigration, NextAsset
<1>5. CASE DestroyStep(p)
  BY <1>5 DEF DestroyStep, DropMigrationTables, DropPGStreamSchema, DropReplicationSlot, NextAsset
<1>6. CASE StatusStep(p)
  BY <1>6 DEF StatusStep, ValidateSchemaStatus, ValidateMigrationStatus, NextAsset,
              ValidateReplicationSlotStatus
<1>7. CASE CutOff(p)
  BY <1>7 DEF CutOff
<1> QED BY <1>1, <1>2, <1>3, <1>4, <1>5, <1>6, <1>7 DEF Step, MigratorStep

\* A command that may not run beside others does not.
LEMMA KeptAlone ==
  ASSUME NEW kind, kind \notin Together, Types, [SetupNext]_setupVars,
         \A p, q \in Proc : p # q /\ pc[p] # "idle" /\ pc[q] # "idle" => ~Is(p, kind)
  PROVE  \A p, q \in Proc : p # q /\ pc'[p] # "idle" /\ pc'[q] # "idle" => ~Is(p, kind)'
<1>1. ASSUME NEW p \in Proc, Step(p) \/ CutOff(p)
      PROVE  \A q \in Proc : (pc'[q] # "idle" => pc[q] # "idle") /\ Is(q, kind)' = Is(q, kind)
  BY <1>1, Moves DEF Types, Is
<1>2. ASSUME NEW p \in Proc, NEW c \in Invocations, Begin(p, c)
      PROVE  /\ \A q \in Proc \ {p} : pc'[q] = pc[q] /\ Is(q, kind)' = Is(q, kind)
             /\ Is(p, kind)' = (c.kind = kind)
             /\ \A q \in Proc \ {p} : pc[q] # "idle" => c.kind # kind /\ ~Is(q, kind)
  <2>1. /\ Running # {} => {c.kind} \cup {command[q].kind : q \in Running} \subseteq Together
        /\ command' = [command EXCEPT ![p] = c]
        /\ \E l : pc' = [pc EXCEPT ![p] = l]
    BY <1>2 DEF Begin, Goto
  <2>2. /\ command'[p] = c
        /\ \A q \in Proc \ {p} : pc'[q] = pc[q] /\ command'[q] = command[q]
    BY <2>1 DEF Types
  <2>3. ASSUME NEW q \in Proc \ {p}, pc[q] # "idle" PROVE c.kind # kind /\ ~Is(q, kind)
    <3>1. q \in Running
      BY <2>3 DEF Running
    <3> QED BY <2>1, <3>1 DEF Is
  <2> QED BY <2>2, <2>3 DEF Is
<1>3. CASE Stream \/ UNCHANGED setupVars
  BY <1>3 DEF Stream, setupVars, local, Is
<1>4. CASE \E p \in Proc : Step(p) \/ CutOff(p)
  BY <1>1, <1>4
<1>5. ASSUME NEW p \in Proc, NEW c \in Invocations, Begin(p, c)
      PROVE  \A a, b \in Proc : a # b /\ pc'[a] # "idle" /\ pc'[b] # "idle" => ~Is(a, kind)'
  <2> SUFFICES ASSUME NEW a \in Proc, NEW b \in Proc, a # b, pc'[a] # "idle", pc'[b] # "idle"
               PROVE  ~Is(a, kind)'
    OBVIOUS
  <2>1. CASE a = p
    BY <1>2, <1>5, <2>1
  <2>2. CASE b = p
    BY <1>2, <1>5, <2>2
  <2>3. CASE a # p /\ b # p
    BY <1>2, <1>5, <2>3
  <2> QED BY <2>1, <2>2, <2>3
<1> QED BY <1>3, <1>4, <1>5 DEF SetupNext

\* No command is given beside a destroy, nor a destroy beside another command.
LEMMA AloneStep ==
  ASSUME "destroy" \notin Together, Types, Alone, [SetupNext]_setupVars
  PROVE  Alone'
<1>1. \A p, q \in Proc : p # q /\ pc[p] # "idle" /\ pc[q] # "idle" => ~Is(p, "destroy")
  BY DEF Alone
<1>2. \A p, q \in Proc : p # q /\ pc'[p] # "idle" /\ pc'[q] # "idle" => ~Is(p, "destroy")'
  BY <1>1, KeptAlone
<1> QED BY <1>2 DEF Alone, Is

\* The clean up of v0.9 takes no function before the triggers that need it.
LEMMA OldWorksStep ==
  ASSUME Types, OldWorks, [SetupNext]_setupVars
  PROVE  OldWorks'
<1> USE DEF local, database, GoesTo, Goto, Returns, OldWorks
<1>1. ASSUME NEW p \in Proc, ListTriggers(p) PROVE OldWorks'
  <2>1. db.triggers \subseteq Triggers
    BY DEF Types
  <2> QED BY <1>1, <2>1 DEF ListTriggers
<1>2. ASSUME NEW p \in Proc, DropTrigger(p) PROVE OldWorks'
  <2>1. CASE UNCHANGED <<listed, old>>
    BY <2>1
  <2>2. CASE \E t \in listed[p] : listed' = [listed EXCEPT ![p] = @ \ {t}] /\ old' = old \ {t}
    <3>1. PICK t \in listed[p] : listed' = [listed EXCEPT ![p] = @ \ {t}] /\ old' = old \ {t}
      BY <2>2
    <3>2. t \in OldTriggers \cup Triggers /\ t # "log_schema"
      BY DEF OldTriggers, Triggers
    <3> QED BY <3>1, <3>2
  <2> QED BY <1>2, <2>1, <2>2 DEF DropTrigger
<1>3. ASSUME NEW p \in Proc, DropOldObject(p) PROVE OldWorks'
  <2>1. CASE UNCHANGED <<listed, old>>
    BY <2>1
  <2>2. CASE \E o : /\ old' = old \ {o} /\ UNCHANGED listed
                    /\ ~(o = "log_schema" /\ old \cap OldTriggers # {})
    BY <2>2
  <2> QED BY <1>3, <2>1, <2>2 DEF DropOldObject
<1>4. ASSUME NEW p \in Proc, NEW c \in Invocations, Begin(p, c) PROVE OldWorks'
  <2>1. listed' = [listed EXCEPT ![p] = {}] /\ old' = old
    BY <1>4 DEF Begin
  <2> QED BY <2>1
<1>5. CASE UNCHANGED <<listed, old>>
  BY <1>5
<1>6. CASE UNCHANGED listed /\ old' = {}
  BY <1>6
<1>7. ASSUME NEW p \in Proc, Step(p) \/ CutOff(p)
      PROVE  \/ ListTriggers(p) \/ DropTrigger(p) \/ DropOldObject(p)
             \/ UNCHANGED <<listed, old>>
             \/ UNCHANGED listed /\ old' = {}
  BY <1>7 DEF Step, CutOff, InitStep, CreatePGStreamSchema, CheckV09, ReplicationSlotExists,
       CreateReplicationSlot, Succeed, MigratorStep, OpenMigrator, LockMigrations, NextMigration,
       RunMigration, CleanMigration, DestroyStep, DropMigrationTables, DropPGStreamSchema,
       DropReplicationSlot, StatusStep, ValidateSchemaStatus, ValidateMigrationStatus,
       ValidateReplicationSlotStatus
<1>8. CASE Stream \/ UNCHANGED setupVars
  BY <1>5, <1>8 DEF Stream, setupVars
<1> QED BY <1>1, <1>2, <1>3, <1>4, <1>5, <1>6, <1>7, <1>8 DEF SetupNext

\* What the other processes rely on: the tables they hold, and if one of them is a
\* destroy, all of them.
LEMMA OthersKeepTurn ==
  ASSUME Sound, NEW p \in Proc, NEW q \in Proc \ {p}, pc[p] # "idle" \/ UNCHANGED migrated,
         pc'[q] = pc[q], command'[q] = command[q], asset'[q] = asset[q],
         \A m \in Tables : locks[m] = q =>
           /\ locks'[m] = q
           /\ migrated'[m].version = migrated[m].version /\ migrated'[m].dirty = migrated[m].dirty
           /\ \A w \in Nat : Level(m, w) => Level(m, w)'
  PROVE  Turn(q)'
<1>1. /\ Types /\ Alone /\ Turn(q) /\ Current(q) \in Tables
      /\ \A m \in Tables : migrated[m].version \in Nat /\ Migrations[m] \in Nat
  <2>1. Current(q) \in Tables
    BY CurrentIsTable DEF Sound
  <2> QED BY <2>1 DEF Sound, Types, Tables, Migrations
<1>2. Current(q)' = Current(q) /\ Is(q, "destroy")' = Is(q, "destroy")
  BY DEF Current, Is
<1>3. CASE pc[q] \in {"next", "run", "clean"}
  <2>0. PICK m \in Tables : m = Current(q)
    BY <1>1
  <2>1. locks[m] = q
    BY <1>1, <1>3, <2>0 DEF Turn
  <2>2. /\ locks'[m] = q /\ migrated'[m].version = migrated[m].version
        /\ migrated'[m].dirty = migrated[m].dirty /\ \A w \in Nat : Level(m, w) => Level(m, w)'
    BY <2>1
  <2>3. Is(q, "destroy") => migrated' = migrated
    BY <1>1, <1>3 DEF Alone
  <2>4. Before(q)' = Before(q) /\ Current(q)' = m
    BY <1>2, <2>0, <2>2 DEF Before
  <2>5. Is(q, "destroy") /\ asset[q] = 2 => Reverted("injector")'
    BY <1>1, <1>3, <2>3 DEF Turn, Reverted
  <2>6. ASSUME pc[q] = "run"
        PROVE  Before(q)' \in 0..Migrations[m] /\ \A w : w = Before(q)' => Level(m, w)'
    <3>1. Before(q) \in 0..Migrations[m] /\ Before(q) \in Nat /\ Level(m, Before(q))
      BY <1>1, <2>0, <2>6 DEF Turn
    <3>2. \A w \in Nat : w = Before(q) => Level(m, w)'
      BY <2>2, <3>1
    <3> QED BY <2>4, <3>1, <3>2
  <2>7. ASSUME pc[q] = "clean"
        PROVE  \A w : w = migrated'[m].version => Level(m, w)'
    <3>1. migrated[m].version \in Nat /\ Level(m, migrated[m].version)
      BY <1>1, <2>0, <2>7 DEF Turn
    <3>2. \A w \in Nat : w = migrated[m].version => Level(m, w)'
      BY <2>2, <3>1
    <3> QED BY <2>2, <3>1, <3>2
  <2>8. /\ pc[q] = "next" => ~migrated'[m].dirty
        /\ pc[q] \in {"run", "clean"} => migrated'[m].dirty
    BY <1>1, <2>0, <2>2 DEF Turn
  <2>9. pc'[q] = "run" => Level(Current(q), Before(q))'
    BY <2>4, <2>6 DEF Level
  <2>10. pc'[q] = "clean" => Level(Current(q), migrated[Current(q)].version)'
    BY <2>4, <2>7 DEF Level
  <2>11. pc'[q] = "run" => Before(q)' \in 0..Migrations[m]
    BY <2>6
  <2>12. pc'[q] # "remove" /\ locks'[m] = q
    BY <1>3, <2>2
  <2> QED BY <1>2, <1>3, <2>4, <2>5, <2>8, <2>9, <2>10, <2>11, <2>12 DEF Turn
<1>4. CASE pc[q] \in {"lock", "remove"}
  <2>1. Is(q, "destroy") => migrated' = migrated
    BY <1>1, <1>4 DEF Alone
  <2> QED BY <1>1, <1>2, <1>4, <2>1 DEF Turn, Reverted
<1>5. CASE pc[q] \notin {"lock", "next", "run", "clean", "remove"}
  BY <1>5 DEF Turn
<1> QED BY <1>3, <1>4, <1>5

\* A step outside of the migrations.
LEMMA StepsOutside ==
  ASSUME Sound, NEW p \in Proc, pc[p] # "idle" \/ UNCHANGED migrated,
         NEW l \in Labels \ {"next", "run", "clean", "remove"}, pc' = [pc EXCEPT ![p] = l],
         l = "lock" => asset'[p] = 1,
         \A q \in Proc \ {p} : command'[q] = command[q] /\ asset'[q] = asset[q],
         \A m \in Tables : /\ migrated'[m].version = migrated[m].version
                           /\ migrated'[m].dirty = migrated[m].dirty,
         db'.emit = db.emit, db'.helpers = db.helpers, db'.triggers \subseteq db.triggers,
         locks' = locks \/ Unlocked(p)
  PROVE  EmitWorks' /\ Told' /\ \A q \in Proc : Turn(q)'
<1>1. \A m, w : Level(m, w) => Level(m, w)'
  BY DEF Level
<1>2. EmitWorks'
  BY DEF Sound, EmitWorks
<1>3. Told'
  <2> SUFFICES ASSUME NEW m \in Tables, ~migrated'[m].dirty PROVE Level(m, migrated[m].version)'
    BY DEF Told
  <2>1. Level(m, migrated[m].version)
    BY DEF Sound, Told
  <2> QED BY <2>1 DEF Level
<1>4. \A q \in Proc \ {p}, m \in Tables : locks[m] = q => locks'[m] = q
  BY DEF Unlocked, Sound, Types
<1>5. \A q \in Proc \ {p} : Turn(q)'
  <2> SUFFICES ASSUME NEW q \in Proc \ {p} PROVE Turn(q)'
    OBVIOUS
  <2>1. pc'[q] = pc[q]
    BY DEF Sound, Types
  <2>2. \A m \in Tables : locks[m] = q =>
           /\ locks'[m] = q
           /\ migrated'[m].version = migrated[m].version /\ migrated'[m].dirty = migrated[m].dirty
           /\ \A w \in Nat : Level(m, w) => Level(m, w)'
    BY <1>1, <1>4
  <2> QED BY <2>1, <2>2, OthersKeepTurn
<1>6. Turn(p)'
  <2>1. pc'[p] = l
    BY DEF Sound, Types
  <2> QED BY <2>1 DEF Turn
<1> QED BY <1>2, <1>3, <1>5, <1>6

\* NextAsset goes to the injector's assets only if the command has them.
LEMMA NextAssetMoves ==
  ASSUME Types, NEW p \in Proc, NEW a, NEW b, NextAsset(p, a, b)
  PROVE  /\ asset' \in [Proc -> {1, 2}] /\ \A q \in Proc : asset'[q] = 2 => command[q].injector
         /\ \A q \in Proc \ {p} : asset'[q] = asset[q]
         /\ \/ /\ asset[p] = 1 /\ command[p].injector /\ asset'[p] = 2
               /\ pc' = [pc EXCEPT ![p] = a]
            \/ /\ asset[p] = 2 \/ ~command[p].injector
               /\ asset'[p] = 1
               /\ pc' = [pc EXCEPT ![p] = b]
<1>1. /\ asset \in [Proc -> {1, 2}] /\ asset[p] \in {1, 2}
      /\ (asset[p] = 2 => command[p].injector)
      /\ Len(Assets(command[p])) = IF command[p].injector THEN 2 ELSE 1
  BY TablesOfCommand DEF Types
<1>2. CASE asset[p] < Len(Assets(command[p]))
  <2>1. asset[p] = 1 /\ command[p].injector
    BY <1>1, <1>2
  <2>2. asset' = [asset EXCEPT ![p] = 2] /\ pc' = [pc EXCEPT ![p] = a]
    BY <1>2, <2>1 DEF NextAsset, Goto
  <2> QED BY <1>1, <2>1, <2>2 DEF Types
<1>3. CASE ~(asset[p] < Len(Assets(command[p])))
  <2>1. asset[p] = 2 \/ ~command[p].injector
    BY <1>1, <1>3
  <2>2. asset' = [asset EXCEPT ![p] = 1] /\ pc' = [pc EXCEPT ![p] = b]
    BY <1>3 DEF NextAsset, Goto
  <2> QED BY <1>1, <2>1, <2>2 DEF Types
<1> QED BY <1>2, <1>3

\* A step keeps the types if what it writes has them.
LEMMA TypesKeep ==
  ASSUME Types, NEW p \in Proc, Step(p) \/ CutOff(p),
         db' \in [emit : Bodies, triggers : SUBSET Triggers, helpers : SUBSET Helpers],
         migrated' \in [Tables -> [exists : BOOLEAN, version : 0..5, dirty : BOOLEAN]],
         \A m \in Tables : migrated'[m].version <= Migrations[m],
         locks' = locks \/ Unlocked(p) \/ locks' \in [Tables -> Proc \cup {Free}],
         asset' \in [Proc -> {1, 2}], \A q \in Proc : asset'[q] = 2 => command[q].injector
  PROVE  Types'
<1>1. command' = command /\ pc' \in [Proc -> Labels]
  BY Moves DEF Types
<1>2. locks' \in [Tables -> Proc \cup {Free}]
  BY DEF Types, Unlocked
<1> QED BY <1>1, <1>2 DEF Types

\* A step that leaves the migrations alone.
LEMMA SoundOutside ==
  ASSUME Sound, NEW p \in Proc, Step(p) \/ CutOff(p),
         NEW l \in Labels \ {"lock", "next", "run", "clean", "remove"}, pc' = [pc EXCEPT ![p] = l],
         UNCHANGED migrated, asset' = asset \/ \E a, b : NextAsset(p, a, b),
         db' = db \/ \E t : db' = [db EXCEPT !.triggers = @ \ {t}],
         locks' = locks \/ Unlocked(p)
  PROVE  Types' /\ EmitWorks' /\ Told' /\ \A q \in Proc : Turn(q)'
<1>1. Types
  BY DEF Sound
<1>2. /\ db' \in [emit : Bodies, triggers : SUBSET Triggers, helpers : SUBSET Helpers]
      /\ db'.emit = db.emit /\ db'.helpers = db.helpers /\ db'.triggers \subseteq db.triggers
  BY <1>1 DEF Types
<1>3. /\ asset' \in [Proc -> {1, 2}] /\ \A q \in Proc : asset'[q] = 2 => command[q].injector
      /\ \A q \in Proc \ {p} : asset'[q] = asset[q]
  <2>1. CASE asset' = asset
    BY <1>1, <2>1 DEF Types
  <2>2. CASE \E a, b : NextAsset(p, a, b)
    BY <1>1, <2>2, NextAssetMoves
  <2> QED BY <2>1, <2>2
<1>4. Types'
  BY <1>1, <1>2, <1>3, TypesKeep DEF Types
<1>5. pc[p] # "idle" /\ command' = command
  BY <1>1, Moves
<1>6. l \in Labels \ {"next", "run", "clean", "remove"} /\ l # "lock"
  OBVIOUS
<1> QED BY <1>2, <1>3, <1>4, <1>5, <1>6, StepsOutside

\* Opening a migrator makes a table and applies nothing.
LEMMA SoundOpens ==
  ASSUME Sound, NEW p \in Proc, Step(p), OpenMigrator(p)
  PROVE  Types' /\ EmitWorks' /\ Told' /\ \A q \in Proc : Turn(q)'
<1>0. Types /\ Table(p) \in Tables
  BY CurrentIsTable DEF Sound
<1>1. CASE ~schema
  <2>1. UNCHANGED <<migrated, asset, db>> /\ Unlocked(p) /\ pc' = [pc EXCEPT ![p] = "idle"]
    BY <1>1 DEF OpenMigrator, Returns, Goto
  <2> QED BY <2>1, SoundOutside DEF Labels
<1>2. CASE schema
  <2> DEFINE after == CASE Installs(p) -> "lock" [] Is(p, "destroy") -> "lock"
                        [] Is(p, "status") -> "validateVersion"
  <2>1. /\ migrated' = [migrated EXCEPT ![Table(p)].exists = TRUE]
        /\ NextAsset(p, "open", after) /\ UNCHANGED <<locks, db, command>>
    BY <1>2 DEF OpenMigrator
  <2>2. after \in {"lock", "validateVersion"}
    BY <1>0 DEF Types, Installs, Is, Invocation
  <2> HIDE DEF after
  <2>3. /\ migrated' \in [Tables -> [exists : BOOLEAN, version : 0..5, dirty : BOOLEAN]]
        /\ \A m \in Tables : /\ migrated'[m].version = migrated[m].version
                             /\ migrated'[m].dirty = migrated[m].dirty
    BY <1>0, <2>1 DEF Types
  <2>4. /\ asset' \in [Proc -> {1, 2}] /\ \A q \in Proc : asset'[q] = 2 => command[q].injector
        /\ \A q \in Proc \ {p} : asset'[q] = asset[q]
        /\ \E l \in {"open", "lock", "validateVersion"} :
             pc' = [pc EXCEPT ![p] = l] /\ (l = "lock" => asset'[p] = 1)
    BY <1>0, <2>1, <2>2, NextAssetMoves
  <2>5. Types'
    BY <1>0, <2>1, <2>3, <2>4, TypesKeep DEF Types
  <2>6. PICK l \in {"open", "lock", "validateVersion"} :
          pc' = [pc EXCEPT ![p] = l] /\ (l = "lock" => asset'[p] = 1)
    BY <2>4
  <2>7. pc[p] # "idle"
    BY <1>0, Moves
  <2>8. l \in Labels \ {"next", "run", "clean", "remove"}
    BY DEF Labels
  <2>9. EmitWorks' /\ Told' /\ \A q \in Proc : Turn(q)'
    BY <2>1, <2>3, <2>4, <2>6, <2>7, <2>8, StepsOutside
  <2> QED BY <2>5, <2>9
<1> QED BY <1>1, <1>2

\* Whoever gets the lock of a table that is not dirty knows its level.
LEMMA SoundLocks ==
  ASSUME Sound, NEW p \in Proc, Step(p), LockMigrations(p)
  PROVE  Types' /\ EmitWorks' /\ Told' /\ \A q \in Proc : Turn(q)'
<1>0. Types /\ Current(p) \in Tables /\ Free \notin Proc
  BY CurrentIsTable, SetupAssumption DEF Sound
<1>1. CASE ~migrated[Current(p)].exists \/ migrated[Current(p)].dirty
  <2>1. UNCHANGED <<migrated, asset, db>> /\ Unlocked(p) /\ pc' = [pc EXCEPT ![p] = "idle"]
    BY <1>1 DEF LockMigrations, Returns, Goto, database, local
  <2> QED BY <2>1, SoundOutside DEF Labels
<1>2. CASE ~(~migrated[Current(p)].exists \/ migrated[Current(p)].dirty)
  <2>0. PICK m \in Tables : m = Current(p)
    BY <1>0
  <2>1. /\ pc[p] = "lock" /\ locks[m] = Free /\ ~migrated[m].dirty
        /\ UNCHANGED <<migrated, asset, db, command>> /\ locks' = [locks EXCEPT ![m] = p]
        /\ pc' = [pc EXCEPT ![p] = "next"]
    BY <1>2, <2>0 DEF LockMigrations, Goto, database, local
  <2>2. Types'
    <3>1. locks' \in [Tables -> Proc \cup {Free}]
      BY <1>0, <2>1 DEF Types
    <3> QED BY <1>0, <2>1, <3>1, TypesKeep DEF Types
  <2>3. /\ EmitWorks' /\ Told' /\ \A o, w : Level(o, w) => Level(o, w)'
    BY <2>1 DEF Sound, EmitWorks, Told, Level
  <2>4. ASSUME NEW q \in Proc \ {p} PROVE Turn(q)'
    <3>1. pc'[q] = pc[q] /\ \A o \in Tables : locks[o] = q => locks'[o] = q
      BY <1>0, <2>1 DEF Types
    <3>2. \A o \in Tables : locks[o] = q =>
             /\ locks'[o] = q
             /\ migrated'[o].version = migrated[o].version /\ migrated'[o].dirty = migrated[o].dirty
             /\ \A w \in Nat : Level(o, w) => Level(o, w)'
      BY <2>1, <2>3, <3>1
    <3> QED BY <2>1, <3>1, <3>2, OthersKeepTurn
  <2>5. Turn(p)'
    <3>1. Current(p)' = m /\ pc'[p] = "next" /\ locks'[m] = p /\ ~migrated'[m].dirty
      BY <1>0, <2>0, <2>1 DEF Current, Is, Types
    <3>2. Is(p, "destroy") /\ asset[p] = 2 => Reverted("injector")
      BY <2>1 DEF Sound, Turn
    <3>3. Is(p, "destroy")' /\ asset'[p] = 2 => Reverted("injector")'
      BY <2>1, <3>2 DEF Is, Reverted
    <3> QED BY <3>1, <3>3 DEF Turn
  <2> QED BY <2>2, <2>3, <2>4, <2>5
<1> QED BY <1>1, <1>2

\* A step that writes to the table its process holds, or to none.
LEMMA OthersUndisturbed ==
  ASSUME Sound, NEW p \in Proc, Step(p), NEW m \in Tables, locks[m] = p,
         locks' = locks \/ Unlocked(p), NEW l, pc' = [pc EXCEPT ![p] = l],
         \A q \in Proc \ {p} : asset'[q] = asset[q],
         \A o \in Tables \ {m} : /\ migrated'[o] = migrated[o]
                                 /\ \A w \in Nat : Level(o, w) => Level(o, w)'
  PROVE  \A q \in Proc \ {p} : Turn(q)'
<1> SUFFICES ASSUME NEW q \in Proc \ {p} PROVE Turn(q)'
  OBVIOUS
<1>1. pc[p] # "idle" /\ command' = command
  BY Moves DEF Sound
<1>2. pc'[q] = pc[q] /\ \A o \in Tables : locks[o] = q => locks'[o] = q /\ o # m
  BY DEF Sound, Types, Unlocked
<1>3. \A o \in Tables : locks[o] = q =>
         /\ locks'[o] = q
         /\ migrated'[o].version = migrated[o].version /\ migrated'[o].dirty = migrated[o].dirty
         /\ \A w \in Nat : Level(o, w) => Level(o, w)'
  BY <1>2
<1> QED BY <1>1, <1>2, <1>3, OthersKeepTurn

\* The version that is set is dirty, so its level is only the process's to know; a
\* command that is at the end of one table leaves it as it must be for the next.
LEMMA SoundNext ==
  ASSUME Sound, NEW p \in Proc, Step(p), NextMigration(p)
  PROVE  Types' /\ EmitWorks' /\ Told' /\ \A q \in Proc : Turn(q)'
<1>0. Types /\ command' = command /\ command[p] \in Invocation
  BY Moves DEF Sound, Types
<1>m. PICK m \in Tables : m = Current(p)
  BY <1>0, CurrentIsTable
<1> DEFINE v == migrated[m].version
<1>1. /\ pc[p] = "next" /\ locks[m] = p /\ ~migrated[m].dirty /\ UNCHANGED db
      /\ v \in 0..Migrations[m] /\ Migrations[m] \in 0..5
      /\ Is(p, "destroy") /\ asset[p] = 2 => Reverted("injector") /\ m = "core"
  <2>1. pc[p] = "next" /\ UNCHANGED db
    BY DEF NextMigration
  <2>2. v \in 0..Migrations[m] /\ Migrations[m] \in 0..5
    BY <1>0 DEF Types, Migrations, Tables
  <2>3. Turn(p)
    BY DEF Sound
  <2>4. Is(p, "destroy") /\ asset[p] = 2 => Reverted("injector") /\ m = "core"
    BY <1>0, <1>m, <2>1, <2>3, TablesOfCommand DEF Turn
  <2> QED BY <1>m, <2>1, <2>2, <2>3, <2>4 DEF Turn
<1>2. CASE v = (IF Is(p, "destroy") THEN 0 ELSE Migrations[m])
  <2> DEFINE after == IF Is(p, "destroy") THEN "remove"
                      ELSE IF command[p].only THEN "succeed" ELSE "slot"
  <2>1. NextAsset(p, "lock", after) /\ Unlocked(p) /\ UNCHANGED migrated
    BY <1>m, <1>2 DEF NextMigration
  <2> HIDE DEF after
  <2>2. /\ asset' \in [Proc -> {1, 2}] /\ \A q \in Proc : asset'[q] = 2 => command[q].injector
        /\ \A q \in Proc \ {p} : asset'[q] = asset[q]
        /\ \/ /\ asset[p] = 1 /\ command[p].injector /\ asset'[p] = 2
              /\ pc' = [pc EXCEPT ![p] = "lock"]
           \/ /\ asset[p] = 2 \/ ~command[p].injector
              /\ asset'[p] = 1
              /\ pc' = [pc EXCEPT ![p] = after]
    BY <1>0, <2>1, NextAssetMoves
  <2>3. Types'
    BY <1>0, <1>1, <2>1, <2>2, TypesKeep DEF Types
  <2>4. EmitWorks' /\ Told' /\ \A o, w : Level(o, w) => Level(o, w)'
    BY <1>1, <2>1 DEF Sound, EmitWorks, Told, Level
  <2>5. \A q \in Proc \ {p} : Turn(q)'
    BY <1>1, <2>1, <2>2, <2>4, OthersUndisturbed
  <2>6. Turn(p)'
    <3>1. CASE /\ asset[p] = 1 /\ command[p].injector /\ asset'[p] = 2
               /\ pc' = [pc EXCEPT ![p] = "lock"]
      <4>1. pc'[p] = "lock"
        BY <1>0, <3>1 DEF Types
      <4>2. Is(p, "destroy") => m = "injector" /\ v = 0
        BY <1>0, <1>m, <1>2, <3>1, TablesOfCommand
      <4>3. Is(p, "destroy")' => Reverted("injector")'
        BY <1>0, <1>1, <2>1, <4>2 DEF Is, Reverted
      <4> QED BY <4>1, <4>3 DEF Turn
    <3>2. CASE (asset[p] = 2 \/ ~command[p].injector) /\ pc' = [pc EXCEPT ![p] = after]
      <4>1. pc'[p] = after /\ Is(p, "destroy")' = Is(p, "destroy")
        BY <1>0, <3>2 DEF Types, Is
      <4>2. CASE Is(p, "destroy")
        <5>1. m = "core" /\ v = 0
          BY <1>0, <1>m, <1>2, <3>2, <4>2, TablesOfCommand
        <5>2. Reverted("core") /\ (command[p].injector => Reverted("injector"))
          <6>1. Reverted("core")
            BY <1>1, <5>1 DEF Reverted
          <6>2. command[p].injector => asset[p] = 2
            BY <3>2
          <6> QED BY <1>1, <4>2, <6>1, <6>2
        <5>3. \A o \in Tables : (o = "injector" => command'[p].injector) => Reverted(o)'
          BY <1>0, <2>1, <5>2 DEF Tables, Reverted
        <5>4. pc'[p] = "remove"
          BY <4>1, <4>2 DEF after
        <5> QED BY <4>1, <4>2, <5>3, <5>4 DEF Turn
      <4>3. CASE ~Is(p, "destroy")
        <5>1. pc'[p] \in {"succeed", "slot"}
          BY <4>1, <4>3 DEF after
        <5> QED BY <5>1 DEF Turn
      <4> QED BY <4>2, <4>3
    <3> QED BY <2>2, <3>1, <3>2
  <2> QED BY <2>3, <2>4, <2>5, <2>6
<1>3. CASE v # (IF Is(p, "destroy") THEN 0 ELSE Migrations[m])
  <2> DEFINE w == IF Is(p, "destroy") THEN v - 1 ELSE v + 1
  <2>1. /\ migrated' = [migrated EXCEPT ![m] = [exists |-> TRUE, dirty |-> TRUE, version |-> w]]
        /\ pc' = [pc EXCEPT ![p] = "run"] /\ UNCHANGED <<asset, locks>>
    BY <1>m, <1>3 DEF NextMigration, Goto
  <2>2. w \in 0..Migrations[m] /\ w \in 0..5
    BY <1>1, <1>3
  <2>3. /\ migrated' \in [Tables -> [exists : BOOLEAN, version : 0..5, dirty : BOOLEAN]]
        /\ migrated'[m] = [exists |-> TRUE, dirty |-> TRUE, version |-> w]
        /\ \A o \in Tables \ {m} : migrated'[o] = migrated[o]
    <3> HIDE DEF w
    <3> QED BY <1>0, <2>1, <2>2 DEF Types
  <2>4. Types'
    <3>1. \A o \in Tables : migrated'[o].version <= Migrations[o]
      BY <1>0, <2>2, <2>3 DEF Types
    <3> QED BY <1>0, <1>1, <2>1, <2>3, <3>1, TypesKeep DEF Types
  <2>5. \A o, u : Level(o, u) => Level(o, u)'
    BY <1>1 DEF Level
  <2>6. EmitWorks'
    BY <1>1 DEF Sound, EmitWorks
  <2>7. Told'
    <3> SUFFICES ASSUME NEW o \in Tables, ~migrated'[o].dirty
                 PROVE  \A u : u = migrated'[o].version => Level(o, u)'
      BY DEF Told, Level
    <3>1. o # m /\ migrated'[o] = migrated[o]
      BY <2>3
    <3> QED BY <2>5, <3>1 DEF Sound, Told
  <2>8. \A q \in Proc \ {p} : Turn(q)'
    BY <1>1, <2>1, <2>3, <2>5, OthersUndisturbed
  <2>9. Turn(p)'
    <3>1. /\ pc'[p] = "run" /\ locks'[m] = p /\ migrated'[m].dirty
          /\ Current(p)' = m /\ Is(p, "destroy")' = Is(p, "destroy")
      BY <1>0, <1>m, <1>1, <2>1, <2>3 DEF Types, Current, Is
    <3>2. Before(p)' = v
      <4>1. migrated'[m].version = w
        BY <2>3
      <4> QED BY <1>1, <3>1, <4>1 DEF Before
    <3>3. Level(m, v)
      BY <1>1 DEF Sound, Told
    <3>4. \A u : u = v => Level(m, u)'
      BY <2>5, <3>3
    <3>5. Level(Current(p), Before(p))'
      BY <3>1, <3>2, <3>4 DEF Level
    <3>6. Is(p, "destroy") /\ asset[p] = 2 => Reverted("injector")'
      BY <1>1, <2>3 DEF Reverted, Tables
    <3> HIDE DEF v
    <3> QED BY <1>1, <2>1, <3>1, <3>2, <3>5, <3>6 DEF Turn
  <2> QED BY <2>4, <2>6, <2>7, <2>8, <2>9
<1> QED BY <1>2, <1>3

\* The file that runs makes the level that the dirty version announces.
LEMMA SoundRun ==
  ASSUME Sound, NEW p \in Proc, Step(p), RunMigration(p)
  PROVE  Types' /\ EmitWorks' /\ Told' /\ \A q \in Proc : Turn(q)'
<1>0. Types /\ EmitWorks /\ command' = command /\ Turn(p)
  BY Moves DEF Sound
<1>m. PICK m \in Tables : m = Current(p)
  BY <1>0, CurrentIsTable
<1>v. PICK v \in 0..Migrations[m] : v = migrated[m].version
  BY <1>0 DEF Types, Migrations, Tables
<1>b. PICK b \in 0..Migrations[m] : b = Before(p) /\ Level(m, b)
  BY <1>0, <1>m DEF Turn, RunMigration
<1>1. /\ pc[p] = "run" /\ locks[m] = p /\ migrated[m].dirty /\ UNCHANGED <<migrated, asset>>
      /\ Migrations[m] \in 0..5 /\ b = IF Is(p, "destroy") THEN v + 1 ELSE v - 1
      /\ Is(p, "destroy") /\ asset[p] = 2 => Reverted("injector")
  <2>1. pc[p] = "run" /\ UNCHANGED <<migrated, asset>>
    BY DEF RunMigration, local
  <2>2. Migrations[m] \in 0..5
    BY DEF Migrations, Tables
  <2> QED BY <1>0, <1>m, <1>v, <1>b, <2>1, <2>2 DEF Turn, Before
<1>2. CASE ~Is(p, "destroy") /\ UpFails(m, v, db)
  <2>1. UNCHANGED <<migrated, asset, db>> /\ Unlocked(p) /\ pc' = [pc EXCEPT ![p] = "idle"]
    BY <1>m, <1>v, <1>2 DEF RunMigration, Returns, Goto, local
  <2> QED BY <2>1, SoundOutside DEF Labels
<1>3. CASE Is(p, "destroy") \/ ~UpFails(m, v, db)
  <2>1. /\ pc' = [pc EXCEPT ![p] = "clean"] /\ UNCHANGED locks
        /\ \/ Is(p, "destroy") /\ db' = Down(m, v + 1, db)
           \/ ~Is(p, "destroy") /\ ~UpFails(m, v, db) /\ db' = Up(m, v, db)
    BY <1>m, <1>v, <1>3 DEF RunMigration, GoesTo, Goto
  <2>2. /\ db' \in [emit : Bodies, triggers : SUBSET Triggers, helpers : SUBSET Helpers]
        /\ EmitWorks' /\ \A u : u = v => Level(m, u)'
        /\ \A o \in Tables \ {m} : \A u \in Nat : Level(o, u) => Level(o, u)'
    <3>1. CASE Is(p, "destroy") /\ db' = Down(m, v + 1, db)
      <4>1. v + 1 \in 1..Migrations[m] /\ Level(m, v + 1) /\ (v + 1) - 1 = v
        BY <1>b, <1>1, <3>1
      <4>2. \A x \in 1..Migrations[m] : x = v + 1 =>
              /\ db' \in [emit : Bodies, triggers : SUBSET Triggers, helpers : SUBSET Helpers]
              /\ EmitWorks' /\ Level(m, x - 1)'
              /\ \A o \in Tables \ {m} : \A u \in Nat : Level(o, u) => Level(o, u)'
        BY <1>0, <3>1, <4>1, DownLeads
      <4> QED BY <4>1, <4>2
    <3>2. CASE ~Is(p, "destroy") /\ ~UpFails(m, v, db) /\ db' = Up(m, v, db)
      <4>1. v \in 1..Migrations[m] /\ Level(m, v - 1)
        BY <1>b, <1>1, <3>2
      <4>2. /\ db' \in [emit : Bodies, triggers : SUBSET Triggers, helpers : SUBSET Helpers]
            /\ EmitWorks' /\ Level(m, v)'
            /\ \A o \in Tables \ {m} : \A u \in Nat : Level(o, u) => Level(o, u)'
        BY <1>0, <3>2, <4>1, UpLeads
      <4> QED BY <4>2
    <3> QED BY <2>1, <3>1, <3>2
  <2>3. Types'
    BY <1>0, <1>1, <2>1, <2>2, TypesKeep DEF Types
  <2>4. Told'
    <3> SUFFICES ASSUME NEW o \in Tables, ~migrated'[o].dirty
                 PROVE  \A u : u = migrated'[o].version => Level(o, u)'
      BY DEF Told, Level
    <3>1. o # m /\ migrated'[o] = migrated[o] /\ migrated[o].version \in Nat
      BY <1>0, <1>1 DEF Types
    <3>2. Level(o, migrated[o].version)
      BY <3>1 DEF Sound, Told
    <3> QED BY <2>2, <3>1, <3>2
  <2>5. \A q \in Proc \ {p} : Turn(q)'
    BY <1>1, <2>1, <2>2, OthersUndisturbed
  <2>6. Turn(p)'
    <3>1. /\ pc'[p] = "clean" /\ locks'[m] = p /\ migrated'[m].dirty /\ migrated'[m].version = v
          /\ Current(p)' = m /\ Is(p, "destroy")' = Is(p, "destroy")
      BY <1>0, <1>m, <1>v, <1>1, <2>1 DEF Types, Current, Is
    <3>2. Level(Current(p), migrated[Current(p)].version)'
      BY <2>2, <3>1 DEF Level
    <3>3. Is(p, "destroy") /\ asset[p] = 2 => Reverted("injector")'
      BY <1>1 DEF Reverted
    <3> QED BY <1>1, <3>1, <3>2, <3>3 DEF Turn
  <2> QED BY <2>2, <2>3, <2>4, <2>5, <2>6
<1> QED BY <1>2, <1>3

\* The mark is taken away from a version whose level has been reached.
LEMMA SoundClean ==
  ASSUME Sound, NEW p \in Proc, Step(p), CleanMigration(p)
  PROVE  Types' /\ EmitWorks' /\ Told' /\ \A q \in Proc : Turn(q)'
<1>0. Types /\ command' = command /\ Turn(p)
  BY Moves DEF Sound
<1>m. PICK m \in Tables : m = Current(p)
  BY <1>0, CurrentIsTable
<1>1. /\ pc[p] = "clean" /\ locks[m] = p /\ UNCHANGED <<asset, locks, db>>
      /\ migrated' = [migrated EXCEPT ![m].dirty = FALSE] /\ pc' = [pc EXCEPT ![p] = "next"]
      /\ Level(m, migrated[m].version)
      /\ Is(p, "destroy") /\ asset[p] = 2 => Reverted("injector")
  BY <1>0, <1>m DEF CleanMigration, GoesTo, Goto, local, Turn
<1>2. /\ migrated' \in [Tables -> [exists : BOOLEAN, version : 0..5, dirty : BOOLEAN]]
      /\ ~migrated'[m].dirty /\ \A o \in Tables : migrated'[o].version = migrated[o].version
      /\ \A o \in Tables \ {m} : migrated'[o] = migrated[o]
  BY <1>0, <1>1, ZenonT(30) DEF Types
<1>3. Types'
  BY <1>0, <1>1, <1>2, TypesKeep DEF Types
<1>4. EmitWorks' /\ \A o, u : Level(o, u) => Level(o, u)'
  BY <1>1 DEF Sound, EmitWorks, Level
<1>5. Told'
  <2> SUFFICES ASSUME NEW o \in Tables, ~migrated'[o].dirty
               PROVE  \A u : u = migrated'[o].version => Level(o, u)'
    BY DEF Told, Level
  <2>1. Level(o, migrated[o].version)
    <3>1. CASE o = m
      BY <1>1, <3>1
    <3>2. CASE o # m
      BY <1>2, <3>2 DEF Sound, Told
    <3> QED BY <3>1, <3>2
  <2> QED BY <1>2, <1>4, <2>1
<1>6. \A q \in Proc \ {p} : Turn(q)'
  <2>1. /\ \A q \in Proc \ {p} : asset'[q] = asset[q]
        /\ \A o \in Tables \ {m} : /\ migrated'[o] = migrated[o]
                                   /\ \A w \in Nat : Level(o, w) => Level(o, w)'
    BY <1>1, <1>2, <1>4
  <2>2. locks[m] = p /\ locks' = locks /\ pc' = [pc EXCEPT ![p] = "next"]
    BY <1>1
  <2> QED BY <2>1, <2>2, OthersUndisturbed
<1>7. Turn(p)'
  <2>1. /\ pc'[p] = "next" /\ locks'[m] = p /\ ~migrated'[m].dirty
        /\ Current(p)' = m /\ Is(p, "destroy")' = Is(p, "destroy")
    <3>1. pc'[p] = "next"
      BY <1>0, <1>1 DEF Types
    <3>2. locks'[m] = p /\ ~migrated'[m].dirty
      BY <1>1, <1>2
    <3>3. Current(p)' = m /\ Is(p, "destroy")' = Is(p, "destroy")
      BY <1>0, <1>m, <1>1 DEF Current, Is
    <3> QED BY <3>1, <3>2, <3>3
  <2>2. Is(p, "destroy") /\ asset[p] = 2 => Reverted("injector")'
    BY <1>1, <1>2 DEF Reverted, Tables
  <2> QED BY <1>1, <2>1, <2>2 DEF Turn
<1> QED BY <1>3, <1>4, <1>5, <1>6, <1>7

\* The tables are dropped when all that they stood for is reverted.
LEMMA SoundDropTables ==
  ASSUME Sound, NEW p \in Proc, Step(p), DropMigrationTables(p)
  PROVE  Types' /\ EmitWorks' /\ Told' /\ \A q \in Proc : Turn(q)'
<1>0. Types /\ command' = command /\ Turn(p) /\ pc[p] # "idle"
  BY Moves DEF Sound
<1>t. PICK t \in Tables : t = Table(p)
  BY <1>0, CurrentIsTable
<1>1. /\ pc[p] = "remove" /\ UNCHANGED <<db, locks>> /\ migrated' = [migrated EXCEPT ![t] = Gone]
      /\ NextAsset(p, "remove", "succeed")
      /\ Is(p, "destroy")
      /\ \A m \in Tables : (m = "injector" => command[p].injector) => Reverted(m)
  BY <1>0, <1>t DEF DropMigrationTables, Turn
<1>2. /\ migrated' \in [Tables -> [exists : BOOLEAN, version : 0..5, dirty : BOOLEAN]]
      /\ \A m \in Tables : /\ migrated'[m].version = migrated[m].version
                           /\ migrated'[m].dirty = migrated[m].dirty
  <2>1. t = "injector" => command[p].injector
    BY <1>0, <1>t, TablesOfCommand DEF Types
  <2>2. Reverted(t)
    BY <1>1, <2>1
  <2> QED BY <1>0, <1>1, <2>2 DEF Types, Gone, Reverted
<1>3. /\ asset' \in [Proc -> {1, 2}] /\ \A q \in Proc : asset'[q] = 2 => command[q].injector
      /\ \A q \in Proc \ {p} : asset'[q] = asset[q]
      /\ \E l \in {"remove", "succeed"} : pc' = [pc EXCEPT ![p] = l]
  BY <1>0, <1>1, NextAssetMoves
<1>4. Types'
  BY <1>0, <1>1, <1>2, <1>3, TypesKeep DEF Types
<1>5. EmitWorks' /\ \A o, u : Level(o, u) => Level(o, u)'
  BY <1>1 DEF Sound, EmitWorks, Level
<1>6. Told'
  <2> SUFFICES ASSUME NEW o \in Tables, ~migrated'[o].dirty
               PROVE  \A u : u = migrated'[o].version => Level(o, u)'
    BY DEF Told, Level
  <2>1. Level(o, migrated[o].version)
    BY <1>2 DEF Sound, Told
  <2> QED BY <1>2, <1>5, <2>1
<1>7. ASSUME NEW q \in Proc \ {p} PROVE Turn(q)'
  <2>1. pc'[q] = pc[q] /\ pc[q] = "idle"
    BY <1>0, <1>1, <1>3 DEF Types, Sound, Alone
  <2> QED BY <2>1 DEF Turn
<1>8. Turn(p)'
  <2>1. pc'[p] \in {"remove", "succeed"} /\ Is(p, "destroy")'
    BY <1>0, <1>1, <1>3 DEF Types, Is
  <2>2. \A m \in Tables : (m = "injector" => command'[p].injector) => Reverted(m)'
    BY <1>0, <1>1, <1>2 DEF Reverted
  <2> QED BY <2>1, <2>2 DEF Turn
<1> QED BY <1>4, <1>5, <1>6, <1>7, <1>8

\* Nothing is left to be called, and nobody else is at work.
LEMMA SoundDropSchema ==
  ASSUME Sound, NEW p \in Proc, Step(p), DropPGStreamSchema(p)
  PROVE  Types' /\ EmitWorks' /\ Told' /\ \A q \in Proc : Turn(q)'
<1>0. Types /\ command' = command /\ Turn(p)
  BY Moves DEF Sound
<1>1. /\ pc[p] = "remove" /\ UNCHANGED <<asset, locks>> /\ pc' = [pc EXCEPT ![p] = "dropSlot"]
      /\ migrated' = [m \in DOMAIN migrated |-> Gone]
      /\ db' = [emit |-> "none", triggers |-> {}, helpers |-> {}]
  BY DEF DropPGStreamSchema, GoesTo, Goto, local
<1>2. migrated' = [m \in Tables |-> Gone]
  BY <1>0, <1>1 DEF Types
<1>3. Types'
  <2>1. /\ migrated' \in [Tables -> [exists : BOOLEAN, version : 0..5, dirty : BOOLEAN]]
        /\ \A m \in Tables : migrated'[m].version = 0 /\ 0 <= Migrations[m]
    BY <1>2 DEF Gone, Tables, Migrations
  <2>2. db' \in [emit : Bodies, triggers : SUBSET Triggers, helpers : SUBSET Helpers]
    BY <1>1 DEF Bodies
  <2> QED BY <1>0, <1>1, <2>1, <2>2, TypesKeep DEF Types
<1>4. EmitWorks'
  BY <1>1 DEF EmitWorks
<1>5. Told'
  BY <1>1, <1>2 DEF Told, Level, Gone
<1>6. ASSUME NEW q \in Proc PROVE Turn(q)'
  <2>1. pc'[q] = IF q = p THEN "dropSlot" ELSE pc[q]
    BY <1>0, <1>1 DEF Types
  <2>2. q # p => pc[q] = "idle"
    BY <1>0, <1>1 DEF Turn, Sound, Alone
  <2> QED BY <2>1, <2>2 DEF Turn
<1> QED BY <1>3, <1>4, <1>5, <1>6

\* The other steps of a command, and its end by a fault.
LEMMA SoundPlain ==
  ASSUME Sound, NEW p \in Proc, Step(p) \/ CutOff(p),
         ~(OpenMigrator(p) \/ LockMigrations(p) \/ NextMigration(p) \/ RunMigration(p)
           \/ CleanMigration(p) \/ DropMigrationTables(p) \/ DropPGStreamSchema(p))
  PROVE  Types' /\ EmitWorks' /\ Told' /\ \A q \in Proc : Turn(q)'
<1> DEFINE Outside == Labels \ {"lock", "next", "run", "clean", "remove"}
<1> USE DEF local, database, GoesTo, Goto, Returns, Labels
<1>1. ASSUME UNCHANGED <<migrated, asset, db>>, locks' = locks \/ Unlocked(p),
             \E l \in Outside : pc' = [pc EXCEPT ![p] = l]
      PROVE  Types' /\ EmitWorks' /\ Told' /\ \A q \in Proc : Turn(q)'
  BY <1>1, SoundOutside
<1>2. CASE CreatePGStreamSchema(p) \/ CheckV09(p)
  <2>1. UNCHANGED <<migrated, asset, db, locks>> /\ \E l \in Outside : pc' = [pc EXCEPT ![p] = l]
    BY <1>2 DEF CreatePGStreamSchema, CheckV09
  <2> QED BY <1>1, <2>1
<1>3. CASE ListTriggers(p) \/ Succeed(p) \/ ValidateSchemaStatus(p)
  <2>1. /\ UNCHANGED <<migrated, asset, db>> /\ (locks' = locks \/ Unlocked(p))
        /\ \E l \in Outside : pc' = [pc EXCEPT ![p] = l]
    BY <1>3 DEF ListTriggers, Succeed, ValidateSchemaStatus
  <2> QED BY <1>1, <2>1
<1>4. CASE DropTrigger(p)
  <2>1. CASE \E t \in listed[p] : db' = [db EXCEPT !.triggers = @ \ {t}] /\ GoesTo(p, "dropTriggers")
                                  /\ UNCHANGED <<migrated, asset>>
    BY <2>1, SoundOutside
  <2>2. CASE GoesTo(p, "dropOld") /\ UNCHANGED <<database, local>>
    <3>1. UNCHANGED <<migrated, asset, db, locks>> /\ \E l \in Outside : pc' = [pc EXCEPT ![p] = l]
      BY <2>2
    <3> QED BY <1>1, <3>1
  <2> QED BY <1>4, <2>1, <2>2 DEF DropTrigger
<1>5. CASE DropOldObject(p)
  <2>1. /\ UNCHANGED <<migrated, asset, db>> /\ (locks' = locks \/ Unlocked(p))
        /\ \E l \in Outside : pc' = [pc EXCEPT ![p] = l]
    BY <1>5 DEF DropOldObject
  <2> QED BY <1>1, <2>1
<1>6. CASE ReplicationSlotExists(p) \/ CreateReplicationSlot(p) \/ DropReplicationSlot(p)
           \/ ValidateReplicationSlotStatus(p)
  <2>1. /\ UNCHANGED <<migrated, asset, db>> /\ (locks' = locks \/ Unlocked(p))
        /\ \E l \in Outside : pc' = [pc EXCEPT ![p] = l]
    BY <1>6 DEF ReplicationSlotExists, CreateReplicationSlot, DropReplicationSlot,
                ValidateReplicationSlotStatus
  <2> QED BY <1>1, <2>1
<1>7. CASE ValidateMigrationStatus(p)
  <2>1. NextAsset(p, "validateVersion", "validateSlot") /\ UNCHANGED <<migrated, db, locks>>
    BY <1>7 DEF ValidateMigrationStatus
  <2>2. \E l \in Outside : pc' = [pc EXCEPT ![p] = l]
    BY <2>1 DEF NextAsset
  <2> QED BY <2>1, <2>2, SoundOutside
<1>8. CASE CutOff(p)
  <2>1. /\ UNCHANGED <<migrated, asset, db>> /\ Unlocked(p)
        /\ \E l \in Outside : pc' = [pc EXCEPT ![p] = l]
    BY <1>8 DEF CutOff
  <2> QED BY <1>1, <2>1
<1> QED BY <1>2, <1>3, <1>4, <1>5, <1>6, <1>7, <1>8
        DEF Step, InitStep, MigratorStep, DestroyStep, StatusStep

\* A command begins with nothing locked.
LEMMA SoundBegin ==
  ASSUME Sound, NEW p \in Proc, NEW c \in Invocations, Begin(p, c)
  PROVE  Types' /\ EmitWorks' /\ Told' /\ \A q \in Proc : Turn(q)'
<1>0. Types /\ c \in Invocation
  BY SetupAssumption DEF Sound
<1> DEFINE first == CASE c.kind \in {"init", "upgrade"} -> "schema"
                      [] c.kind = "destroy" -> "open"
                      [] c.kind = "status" -> "validateSchema"
<1>1. /\ UNCHANGED <<migrated, db, locks>> /\ pc' = [pc EXCEPT ![p] = first]
      /\ command' = [command EXCEPT ![p] = c] /\ asset' = [asset EXCEPT ![p] = 1]
  BY DEF Begin, Goto, database
<1>2. first \in {"schema", "open", "validateSchema"}
  BY <1>0 DEF Invocation
<1> HIDE DEF first
<1>3. first \in Labels \ {"next", "run", "clean", "remove"} /\ first # "lock"
  BY <1>2 DEF Labels
<1>4. Types'
  <2>1. pc' \in [Proc -> Labels] /\ command' \in [Proc -> Invocation] /\ asset' \in [Proc -> {1, 2}]
    BY <1>0, <1>1, <1>3 DEF Types
  <2>2. \A q \in Proc : asset'[q] = 2 => command'[q].injector
    BY <1>0, <1>1 DEF Types
  <2> QED BY <1>0, <1>1, <2>1, <2>2 DEF Types
<1>5. \A q \in Proc \ {p} : command'[q] = command[q] /\ asset'[q] = asset[q]
  BY <1>0, <1>1 DEF Types
<1>6. EmitWorks' /\ Told' /\ \A q \in Proc : Turn(q)'
  <2>1. db'.emit = db.emit /\ db'.helpers = db.helpers /\ db'.triggers \subseteq db.triggers
    BY <1>1
  <2>2. \A m \in Tables : /\ migrated'[m].version = migrated[m].version
                          /\ migrated'[m].dirty = migrated[m].dirty
    BY <1>1
  <2> QED BY <1>1, <1>3, <1>5, <2>1, <2>2, StepsOutside
<1> QED BY <1>4, <1>6

-----------------------------------------------------------------------------
(* The theorem.                                                            *)

\* The database is empty, or as v0.9 left it.
LEMMA SoundInit ==
  ASSUME SetupInit
  PROVE  Sound
<1>1. (CHOOSE c \in Invocations : TRUE) \in Invocation
  BY SetupAssumption
<1>2. /\ pc = [p \in Proc |-> "idle"] /\ command = [p \in Proc |-> CHOOSE c \in Invocations : TRUE]
      /\ asset = [p \in Proc |-> 1] /\ listed = [p \in Proc |-> {}]
      /\ migrated = [m \in Tables |-> Gone] /\ locks = [m \in Tables |-> Free]
      /\ db = [emit |-> "none", triggers |-> {}, helpers |-> {}]
  BY DEF SetupInit, Tables
<1>3. Types
  <2>1. db \in [emit : Bodies, triggers : SUBSET Triggers, helpers : SUBSET Helpers]
    BY <1>2 DEF Bodies
  <2>2. /\ migrated \in [Tables -> [exists : BOOLEAN, version : 0..5, dirty : BOOLEAN]]
        /\ \A m \in Tables : migrated[m].version <= Migrations[m]
    BY <1>2 DEF Gone, Tables, Migrations
  <2>3. pc \in [Proc -> Labels] /\ command \in [Proc -> Invocation] /\ asset \in [Proc -> {1, 2}]
    BY <1>1, <1>2 DEF Labels
  <2>4. \A p \in Proc : asset[p] = 2 => command[p].injector
    BY <1>2
  <2> QED BY <1>2, <2>1, <2>2, <2>3, <2>4 DEF Types
<1>4. Alone /\ EmitWorks /\ \A p \in Proc : Turn(p)
  BY <1>2 DEF Alone, EmitWorks, Turn
<1>5. Told
  BY <1>2 DEF Told, Level, Gone, Tables
<1>6. OldWorks
  <2>1. old \in {{}, OldTriggers \cup ToSet(OldObjects)}
    BY DEF SetupInit
  <2>2. "log_schema" \in ToSet(OldObjects)
    <3>1. OldObjects[1] = "log_schema" /\ 1 \in DOMAIN OldObjects
      BY DEF OldObjects
    <3> QED BY <3>1 DEF ToSet
  <2> QED BY <1>2, <2>1, <2>2 DEF OldWorks
<1> QED BY <1>3, <1>4, <1>5, <1>6 DEF Sound

\* Every step keeps the invariant.
LEMMA SoundStep ==
  ASSUME "destroy" \notin Together, Sound, [SetupNext]_setupVars
  PROVE  Sound'
<1>1. Alone' /\ OldWorks'
  BY AloneStep, OldWorksStep DEF Sound
<1>2. ASSUME NEW p \in Proc, Step(p) \/ CutOff(p)
      PROVE  Types' /\ EmitWorks' /\ Told' /\ \A q \in Proc : Turn(q)'
  <2>1. CASE Step(p) /\ (OpenMigrator(p) \/ LockMigrations(p) \/ NextMigration(p))
    BY <2>1, SoundOpens, SoundLocks, SoundNext
  <2>2. CASE Step(p) /\ (RunMigration(p) \/ CleanMigration(p))
    BY <2>2, SoundRun, SoundClean
  <2>3. CASE Step(p) /\ (DropMigrationTables(p) \/ DropPGStreamSchema(p))
    BY <2>3, SoundDropTables, SoundDropSchema
  <2>4. CASE ~(OpenMigrator(p) \/ LockMigrations(p) \/ NextMigration(p) \/ RunMigration(p)
               \/ CleanMigration(p) \/ DropMigrationTables(p) \/ DropPGStreamSchema(p))
    BY <1>2, <2>4, SoundPlain
  <2>5. CASE CutOff(p)
    <3>1. /\ UNCHANGED <<migrated, asset, db>> /\ Unlocked(p)
          /\ pc' = [pc EXCEPT ![p] = "idle"]
      BY <2>5 DEF CutOff, Returns, Goto, database
    <3> QED BY <2>5, <3>1, SoundOutside DEF Labels
  <2> QED BY <1>2, <2>1, <2>2, <2>3, <2>4, <2>5
<1>3. ASSUME Stream \/ UNCHANGED setupVars
      PROVE  Types' /\ EmitWorks' /\ Told' /\ \A q \in Proc : Turn(q)'
  <2>1. UNCHANGED <<migrated, db, locks, pc, command, asset>>
    BY <1>3 DEF Stream, setupVars, local, database
  <2>2. Types'
    BY <2>1 DEF Sound, Types
  <2>3. EmitWorks' /\ Told'
    BY <2>1 DEF Sound, EmitWorks, Told, Level
  <2>4. \A q \in Proc : Turn(q)'
    <3> SUFFICES ASSUME NEW q \in Proc PROVE Turn(q)'
      OBVIOUS
    <3>1. Turn(q)
      BY DEF Sound
    <3> QED BY <2>1, <3>1 DEF Turn, Level, Before, Current, Is, Reverted
  <2> QED BY <2>2, <2>3, <2>4
<1>4. Types' /\ EmitWorks' /\ Told' /\ \A q \in Proc : Turn(q)'
  BY <1>2, <1>3, SoundBegin DEF SetupNext
<1> QED BY <1>1, <1>4 DEF Sound

\* For any number of processes and commands, from any database, and wherever a
\* command is cut off: the event triggers never call a function or a table that is
\* not there (migrations core and injector, up and down; the clean up of --upgrade),
\* as long as a destroy is not run beside another command.
THEOREM SetUpKeepsDDLWorking ==
  "destroy" \notin Together /\ SetupSpec => []DDLKeepsWorking
<1> SUFFICES ASSUME "destroy" \notin Together PROVE SetupSpec => []DDLKeepsWorking
  OBVIOUS
<1>1. SetupInit => Sound
  BY SoundInit
<1>2. Sound /\ [SetupNext]_setupVars => Sound'
  BY SoundStep
<1>3. Sound => DDLKeepsWorking
  BY DEF Sound, EmitWorks, OldWorks, DDLKeepsWorking
<1> QED BY <1>1, <1>2, <1>3, PTL DEF SetupSpec
-----------------------------------------------------------------------------
(***************************************************************************)
(* Setting up, as meant: an init that nothing cuts off succeeds and leaves *)
(* everything in place, and a clean status tells the truth.                *)
(*                                                                         *)
(* As meant is: one setting of the injector, --upgrade where v0.9 was, and *)
(* no other command beside a destroy or an upgrade.  Then a version tells  *)
(* exactly what the database has (Exactly), the injector's functions are   *)
(* only there on top of all of the core's (InjectorOnCore), the table that *)
(* shows v0.9 goes last and before anything is installed (OldFirst), and   *)
(* only a destroy takes away what a command at work relies on (Persist).   *)
(***************************************************************************)
SetUpAsMeant ==
  /\ {"destroy", "upgrade"} \cap Together = {}
  /\ \A c, d \in Invocations : c.injector = d.injector
  /\ ~InitOnOld

\* All of a table's migrations are applied.
Full(m) == migrated[m].version = Migrations[m] /\ ~migrated[m].dirty

\* What a database with migration v of a table applied has, no more and no less, of
\* the triggers and of the function they call.
Exact(m, v) ==
  IF m = "core" THEN v >= 2 => db.triggers = Triggers /\ db.emit # "none"
  ELSE v >= 3 => db.emit = "injector"

\* What a process in the middle of a file knows of it.
ExactTurn(p) ==
  /\ pc[p] = "run" => Exact(Current(p), Before(p))
  /\ pc[p] = "clean" => Exact(Current(p), migrated[Current(p)].version)

ExactTold == \A m \in Tables : ~migrated[m].dirty => Exact(m, migrated[m].version)

Exactly == ExactTold /\ \A p \in Proc : ExactTurn(p)

InjectorOnCore ==
  /\ ~Reverted("injector") => Full("core")
  /\ (\A c \in Invocations : ~c.injector) => Reverted("injector")

UpgradeAlone ==
  \A p, q \in Proc : p # q /\ pc[p] # "idle" /\ pc[q] # "idle" => ~Is(p, "upgrade")

\* The variables that DDLKeepsWorking does not look at.
MoreTypes ==
  /\ schema \in BOOLEAN /\ old \subseteq OldTriggers \cup ToSet(OldObjects)
  /\ listed \in [Proc -> SUBSET (OldTriggers \cup Triggers)]
  /\ problems \in [Proc -> BOOLEAN] /\ struck \in [Proc -> BOOLEAN]
  /\ outcome \in [Proc -> {"none", "ok", "error", "clean", "problems"}]
  /\ \A p \in Proc : command[p] \in Invocations

\* Which command may be at which label.
OfItsKind(p) ==
  /\ pc[p] \in {"schema", "slot", "createSlot"} => Installs(p)
  /\ pc[p] \in {"cleanup", "list", "dropTriggers", "dropOld"} => Is(p, "upgrade")
  /\ pc[p] \in {"remove", "dropSlot"} => Is(p, "destroy")
  /\ pc[p] \in {"validateSchema", "validateVersion", "validateSlot"} => Is(p, "status")
  /\ pc[p] \in {"lock", "next", "run", "clean", "succeed"} => ~Is(p, "status")

InMigrator == {"lock", "next", "run", "clean"}
Behind == {"slot", "createSlot", "succeed"}

\* As long as anything of v0.9 is left, the table that shows it is, and nothing is
\* installed.
OldFirst == old # {} => "schema_migrations" \in old /\ \A m \in Tables : Reverted(m)

\* Nothing of v0.9 is left behind the clean up, and no trigger of it behind its
\* first half.
CleansUp(p) ==
  /\ Is(p, "init") /\ pc[p] # "idle" => old = {}
  /\ Installs(p) /\ pc[p] \in {"open"} \cup InMigrator \cup Behind => old = {}
  /\ pc[p] \in {"list", "dropTriggers"} => old # {}
  /\ pc[p] = "dropTriggers" => old \cap OldTriggers \subseteq listed[p]
  /\ pc[p] = "dropOld" => old \cap OldTriggers = {}

\* The tables of a command, with the injector's or without.
Mine(p) == {m \in Tables : m = "injector" => command[p].injector}

\* What an init has made, or has found made.
Installing(p) ==
  Installs(p) =>
    /\ pc[p] \notin {"idle", "schema"} => schema
    /\ pc[p] \in {"schema", "cleanup", "list", "dropTriggers", "dropOld"} => asset[p] = 1
    /\ pc[p] = "open" /\ asset[p] = 2 => migrated["core"].exists
    /\ pc[p] \in InMigrator => \A m \in Mine(p) : migrated[m].exists
    /\ pc[p] \in InMigrator /\ asset[p] = 2 => Full("core")
    /\ pc[p] \in Behind => \A m \in Mine(p) : Full(m)
    /\ pc[p] = "succeed" /\ ~command[p].only => slot # "none"

\* What a status that has noted no problem has seen, and still is.
Checking(p) ==
  Is(p, "status") /\ ~problems[p] =>
    /\ pc[p] \in {"open", "validateVersion", "validateSlot"} => schema
    /\ pc[p] = "validateVersion" /\ asset[p] = 2 => Full("core")
    /\ pc[p] = "validateSlot" => \A m \in Mine(p) : Full(m)

\* What a step of one process leaves to the others.
LEMMA OthersStand ==
  ASSUME Types, MoreTypes, NEW p \in Proc, Step(p) \/ CutOff(p), NEW q \in Proc \ {p}
  PROVE  /\ pc'[q] = pc[q] /\ command'[q] = command[q] /\ asset'[q] = asset[q]
         /\ listed'[q] = listed[q] /\ problems'[q] = problems[q] /\ outcome'[q] = outcome[q]
<1>0. asset \in [Proc -> {1, 2}] /\ listed \in [Proc -> SUBSET (OldTriggers \cup Triggers)]
      /\ problems \in [Proc -> BOOLEAN] /\ q # p
      /\ outcome \in [Proc -> {"none", "ok", "error", "clean", "problems"}]
  BY DEF Types, MoreTypes
<1>1. pc'[q] = pc[q] /\ command'[q] = command[q]
  BY Moves DEF Types
<1>2. /\ asset' = asset \/ \E a, b : NextAsset(p, a, b)
      /\ listed' = listed \/ \E s : listed' = [listed EXCEPT ![p] = s]
      /\ problems' = problems \/ \E s : problems' = [problems EXCEPT ![p] = s]
      /\ outcome' = outcome \/ \E s : outcome' = [outcome EXCEPT ![p] = s]
  <2> USE DEF local, GoesTo, Returns
  <2>1. CASE InitStep(p)
    BY <2>1 DEF InitStep, CreatePGStreamSchema, CheckV09, ListTriggers, DropTrigger, DropOldObject,
                ReplicationSlotExists, CreateReplicationSlot, Succeed
  <2>2. CASE MigratorStep(p)
    BY <2>2 DEF MigratorStep, OpenMigrator, LockMigrations, NextMigration, RunMigration,
                CleanMigration
  <2>3. CASE DestroyStep(p)
    BY <2>3 DEF DestroyStep, DropMigrationTables, DropPGStreamSchema, DropReplicationSlot
  <2>4. CASE StatusStep(p)
    BY <2>4 DEF StatusStep, ValidateSchemaStatus, ValidateMigrationStatus, Notes,
                ValidateReplicationSlotStatus
  <2>5. CASE CutOff(p)
    BY <2>5 DEF CutOff
  <2> QED BY <2>1, <2>2, <2>3, <2>4, <2>5 DEF Step
<1>3. asset'[q] = asset[q]
  BY <1>2, NextAssetMoves
<1> QED BY <1>0, <1>1, <1>2, <1>3

\* A step of a process keeps the types of what only these theorems look at.
LEMMA MoreTypesStep ==
  ASSUME Types, MoreTypes, [SetupNext]_setupVars
  PROVE  MoreTypes'
<1> USE DEF local, database, GoesTo, Returns
<1> DEFINE Outcomes == {"none", "ok", "error", "clean", "problems"}
<1>0. /\ db.triggers \subseteq Triggers
      /\ listed \in [Proc -> SUBSET (OldTriggers \cup Triggers)]
      /\ problems \in [Proc -> BOOLEAN] /\ struck \in [Proc -> BOOLEAN]
      /\ outcome \in [Proc -> Outcomes] /\ schema \in BOOLEAN
  BY DEF Types, MoreTypes
<1>1. ASSUME NEW p \in Proc, Step(p) \/ CutOff(p) PROVE MoreTypes'
  <2>1. /\ schema' = schema \/ schema' \in BOOLEAN
        /\ old' = old \/ (\E o : old' = old \ {o}) \/ old' = {}
        /\ \/ listed' = listed
           \/ listed' = [listed EXCEPT ![p] = (old \cap OldTriggers) \cup db.triggers]
           \/ \E t : listed' = [listed EXCEPT ![p] = @ \ {t}]
        /\ problems' = problems \/ \E s \in BOOLEAN : problems' = [problems EXCEPT ![p] = s]
        /\ struck' = struck \/ struck' = [struck EXCEPT ![p] = TRUE]
        /\ outcome' = outcome \/ \E s \in Outcomes : outcome' = [outcome EXCEPT ![p] = s]
    <3>1. CASE InitStep(p)
      BY <3>1 DEF InitStep, CreatePGStreamSchema, CheckV09, ListTriggers, DropTrigger, DropOldObject,
                  ReplicationSlotExists, CreateReplicationSlot, Succeed
    <3>2. CASE MigratorStep(p)
      BY <3>2 DEF MigratorStep, OpenMigrator, LockMigrations, NextMigration, RunMigration,
                  CleanMigration
    <3>3. CASE DestroyStep(p)
      BY <3>3 DEF DestroyStep, DropMigrationTables, DropPGStreamSchema, DropReplicationSlot
    <3>4. CASE StatusStep(p)
      BY <1>0, <3>4 DEF StatusStep, ValidateSchemaStatus, ValidateMigrationStatus, Notes,
                  ValidateReplicationSlotStatus
    <3>5. CASE CutOff(p)
      BY <3>5 DEF CutOff
    <3> QED BY <1>1, <3>1, <3>2, <3>3, <3>4, <3>5 DEF Step
  <2>2. command' = command
    BY <1>1, Moves
  <2>3. schema' \in BOOLEAN /\ old' \subseteq old
    BY <1>0, <2>1
  <2>4. listed' \in [Proc -> SUBSET (OldTriggers \cup Triggers)]
    BY <1>0, <2>1
  <2>5. problems' \in [Proc -> BOOLEAN] /\ struck' \in [Proc -> BOOLEAN]
    BY <1>0, <2>1
  <2>6. outcome' \in [Proc -> Outcomes]
    BY <1>0, <2>1
  <2> QED BY <2>2, <2>3, <2>4, <2>5, <2>6 DEF MoreTypes
<1>2. ASSUME NEW p \in Proc, NEW c \in Invocations, Begin(p, c) PROVE MoreTypes'
  <2>1. /\ UNCHANGED <<schema, old>> /\ command' = [command EXCEPT ![p] = c]
        /\ listed' = [listed EXCEPT ![p] = {}] /\ problems' = [problems EXCEPT ![p] = FALSE]
        /\ struck' = [struck EXCEPT ![p] = FALSE] /\ outcome' = [outcome EXCEPT ![p] = "none"]
    BY <1>2 DEF Begin
  <2>2. \A q \in Proc : command'[q] \in Invocations
    BY <2>1 DEF Types, MoreTypes
  <2> QED BY <1>0, <2>1, <2>2 DEF MoreTypes
<1>3. CASE Stream \/ UNCHANGED setupVars
  BY <1>3 DEF Stream, setupVars, MoreTypes
<1> QED BY <1>1, <1>2, <1>3 DEF SetupNext

\* The label a command begins at.
First(c) ==
  CASE c.kind \in {"init", "upgrade"} -> "schema"
    [] c.kind = "destroy" -> "open"
    [] c.kind = "status" -> "validateSchema"

LEMMA Begins ==
  ASSUME Types, MoreTypes, NEW p \in Proc, NEW c \in Invocations, Begin(p, c)
  PROVE  /\ pc[p] = "idle" /\ pc'[p] = First(c) /\ command'[p] = c /\ asset'[p] = 1
         /\ listed'[p] = {} /\ ~problems'[p] /\ outcome'[p] = "none"
         /\ UNCHANGED <<database, locks>>
         /\ \A q \in Proc \ {p} :
              /\ pc'[q] = pc[q] /\ command'[q] = command[q] /\ asset'[q] = asset[q]
              /\ listed'[q] = listed[q] /\ problems'[q] = problems[q] /\ outcome'[q] = outcome[q]
         /\ \/ c.kind \in {"init", "upgrade"} /\ pc'[p] = "schema"
            \/ c.kind = "destroy" /\ pc'[p] = "open"
            \/ c.kind = "status" /\ pc'[p] = "validateSchema"
         /\ c.kind = "init" /\ old # {} => InitOnOld
<1>1. c.kind \in {"init", "upgrade", "destroy", "status"}
  BY SetupAssumption DEF Invocation
<1>2. /\ pc[p] = "idle" /\ UNCHANGED <<database, locks>> /\ pc' = [pc EXCEPT ![p] = First(c)]
      /\ command' = [command EXCEPT ![p] = c] /\ asset' = [asset EXCEPT ![p] = 1]
      /\ listed' = [listed EXCEPT ![p] = {}] /\ problems' = [problems EXCEPT ![p] = FALSE]
      /\ outcome' = [outcome EXCEPT ![p] = "none"]
      /\ c.kind = "init" /\ old # {} => InitOnOld
  BY DEF Begin, Goto, First
<1>3. /\ pc'[p] = First(c) /\ command'[p] = c /\ asset'[p] = 1
      /\ listed'[p] = {} /\ ~problems'[p] /\ outcome'[p] = "none"
  BY <1>2 DEF Types, MoreTypes
<1>4. \A q \in Proc \ {p} :
        /\ pc'[q] = pc[q] /\ command'[q] = command[q] /\ asset'[q] = asset[q]
        /\ listed'[q] = listed[q] /\ problems'[q] = problems[q] /\ outcome'[q] = outcome[q]
  BY <1>2 DEF Types, MoreTypes
<1>5. \/ c.kind \in {"init", "upgrade"} /\ First(c) = "schema"
      \/ c.kind = "destroy" /\ First(c) = "open"
      \/ c.kind = "status" /\ First(c) = "validateSchema"
  BY <1>1 DEF First
<1> QED BY <1>2, <1>3, <1>4, <1>5

\* Only a destroy takes away what the others rely on.
LEMMA Persist ==
  ASSUME Types, NEW p \in Proc, Step(p) \/ CutOff(p), ~Is(p, "destroy"), OfItsKind(p)
  PROVE  /\ schema => schema'
         /\ \A m \in Tables : /\ migrated[m].exists => migrated'[m].exists
                              /\ Full(m) => Full(m)'
         /\ slot # "none" => slot' # "none"
         /\ old' \subseteq old
<1> USE DEF local, database, GoesTo, Returns
<1>0. command[p] \in Invocation /\ pc[p] \notin {"remove", "dropSlot"}
  BY DEF Types, OfItsKind
<1>1. CASE CutOff(p)
  BY <1>1 DEF CutOff, Full
<1>2. CASE InitStep(p)
  BY <1>2 DEF InitStep, CreatePGStreamSchema, CheckV09, ListTriggers, DropTrigger, DropOldObject,
              ReplicationSlotExists, CreateReplicationSlot, Succeed, Full
<1>3. CASE StatusStep(p)
  BY <1>3 DEF StatusStep, ValidateSchemaStatus, ValidateMigrationStatus,
              ValidateReplicationSlotStatus, Full
<1>4. CASE DestroyStep(p)
  BY <1>0, <1>4 DEF DestroyStep, DropMigrationTables, DropPGStreamSchema, DropReplicationSlot
<1>5. CASE MigratorStep(p)
  <2>0. PICK m \in Tables : m = Current(p)
    BY CurrentIsTable
  <2>t. PICK t \in Tables : t = Table(p)
    BY CurrentIsTable
  <2>1. UNCHANGED <<schema, slot, old>>
    BY <1>5 DEF MigratorStep, OpenMigrator, LockMigrations, NextMigration, RunMigration,
                CleanMigration
  <2>2. \/ UNCHANGED migrated
        \/ migrated' = [migrated EXCEPT ![t].exists = TRUE]
        \/ migrated' = [migrated EXCEPT ![m].dirty = FALSE]
        \/ \E v : /\ migrated' = [migrated EXCEPT
                       ![m] = [exists |-> TRUE, dirty |-> TRUE, version |-> v]]
                  /\ migrated[m].version # Migrations[m]
    BY <1>5, <2>0, <2>t DEF MigratorStep, OpenMigrator, LockMigrations, NextMigration, RunMigration,
                CleanMigration
  <2>3. \A o \in Tables : /\ migrated[o].exists => migrated'[o].exists
                          /\ Full(o) => Full(o)'
    <3>1. CASE UNCHANGED migrated
      BY <3>1 DEF Full
    <3>2. CASE migrated' = [migrated EXCEPT ![t].exists = TRUE]
      BY <3>2 DEF Full, Types
    <3>3. CASE migrated' = [migrated EXCEPT ![m].dirty = FALSE]
      BY <3>3 DEF Full, Types
    <3>4. ASSUME NEW v,
                 migrated' = [migrated EXCEPT
                   ![m] = [exists |-> TRUE, dirty |-> TRUE, version |-> v]],
                 migrated[m].version # Migrations[m]
          PROVE  \A o \in Tables : /\ migrated[o].exists => migrated'[o].exists
                                   /\ Full(o) => Full(o)'
      BY <3>4 DEF Full, Types
    <3> QED BY <2>2, <3>1, <3>2, <3>3, <3>4
  <2> QED BY <2>1, <2>3
<1> QED BY <1>1, <1>2, <1>3, <1>4, <1>5 DEF Step

\* A command only goes where its kind goes.
LEMMA KindsStep ==
  ASSUME Types, MoreTypes, \A q \in Proc : OfItsKind(q), [SetupNext]_setupVars
  PROVE  \A q \in Proc : OfItsKind(q)'
<1> SUFFICES ASSUME NEW q \in Proc PROVE OfItsKind(q)'
  OBVIOUS
<1>0. OfItsKind(q) /\ pc \in [Proc -> Labels] /\ command[q] \in Invocation
  BY DEF Types
<1>1. ASSUME NEW p \in Proc \ {q}, Step(p) \/ CutOff(p) PROVE OfItsKind(q)'
  <2>1. pc'[q] = pc[q] /\ command'[q] = command[q]
    BY <1>1, OthersStand
  <2> QED BY <1>0, <2>1 DEF OfItsKind, Installs, Is
<1>2. ASSUME Step(q) \/ CutOff(q) PROVE OfItsKind(q)'
  <2>0. command' = command
    BY <1>2, Moves
  <2>1. ASSUME NEW l, pc' = [pc EXCEPT ![q] = l],
               l \in {"schema", "slot", "createSlot"} => Installs(q),
               l \in {"cleanup", "list", "dropTriggers", "dropOld"} => Is(q, "upgrade"),
               l \in {"remove", "dropSlot"} => Is(q, "destroy"),
               l \in {"validateSchema", "validateVersion", "validateSlot"} => Is(q, "status"),
               l \in {"lock", "next", "run", "clean", "succeed"} => ~Is(q, "status")
        PROVE  OfItsKind(q)'
    <3>1. pc'[q] = l
      BY <1>0, <2>1
    <3> QED BY <2>0, <2>1, <3>1 DEF OfItsKind, Installs, Is
  <2> USE <1>0 DEF OfItsKind, Installs, Is, GoesTo, Goto, Returns
  <2>2. CASE CreatePGStreamSchema(q) \/ CheckV09(q) \/ ListTriggers(q)
    BY <2>1, <2>2 DEF CreatePGStreamSchema, CheckV09, ListTriggers
  <2>3. CASE DropTrigger(q) \/ DropOldObject(q)
    BY <2>1, <2>3 DEF DropTrigger, DropOldObject
  <2>4. CASE ReplicationSlotExists(q) \/ CreateReplicationSlot(q) \/ Succeed(q) \/ CutOff(q)
    BY <2>1, <2>4 DEF ReplicationSlotExists, CreateReplicationSlot, Succeed, CutOff
  <2>5. CASE OpenMigrator(q)
    <3>1. CASE ~schema
      BY <2>1, <2>5, <3>1 DEF OpenMigrator
    <3>2. CASE schema
      <4>1. \/ pc' = [pc EXCEPT ![q] = "open"]
            \/ /\ Is(q, "status") /\ pc' = [pc EXCEPT ![q] = "validateVersion"]
            \/ /\ ~Is(q, "status") /\ pc' = [pc EXCEPT ![q] = "lock"]
        BY <2>5, <3>2 DEF OpenMigrator, NextAsset, Invocation
      <4> QED BY <2>1, <4>1
    <3> QED BY <3>1, <3>2
  <2>6. CASE LockMigrations(q) \/ RunMigration(q) \/ CleanMigration(q)
    BY <2>1, <2>6 DEF LockMigrations, RunMigration, CleanMigration
  <2>7. CASE NextMigration(q)
    <3>1. \/ pc' = [pc EXCEPT ![q] = "lock"] \/ pc' = [pc EXCEPT ![q] = "run"]
          \/ Is(q, "destroy") /\ pc' = [pc EXCEPT ![q] = "remove"]
          \/ ~Is(q, "destroy") /\ pc' = [pc EXCEPT ![q] = "succeed"]
          \/ ~Is(q, "destroy") /\ pc' = [pc EXCEPT ![q] = "slot"]
      BY <2>7 DEF NextMigration, NextAsset
    <3>2. ~Is(q, "status") /\ (~Is(q, "destroy") => Installs(q))
      BY <2>7 DEF NextMigration, Invocation
    <3> HIDE DEF Installs, Is
    <3> QED BY <2>1, <3>1, <3>2
  <2>8. CASE DestroyStep(q)
    <3>1. \/ pc' = [pc EXCEPT ![q] = "remove"] \/ pc' = [pc EXCEPT ![q] = "succeed"]
          \/ pc' = [pc EXCEPT ![q] = "dropSlot"] \/ pc' = [pc EXCEPT ![q] = "idle"]
      BY <2>8 DEF DestroyStep, DropMigrationTables, DropPGStreamSchema, DropReplicationSlot, NextAsset
    <3>2. Is(q, "destroy")
      BY <2>8 DEF DestroyStep, DropMigrationTables, DropPGStreamSchema, DropReplicationSlot
    <3> QED BY <2>1, <3>1, <3>2
  <2>9. CASE StatusStep(q)
    <3>1. \/ pc' = [pc EXCEPT ![q] = "open"] \/ pc' = [pc EXCEPT ![q] = "validateVersion"]
          \/ pc' = [pc EXCEPT ![q] = "validateSlot"] \/ pc' = [pc EXCEPT ![q] = "idle"]
      BY <2>9 DEF StatusStep, ValidateSchemaStatus, ValidateMigrationStatus, NextAsset,
                  ValidateReplicationSlotStatus
    <3>2. Is(q, "status")
      BY <2>9 DEF StatusStep, ValidateSchemaStatus, ValidateMigrationStatus,
                  ValidateReplicationSlotStatus
    <3> QED BY <2>1, <3>1, <3>2
  <2> QED BY <1>2, <2>2, <2>3, <2>4, <2>5, <2>6, <2>7, <2>8, <2>9
          DEF Step, InitStep, MigratorStep
<1>3. ASSUME NEW p \in Proc, NEW c \in Invocations, Begin(p, c) PROVE OfItsKind(q)'
  <2>1. CASE p = q
    BY <1>3, <2>1, Begins DEF OfItsKind, Installs, Is
  <2>2. CASE p # q
    BY <1>0, <1>3, <2>2, Begins DEF OfItsKind, Installs, Is
  <2> QED BY <2>1, <2>2
<1>4. CASE Stream \/ UNCHANGED setupVars
  BY <1>0, <1>4 DEF Stream, setupVars, local, OfItsKind, Installs, Is
<1> QED BY <1>1, <1>2, <1>3, <1>4 DEF SetupNext

\* The clean up drops the table that shows v0.9 last.
LEMMA DropsInOrder ==
  ASSUME NEW p \in Proc, DropOldObject(p), old \subseteq OldTriggers \cup ToSet(OldObjects),
         old \cap OldTriggers = {}, old # {} => "schema_migrations" \in old
  PROVE  \/ old = {} /\ UNCHANGED <<database, local>> /\ pc' = [pc EXCEPT ![p] = "open"]
         \/ /\ old' \subseteq old /\ (old' # {} => "schema_migrations" \in old')
            /\ pc' = [pc EXCEPT ![p] = "dropOld"]
            /\ UNCHANGED <<schema, migrated, db, slot, local, locks, outcome>>
<1>1. /\ DOMAIN CleanupOrder = 1..5 /\ CleanupOrder[5] = "schema_migrations"
      /\ \A i \in 1..4 : CleanupOrder[i] # "schema_migrations"
      /\ \A o \in old : \E i \in 1..5 : o = CleanupOrder[i]
  <2>1. DOMAIN OldObjects = 1..5
    BY DEF OldObjects
  <2>2. CleanupOrder = OldObjects
    BY DEF CleanupOrder
  <2>3. \A o \in ToSet(OldObjects) : \E i \in 1..5 : o = OldObjects[i]
    BY <2>1 DEF ToSet
  <2>4. OldObjects[5] = "schema_migrations" /\ \A i \in 1..4 : OldObjects[i] # "schema_migrations"
    BY DEF OldObjects
  <2> QED BY <2>1, <2>2, <2>3, <2>4
<1> DEFINE left == {i \in DOMAIN CleanupOrder : CleanupOrder[i] \in old}
<1>2. CASE left = {} /\ GoesTo(p, "open") /\ UNCHANGED <<database, local>>
  BY <1>1, <1>2 DEF GoesTo, Goto
<1>3. ASSUME NEW i \in left, \A j \in left : i <= j, old' = old \ {CleanupOrder[i]},
             GoesTo(p, "dropOld"), UNCHANGED <<schema, migrated, db, slot, local>>
      PROVE  /\ old' \subseteq old /\ (old' # {} => "schema_migrations" \in old')
             /\ pc' = [pc EXCEPT ![p] = "dropOld"]
             /\ UNCHANGED <<schema, migrated, db, slot, local, locks, outcome>>
  <2>1. CASE i = 5
    <3>1. \A j \in 1..4 : CleanupOrder[j] \notin old
      BY <1>1, <1>3, <2>1
    <3>2. \A o \in old : o = CleanupOrder[5]
      BY <1>1, <3>1
    <3> QED BY <1>3, <2>1, <3>2 DEF GoesTo, Goto
  <2>2. CASE i # 5
    <3>1. i \in 1..4 /\ CleanupOrder[i] # "schema_migrations" /\ old # {}
      BY <1>1, <1>3, <2>2
    <3> QED BY <1>3, <3>1 DEF GoesTo, Goto
  <2> QED BY <2>1, <2>2
<1> QED BY <1>2, <1>3 DEF DropOldObject

\* v0.9 is cleaned up before anything is installed, and is shown until it is gone.
OldInv == OldFirst /\ \A q \in Proc : CleansUp(q)

\* A step that leaves it alone: an install goes on behind it, or to it.
LEMMA CleansUpElsewhere ==
  ASSUME Types, MoreTypes, OldInv, NEW p \in Proc, Step(p) \/ CutOff(p), UNCHANGED old,
         \A m \in Tables : old # {} => Reverted(m)',
         NEW l \in Labels, pc' = [pc EXCEPT ![p] = l],
         l \in {"list", "dropTriggers"} => old # {},
         l = "dropTriggers" => old \cap OldTriggers \subseteq listed'[p],
         l = "dropOld" => old \cap OldTriggers = {},
         Installs(p) /\ l \in {"open"} \cup InMigrator \cup Behind => old = {}
  PROVE  OldInv'
<1>1. OldFirst'
  BY DEF OldInv, OldFirst
<1>2. command' = command /\ pc[p] # "idle" /\ pc'[p] = l
  BY Moves DEF Types
<1>3. CleansUp(p)'
  BY <1>1, <1>2 DEF OldInv, CleansUp, Installs, Is
<1>4. ASSUME NEW q \in Proc \ {p} PROVE CleansUp(q)'
  BY <1>2, OthersStand DEF OldInv, CleansUp, Installs, Is
<1> QED BY <1>1, <1>3, <1>4 DEF OldInv

LEMMA OldStep ==
  ASSUME Types, Alone, MoreTypes, OldInv, UpgradeAlone, \A q \in Proc : OfItsKind(q),
         ~InitOnOld, [SetupNext]_setupVars
  PROVE  OldInv'
<1>0. /\ old \subseteq OldTriggers \cup ToSet(OldObjects)
      /\ old # {} => "schema_migrations" \in old /\ \A m \in Tables : Reverted(m)
  BY DEF MoreTypes, OldInv, OldFirst
<1>1. ASSUME NEW p \in Proc, Is(p, "upgrade"), Step(p), UNCHANGED migrated, old' \subseteq old,
             old' # {} => "schema_migrations" \in old', NEW l \in {"dropTriggers", "dropOld"},
             pc' = [pc EXCEPT ![p] = l], l = "dropTriggers" => old' # {},
             old' \cap OldTriggers \subseteq IF l = "dropOld" THEN {} ELSE listed'[p]
      PROVE  OldInv'
  <2>1. pc[p] # "idle" /\ command' = command /\ pc'[p] = l
    BY <1>1, Moves DEF Types
  <2>2. OldFirst'
    BY <1>0, <1>1 DEF OldFirst, Reverted
  <2>3. CleansUp(p)'
    BY <1>1, <2>1 DEF CleansUp, Installs, Is, InMigrator, Behind
  <2>4. ASSUME NEW q \in Proc \ {p} PROVE CleansUp(q)'
    <3>1. pc[q] = "idle"
      BY <1>1, <2>1 DEF UpgradeAlone
    <3>2. pc'[q] = "idle"
      BY <1>1, <3>1 DEF Types
    <3> QED BY <3>2 DEF CleansUp, InMigrator, Behind
  <2> QED BY <2>2, <2>3, <2>4 DEF OldInv
<1>2. ASSUME NEW p \in Proc, Step(p) \/ CutOff(p) PROVE OldInv'
  <2>0. /\ CleansUp(p) /\ OfItsKind(p) /\ command[p] \in Invocation /\ command' = command
        /\ pc[p] # "idle"
    BY <1>2, Moves DEF OldInv, Types
  <2>k. Is(p, "upgrade") => Installs(p)
    BY DEF Is, Installs
  <2>1. ASSUME UNCHANGED <<old, migrated>>, NEW l \in Labels, pc' = [pc EXCEPT ![p] = l],
               l \notin {"list", "dropTriggers", "dropOld"},
               Installs(p) /\ l \in {"open"} \cup InMigrator \cup Behind => old = {}
        PROVE  OldInv'
    <3>1. \A m \in Tables : old # {} => Reverted(m)'
      BY <1>0, <2>1 DEF Reverted
    <3> QED BY <1>2, <2>1, <3>1, CleansUpElsewhere
  <2> USE DEF local, database, GoesTo, Goto, Returns, Labels
  <2>2. CASE CreatePGStreamSchema(p) \/ CheckV09(p) \/ Succeed(p) \/ CutOff(p)
    <3>1. CASE CreatePGStreamSchema(p) /\ Is(p, "upgrade")
      <4>1. UNCHANGED <<old, migrated>> /\ pc' = [pc EXCEPT ![p] = "cleanup"]
        BY <3>1 DEF CreatePGStreamSchema
      <4> QED BY <2>1, <4>1 DEF InMigrator, Behind
    <3>2. CASE CreatePGStreamSchema(p) /\ ~Is(p, "upgrade")
      <4>1. /\ UNCHANGED <<old, migrated>> /\ pc' = [pc EXCEPT ![p] = "open"]
            /\ Installs(p) => old = {}
        BY <2>0, <3>2 DEF CreatePGStreamSchema, CleansUp, Installs, Is
      <4> QED BY <2>1, <4>1
    <3>3. CASE CheckV09(p)
      <4>1. CASE "schema_migrations" \in old
        <5>1. /\ UNCHANGED <<old, migrated>> /\ pc' = [pc EXCEPT ![p] = "list"] /\ old # {}
          BY <3>3, <4>1 DEF CheckV09
        <5>2. \A m \in Tables : old # {} => Reverted(m)'
          BY <1>0, <5>1 DEF Reverted
        <5> QED BY <1>2, <5>1, <5>2, CleansUpElsewhere DEF InMigrator, Behind
      <4>2. CASE "schema_migrations" \notin old
        <5>1. /\ UNCHANGED <<old, migrated>> /\ pc' = [pc EXCEPT ![p] = "open"] /\ old = {}
          BY <1>0, <3>3, <4>2 DEF CheckV09
        <5> QED BY <2>1, <5>1
      <4> QED BY <4>1, <4>2
    <3>4. CASE Succeed(p) \/ CutOff(p)
      <4>1. UNCHANGED <<old, migrated>> /\ pc' = [pc EXCEPT ![p] = "idle"]
        BY <3>4 DEF Succeed, CutOff
      <4> QED BY <2>1, <4>1 DEF InMigrator, Behind
    <3> QED BY <2>2, <3>1, <3>2, <3>3, <3>4
  <2>3. CASE ListTriggers(p) /\ Step(p)
    <3>1. /\ pc' = [pc EXCEPT ![p] = "dropTriggers"] /\ UNCHANGED <<old, migrated>>
          /\ old # {} /\ Is(p, "upgrade")
          /\ listed' = [listed EXCEPT ![p] = (old \cap OldTriggers) \cup db.triggers]
      BY <2>0, <2>3 DEF ListTriggers, OfItsKind, CleansUp
    <3>2. old' \cap OldTriggers \subseteq listed'[p]
      BY <3>1 DEF MoreTypes
    <3> QED BY <1>0, <1>1, <2>3, <3>1, <3>2
  <2>4. CASE DropTrigger(p) /\ Step(p)
    <3>0. Is(p, "upgrade") /\ old # {} /\ old \cap OldTriggers \subseteq listed[p]
      BY <2>0, <2>4 DEF DropTrigger, OfItsKind, CleansUp
    <3>1. ASSUME NEW t \in listed[p], listed' = [listed EXCEPT ![p] = @ \ {t}], old' = old \ {t},
                 pc' = [pc EXCEPT ![p] = "dropTriggers"], UNCHANGED migrated
          PROVE  OldInv'
      <4>1. t # "schema_migrations"
        BY <3>1 DEF MoreTypes, OldTriggers, Triggers
      <4>2. listed'[p] = listed[p] \ {t}
        BY <3>1 DEF MoreTypes
      <4> QED BY <1>0, <1>1, <2>4, <3>0, <3>1, <4>1, <4>2
    <3>2. CASE listed[p] = {} /\ UNCHANGED <<old, migrated>> /\ pc' = [pc EXCEPT ![p] = "dropOld"]
      BY <1>0, <1>1, <2>4, <3>0, <3>2
    <3> QED BY <2>4, <3>1, <3>2 DEF DropTrigger
  <2>5. CASE DropOldObject(p) /\ Step(p)
    <3>0. Is(p, "upgrade") /\ old \cap OldTriggers = {}
      BY <2>0, <2>5 DEF DropOldObject, OfItsKind, CleansUp
    <3>1. CASE old = {} /\ UNCHANGED <<database, local>> /\ pc' = [pc EXCEPT ![p] = "open"]
      BY <2>1, <3>1
    <3>2. CASE /\ old' \subseteq old /\ (old' # {} => "schema_migrations" \in old')
               /\ pc' = [pc EXCEPT ![p] = "dropOld"] /\ UNCHANGED migrated
      BY <1>1, <2>5, <3>0, <3>2
    <3> QED BY <1>0, <2>5, <3>0, <3>1, <3>2, DropsInOrder
  <2>6. CASE ReplicationSlotExists(p) \/ CreateReplicationSlot(p) \/ DropReplicationSlot(p)
             \/ StatusStep(p)
    <3>1. ~Installs(p) \/ old = {}
      BY <2>0, <2>6 DEF ReplicationSlotExists, CreateReplicationSlot, DropReplicationSlot, StatusStep,
         ValidateSchemaStatus, ValidateMigrationStatus, ValidateReplicationSlotStatus, OfItsKind,
         CleansUp, Installs, Is, Behind
    <3>2. /\ UNCHANGED <<old, migrated>>
          /\ \E l \in {"succeed", "createSlot", "idle", "open", "validateSlot", "validateVersion"} :
               pc' = [pc EXCEPT ![p] = l]
      BY <2>6 DEF ReplicationSlotExists, CreateReplicationSlot, DropReplicationSlot, StatusStep,
         ValidateSchemaStatus, ValidateMigrationStatus, ValidateReplicationSlotStatus, NextAsset
    <3> QED BY <2>1, <3>1, <3>2
  <2>7. CASE MigratorStep(p) \/ DropMigrationTables(p)
    <3>0. PICK m \in Tables, t \in Tables : m = Current(p) /\ t = Table(p)
      BY CurrentIsTable
    <3>1. /\ UNCHANGED old /\ (~Installs(p) \/ old = {})
          /\ \E l \in {"open", "lock", "validateVersion", "next", "remove", "succeed", "slot", "run",
                       "clean", "idle"} : pc' = [pc EXCEPT ![p] = l]
      <4>1. UNCHANGED old /\ (~Installs(p) \/ old = {})
        BY <2>0, <2>7 DEF MigratorStep, OpenMigrator, LockMigrations, NextMigration, RunMigration,
           CleanMigration, DropMigrationTables, OfItsKind, CleansUp, Installs, Is, InMigrator
      <4>2. CASE MigratorStep(p)
        <5>1. (CASE Installs(p) -> "lock" [] Is(p, "destroy") -> "lock"
                 [] Is(p, "status") -> "validateVersion") \in {"lock", "validateVersion"}
          BY <2>0 DEF Installs, Is, Invocation
        <5> QED BY <4>1, <4>2, <5>1 DEF MigratorStep, OpenMigrator, LockMigrations, NextMigration,
                    RunMigration, CleanMigration, NextAsset
      <4>3. CASE DropMigrationTables(p)
        BY <4>1, <4>3 DEF DropMigrationTables, NextAsset
      <4> QED BY <2>7, <4>2, <4>3
    <3>2. \/ UNCHANGED migrated
          \/ migrated' = [migrated EXCEPT ![t].exists = TRUE]
          \/ migrated' = [migrated EXCEPT ![m].dirty = FALSE]
          \/ migrated' = [migrated EXCEPT ![t] = Gone]
          \/ migrated[m].version # IF Is(p, "destroy") THEN 0 ELSE Migrations[m]
      BY <2>7, <3>0 DEF MigratorStep, OpenMigrator, LockMigrations, NextMigration, RunMigration,
         CleanMigration, DropMigrationTables
    <3>3. \A o \in Tables : old # {} => Reverted(o)'
      <4> SUFFICES ASSUME old # {}, NEW o \in Tables PROVE Reverted(o)'
        OBVIOUS
      <4>1. Reverted(o) /\ Reverted(m) /\ Reverted(t)
        BY <1>0, <3>0
      <4>2. CASE migrated[m].version # IF Is(p, "destroy") THEN 0 ELSE Migrations[m]
        <5>1. ~Is(p, "destroy") /\ ~Installs(p)
          BY <3>1, <4>1, <4>2 DEF Reverted
        <5>2. Is(p, "status")
          BY <2>0, <5>1 DEF Is, Installs, Invocation
        <5>3. ~(NextMigration(p) \/ LockMigrations(p) \/ RunMigration(p) \/ CleanMigration(p)
                \/ DropMigrationTables(p))
          BY <2>0, <5>1, <5>2 DEF NextMigration, LockMigrations, RunMigration, CleanMigration,
             DropMigrationTables, OfItsKind
        <5>4. UNCHANGED migrated \/ migrated' = [migrated EXCEPT ![t].exists = TRUE]
          BY <2>7, <3>0, <5>3 DEF MigratorStep, OpenMigrator
        <5> QED BY <4>1, <5>4 DEF Reverted, Types
      <4> QED BY <3>2, <4>1, <4>2 DEF Reverted, Types, Gone
    <3> QED BY <1>2, <3>1, <3>3, CleansUpElsewhere DEF InMigrator, Behind
  <2>8. CASE DropPGStreamSchema(p)
    <3>1. /\ old' = {} /\ migrated' = [m \in DOMAIN migrated |-> Gone]
          /\ pc' = [pc EXCEPT ![p] = "dropSlot"]
      BY <2>8 DEF DropPGStreamSchema
    <3>2. \A q \in Proc \ {p} : pc[q] = "idle"
      BY <2>0, <2>8 DEF DropPGStreamSchema, OfItsKind, Alone
    <3>3. \A q \in Proc : pc'[q] \in {"idle", "dropSlot"}
      BY <3>1, <3>2 DEF Types
    <3> QED BY <3>1, <3>3 DEF OldInv, OldFirst, CleansUp
  <2> QED BY <1>2, <2>2, <2>3, <2>4, <2>5, <2>6, <2>7, <2>8 DEF Step, InitStep, DestroyStep
<1>3. ASSUME NEW p \in Proc, NEW c \in Invocations, Begin(p, c) PROVE OldInv'
  <2>1. /\ UNCHANGED <<migrated, old>> /\ command'[p] = c
        /\ \/ c.kind \in {"init", "upgrade"} /\ pc'[p] = "schema"
           \/ c.kind = "destroy" /\ pc'[p] = "open"
           \/ c.kind = "status" /\ pc'[p] = "validateSchema"
        /\ c.kind = "init" => old = {}
        /\ \A q \in Proc \ {p} :
             pc'[q] = pc[q] /\ command'[q] = command[q] /\ listed'[q] = listed[q]
    BY <1>3, Begins DEF database
  <2>2. CleansUp(p)'
    BY <2>1 DEF CleansUp, Installs, Is, InMigrator, Behind
  <2>3. \A q \in Proc \ {p} : CleansUp(q)'
    BY <2>1 DEF OldInv, CleansUp, Installs, Is
  <2> QED BY <2>1, <2>2, <2>3 DEF OldInv, OldFirst, Reverted
<1>4. CASE Stream \/ UNCHANGED setupVars
  BY <1>4 DEF Stream, setupVars, database, local, OldInv, OldFirst, CleansUp, Reverted, Installs, Is
<1> QED BY <1>2, <1>3, <1>4 DEF SetupNext

\* What an install and a status know holds until their next step.
LEMMA WorkElsewhere ==
  ASSUME Types, Alone, MoreTypes, NEW p \in Proc, Step(p) \/ CutOff(p), OfItsKind(p),
         NEW q \in Proc \ {p}, Installing(q), Checking(q)
  PROVE  Installing(q)' /\ Checking(q)'
<1>1. /\ pc'[q] = pc[q] /\ command'[q] = command[q] /\ asset'[q] = asset[q]
      /\ problems'[q] = problems[q]
  BY OthersStand
<1>2. CASE pc[q] = "idle"
  BY <1>1, <1>2 DEF Installing, Checking, InMigrator, Behind
<1>3. CASE pc[q] # "idle"
  <2>1. ~Is(p, "destroy")
    BY <1>3, Moves DEF Alone
  <2>2. /\ schema => schema'
        /\ \A m \in Tables : /\ migrated[m].exists => migrated'[m].exists
                             /\ Full(m) => Full(m)'
        /\ slot # "none" => slot' # "none"
    BY <2>1, Persist
  <2>3. Mine(q)' = Mine(q) /\ Mine(q) \subseteq Tables /\ "core" \in Tables
    BY <1>1 DEF Mine, Tables
  <2>4. Installs(q)' = Installs(q) /\ Is(q, "status")' = Is(q, "status")
    BY <1>1 DEF Installs, Is
  <2>5. Installing(q)'
    BY <1>1, <2>2, <2>3, <2>4 DEF Installing
  <2>6. Checking(q)'
    BY <1>1, <2>2, <2>3, <2>4 DEF Checking
  <2> QED BY <2>5, <2>6
<1> QED BY <1>2, <1>3

\* The tables of a command: the core's, and behind it the injector's.
LEMMA MineAll ==
  ASSUME Types, NEW p \in Proc
  PROVE  /\ Mine(p) = ToSet(Assets(command[p]))
         /\ \A m \in Mine(p) : m = Table(p) \/ (asset[p] = 2 /\ m = "core")
                               \/ (asset[p] = 1 /\ command[p].injector)
<1>1. Mine(p) = ToSet(Assets(command[p]))
  <2>1. CASE command[p].injector
    <3>1. Assets(command[p]) = <<"core", "injector">>
      BY <2>1 DEF Assets
    <3>2. ToSet(<<"core", "injector">>) = {"core", "injector"}
      BY DEF ToSet
    <3> QED BY <2>1, <3>1, <3>2 DEF Mine, Tables
  <2>2. CASE ~command[p].injector
    <3>1. Assets(command[p]) = <<"core">>
      BY <2>2 DEF Assets
    <3>2. ToSet(<<"core">>) = {"core"}
      BY DEF ToSet
    <3> QED BY <2>2, <3>1, <3>2 DEF Mine, Tables
  <2> QED BY <2>1, <2>2
<1>2. Table(p) = IF asset[p] = 1 THEN "core" ELSE "injector"
  BY TablesOfCommand
<1>3. asset[p] \in {1, 2}
  BY DEF Types
<1> QED BY <1>1, <1>2, <1>3 DEF Mine, Tables

\* The step of an install itself.
LEMMA InstallOwn ==
  ASSUME Types, MoreTypes, NEW p \in Proc, Step(p) \/ CutOff(p), OfItsKind(p), Turn(p),
         Installing(p), Installs(p)
  PROVE  Installing(p)'
<1>0. /\ command[p] \in Invocation /\ command' = command /\ asset[p] \in {1, 2}
      /\ ~Is(p, "destroy") /\ ~Is(p, "status") /\ pc \in [Proc -> Labels]
      /\ asset \in [Proc -> {1, 2}] /\ (asset[p] = 2 => command[p].injector)
  BY Moves DEF Types, Installs, Is
<1>1. /\ schema => schema'
      /\ \A m \in Tables : /\ migrated[m].exists => migrated'[m].exists
                           /\ Full(m) => Full(m)'
      /\ slot # "none" => slot' # "none"
  BY <1>0, Persist
<1>2. Mine(p)' = Mine(p) /\ Installs(p)' /\ Mine(p) \subseteq Tables /\ "core" \in Tables
  BY <1>0 DEF Mine, Installs, Tables
<1>3. /\ Table(p) \in Tables /\ Current(p) = Table(p)
      /\ Table(p) = IF asset[p] = 1 THEN "core" ELSE "injector"
      /\ \A m \in Mine(p) : m = Table(p) \/ (asset[p] = 2 /\ m = "core")
                            \/ (asset[p] = 1 /\ command[p].injector)
  BY <1>0, CurrentIsTable, TablesOfCommand, MineAll
<1> USE DEF local, database, GoesTo, Goto, Returns
<1>4. ASSUME UNCHANGED asset, pc[p] # "idle", NEW l, pc' = [pc EXCEPT ![p] = l],
             \/ l = "idle"
             \/ {pc[p], l} \subseteq InMigrator /\ schema'
             \/ {pc[p], l} \subseteq {"schema", "cleanup", "list", "dropTriggers", "dropOld"} /\ schema'
             \/ asset[p] = 1 /\ l = "open" /\ schema'
             \/ {pc[p], l} \subseteq Behind /\ schema' /\ (l = "succeed" => slot' # "none")
      PROVE  Installing(p)'
  <2>1. pc'[p] = l
    BY <1>0, <1>4
  <2> QED BY <1>0, <1>1, <1>2, <1>4, <2>1 DEF Installing, InMigrator, Behind
<1>5. CASE CreatePGStreamSchema(p)
  <2>1. \E l \in {"cleanup", "open"} : pc' = [pc EXCEPT ![p] = l]
    BY <1>5 DEF CreatePGStreamSchema
  <2>2. UNCHANGED asset /\ pc[p] = "schema" /\ schema'
    BY <1>5 DEF CreatePGStreamSchema
  <2>3. asset[p] = 1
    BY <2>2 DEF Installing
  <2> QED BY <1>4, <2>1, <2>2, <2>3
<1>6. CASE CheckV09(p) \/ ListTriggers(p) \/ DropTrigger(p) \/ DropOldObject(p)
  <2>1. \E l \in {"list", "open", "dropTriggers", "dropOld", "idle"} : pc' = [pc EXCEPT ![p] = l]
    BY <1>6 DEF CheckV09, ListTriggers, DropTrigger, DropOldObject
  <2>2. UNCHANGED asset /\ pc[p] \in {"cleanup", "list", "dropTriggers", "dropOld"}
    BY <1>6 DEF CheckV09, ListTriggers, DropTrigger, DropOldObject
  <2>3. asset[p] = 1 /\ schema'
    BY <1>1, <2>2 DEF Installing
  <2> QED BY <1>4, <2>1, <2>2, <2>3
<1>7. CASE OpenMigrator(p)
  <2>1. schema /\ pc[p] = "open"
    BY <1>7 DEF OpenMigrator, Installing
  <2>2. migrated' = [migrated EXCEPT ![Table(p)].exists = TRUE] /\ NextAsset(p, "open", "lock")
    <3> DEFINE after == CASE Installs(p) -> "lock" [] Is(p, "destroy") -> "lock"
                          [] Is(p, "status") -> "validateVersion"
    <3>1. migrated' = [migrated EXCEPT ![Table(p)].exists = TRUE] /\ NextAsset(p, "open", after)
      BY <1>7, <2>1 DEF OpenMigrator
    <3>2. after = "lock"
      BY <1>0
    <3> QED BY <3>1, <3>2
  <2>3. migrated'[Table(p)].exists
    BY <1>3, <2>2 DEF Types
  <2>4. CASE asset[p] = 1 /\ command[p].injector /\ asset'[p] = 2 /\ pc' = [pc EXCEPT ![p] = "open"]
    <3>1. pc'[p] = "open" /\ Table(p) = "core"
      BY <1>0, <1>3, <2>4
    <3> QED BY <1>1, <2>1, <2>3, <2>4, <3>1 DEF Installing, InMigrator, Behind
  <2>5. CASE /\ asset[p] = 2 \/ ~command[p].injector
             /\ asset'[p] = 1 /\ pc' = [pc EXCEPT ![p] = "lock"]
    <3>1. pc'[p] = "lock"
      BY <1>0, <2>5
    <3>2. \A m \in Mine(p) : migrated'[m].exists
      BY <1>0, <1>1, <1>2, <1>3, <2>1, <2>3, <2>5 DEF Installing
    <3> QED BY <1>1, <1>2, <2>1, <2>5, <3>1, <3>2 DEF Installing, InMigrator, Behind
  <2> QED BY <2>2, <2>4, <2>5, NextAssetMoves
<1>8. CASE LockMigrations(p) \/ RunMigration(p) \/ CleanMigration(p)
  <2>1. \E l \in {"idle", "next", "clean"} : pc' = [pc EXCEPT ![p] = l]
    BY <1>8 DEF LockMigrations, RunMigration, CleanMigration
  <2>2. UNCHANGED asset /\ pc[p] \in InMigrator
    BY <1>8 DEF LockMigrations, RunMigration, CleanMigration, InMigrator
  <2>3. schema'
    BY <1>1, <2>2 DEF Installing, InMigrator
  <2> QED BY <1>4, <2>1, <2>2, <2>3 DEF InMigrator
<1>9. CASE NextMigration(p)
  <2>1. pc[p] = "next" /\ ~migrated[Table(p)].dirty /\ schema'
    <3>1. pc[p] = "next"
      BY <1>9 DEF NextMigration
    <3> QED BY <1>1, <1>3, <3>1 DEF Turn, Installing
  <2>2. CASE pc' = [pc EXCEPT ![p] = "run"] /\ UNCHANGED asset
    BY <1>4, <2>1, <2>2 DEF InMigrator
  <2>3. CASE /\ migrated[Table(p)].version = Migrations[Table(p)]
             /\ NextAsset(p, "lock", IF command[p].only THEN "succeed" ELSE "slot")
    <3>1. Full(Table(p))
      BY <2>1, <2>3 DEF Full
    <3>2. CASE asset[p] = 1 /\ command[p].injector /\ asset'[p] = 2 /\ pc' = [pc EXCEPT ![p] = "lock"]
      <4>1. pc'[p] = "lock" /\ Table(p) = "core"
        BY <1>0, <1>3, <3>2
      <4>2. \A m \in Mine(p) : migrated'[m].exists
        BY <1>1, <1>2, <2>1 DEF Installing, InMigrator
      <4>3. Full("core")'
        BY <1>1, <1>2, <3>1, <4>1
      <4> QED BY <1>2, <2>1, <4>1, <4>2, <4>3 DEF Installing, InMigrator, Behind
    <3>3. CASE /\ asset[p] = 2 \/ ~command[p].injector
               /\ pc' = [pc EXCEPT ![p] = IF command[p].only THEN "succeed" ELSE "slot"]
      <4>1. pc'[p] = IF command[p].only THEN "succeed" ELSE "slot"
        BY <1>0, <3>3
      <4>2. \A m \in Mine(p) : Full(m)
        BY <1>0, <1>3, <2>1, <3>1, <3>3 DEF Installing, InMigrator
      <4>3. \A m \in Mine(p) : Full(m)'
        BY <1>1, <1>2, <4>2
      <4> QED BY <1>0, <1>2, <2>1, <4>1, <4>3 DEF Installing, InMigrator, Behind
    <3> QED BY <2>3, <3>2, <3>3, NextAssetMoves
  <2> QED BY <1>0, <1>3, <1>9, <2>2, <2>3 DEF NextMigration
<1>10. CASE ReplicationSlotExists(p) \/ CreateReplicationSlot(p)
  <2>1. \E l \in {"createSlot", "succeed"} :
          pc' = [pc EXCEPT ![p] = l] /\ (l = "succeed" => slot' # "none")
    BY <1>10 DEF ReplicationSlotExists, CreateReplicationSlot
  <2>2. UNCHANGED asset /\ pc[p] \in Behind
    BY <1>10 DEF ReplicationSlotExists, CreateReplicationSlot, Behind
  <2>3. schema'
    BY <1>1, <2>2 DEF Installing, Behind
  <2> QED BY <1>4, <2>1, <2>2, <2>3 DEF Behind
<1>11. CASE Succeed(p) \/ CutOff(p)
  <2>1. pc' = [pc EXCEPT ![p] = "idle"] /\ UNCHANGED asset /\ pc[p] # "idle"
    BY <1>11 DEF Succeed, CutOff
  <2> QED BY <1>4, <2>1
<1>12. ~DestroyStep(p) /\ ~StatusStep(p)
  BY <1>0 DEF DestroyStep, DropMigrationTables, DropPGStreamSchema, DropReplicationSlot, StatusStep,
     ValidateSchemaStatus, ValidateMigrationStatus, ValidateReplicationSlotStatus, OfItsKind
<1> QED BY <1>5, <1>6, <1>7, <1>8, <1>9, <1>10, <1>11, <1>12 DEF Step, InitStep, MigratorStep

\* The step of a status itself.
LEMMA CheckOwn ==
  ASSUME Types, MoreTypes, NEW p \in Proc, Step(p) \/ CutOff(p), OfItsKind(p),
         Checking(p), Is(p, "status")
  PROVE  Checking(p)'
<1>0. /\ command[p] \in Invocation /\ command' = command /\ asset[p] \in {1, 2}
      /\ ~Is(p, "destroy") /\ ~Installs(p) /\ pc \in [Proc -> Labels]
      /\ asset \in [Proc -> {1, 2}] /\ (asset[p] = 2 => command[p].injector)
      /\ problems \in [Proc -> BOOLEAN]
  BY Moves DEF Types, MoreTypes, Installs, Is
<1>1. /\ schema => schema'
      /\ \A m \in Tables : Full(m) => Full(m)'
  BY <1>0, Persist
<1>2. Mine(p)' = Mine(p) /\ Is(p, "status")' /\ Mine(p) \subseteq Tables /\ "core" \in Tables
  BY <1>0 DEF Mine, Is, Tables
<1>3. /\ Table(p) \in Tables
      /\ Table(p) = IF asset[p] = 1 THEN "core" ELSE "injector"
      /\ \A m \in Mine(p) : m = Table(p) \/ (asset[p] = 2 /\ m = "core")
                            \/ (asset[p] = 1 /\ command[p].injector)
  BY <1>0, CurrentIsTable, TablesOfCommand, MineAll
<1> USE DEF local, database, GoesTo, Goto, Returns
<1>4. CASE ValidateSchemaStatus(p)
  <2>1. problems'[p] = (problems[p] \/ ~schema) /\ UNCHANGED schema
    BY <1>0, <1>4 DEF ValidateSchemaStatus, Notes
  <2>2. pc'[p] = IF schema THEN "open" ELSE "validateSlot"
    BY <1>0, <1>4 DEF ValidateSchemaStatus
  <2> QED BY <1>2, <2>1, <2>2 DEF Checking
<1>5. CASE OpenMigrator(p)
  <2>0. UNCHANGED problems /\ pc[p] = "open"
    BY <1>5 DEF OpenMigrator
  <2>1. CASE ~schema
    <3>1. pc'[p] = "idle"
      BY <1>0, <1>5, <2>1 DEF OpenMigrator
    <3> QED BY <3>1 DEF Checking
  <2>2. CASE schema
    <3> DEFINE after == CASE Installs(p) -> "lock" [] Is(p, "destroy") -> "lock"
                          [] Is(p, "status") -> "validateVersion"
    <3>1. NextAsset(p, "open", after)
      BY <1>5, <2>2 DEF OpenMigrator
    <3>2. after = "validateVersion"
      BY <1>0
    <3> HIDE DEF after
    <3>3. pc'[p] = "open" \/ (pc'[p] = "validateVersion" /\ asset'[p] = 1)
      BY <1>0, <3>1, <3>2, NextAssetMoves
    <3> QED BY <1>1, <2>2, <3>3 DEF Checking
  <2> QED BY <2>1, <2>2
<1>6. CASE ValidateMigrationStatus(p)
  <2>1. problems' = [problems EXCEPT ![p] = @ \/ VersionProblem(Table(p))]
    BY <1>6 DEF ValidateMigrationStatus, Notes
  <2>2. problems'[p] = (problems[p] \/ VersionProblem(Table(p)))
    BY <1>0, <2>1
  <2>3. NextAsset(p, "validateVersion", "validateSlot") /\ pc[p] = "validateVersion"
    BY <1>6 DEF ValidateMigrationStatus
  <2>4. CASE problems'[p]
    BY <2>4 DEF Checking
  <2>5. CASE ~problems'[p]
    <3>1. schema' /\ Full(Table(p)) /\ (asset[p] = 2 => Full("core"))
      <4>1. ~problems[p] /\ ~VersionProblem(Table(p))
        BY <2>2, <2>5
      <4> QED BY <1>1, <2>3, <4>1 DEF Checking, VersionProblem, Full
    <3>2. CASE /\ asset[p] = 1 /\ command[p].injector /\ asset'[p] = 2
               /\ pc' = [pc EXCEPT ![p] = "validateVersion"]
      <4>1. pc'[p] = "validateVersion" /\ Full("core")'
        BY <1>0, <1>1, <1>2, <1>3, <3>1, <3>2
      <4> QED BY <3>1, <4>1 DEF Checking
    <3>3. CASE /\ asset[p] = 2 \/ ~command[p].injector
               /\ pc' = [pc EXCEPT ![p] = "validateSlot"]
      <4>1. pc'[p] = "validateSlot"
        BY <1>0, <3>3
      <4>2. \A m \in Mine(p) : Full(m)
        BY <1>0, <1>3, <3>1, <3>3
      <4>3. \A m \in Mine(p) : Full(m)'
        BY <1>1, <1>2, <4>2
      <4> QED BY <1>2, <3>1, <4>1, <4>3 DEF Checking
    <3> QED BY <2>3, <3>2, <3>3, NextAssetMoves
  <2> QED BY <2>4, <2>5
<1>7. CASE ValidateReplicationSlotStatus(p) \/ CutOff(p) \/ Succeed(p)
  <2>1. pc'[p] = "idle"
    BY <1>0, <1>7 DEF ValidateReplicationSlotStatus, CutOff, Succeed
  <2> QED BY <2>1 DEF Checking
<1>8. ~(DestroyStep(p) \/ LockMigrations(p) \/ NextMigration(p) \/ RunMigration(p)
        \/ CleanMigration(p) \/ (InitStep(p) /\ ~Succeed(p)))
  <2>1. pc[p] \notin {"remove", "dropSlot", "lock", "next", "run", "clean", "schema", "cleanup",
                      "list", "dropTriggers", "dropOld", "slot", "createSlot"}
    BY <1>0 DEF OfItsKind, Is
  <2> QED BY <2>1 DEF DestroyStep, DropMigrationTables, DropPGStreamSchema, DropReplicationSlot,
     LockMigrations, NextMigration, RunMigration, CleanMigration, InitStep, CreatePGStreamSchema,
     CheckV09, ListTriggers, DropTrigger, DropOldObject, ReplicationSlotExists,
     CreateReplicationSlot
<1> QED BY <1>4, <1>5, <1>6, <1>7, <1>8 DEF Step, StatusStep, MigratorStep

\* What installs and status commands know stays true.
LEMMA WorkStep ==
  ASSUME Types, Alone, MoreTypes, \A q \in Proc : OfItsKind(q) /\ Turn(q),
         \A q \in Proc : Installing(q) /\ Checking(q), [SetupNext]_setupVars
  PROVE  \A q \in Proc : Installing(q)' /\ Checking(q)'
<1>1. ASSUME NEW p \in Proc, Step(p) \/ CutOff(p)
      PROVE  \A q \in Proc : Installing(q)' /\ Checking(q)'
  <2>1. Installing(p)'
    <3>1. CASE Installs(p)
      BY <1>1, <3>1, InstallOwn
    <3>2. CASE ~Installs(p)
      BY <1>1, <3>2, Moves DEF Installing, Installs
    <3> QED BY <3>1, <3>2
  <2>2. Checking(p)'
    <3>1. CASE Is(p, "status")
      BY <1>1, <3>1, CheckOwn
    <3>2. CASE ~Is(p, "status")
      BY <1>1, <3>2, Moves DEF Checking, Is
    <3> QED BY <3>1, <3>2
  <2>3. \A q \in Proc \ {p} : Installing(q)' /\ Checking(q)'
    BY <1>1, WorkElsewhere
  <2> QED BY <2>1, <2>2, <2>3
<1>2. ASSUME NEW p \in Proc, NEW c \in Invocations, Begin(p, c), NEW q \in Proc
      PROVE  Installing(q)' /\ Checking(q)'
  <2>1. UNCHANGED <<schema, migrated, slot>>
    BY <1>2, Begins DEF database
  <2>2. CASE q = p
    <3>1. /\ pc'[q] \in {"schema", "open", "validateSchema"} /\ asset'[q] = 1
          /\ pc'[q] = "open" => command'[q].kind = "destroy"
          /\ pc'[q] = "validateSchema" => command'[q].kind = "status"
      BY <1>2, <2>2, Begins
    <3> QED BY <3>1 DEF Installing, Checking, Installs, Is, InMigrator, Behind
  <2>3. CASE q # p
    <3>1. /\ pc'[q] = pc[q] /\ command'[q] = command[q] /\ asset'[q] = asset[q]
          /\ problems'[q] = problems[q]
      BY <1>2, <2>3, Begins
    <3>2. Mine(q)' = Mine(q) /\ Installs(q)' = Installs(q) /\ Is(q, "status")' = Is(q, "status")
      BY <3>1 DEF Mine, Installs, Is
    <3> QED BY <2>1, <3>1, <3>2 DEF Installing, Checking, Full
  <2> QED BY <2>2, <2>3
<1>3. ASSUME Stream \/ UNCHANGED setupVars, NEW q \in Proc
      PROVE  Installing(q)' /\ Checking(q)'
  <2>1. UNCHANGED <<database, local, pc>>
    BY <1>3 DEF Stream, setupVars
  <2>2. Mine(q)' = Mine(q) /\ Installs(q)' = Installs(q) /\ Is(q, "status")' = Is(q, "status")
    BY <2>1 DEF Mine, Installs, Is, local
  <2> QED BY <2>1, <2>2 DEF Installing, Checking, Full, database, local
<1> QED BY <1>1, <1>2, <1>3 DEF SetupNext

\* With one setting of the injector, the core goes before it and comes back after it.
LEMMA InjectorStep ==
  ASSUME Types, Alone, MoreTypes, SetUpAsMeant, InjectorOnCore,
         \A q \in Proc : OfItsKind(q) /\ Turn(q) /\ Installing(q), [SetupNext]_setupVars
  PROVE  InjectorOnCore'
<1> DEFINE without == \A c \in Invocations : ~c.injector
<1>0. (~Reverted("injector") => Full("core")) /\ (without => Reverted("injector"))
  BY DEF InjectorOnCore
<1>1. CASE UNCHANGED migrated
  BY <1>1 DEF InjectorOnCore, Reverted, Full
<1>2. ASSUME NEW p \in Proc, Step(p), ~UNCHANGED migrated PROVE InjectorOnCore'
  <2>0. /\ command[p] \in Invocation /\ asset[p] \in {1, 2}
        /\ (asset[p] = 2 => command[p].injector) /\ command[p] \in Invocations
        /\ ~command[p].injector => without
    <3>1. command[p] \in Invocations /\ command[p] \in Invocation
      BY DEF Types, MoreTypes
    <3>2. ~command[p].injector => without
      BY <3>1 DEF SetUpAsMeant
    <3> QED BY <3>1, <3>2 DEF Types
  <2>m. PICK m \in Tables : m = Current(p)
    BY CurrentIsTable
  <2>t. PICK t \in Tables : t = Table(p)
    BY CurrentIsTable
  <2>w. /\ m = "injector" => ~without
        /\ t = "injector" => ~without
    BY <2>0, <2>m, <2>t, TablesOfCommand
  <2>1. ASSUME \A o \in Tables : /\ migrated'[o].version = migrated[o].version
                                 /\ migrated'[o].dirty => migrated[o].dirty
        PROVE  InjectorOnCore'
    BY <1>0, <2>1 DEF InjectorOnCore, Reverted, Full, Tables
  <2>2. CASE OpenMigrator(p)
    <3>1. migrated' = [migrated EXCEPT ![t].exists = TRUE]
      BY <1>2, <2>2, <2>t DEF OpenMigrator
    <3> QED BY <2>1, <3>1 DEF Types
  <2>3. CASE CleanMigration(p)
    <3>1. migrated' = [migrated EXCEPT ![m].dirty = FALSE]
      BY <2>3, <2>m DEF CleanMigration
    <3> QED BY <2>1, <3>1 DEF Types
  <2>4. CASE NextMigration(p)
    <3>1. PICK w : migrated' = [migrated EXCEPT
                     ![m] = [exists |-> TRUE, dirty |-> TRUE, version |-> w]]
      BY <1>2, <2>4, <2>m DEF NextMigration
    <3>2. /\ pc[p] = "next" /\ ~Is(p, "status")
          /\ migrated[m].version # IF Is(p, "destroy") THEN 0 ELSE Migrations[m]
      BY <1>2, <2>0, <2>4, <2>m DEF NextMigration, OfItsKind
    <3>3. CASE m = "core"
      <4>1. Reverted("injector")
        <5>1. CASE Is(p, "destroy")
          <6>1. asset[p] = 2 \/ ~command[p].injector
            BY <2>0, <2>m, <3>3, <5>1, TablesOfCommand
          <6> QED BY <1>0, <2>0, <3>2, <5>1, <6>1 DEF Turn
        <5>2. CASE ~Is(p, "destroy")
          BY <1>0, <3>2, <3>3, <5>2 DEF Full
        <5> QED BY <5>1, <5>2
      <4>2. migrated'["injector"] = migrated["injector"]
        BY <3>1, <3>3 DEF Types, Tables
      <4> QED BY <4>1, <4>2 DEF InjectorOnCore, Reverted
    <3>4. CASE m = "injector"
      <4>1. Full("core")
        <5>1. CASE Is(p, "destroy")
          BY <1>0, <3>2, <3>4, <5>1 DEF Reverted
        <5>2. CASE ~Is(p, "destroy")
          <6>1. asset[p] = 2 /\ Installs(p)
            BY <2>0, <2>m, <3>2, <3>4, <5>2, TablesOfCommand DEF Is, Installs, Invocation
          <6> QED BY <3>2, <6>1 DEF Installing, InMigrator
        <5> QED BY <5>1, <5>2
      <4>2. migrated'["core"] = migrated["core"]
        BY <3>1, <3>4 DEF Types, Tables
      <4> QED BY <2>w, <3>4, <4>1, <4>2 DEF InjectorOnCore, Full
    <3> QED BY <3>3, <3>4 DEF Tables
  <2>5. CASE DropMigrationTables(p)
    <3>1. migrated' = [migrated EXCEPT ![t] = Gone] /\ pc[p] = "remove"
      BY <2>5, <2>t DEF DropMigrationTables
    <3>2. Reverted("core") /\ Reverted("injector")
      BY <1>0, <2>0, <3>1 DEF Turn, Tables
    <3>3. Reverted("injector")'
      BY <3>1, <3>2 DEF Reverted, Gone, Types, Tables
    <3> QED BY <3>3 DEF InjectorOnCore
  <2>6. CASE DropPGStreamSchema(p)
    <3>1. migrated' = [o \in Tables |-> Gone]
      BY <2>6 DEF DropPGStreamSchema, Types
    <3> QED BY <3>1 DEF InjectorOnCore, Reverted, Gone, Tables
  <2>7. \/ OpenMigrator(p) \/ CleanMigration(p) \/ NextMigration(p) \/ DropMigrationTables(p)
        \/ DropPGStreamSchema(p)
    BY <1>2 DEF Step, InitStep, CreatePGStreamSchema, CheckV09, ListTriggers, DropTrigger,
       DropOldObject, ReplicationSlotExists, CreateReplicationSlot, Succeed, MigratorStep,
       LockMigrations, RunMigration, DestroyStep, DropReplicationSlot, StatusStep, database,
       ValidateSchemaStatus, ValidateMigrationStatus, ValidateReplicationSlotStatus
  <2> QED BY <2>2, <2>3, <2>4, <2>5, <2>6, <2>7
<1>3. CASE \/ Stream \/ UNCHANGED setupVars
           \/ \E p \in Proc : CutOff(p) \/ \E c \in Invocations : Begin(p, c)
  BY <1>1, <1>3 DEF Stream, setupVars, CutOff, Begin, database
<1> QED BY <1>1, <1>2, <1>3 DEF SetupNext

\* A file that runs, or is taken back, makes exactly the next version.
LEMMA ExactUp ==
  ASSUME Types, NEW m \in Tables, NEW v \in 1..Migrations[m], Exact(m, v - 1), db' = Up(m, v, db)
  PROVE  /\ Exact(m, v)'
         /\ m = "injector" => \A w : Exact("core", w) => Exact("core", w)'
<1>0. db \in [emit : Bodies, triggers : SUBSET Triggers, helpers : SUBSET Helpers]
  BY DEF Types
<1>1. CASE m = "core"
  <2>1. v \in {1, 2, 3} /\ db' = CoreUp(v, db)
    BY <1>1 DEF Migrations, Up
  <2>2. CASE v = 1
    BY <1>1, <2>2 DEF Exact
  <2>3. CASE v = 2
    <3>1. db' = [db EXCEPT !.emit = "core", !.triggers = Triggers]
      BY <2>1, <2>3 DEF CoreUp
    <3> QED BY <1>0, <1>1, <3>1 DEF Exact
  <2>4. CASE v = 3
    <3>1. db' = [db EXCEPT !.emit = "core"]
      BY <2>1, <2>4 DEF CoreUp
    <3> QED BY <1>0, <1>1, <2>4, <3>1 DEF Exact
  <2> QED BY <1>1, <2>1, <2>2, <2>3, <2>4
<1>2. CASE m = "injector"
  <2>1. v \in {1, 2, 3, 4, 5} /\ db' = InjectorUp(v, db)
    BY <1>2 DEF Migrations, Up
  <2>2. CASE v \in {1, 2}
    <3>1. db' = [db EXCEPT !.helpers = @ \cup {IF v = 1 THEN "xid" ELSE "table_ids"}]
      BY <2>1, <2>2 DEF InjectorUp
    <3> QED BY <1>0, <1>2, <2>2, <3>1 DEF Exact
  <2>3. CASE v \in {3, 4}
    <3>1. db' = [db EXCEPT !.emit = "injector"]
      BY <2>1, <2>3 DEF InjectorUp
    <3> QED BY <1>0, <1>2, <3>1 DEF Exact
  <2>4. CASE v = 5
    <3>1. db' = db
      BY <2>1, <2>4 DEF InjectorUp
    <3> QED BY <1>2, <2>4, <3>1 DEF Exact
  <2> QED BY <2>1, <2>2, <2>3, <2>4
<1> QED BY <1>1, <1>2 DEF Tables

LEMMA ExactDown ==
  ASSUME Types, NEW m \in Tables, NEW v \in 1..Migrations[m], Exact(m, v), db' = Down(m, v, db)
  PROVE  /\ Exact(m, v - 1)'
         /\ m = "injector" => \A w : Exact("core", w) => Exact("core", w)'
<1>0. db \in [emit : Bodies, triggers : SUBSET Triggers, helpers : SUBSET Helpers]
  BY DEF Types
<1>1. CASE m = "core"
  <2>1. v \in {1, 2, 3} /\ db' = CoreDown(v, db)
    BY <1>1 DEF Migrations, Down
  <2>2. CASE v \in {1, 2}
    BY <1>1, <2>2 DEF Exact
  <2>3. CASE v = 3
    <3>1. db' = [db EXCEPT !.emit = "core"]
      BY <2>1, <2>3 DEF CoreDown
    <3> QED BY <1>0, <1>1, <2>3, <3>1 DEF Exact
  <2> QED BY <1>1, <2>1, <2>2, <2>3
<1>2. CASE m = "injector"
  <2>1. v \in {1, 2, 3, 4, 5} /\ db' = InjectorDown(v, db)
    BY <1>2 DEF Migrations, Down
  <2>2. CASE v \in {1, 2}
    <3>1. db' = [db EXCEPT !.helpers = @ \ {IF v = 1 THEN "xid" ELSE "table_ids"}]
      BY <2>1, <2>2 DEF InjectorDown
    <3> QED BY <1>0, <1>2, <2>2, <3>1 DEF Exact
  <2>3. CASE v = 3
    <3>1. db' = [db EXCEPT !.emit = "core"]
      BY <2>1, <2>3 DEF InjectorDown
    <3> QED BY <1>0, <1>2, <2>3, <3>1 DEF Exact
  <2>4. CASE v = 4
    <3>1. db' = [db EXCEPT !.emit = "injector"]
      BY <2>1, <2>4 DEF InjectorDown
    <3> QED BY <1>0, <1>2, <3>1 DEF Exact
  <2>5. CASE v = 5
    <3>1. db' = db
      BY <2>1, <2>5 DEF InjectorDown
    <3> QED BY <1>2, <2>5, <3>1 DEF Exact
  <2> QED BY <2>1, <2>2, <2>3, <2>4, <2>5
<1> QED BY <1>1, <1>2 DEF Tables

\* A process that holds another table than the one that is written knows what it knew.
LEMMA ExactOthers ==
  ASSUME Types, MoreTypes, NEW p \in Proc, Step(p) \/ CutOff(p), NEW q \in Proc \ {p},
         Turn(q), ExactTurn(q),
         \A m \in Tables : migrated[m].dirty /\ locks[m] = q =>
           migrated'[m].version = migrated[m].version /\ \A w : Exact(m, w) => Exact(m, w)'
  PROVE  ExactTurn(q)'
<1>1. /\ pc'[q] = pc[q] /\ Current(q)' = Current(q) /\ Is(q, "destroy")' = Is(q, "destroy")
      /\ Current(q) \in Tables
  BY OthersStand, CurrentIsTable DEF Current, Is
<1>2. CASE pc[q] \in {"run", "clean"}
  <2>0. PICK m \in Tables : m = Current(q)
    BY <1>1
  <2>1. migrated[m].dirty /\ locks[m] = q
    BY <1>2, <2>0 DEF Turn
  <2>2. migrated'[m].version = migrated[m].version /\ \A w : Exact(m, w) => Exact(m, w)'
    BY <2>1
  <2>3. pc[q] = "run" => Exact(m, Before(q))
    BY <2>0 DEF ExactTurn
  <2>4. pc[q] = "clean" => Exact(m, migrated[m].version)
    BY <2>0 DEF ExactTurn
  <2>5. Before(q)' = Before(q) /\ Current(q)' = m
    BY <1>1, <2>0, <2>2 DEF Before
  <2>6. pc'[q] = "run" => Exact(Current(q), Before(q))'
    BY <1>1, <2>2, <2>3, <2>5 DEF Exact
  <2>7. pc'[q] = "clean" => Exact(Current(q), migrated[Current(q)].version)'
    BY <1>1, <2>2, <2>4, <2>5 DEF Exact
  <2> QED BY <2>6, <2>7 DEF ExactTurn
<1>3. CASE pc[q] \notin {"run", "clean"}
  BY <1>1, <1>3 DEF ExactTurn
<1> QED BY <1>2, <1>3

\* A step that writes no version and changes nothing that a version stands for.
LEMMA ExactSame ==
  ASSUME Types, MoreTypes, Exactly, NEW p \in Proc, Step(p) \/ CutOff(p), Turn(p),
         \A q \in Proc : Turn(q), db'.triggers = db.triggers, db'.emit = db.emit,
         \A m \in Tables : migrated'[m].version = migrated[m].version /\
                           migrated'[m].dirty = migrated[m].dirty,
         NEW l \in Labels \ {"run", "clean"}, pc' = [pc EXCEPT ![p] = l]
  PROVE  Exactly'
<1>1. \A m, w : Exact(m, w) => Exact(m, w)'
  BY DEF Exact
<1>2. ExactTold'
  <2> SUFFICES ASSUME NEW m \in Tables, ~migrated'[m].dirty
               PROVE  \A w : w = migrated'[m].version => Exact(m, w)'
    BY DEF ExactTold, Exact
  <2>1. Exact(m, migrated[m].version)
    BY DEF Exactly, ExactTold
  <2> QED BY <1>1, <2>1
<1>3. ExactTurn(p)'
  <2>1. pc'[p] = l
    BY DEF Types
  <2> QED BY <2>1 DEF ExactTurn
<1>4. \A q \in Proc \ {p} : ExactTurn(q)'
  BY <1>1, ExactOthers DEF Exactly
<1> QED BY <1>2, <1>3, <1>4 DEF Exactly

\* The clean up finds no triggers but the old ones.
LEMMA NoTriggersYet ==
  ASSUME Types, Told, OldInv, NEW p \in Proc, DropTrigger(p)
  PROVE  db'.triggers = db.triggers /\ db'.emit = db.emit
<1>1. old # {}
  BY DEF DropTrigger, OldInv, CleansUp
<1>2. migrated["core"].version = 0 /\ ~migrated["core"].dirty
  BY <1>1 DEF OldInv, OldFirst, Reverted, Tables
<1>3. db.triggers = {}
  BY <1>2 DEF Told, Level, Tables
<1>4. db' = db \/ \E t : db' = [db EXCEPT !.triggers = @ \ {t}]
  BY DEF DropTrigger, database
<1> QED BY <1>3, <1>4 DEF Types

LEMMA ExactNext ==
  ASSUME Types, MoreTypes, Exactly, NEW p \in Proc, Step(p), NextMigration(p),
         \A q \in Proc : Turn(q)
  PROVE  Exactly'
<1>m. PICK m \in Tables : m = Current(p)
  BY CurrentIsTable
<1>1. /\ pc[p] = "next" /\ UNCHANGED <<db, command>> /\ ~migrated[m].dirty /\ locks[m] = p
      /\ migrated[m].version \in 0..5
  <2>1. pc[p] = "next" /\ UNCHANGED <<db, command>>
    BY DEF NextMigration
  <2> QED BY <1>m, <2>1 DEF Turn, Types
<1>2. CASE UNCHANGED migrated /\ \E a \in {"succeed", "slot", "remove"} : NextAsset(p, "lock", a)
  <2>1. \E l \in {"lock", "succeed", "slot", "remove"} : pc' = [pc EXCEPT ![p] = l]
    BY <1>2, NextAssetMoves
  <2> QED BY <1>1, <1>2, <2>1, ExactSame DEF Labels
<1>3. CASE /\ migrated' = [migrated EXCEPT ![m] = [exists |-> TRUE, dirty |-> TRUE, version |->
                             IF Is(p, "destroy") THEN migrated[m].version - 1
                             ELSE migrated[m].version + 1]]
           /\ pc' = [pc EXCEPT ![p] = "run"] /\ UNCHANGED asset
  <2> DEFINE v == migrated[m].version
             w == IF Is(p, "destroy") THEN v - 1 ELSE v + 1
  <2>1. /\ migrated'[m].version = w /\ migrated'[m].dirty
        /\ \A o \in Tables \ {m} : migrated'[o] = migrated[o]
    BY <1>3 DEF Types
  <2>2. \A o, u : Exact(o, u) => Exact(o, u)'
    BY <1>1 DEF Exact
  <2>3. ExactTold'
    <3> SUFFICES ASSUME NEW o \in Tables, ~migrated'[o].dirty
                 PROVE  \A u : u = migrated'[o].version => Exact(o, u)'
      BY DEF ExactTold, Exact
    <3>1. o # m /\ migrated'[o] = migrated[o]
      BY <2>1
    <3>2. Exact(o, migrated[o].version)
      BY <3>1 DEF Exactly, ExactTold
    <3> QED BY <2>2, <3>1, <3>2
  <2>4. ExactTurn(p)'
    <3>1. pc'[p] = "run" /\ Current(p)' = m /\ Is(p, "destroy")' = Is(p, "destroy")
      BY <1>m, <1>1, <1>3 DEF Types, Current, Is
    <3>2. Before(p)' = v
      BY <1>1, <2>1, <3>1 DEF Before
    <3>3. Exact(m, v)
      BY <1>1 DEF Exactly, ExactTold
    <3>4. \A u : u = v => Exact(m, u)'
      BY <2>2, <3>3
    <3> HIDE DEF v
    <3>5. Exact(Current(p), Before(p))'
      BY <3>1, <3>2, <3>4 DEF Exact
    <3> QED BY <3>1, <3>5 DEF ExactTurn
  <2>5. ASSUME NEW q \in Proc \ {p} PROVE ExactTurn(q)'
    <3>1. \A o \in Tables : locks[o] = q => migrated'[o] = migrated[o]
      BY <1>1, <2>1
    <3> QED BY <2>2, <3>1, ExactOthers DEF Exactly
  <2> QED BY <2>3, <2>4, <2>5 DEF Exactly
<1> QED BY <1>m, <1>2, <1>3 DEF NextMigration, Goto

LEMMA ExactRun ==
  ASSUME Types, MoreTypes, Exactly, InjectorOnCore, NEW p \in Proc, Step(p), RunMigration(p),
         \A q \in Proc : Turn(q)
  PROVE  Exactly'
<1>m. PICK m \in Tables : m = Current(p)
  BY CurrentIsTable
<1>v. PICK v \in 0..Migrations[m] : v = migrated[m].version
  BY DEF Types, Migrations, Tables
<1>b. PICK b \in 0..Migrations[m] : b = Before(p) /\ Exact(m, b)
  BY <1>m DEF Turn, RunMigration, Exactly, ExactTurn
<1>1. /\ pc[p] = "run" /\ locks[m] = p /\ migrated[m].dirty
      /\ UNCHANGED <<migrated, asset, command>>
      /\ Migrations[m] \in 0..5 /\ b = IF Is(p, "destroy") THEN v + 1 ELSE v - 1
  <2>1. pc[p] = "run" /\ UNCHANGED <<migrated, asset, command>>
    BY DEF RunMigration, local
  <2>2. Migrations[m] \in 0..5
    BY DEF Migrations, Tables
  <2> QED BY <1>m, <1>v, <1>b, <2>1, <2>2 DEF Turn, Before
<1>2. CASE UNCHANGED db /\ pc' = [pc EXCEPT ![p] = "idle"]
  BY <1>1, <1>2, ExactSame DEF Labels
<1>3. CASE /\ pc' = [pc EXCEPT ![p] = "clean"]
           /\ IF Is(p, "destroy") THEN db' = Down(m, v + 1, db) ELSE db' = Up(m, v, db)
  <2>1. /\ \A u : u = v => Exact(m, u)'
        /\ m = "injector" => \A w : Exact("core", w) => Exact("core", w)'
    <3>1. CASE Is(p, "destroy")
      <4>1. v + 1 \in 1..Migrations[m] /\ Exact(m, v + 1) /\ (v + 1) - 1 = v
        BY <1>b, <1>1, <3>1
      <4>2. \A x \in 1..Migrations[m] : x = v + 1 =>
              /\ Exact(m, x - 1)'
              /\ m = "injector" => \A w : Exact("core", w) => Exact("core", w)'
        BY <1>3, <3>1, <4>1, ExactDown
      <4> QED BY <4>1, <4>2
    <3>2. CASE ~Is(p, "destroy")
      <4>1. v \in 1..Migrations[m] /\ Exact(m, v - 1)
        BY <1>b, <1>1, <3>2
      <4>2. /\ Exact(m, v)'
            /\ m = "injector" => \A w : Exact("core", w) => Exact("core", w)'
        BY <1>3, <3>2, <4>1, ExactUp
      <4> QED BY <4>2
    <3> QED BY <3>1, <3>2
  <2>2. m = "core" => Reverted("injector")
    BY <1>1 DEF InjectorOnCore, Full
  <2>3. ExactTold'
    <3> SUFFICES ASSUME NEW o \in Tables, ~migrated[o].dirty
                 PROVE  \A u : u = migrated[o].version => Exact(o, u)'
      BY <1>1 DEF ExactTold, Exact
    <3>1. o # m /\ Exact(o, migrated[o].version)
      BY <1>1 DEF Exactly, ExactTold
    <3>2. CASE m = "injector"
      BY <2>1, <3>1, <3>2 DEF Tables
    <3>3. CASE m = "core"
      <4>1. o = "injector" /\ migrated[o].version = 0
        BY <2>2, <3>1, <3>3 DEF Tables, Reverted
      <4> QED BY <4>1 DEF Exact
    <3> QED BY <3>2, <3>3 DEF Tables
  <2>4. ExactTurn(p)'
    <3>1. pc'[p] = "clean" /\ Current(p)' = m /\ migrated'[m].version = v
      BY <1>m, <1>v, <1>1, <1>3 DEF Types, Current, Is
    <3>2. Exact(Current(p), migrated[Current(p)].version)'
      BY <2>1, <3>1 DEF Exact
    <3> QED BY <3>1, <3>2 DEF ExactTurn
  <2>5. ASSUME NEW q \in Proc \ {p} PROVE ExactTurn(q)'
    <3>1. \A o \in Tables : migrated[o].dirty /\ locks[o] = q =>
            migrated'[o].version = migrated[o].version /\ \A w : Exact(o, w) => Exact(o, w)'
      <4> SUFFICES ASSUME NEW o \in Tables, migrated[o].dirty, locks[o] = q
                   PROVE  \A w : Exact(o, w) => Exact(o, w)'
        BY <1>1
      <4>1. o # m /\ m = "injector" /\ o = "core"
        BY <1>1, <2>2 DEF Reverted, Tables
      <4> QED BY <2>1, <4>1
    <3> QED BY <3>1, ExactOthers DEF Exactly
  <2> QED BY <2>3, <2>4, <2>5 DEF Exactly
<1> QED BY <1>m, <1>v, <1>2, <1>3 DEF RunMigration, GoesTo, Goto, Returns

LEMMA ExactClean ==
  ASSUME Types, MoreTypes, Exactly, NEW p \in Proc, Step(p), CleanMigration(p),
         \A q \in Proc : Turn(q)
  PROVE  Exactly'
<1>m. PICK m \in Tables : m = Current(p)
  BY CurrentIsTable
<1>1. /\ pc[p] = "clean" /\ locks[m] = p /\ UNCHANGED db
      /\ migrated' = [migrated EXCEPT ![m].dirty = FALSE] /\ pc' = [pc EXCEPT ![p] = "next"]
      /\ Exact(m, migrated[m].version)
  BY <1>m DEF CleanMigration, GoesTo, Goto, Turn, Exactly, ExactTurn
<1>2. /\ \A o \in Tables : migrated'[o].version = migrated[o].version
      /\ \A o \in Tables \ {m} : migrated'[o] = migrated[o]
  BY <1>1, ZenonT(30) DEF Types
<1>3. \A o, u : Exact(o, u) => Exact(o, u)'
  BY <1>1 DEF Exact
<1>4. ExactTold'
  <2> SUFFICES ASSUME NEW o \in Tables, ~migrated'[o].dirty
               PROVE  \A u : u = migrated'[o].version => Exact(o, u)'
    BY DEF ExactTold, Exact
  <2>1. Exact(o, migrated[o].version)
    <3>1. CASE o = m
      BY <1>1, <3>1
    <3>2. CASE o # m
      BY <1>2, <3>2 DEF Exactly, ExactTold
    <3> QED BY <3>1, <3>2
  <2> QED BY <1>2, <1>3, <2>1
<1>5. ExactTurn(p)'
  <2>1. pc'[p] = "next"
    BY <1>1 DEF Types
  <2> QED BY <2>1 DEF ExactTurn
<1>6. \A q \in Proc \ {p} : ExactTurn(q)'
  BY <1>2, <1>3, ExactOthers DEF Exactly
<1> QED BY <1>4, <1>5, <1>6 DEF Exactly

\* The other steps.
LEMMA ExactPlain ==
  ASSUME Types, MoreTypes, Told, OldInv, NEW p \in Proc, Step(p) \/ CutOff(p), OfItsKind(p), Turn(p),
         InjectorOnCore, SetUpAsMeant,
         ~(NextMigration(p) \/ RunMigration(p) \/ CleanMigration(p) \/ DropPGStreamSchema(p))
  PROVE  /\ db'.triggers = db.triggers /\ db'.emit = db.emit
         /\ \A m \in Tables : migrated'[m].version = migrated[m].version /\
                              migrated'[m].dirty = migrated[m].dirty
         /\ \E l \in Labels \ {"run", "clean"} : pc' = [pc EXCEPT ![p] = l]
<1> USE DEF local, database, GoesTo, Goto, Returns, Labels
<1>0. command[p] \in Invocation
  BY DEF Types
<1>t. PICK t \in Tables : t = Table(p)
  BY CurrentIsTable
<1>1. CASE CreatePGStreamSchema(p) \/ CheckV09(p) \/ ListTriggers(p) \/ DropOldObject(p)
  BY <1>1 DEF CreatePGStreamSchema, CheckV09, ListTriggers, DropOldObject
<1>2. CASE DropTrigger(p)
  <2>1. UNCHANGED migrated /\ \E l \in {"dropTriggers", "dropOld"} : pc' = [pc EXCEPT ![p] = l]
    BY <1>2 DEF DropTrigger
  <2> QED BY <1>2, <2>1, NoTriggersYet
<1>3. CASE ReplicationSlotExists(p) \/ CreateReplicationSlot(p) \/ Succeed(p) \/ CutOff(p)
           \/ DropReplicationSlot(p) \/ LockMigrations(p)
  BY <1>3 DEF ReplicationSlotExists, CreateReplicationSlot, Succeed, CutOff, DropReplicationSlot,
              LockMigrations
<1>4. CASE StatusStep(p)
  BY <1>4 DEF StatusStep, ValidateSchemaStatus, ValidateMigrationStatus, NextAsset,
              ValidateReplicationSlotStatus
<1>5. CASE OpenMigrator(p)
  <2>1. UNCHANGED db /\ (UNCHANGED migrated \/ migrated' = [migrated EXCEPT ![t].exists = TRUE])
    BY <1>5, <1>t DEF OpenMigrator
  <2>2. (CASE Installs(p) -> "lock" [] Is(p, "destroy") -> "lock"
           [] Is(p, "status") -> "validateVersion") \in {"lock", "validateVersion"}
    BY <1>0 DEF Installs, Is, Invocation
  <2>3. \E l \in {"open", "lock", "validateVersion", "idle"} : pc' = [pc EXCEPT ![p] = l]
    BY <1>5, <2>2 DEF OpenMigrator, NextAsset
  <2>4. \A m \in Tables : migrated'[m].version = migrated[m].version /\
                          migrated'[m].dirty = migrated[m].dirty
    BY <2>1 DEF Types
  <2> QED BY <2>1, <2>3, <2>4
<1>6. CASE DropMigrationTables(p)
  <2>1. /\ pc[p] = "remove" /\ UNCHANGED db /\ migrated' = [migrated EXCEPT ![t] = Gone]
        /\ \E l \in {"remove", "succeed"} : pc' = [pc EXCEPT ![p] = l]
    BY <1>6, <1>t DEF DropMigrationTables, NextAsset
  <2>2. t = "injector" => command[p].injector
    BY <1>t, TablesOfCommand DEF Types
  <2>3. Reverted(t)
    BY <2>1, <2>2 DEF Turn
  <2>4. \A m \in Tables : migrated'[m].version = migrated[m].version /\
                          migrated'[m].dirty = migrated[m].dirty
    BY <2>1, <2>3 DEF Types, Gone, Reverted
  <2> QED BY <2>1, <2>4
<1> QED BY <1>1, <1>2, <1>3, <1>4, <1>5, <1>6 DEF Step, InitStep, MigratorStep, DestroyStep

LEMMA ExactStep ==
  ASSUME Sound, MoreTypes, SetUpAsMeant, Exactly, InjectorOnCore, OldInv,
         \A q \in Proc : OfItsKind(q), [SetupNext]_setupVars
  PROVE  Exactly'
<1>0. Types /\ Alone /\ Told /\ \A q \in Proc : Turn(q)
  BY DEF Sound
<1>1. ASSUME NEW p \in Proc, Step(p) \/ CutOff(p) PROVE Exactly'
  <2>1. CASE Step(p) /\ (NextMigration(p) \/ RunMigration(p) \/ CleanMigration(p))
    BY <1>0, <2>1, ExactNext, ExactRun, ExactClean
  <2>2. CASE DropPGStreamSchema(p)
    <3>1. /\ pc[p] = "remove" /\ pc' = [pc EXCEPT ![p] = "dropSlot"]
          /\ migrated' = [m \in Tables |-> Gone]
      BY <1>0, <2>2 DEF DropPGStreamSchema, GoesTo, Goto, Types
    <3>2. \A q \in Proc \ {p} : pc[q] = "idle"
      BY <1>0, <3>1 DEF Turn, Alone
    <3>3. \A q \in Proc : pc'[q] \notin {"run", "clean"}
      BY <1>0, <3>1, <3>2 DEF Types
    <3>4. ExactTold'
      BY <3>1 DEF ExactTold, Exact, Gone
    <3> QED BY <3>3, <3>4 DEF Exactly, ExactTurn
  <2>3. CASE ~(NextMigration(p) \/ RunMigration(p) \/ CleanMigration(p) \/ DropPGStreamSchema(p))
    <3>1. /\ db'.triggers = db.triggers /\ db'.emit = db.emit
          /\ \A m \in Tables : migrated'[m].version = migrated[m].version /\
                               migrated'[m].dirty = migrated[m].dirty
          /\ \E l \in Labels \ {"run", "clean"} : pc' = [pc EXCEPT ![p] = l]
      BY <1>0, <1>1, <2>3, ExactPlain
    <3> QED BY <1>0, <1>1, <3>1, ExactSame
  <2>4. CASE CutOff(p)
    <3>1. UNCHANGED <<db, migrated>> /\ pc' = [pc EXCEPT ![p] = "idle"]
      BY <2>4 DEF CutOff, Returns, Goto, database
    <3> QED BY <1>0, <2>4, <3>1, ExactSame DEF Labels
  <2> QED BY <1>1, <2>1, <2>2, <2>3, <2>4
<1>2. ASSUME NEW p \in Proc, NEW c \in Invocations, Begin(p, c) PROVE Exactly'
  <2>1. UNCHANGED <<db, migrated>>
    BY <1>0, <1>2, Begins DEF database
  <2>2. pc'[p] \notin {"run", "clean"}
    BY <1>0, <1>2, Begins
  <2>3. ASSUME NEW q \in Proc \ {p} PROVE ExactTurn(q)'
    <3>1. pc'[q] = pc[q] /\ command'[q] = command[q] /\ asset'[q] = asset[q]
      BY <1>0, <1>2, Begins
    <3>2. Current(q)' = Current(q) /\ Is(q, "destroy")' = Is(q, "destroy")
      BY <3>1 DEF Current, Is
    <3>3. Before(q)' = Before(q)
      BY <2>1, <3>2 DEF Before
    <3> QED BY <2>1, <3>1, <3>2, <3>3 DEF Exactly, ExactTurn, Exact
  <2> QED BY <2>1, <2>2, <2>3 DEF Exactly, ExactTold, ExactTurn, Exact
<1>3. CASE Stream \/ UNCHANGED setupVars
  BY <1>3 DEF Stream, setupVars, database, local, Exactly, ExactTold, ExactTurn, Exact, Current,
              Before, Is
<1> QED BY <1>1, <1>2, <1>3 DEF SetupNext

-----------------------------------------------------------------------------
(* The theorems.                                                           *)

Meant ==
  /\ Sound /\ MoreTypes /\ UpgradeAlone /\ Exactly /\ InjectorOnCore /\ OldInv
  /\ \A p \in Proc : OfItsKind(p) /\ Installing(p) /\ Checking(p)

LEMMA MeantInit ==
  ASSUME SetupInit
  PROVE  Meant
<1>1. Sound
  BY SoundInit
<1>2. /\ pc = [p \in Proc |-> "idle"] /\ command = [p \in Proc |-> CHOOSE c \in Invocations : TRUE]
      /\ asset = [p \in Proc |-> 1] /\ listed = [p \in Proc |-> {}]
      /\ problems = [p \in Proc |-> FALSE] /\ struck = [p \in Proc |-> FALSE]
      /\ outcome = [p \in Proc |-> "none"] /\ migrated = [m \in Tables |-> Gone]
      /\ schema \in BOOLEAN /\ old \in {{}, OldTriggers \cup ToSet(OldObjects)}
  BY DEF SetupInit, Tables
<1>3. (CHOOSE c \in Invocations : TRUE) \in Invocations
  BY SetupAssumption
<1>4. MoreTypes
  BY <1>2, <1>3 DEF MoreTypes
<1>5. \A m \in Tables : Reverted(m) /\ migrated[m].version = 0
  BY <1>2 DEF Reverted, Gone
<1>6. OldFirst
  <2>1. OldObjects[5] = "schema_migrations" /\ 5 \in DOMAIN OldObjects
    BY DEF OldObjects
  <2>2. "schema_migrations" \in ToSet(OldObjects)
    BY <2>1 DEF ToSet
  <2> QED BY <1>2, <1>5, <2>2 DEF OldFirst
<1>7. Exactly /\ InjectorOnCore
  BY <1>2, <1>5 DEF Exactly, ExactTold, ExactTurn, Exact, InjectorOnCore, Tables
<1>8. UpgradeAlone /\ \A p \in Proc : CleansUp(p)
  BY <1>2 DEF UpgradeAlone, CleansUp, InMigrator, Behind
<1>9. \A p \in Proc : OfItsKind(p) /\ Installing(p) /\ Checking(p)
  BY <1>2 DEF OfItsKind, Installing, Checking, InMigrator, Behind
<1> QED BY <1>1, <1>4, <1>6, <1>7, <1>8, <1>9 DEF Meant, OldInv

LEMMA MeantStep ==
  ASSUME SetUpAsMeant, Meant, [SetupNext]_setupVars
  PROVE  Meant'
<1>0. /\ Types /\ Alone /\ MoreTypes /\ UpgradeAlone /\ OldInv /\ InjectorOnCore /\ Exactly /\ Sound
      /\ "destroy" \notin Together /\ "upgrade" \notin Together /\ ~InitOnOld
      /\ \A p \in Proc : OfItsKind(p) /\ Installing(p) /\ Checking(p) /\ Turn(p)
  BY DEF Meant, Sound, SetUpAsMeant
<1>1. Sound'
  BY <1>0, SoundStep
<1>2. MoreTypes'
  BY <1>0, MoreTypesStep
<1>3. UpgradeAlone'
  <2>1. \A p, q \in Proc : p # q /\ pc[p] # "idle" /\ pc[q] # "idle" => ~Is(p, "upgrade")
    BY <1>0 DEF UpgradeAlone
  <2>2. \A p, q \in Proc : p # q /\ pc'[p] # "idle" /\ pc'[q] # "idle" => ~Is(p, "upgrade")'
    BY <1>0, <2>1, KeptAlone
  <2> QED BY <2>2 DEF UpgradeAlone, Is
<1>4. \A p \in Proc : OfItsKind(p)'
  BY <1>0, KindsStep
<1>5. OldInv'
  BY <1>0, OldStep
<1>6. \A p \in Proc : Installing(p)' /\ Checking(p)'
  BY <1>0, WorkStep
<1>7. InjectorOnCore'
  BY <1>0, InjectorStep
<1>8. Exactly'
  BY <1>0, ExactStep
<1> QED BY <1>1, <1>2, <1>3, <1>4, <1>5, <1>6, <1>7, <1>8 DEF Meant

\* A full set of versions is everything that a stream relies on.
LEMMA ReadyWhenFull ==
  ASSUME Meant, SetUpAsMeant, NEW p \in Proc, schema, \A m \in Mine(p) : Full(m)
  PROVE  Ready(command[p])
<1>0. Types /\ Told /\ InjectorOnCore /\ ExactTold /\ command[p] \in Invocations
  BY DEF Meant, Sound, MoreTypes, Exactly
<1>1. Mine(p) = ToSet(Assets(command[p])) /\ "core" \in Mine(p)
  BY <1>0, MineAll DEF Mine, Tables
<1>2. db.triggers = Triggers /\ db.emit # "none" /\ db.emit \in Bodies
  <2>1. Full("core")
    BY <1>1
  <2> QED BY <1>0, <2>1 DEF Full, ExactTold, Exact, Tables, Migrations, Types
<1>3. CASE command[p].injector
  <2>1. Full("injector")
    BY <1>3 DEF Mine, Tables
  <2>2. db.emit = "injector"
    BY <1>0, <2>1 DEF Full, ExactTold, Exact, Tables, Migrations
  <2> QED BY <1>1, <1>2, <1>3, <2>2 DEF Ready, Full
<1>4. CASE ~command[p].injector
  <2>1. Reverted("injector")
    BY <1>0, <1>4 DEF SetUpAsMeant, InjectorOnCore
  <2>2. db.emit # "injector"
    BY <1>0, <2>1 DEF Told, Level, Reverted, Tables
  <2>3. db.emit = "core"
    BY <1>2, <2>2 DEF Bodies
  <2> QED BY <1>1, <1>2, <1>4, <2>3 DEF Ready, Full
<1> QED BY <1>3, <1>4

\* The steps that end a command, and what they return.
LEMMA HowItEnds ==
  ASSUME Types, MoreTypes, NEW p \in Proc, SetupNext, pc[p] # "idle", pc'[p] = "idle"
  PROVE  \/ CutOff(p) /\ struck'[p] /\ outcome'[p] = "error"
         \/ DropOldObject(p) /\ outcome'[p] = "error"
         \/ OpenMigrator(p) /\ ~schema /\ outcome'[p] = "error"
         \/ LockMigrations(p) /\ outcome'[p] = "error" /\
              (~migrated[Current(p)].exists \/ migrated[Current(p)].dirty)
         \/ RunMigration(p) /\ ~Is(p, "destroy") /\ outcome'[p] = "error" /\
              UpFails(Current(p), migrated[Current(p)].version, db)
         \/ Succeed(p) /\ outcome'[p] = "ok"
         \/ DropReplicationSlot(p) /\ outcome'[p] = "error"
         \/ ValidateReplicationSlotStatus(p) /\
              outcome'[p] = IF problems'[p] THEN "problems" ELSE "clean"
<1>0. pc \in [Proc -> Labels] /\ DOMAIN outcome = Proc /\ DOMAIN struck = Proc
      /\ command[p] \in Invocation
  BY DEF Types, MoreTypes
<1>1. Step(p) \/ CutOff(p)
  <2>1. ASSUME NEW q \in Proc \ {p}, Step(q) \/ CutOff(q) PROVE FALSE
    BY <2>1, OthersStand
  <2>2. ASSUME NEW q \in Proc, NEW c \in Invocations, Begin(q, c) PROVE FALSE
    BY <2>2, Begins
  <2>3. CASE Stream
    BY <2>3 DEF Stream
  <2> QED BY <2>1, <2>2, <2>3 DEF SetupNext
<1> USE DEF GoesTo, Goto, Returns
<1>2. CASE CutOff(p)
  BY <1>0, <1>2 DEF CutOff
<1>3. CASE CreatePGStreamSchema(p) \/ CheckV09(p) \/ ListTriggers(p) \/ DropTrigger(p)
           \/ ReplicationSlotExists(p) \/ CreateReplicationSlot(p) \/ ValidateSchemaStatus(p)
           \/ DropPGStreamSchema(p) \/ CleanMigration(p)
  BY <1>0, <1>3 DEF CreatePGStreamSchema, CheckV09, ListTriggers, DropTrigger,
     ReplicationSlotExists, CreateReplicationSlot, ValidateSchemaStatus, DropPGStreamSchema,
     CleanMigration
<1>4. CASE DropOldObject(p) \/ Succeed(p) \/ DropReplicationSlot(p)
  BY <1>0, <1>4 DEF DropOldObject, Succeed, DropReplicationSlot
<1>5. CASE OpenMigrator(p)
  <2>1. (CASE Installs(p) -> "lock" [] Is(p, "destroy") -> "lock"
           [] Is(p, "status") -> "validateVersion") \in {"lock", "validateVersion"}
    BY <1>0 DEF Installs, Is, Invocation
  <2> QED BY <1>0, <1>5, <2>1 DEF OpenMigrator, NextAsset
<1>6. CASE LockMigrations(p)
  BY <1>0, <1>6 DEF LockMigrations
<1>7. CASE NextMigration(p) \/ DropMigrationTables(p) \/ ValidateMigrationStatus(p)
  BY <1>0, <1>7 DEF NextMigration, DropMigrationTables, ValidateMigrationStatus, NextAsset
<1>8. CASE RunMigration(p)
  BY <1>0, <1>8 DEF RunMigration
<1>9. CASE ValidateReplicationSlotStatus(p)
  BY <1>0, <1>9 DEF ValidateReplicationSlotStatus
<1> QED BY <1>1, <1>2, <1>3, <1>4, <1>5, <1>6, <1>7, <1>8, <1>9
        DEF Step, InitStep, MigratorStep, DestroyStep, StatusStep

\* An install that ends was refused by a dirty version, was cut off, or has everything
\* in place.
LEMMA InstallEnds ==
  ASSUME SetUpAsMeant, Meant, SetupNext, NEW p \in Proc, Installs(p)
  PROVE  /\ Finishes(p, "error") /\ ~struck'[p] => \E m \in DOMAIN migrated : migrated[m].dirty
         /\ Finishes(p, "ok") =>
              /\ Ready(command[p])' /\ (~command[p].only => slot' # "none")
              /\ Is(p, "upgrade") => old' = {}
<1>0. /\ Types /\ MoreTypes /\ OfItsKind(p) /\ Installing(p) /\ Turn(p) /\ CleansUp(p) /\ OldFirst
      /\ old \subseteq OldTriggers \cup ToSet(OldObjects) /\ ~Is(p, "destroy") /\ ~Is(p, "status")
  BY DEF Meant, Sound, OldInv, MoreTypes, Installs, Is
<1>1. ASSUME Finishes(p, "error"), ~struck'[p]
      PROVE  \E m \in DOMAIN migrated : migrated[m].dirty
  <2>0. pc[p] # "idle" /\ pc'[p] = "idle" /\ outcome'[p] = "error"
    BY <1>1 DEF Finishes
  <2>1. ASSUME DropOldObject(p) PROVE FALSE
    <3>1. old \cap OldTriggers = {}
      BY <1>0, <2>1 DEF DropOldObject, CleansUp
    <3>2. pc' = [pc EXCEPT ![p] = "open"] \/ pc' = [pc EXCEPT ![p] = "dropOld"]
      BY <1>0, <2>1, <3>1, DropsInOrder DEF OldFirst
    <3> QED BY <1>0, <2>0, <3>2 DEF Types
  <2>2. ASSUME OpenMigrator(p), ~schema PROVE FALSE
    BY <1>0, <2>2 DEF OpenMigrator, Installing
  <2>3. ASSUME RunMigration(p), UpFails(Current(p), migrated[Current(p)].version, db) PROVE FALSE
    <3>1. pc[p] = "run" /\ Current(p) = "core" /\ migrated["core"].version = 2 /\ db.triggers # {}
      BY <2>3 DEF RunMigration, UpFails
    <3>2. Before(p) = 1
      BY <1>0, <3>1 DEF Before
    <3>3. Level("core", 1)
      BY <1>0, <3>1, <3>2 DEF Turn
    <3> QED BY <3>1, <3>3 DEF Level
  <2>4. ASSUME LockMigrations(p), ~migrated[Current(p)].exists \/ migrated[Current(p)].dirty
        PROVE  \E m \in DOMAIN migrated : migrated[m].dirty
    <3>1. pc[p] = "lock" /\ Current(p) \in Mine(p)
      BY <1>0, <2>4, TablesOfCommand DEF LockMigrations, Mine, Tables
    <3>2. Current(p) \in DOMAIN migrated /\ migrated[Current(p)].exists
      BY <1>0, <3>1 DEF Installing, InMigrator, Types, Mine
    <3> QED BY <2>4, <3>2
  <2>5. ~DropReplicationSlot(p)
    BY <1>0 DEF DropReplicationSlot, OfItsKind
  <2> QED BY <1>0, <1>1, <2>0, <2>1, <2>2, <2>3, <2>4, <2>5, HowItEnds
<1>2. ASSUME Finishes(p, "ok")
      PROVE  /\ Ready(command[p])' /\ (~command[p].only => slot' # "none")
             /\ Is(p, "upgrade") => old' = {}
  <2>1. Succeed(p)
    BY <1>0, <1>2, HowItEnds DEF Finishes
  <2>2. pc[p] = "succeed" /\ UNCHANGED <<schema, migrated, db, old, slot, command>>
    BY <2>1 DEF Succeed, database, local
  <2>3. schema /\ (\A m \in Mine(p) : Full(m)) /\ (~command[p].only => slot # "none") /\ old = {}
    BY <1>0, <2>2 DEF Installing, CleansUp, Behind
  <2>4. Ready(command[p])
    BY <2>3, ReadyWhenFull
  <2>5. Ready(command[p])'
    BY <2>2, <2>4 DEF Ready
  <2> QED BY <2>2, <2>3, <2>5
<1> QED BY <1>1, <1>2

\* A status that ends clean has seen everything in place, and nobody has taken it away.
LEMMA StatusEnds ==
  ASSUME SetUpAsMeant, Meant, SetupNext, NEW p \in Proc, Finishes(p, "clean")
  PROVE  Ready(command[p])' /\ slot' = "own"
<1>0. Types /\ MoreTypes /\ OfItsKind(p) /\ Checking(p)
  BY DEF Meant, Sound
<1>1. ValidateReplicationSlotStatus(p) /\ ~problems'[p]
  BY <1>0, HowItEnds DEF Finishes
<1>2. /\ pc[p] = "validateSlot" /\ UNCHANGED <<schema, migrated, db, slot, command>>
      /\ problems'[p] = (problems[p] \/ slot # "own")
  BY <1>0, <1>1 DEF ValidateReplicationSlotStatus, Notes, database, MoreTypes
<1>3. schema /\ (\A m \in Mine(p) : Full(m)) /\ slot = "own"
  BY <1>0, <1>1, <1>2 DEF Checking, OfItsKind
<1>4. Ready(command[p])
  BY <1>3, ReadyWhenFull
<1>5. Ready(command[p])'
  BY <1>2, <1>4 DEF Ready
<1> QED BY <1>2, <1>3, <1>5

\* For any number of processes and commands, from any database and with commands cut
\* off anywhere: an init that is not cut off is refused by a dirty version or
\* succeeds, and one that succeeds leaves schema, migrations, triggers and slot in
\* place and nothing of v0.9 (Init in stream_init.go), whatever ran before it or
\* beside it, if the commands are given as meant.
THEOREM InstallsSucceed == SetUpAsMeant /\ SetupSpec => InitSucceeds
<1> SUFFICES ASSUME SetUpAsMeant PROVE SetupSpec => InitSucceeds
  OBVIOUS
<1>1. SetupInit => Meant
  BY MeantInit
<1>2. Meant /\ [SetupNext]_setupVars => Meant'
  BY MeantStep
<1>3. Meant /\ [SetupNext]_setupVars =>
        [\A p \in Proc : Installs(p) =>
           /\ Finishes(p, "error") /\ ~struck'[p] => \E m \in DOMAIN migrated : migrated[m].dirty
           /\ Finishes(p, "ok") =>
                /\ Ready(command[p])' /\ (~command[p].only => slot' # "none")
                /\ Is(p, "upgrade") => old' = {}]_setupVars
  BY InstallEnds
<1> QED BY <1>1, <1>2, <1>3, PTL DEF SetupSpec, InitSucceeds

\* A status without problems (Status in stream_status_checker.go, which looks at the
\* schema, the versions and the slot one after the other) is true when it is given.
THEOREM CleanStatusIsTrue == SetUpAsMeant /\ SetupSpec => CleanStatusMeansReady
<1> SUFFICES ASSUME SetUpAsMeant PROVE SetupSpec => CleanStatusMeansReady
  OBVIOUS
<1>1. SetupInit => Meant
  BY MeantInit
<1>2. Meant /\ [SetupNext]_setupVars => Meant'
  BY MeantStep
<1>3. Meant /\ [SetupNext]_setupVars =>
        [\A p \in Proc : Finishes(p, "clean") => Ready(command[p])' /\ slot' = "own"]_setupVars
  BY StatusEnds
<1> QED BY <1>1, <1>2, <1>3, PTL DEF SetupSpec, CleanStatusMeansReady
=============================================================================
