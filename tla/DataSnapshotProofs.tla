-------------------------- MODULE DataSnapshotProofs --------------------------
(***************************************************************************)
(* What the copy of the rows promises, for every set of schemas and        *)
(* tables, every layout of their pages, every batch size and any number of *)
(* workers: every row of an accepted snapshot was handed on once, and one  *)
(* that is missing in the target had a sender that nobody heard of.        *)
(*                                                                         *)
(* The invariant Safe has a part for each reason: the page ranges that the *)
(* workers of a table hold partition what was given out (Ranges), an error *)
(* reaches the result unless two are stored at once (Reported, Blame), and *)
(* what a sender accepted stays with it until it is written (Kept).        *)
(***************************************************************************)
EXTENDS DataSnapshot, FiniteSetTheorems, TLAPS

Shape == SizesAssumption /\ source \in Snapshots /\ TypeOK

\* Where the copy stands: a schema that has begun is asked for, a table is copied
\* while its schema's snapshot is open, and by workers that run.
Stages ==
  /\ snap = "idle" => asked = {} /\ \A s \in Schema : schema[s] = "queued"
  /\ \A s \in Schema : schema[s] # "queued" => TablesOf(s) # {}
  /\ \A t \in Table :
       /\ table[t] # "queued" => t \in asked
       /\ table[t] = "copying" => schema[source.schema[t]] = "open" /\ source.last[t] # Missing
       /\ \A w \in TableWorker : worker[t][w].at \in {"reading", "building"} => table[t] = "copying"
       /\ table[t] = "queued" =>
            mapped[t] = Nobody /\ \A w \in TableWorker : worker[t][w].at = "idle"
  /\ snap \in {"closing", "ok", "error"} =>
       \A s \in Schema : schema[s] = "ended" \/ TablesOf(s) = {}

\* The pages below this one have been given to a worker.
Front(t) == taken[t] * BatchPageSize(t)

\* What the workers of a table have left to read is theirs alone, and not read;
\* with what has been read it makes up what has been given out.
Ranges(t) ==
  /\ taken[t] <= pushed[t]
  /\ \A w \in TableWorker :
       /\ worker[t][w].at \in {"idle", "off"} => worker[t][w].pages = {}
       /\ worker[t][w].at = "building" => worker[t][w].pages # {}
       /\ worker[t][w].at = "off" => taken[t] = pushed[t] /\ ~HasRange(t, pushed[t])
       /\ \A p \in worker[t][w].pages :
            /\ p \in source.rows[t] /\ p < Front(t) /\ handed[<<t, p>>] = 0
            /\ \A v \in TableWorker \ {w} : p \notin worker[t][v].pages
  /\ \A p \in source.rows[t] :
       /\ handed[<<t, p>>] <= 1
       /\ p >= Front(t) => handed[<<t, p>>] = 0
       /\ p < Front(t) => handed[<<t, p>>] = 1 \/ \E w \in TableWorker : p \in worker[t][w].pages
       /\ table[t] = "done" => handed[<<t, p>>] = 1

Unread(s) == \E t \in TablesOf(s) : \E p \in source.rows[t] : handed[<<t, p>>] = 0

\* Of two errors that are stored at the same time one may be lost, not both.
Reported ==
  /\ (\E s \in Schema : schema[s] = "ended" /\ Unread(s)) =>
       errors # {} \/ \E s \in Schema : schema[s] \in {"failing", "storing"}
  /\ snap = "ok" => errors = {}

Broken(t) ==
  \/ table[t] = "failed"
  \/ table[t] = "copying" /\ \E w \in TableWorker :
       \/ worker[t][w].at = "failed"
       \/ sender[t][w].loop = "stopped" \/ sender[t][w].writer = "failed"

Culprit(s) ==
  \/ schema[s] \in {"failing", "storing"}
  \/ s \in errors
  \/ \E t \in TablesOf(s) : Broken(t)

\* One failed operation concerns one schema, whose error is stored alone.
Blame ==
  /\ faults = 0 => \A s \in Schema : ~Culprit(s)
  /\ faults <= 1 => \A s, x \in Schema : Culprit(s) /\ Culprit(x) => s = x
  /\ faults <= 1 => \A s \in Schema : schema[s] = "ended" /\ Unread(s) => s \in errors

Holds(t, k, r) == r \in sender[t][k].batch \cup sender[t][k].writing

\* A row that was accepted is in the target, in a sender, or lost by a writer that
\* failed; only the sender in the map is waited for.
Kept(t) ==
  /\ \A w \in TableWorker :
       /\ mapped[t] = Nobody \/ worker[t][w].at = "building" => sender[t][w] = NoSender
       /\ worker[t][w].at = "building" => mapped[t] # w
       /\ sender[t][w].loop = "stopped" => sender[t][w].batch = {}
  /\ \A p \in source.rows[t] : handed[<<t, p>>] = 1 =>
       \/ <<t, p>> \in target
       \/ \E k \in TableWorker : Holds(t, k, <<t, p>>) \/ sender[t][k].writer = "failed"
  /\ Closed /\ mapped[t] # Nobody =>
       sender[t][mapped[t]].loop = "stopped" /\ sender[t][mapped[t]].writing = {}

Safe ==
  /\ Shape /\ Stages /\ Reported /\ Blame
  /\ \A t \in Table : Ranges(t) /\ Kept(t)
-----------------------------------------------------------------------------
(* What the source has.                                                    *)

\* A set of numbers has a least one: otherwise the numbers below all of its would
\* be finitely many, and each have a successor among them.
LEMMA Least ==
  ASSUME NEW S \in SUBSET Nat, S # {}
  PROVE  \E p \in S : \A q \in S : p <= q
<1> SUFFICES ASSUME \A p \in S : \E q \in S : q < p PROVE FALSE
  OBVIOUS
<1> DEFINE U == {n \in Nat : \A q \in S : n < q}
           next == [n \in U |-> n + 1]
<1>1. 0 \in U /\ \A n \in U : n + 1 \in U
  <2>1. \A n \in Nat : (\A q \in S : n <= q) => n \in U
    OBVIOUS
  <2> QED BY <2>1
<1>2. IsFiniteSet(U)
  <2>1. PICK m \in S : TRUE
    OBVIOUS
  <2>2. \A n \in U : n <= m
    OBVIOUS
  <2> QED BY <2>2, FS_BoundedSetOfNaturals
<1>3. next \in Injection(U, U)
  BY <1>1 DEF Injection, IsInjective
<1>4. next \in Surjection(U, U)
  BY <1>2, <1>3, FS_Injection
<1>5. PICK n \in U : next[n] = 0
  BY <1>1, <1>4 DEF Surjection
<1> QED BY <1>5

\* What the assumption says of the source that is copied.
LEMMA Sources ==
  ASSUME Shape, NEW t \in Table
  PROVE  /\ source.schema[t] \in Schema /\ source.last[t] \in Nat \cup {-1}
         /\ source.rows[t] \subseteq 0..source.last[t] /\ source.maxFaults \in Nat
         /\ TableWorker # {} /\ Nobody \notin TableWorker
BY DEF Shape, SizesAssumption, Missing

\* The rows of a table are its pages.
LEMMA RowsAre ==
  ASSUME NEW t \in Table
  PROVE  /\ \A p \in source.rows[t] : <<t, p>> \in Rows
         /\ \A r \in Rows : r[1] = t => r = <<t, r[2]>> /\ r[2] \in source.rows[t]
BY DEF Rows

\* Every row is one of a table.
LEMMA RowsOfTables ==
  ASSUME NEW r \in Rows
  PROVE  r[1] \in Table /\ r[2] \in source.rows[r[1]] /\ r = <<r[1], r[2]>>
BY DEF Rows

\* A range has a page at least.
LEMMA RangeHasPages ==
  ASSUME Shape, NEW t \in Table, source.last[t] # Missing
  PROVE  BatchPageSize(t) \in Nat \ {0}
<1> DEFINE size == BatchBytes \div AvgPageBytes
<1>1. source.last[t] \in Nat /\ BatchBytes \in Nat /\ AvgPageBytes \in Nat
  BY Sources DEF Shape, SizesAssumption, Missing
<1>2. AvgPageBytes # 0 => size \in Nat
  BY <1>1
<1>3. BatchPageSize(t) = IF source.last[t] = 0 THEN 1
      ELSE IF BatchBytes = 0 \/ AvgPageBytes = 0 THEN source.last[t]
      ELSE IF size = 0 THEN 1
      ELSE IF size > source.last[t] THEN source.last[t] ELSE size
  BY DEF BatchPageSize
<1> HIDE DEF size
<1> QED BY <1>1, <1>2, <1>3

\* The ranges lie side by side: each begins where the one before it ends.
LEMMA RangesAdjoin ==
  ASSUME Shape, NEW t \in Table, source.last[t] # Missing, NEW n \in Nat
  PROVE  /\ n * BatchPageSize(t) \in Nat /\ (n + 1) * BatchPageSize(t) \in Nat
         /\ n * BatchPageSize(t) < (n + 1) * BatchPageSize(t)
         /\ \A p \in source.rows[t] :
              p \in RangePages(t, n) <=> p >= n * BatchPageSize(t) /\ p < (n + 1) * BatchPageSize(t)
         /\ RangePages(t, n) \subseteq source.rows[t]
<1>1. PICK s \in Nat \ {0} : s = BatchPageSize(t)
  BY RangeHasPages
<1>2. n * s \in Nat /\ (n + 1) * s = n * s + s
  OBVIOUS
<1>3. RangePages(t, n) = (n * s)..((n + 1) * s - 1) \cap source.rows[t]
  BY <1>1 DEF RangePages, RangeStart
<1>4. source.rows[t] \subseteq Int
  BY Sources
<1> QED BY <1>1, <1>2, <1>3, <1>4
-----------------------------------------------------------------------------
(* Steps.                                                                  *)

Started == NotStarted \/ \E tables \in SUBSET Table : Start(tables)

\* The steps of CreateSnapshot and its schema workers.
Outer ==
  \/ Started \/ CloseProcessor \/ Finish
  \/ \E s \in Schema : TakeSchema(s) \/ EndSchema(s) \/ StoreError(s)
  \/ \E t \in Table : TakeTable(t) \/ EndTable(t)

\* What a worker becomes, by a step that hands on no row.
Reads(t, w) == PushRange(t) \/ TakeRange(t, w) \/ RangeFails(t, w) \/ RangeEnds(t, w)
Hands(t, w) == HandRow(t, w) \/ BuildSender(t, w)
Sends(t, k) == Drain(t, k) \/ Write(t, k) \/ NoticeFailure(t, k)

\* A step is one of the generator or of a worker or sender of a table.
LEMMA StepKinds ==
  ASSUME Started \/ Next, TableWorker # {}
  PROVE  \/ Outer
         \/ \E t \in Table, w \in TableWorker : Reads(t, w) \/ Hands(t, w) \/ Sends(t, w)
<1>1. ASSUME NEW t \in Table, PushRange(t)
      PROVE  \E w \in TableWorker : Reads(t, w)
  BY <1>1 DEF Reads
<1> QED BY <1>1 DEF Next, Work, Outer, Reads, Hands, Sends

Refuses(t, w, senders) ==
  /\ worker' = [worker EXCEPT ![t][w].at = "failed"]
  /\ sender' = senders /\ handed' = handed

Accepts(t, w, k, senders, page) ==
  /\ worker' = [worker EXCEPT ![t][w] =
                  [at |-> "reading", pages |-> worker[t][w].pages \ {page}]]
  /\ sender' = [senders EXCEPT ![t][k].batch = @ \cup {<<t, page>>}]
  /\ handed' = [handed EXCEPT ![<<t, page>>] = @ + 1]

\* A sender that stands still refuses the row; another one puts it into its batch.
LEMMA SendDoes ==
  ASSUME Shape, NEW t \in Table, NEW w \in TableWorker, worker[t][w].pages # {},
         NEW k, NEW senders, Send(t, w, k, senders)
  PROVE  \/ senders[t][k].loop = "stopped" /\ Refuses(t, w, senders)
         \/ /\ senders[t][k].loop # "stopped"
            /\ \E page \in worker[t][w].pages : Accepts(t, w, k, senders, page)
<1> DEFINE page == CHOOSE p \in worker[t][w].pages : \A q \in worker[t][w].pages : p <= q
<1>1. worker[t][w].pages \in SUBSET Nat
  BY DEF Shape, TypeOK
<1>2. page \in worker[t][w].pages
  BY <1>1, Least
<1>3. [worker EXCEPT ![t][w] = [at |-> "reading", pages |-> @.pages \ {page}]] =
      [worker EXCEPT ![t][w] = [at |-> "reading", pages |-> worker[t][w].pages \ {page}]]
  BY DEF Shape, TypeOK
<1>4. IF senders[t][k].loop = "stopped"
      THEN /\ worker' = [worker EXCEPT ![t][w].at = "failed"]
           /\ sender' = senders
           /\ UNCHANGED handed
      ELSE /\ worker' = [worker EXCEPT ![t][w] =
                           [at |-> "reading", pages |-> @.pages \ {page}]]
           /\ sender' = [senders EXCEPT ![t][k].batch = @ \cup {<<t, page>>}]
           /\ handed' = [handed EXCEPT ![<<t, page>>] = @ + 1]
  BY DEF Send
<1> HIDE DEF page
<1>5. senders[t][k].loop # "stopped" => Accepts(t, w, k, senders, page)
  BY <1>3, <1>4 DEF Accepts
<1>6. senders[t][k].loop = "stopped" => Refuses(t, w, senders)
  BY <1>4 DEF Refuses
<1> QED BY <1>2, <1>5, <1>6

NewSender == [loop |-> "running", writer |-> "running", batch |-> {}, writing |-> {}]

\* The row joins the batch of s, the sender that the map names or the one just built.
Joins(t, w, k, s, page) ==
  /\ worker' = [worker EXCEPT ![t][w] =
                  [at |-> "reading", pages |-> worker[t][w].pages \ {page}]]
  /\ handed' = [handed EXCEPT ![<<t, page>>] = @ + 1]
  /\ sender' = [sender EXCEPT ![t][k] = [s EXCEPT !.batch = s.batch \cup {<<t, page>>}]]
  /\ \/ /\ worker[t][w].at = "reading" /\ k = mapped[t] /\ mapped' = mapped
        /\ s = sender[t][k] /\ s.loop # "stopped"
     \/ /\ worker[t][w].at = "building" /\ k = w /\ s = NewSender
        /\ mapped' = [mapped EXCEPT ![t] = w]

\* A worker without a sender builds one; with one, its next row is refused or joins.
LEMMA HandsDoes ==
  ASSUME Shape, NEW t \in Table, NEW w \in TableWorker, Ranges(t), Hands(t, w)
  PROVE  /\ UNCHANGED <<schemaVars, pushed, taken, target, faults>>
         /\ worker[t][w].pages # {}
         /\ \/ /\ worker[t][w].at = "reading" /\ mapped[t] = Nobody
               /\ worker' = [worker EXCEPT ![t][w].at = "building"]
               /\ UNCHANGED <<sender, handed, mapped>>
            \/ /\ worker[t][w].at = "reading" /\ mapped[t] \in TableWorker
               /\ sender[t][mapped[t]].loop = "stopped"
               /\ worker' = [worker EXCEPT ![t][w].at = "failed"]
               /\ UNCHANGED <<sender, handed, mapped>>
            \/ \E k \in TableWorker, page \in worker[t][w].pages :
               \E s \in {sender[t][k], NewSender} : Joins(t, w, k, s, page)
<1>0. /\ sender \in [Table -> [TableWorker -> [loop : {"none", "running", "stopped"},
            writer : {"none", "running", "failed"}, batch : SUBSET Rows, writing : SUBSET Rows]]]
      /\ mapped \in [Table -> TableWorker \cup {Nobody}]
  BY DEF Shape, TypeOK
<1>1. CASE HandRow(t, w)
  <2>1. worker[t][w].at = "reading" /\ worker[t][w].pages # {}
        /\ UNCHANGED <<schemaVars, pushed, taken, mapped, target, faults>>
    BY <1>1 DEF HandRow
  <2>2. CASE mapped[t] = Nobody
    BY <1>1, <2>1, <2>2 DEF HandRow
  <2>3. CASE mapped[t] # Nobody
    <3>1. PICK k \in TableWorker : k = mapped[t]
      BY <1>0, <2>3
    <3>2. Send(t, w, k, sender)
      BY <1>1, <2>3, <3>1 DEF HandRow
    <3>3. CASE sender[t][k].loop = "stopped" /\ Refuses(t, w, sender)
      BY <2>1, <3>1, <3>3 DEF Refuses
    <3>4. ASSUME sender[t][k].loop # "stopped", NEW page \in worker[t][w].pages,
                 Accepts(t, w, k, sender, page)
          PROVE  Joins(t, w, k, sender[t][k], page)
      <4>1. sender' = [sender EXCEPT ![t][k] =
                         [sender[t][k] EXCEPT !.batch = sender[t][k].batch \cup {<<t, page>>}]]
        BY <1>0, <3>4 DEF Accepts
      <4> QED BY <2>1, <3>1, <3>4, <4>1 DEF Accepts, Joins
    <3>5. \/ sender[t][k].loop = "stopped" /\ Refuses(t, w, sender)
          \/ /\ sender[t][k].loop # "stopped"
             /\ \E page \in worker[t][w].pages : Accepts(t, w, k, sender, page)
      BY <2>1, <3>2, SendDoes
    <3> QED BY <2>1, <3>3, <3>4, <3>5
  <2> QED BY <2>2, <2>3
<1>2. CASE BuildSender(t, w)
  <2> DEFINE built == [sender EXCEPT ![t][w] = NewSender]
  <2>1. /\ worker[t][w].at = "building" /\ mapped' = [mapped EXCEPT ![t] = w]
        /\ UNCHANGED <<schemaVars, pushed, taken, target, faults>>
    BY <1>2 DEF BuildSender
  <2>2. Send(t, w, w, built)
    <3>1. [NoSender EXCEPT !.loop = "running", !.writer = "running"] = NewSender
      <4> SUFFICES ASSUME NEW s, s = [NoSender EXCEPT !.loop = "running", !.writer = "running"]
                   PROVE  s = NewSender
        OBVIOUS
      <4> QED BY DEF NoSender, NewSender
    <3>2. Send(t, w, w, [sender EXCEPT ![t][w] =
                           [NoSender EXCEPT !.loop = "running", !.writer = "running"]])
      BY <1>2 DEF BuildSender
    <3> QED BY <3>1, <3>2
  <2>3. worker[t][w].pages # {}
    BY <2>1 DEF Ranges
  <2>4. built[t][w] = NewSender
    BY <1>0
  <2>5. NewSender.loop # "stopped"
    BY DEF NewSender
  <2>6. PICK page \in worker[t][w].pages : Accepts(t, w, w, built, page)
    <3> HIDE DEF built
    <3> QED BY <2>2, <2>3, <2>4, <2>5, SendDoes
  <2>7. sender' = [sender EXCEPT ![t][w] =
                     [NewSender EXCEPT !.batch = NewSender.batch \cup {<<t, page>>}]]
    BY <1>0, <2>6 DEF NewSender, Accepts
  <2>8. Joins(t, w, w, NewSender, page)
    BY <2>1, <2>6, <2>7 DEF Accepts, Joins
  <2> QED BY <2>1, <2>3, <2>8
<1> QED BY <1>1, <1>2 DEF Hands

\* The generator leaves the workers and senders alone.
LEMMA OuterDoes ==
  ASSUME Outer
  PROVE  UNCHANGED <<source, copyVars>>
<1>1. Started => UNCHANGED <<source, copyVars>>
  BY DEF Started, NotStarted, Start
<1>2. CloseProcessor \/ Finish => UNCHANGED <<source, copyVars>>
  BY DEF CloseProcessor, Finish
<1>3. \A s \in Schema : TakeSchema(s) \/ EndSchema(s) \/ StoreError(s)
                          => UNCHANGED <<source, copyVars>>
  BY DEF TakeSchema, EndSchema, StoreError
<1>4. \A t \in Table : TakeTable(t) \/ EndTable(t) => UNCHANGED <<source, copyVars>>
  BY DEF TakeTable, EndTable
<1> QED BY <1>1, <1>2, <1>3, <1>4 DEF Outer

Workers == [at : {"idle", "reading", "building", "failed", "off"}, pages : SUBSET Nat]
Senders == [loop : {"none", "running", "stopped"}, writer : {"none", "running", "failed"},
            batch : SUBSET Rows, writing : SUBSET Rows]

\* What a change of one place in a table of tables leaves and sets.
LEMMA Updated ==
  ASSUME NEW V, NEW f \in [Table -> [TableWorker -> V]], NEW t \in Table, NEW w \in TableWorker,
         NEW v \in V, NEW g, g = [f EXCEPT ![t][w] = v]
  PROVE  /\ g \in [Table -> [TableWorker -> V]]
         /\ \A x \in Table, y \in TableWorker : g[x][y] = IF x = t /\ y = w THEN v ELSE f[x][y]
OBVIOUS

\* A sender's own step changes that sender, and may write what it is writing.
LEMMA SendsDoes ==
  ASSUME Shape, NEW t \in Table, NEW k \in TableWorker, Sends(t, k)
  PROVE  /\ UNCHANGED <<schemaVars, pushed, taken, worker, handed, mapped>>
         /\ \E new \in Senders : sender' = [sender EXCEPT ![t][k] = new]
         /\ target' = target \/ target' = target \cup sender[t][k].writing
         /\ faults' = faults \/ Fault
<1>1. sender[t][k] \in Senders
  BY DEF Shape, TypeOK, Senders
<1>2. CASE Drain(t, k)
  BY <1>1, <1>2 DEF Drain, SenderStep, Senders
<1>3. CASE Write(t, k)
  BY <1>1, <1>3 DEF Write, SenderStep, Senders
<1>4. CASE NoticeFailure(t, k)
  BY <1>1, <1>4 DEF NoticeFailure, SenderStep, Senders
<1> QED BY <1>2, <1>3, <1>4 DEF Sends

\* What a step of a range worker changes that hands on no row.
LEMMA ReadsDoes ==
  ASSUME Shape, NEW t \in Table, NEW w \in TableWorker, Reads(t, w)
  PROVE  /\ UNCHANGED <<schemaVars, handed, mapped, sender, target>>
         /\ worker' = worker \/ \E new \in Workers : worker' = [worker EXCEPT ![t][w] = new]
         /\ pushed' = pushed \/ pushed' = [pushed EXCEPT ![t] = @ + 1]
         /\ taken' = taken \/ taken' = [taken EXCEPT ![t] = @ + 1]
         /\ faults' = faults \/ Fault
<1>1. worker[t][w] \in Workers /\ worker \in [Table -> [TableWorker -> Workers]]
  BY DEF Shape, TypeOK, Workers
<1>2. CASE PushRange(t)
  BY <1>2 DEF PushRange
<1>3. CASE TakeRange(t, w)
  <2>1. RangePages(t, taken[t]) \in SUBSET Nat
    BY Sources DEF RangePages
  <2>2. \/ worker' = [worker EXCEPT ![t][w] = [at |-> "reading", pages |-> RangePages(t, taken[t])]]
        \/ worker' = [worker EXCEPT ![t][w] = [worker[t][w] EXCEPT !.at = "off"]]
    BY <1>1, <1>3 DEF TakeRange
  <2>3. /\ [at |-> "reading", pages |-> RangePages(t, taken[t])] \in Workers
        /\ [worker[t][w] EXCEPT !.at = "off"] \in Workers
    BY <1>1, <2>1 DEF Workers
  <2>4. \E new \in Workers : worker' = [worker EXCEPT ![t][w] = new]
    BY <2>2, <2>3
  <2> QED BY <1>3, <2>4 DEF TakeRange
<1>4. CASE RangeFails(t, w)
  <2>1. worker' = [worker EXCEPT ![t][w] = [worker[t][w] EXCEPT !.at = "failed"]]
    BY <1>1, <1>4 DEF RangeFails
  <2>2. [worker[t][w] EXCEPT !.at = "failed"] \in Workers
    BY <1>1 DEF Workers
  <2>3. \E new \in Workers : worker' = [worker EXCEPT ![t][w] = new]
    BY <2>1, <2>2
  <2> QED BY <1>4, <2>3 DEF RangeFails
<1>5. CASE RangeEnds(t, w)
  <2>1. Idle \in Workers
    BY DEF Idle, Workers
  <2> QED BY <1>5, <2>1 DEF RangeEnds
<1> QED BY <1>2, <1>3, <1>4, <1>5 DEF Reads

\* Every step keeps the types, and the source.
LEMMA ShapeStep ==
  ASSUME Shape, \A t \in Table : Ranges(t), Started \/ Next
  PROVE  Shape' /\ source' = source
<1>0. /\ source.maxFaults \in Nat /\ TableWorker # {}
      /\ worker \in [Table -> [TableWorker -> Workers]]
      /\ sender \in [Table -> [TableWorker -> Senders]]
  <2>1. source.maxFaults \in Nat /\ TableWorker # {}
    BY DEF Shape, SizesAssumption
  <2> QED BY <2>1 DEF Shape, TypeOK, Workers, Senders
<1>1. CASE Outer
  <2>1. UNCHANGED <<source, copyVars>>
    BY <1>1, OuterDoes
  <2>2. /\ asked' \subseteq Table
        /\ snap' \in {"idle", "running", "closing", "ok", "error", "crashed"}
        /\ schema' \in [Schema -> {"queued", "open", "failing", "storing", "ended"}]
        /\ errors' \subseteq Schema
        /\ table' \in [Table -> {"queued", "copying", "done", "failed"}]
        /\ faults' \in 0..source.maxFaults
    <3>1. CASE Started
      BY <3>1 DEF Started, NotStarted, Start, Shape, TypeOK
    <3>2. CASE CloseProcessor \/ Finish
      BY <1>0, <3>2 DEF CloseProcessor, Finish, Shape, TypeOK, Fault
    <3>3. ASSUME NEW s \in Schema, TakeSchema(s) \/ EndSchema(s) \/ StoreError(s) PROVE <2>2!:
      BY <1>0, <3>3 DEF TakeSchema, EndSchema, StoreError, Shape, TypeOK, Fault
    <3>4. ASSUME NEW t \in Table, TakeTable(t) \/ EndTable(t) PROVE <2>2!:
      <4>1. /\ UNCHANGED <<source, asked, snap, schema, errors>> /\ (faults' = faults \/ Fault)
            /\ \E l \in {"copying", "done", "failed"} : table' = [table EXCEPT ![t] = l]
        BY <3>4 DEF TakeTable, EndTable
      <4> QED BY <1>0, <4>1 DEF Shape, TypeOK, Fault
    <3> QED BY <1>1, <3>1, <3>2, <3>3, <3>4 DEF Outer
  <2>3. Rows' = Rows
    BY <2>1 DEF Rows
  <2> QED BY <2>1, <2>2, <2>3 DEF Shape, TypeOK, copyVars, SizesAssumption
<1>2. ASSUME NEW t \in Table, NEW w \in TableWorker, Reads(t, w)
      PROVE  Shape' /\ source' = source
  <2>1. UNCHANGED <<schemaVars, handed, mapped, sender, target>>
    BY <1>2, ReadsDoes
  <2>2. worker' \in [Table -> [TableWorker -> Workers]]
    <3>1. worker' = worker \/ \E new \in Workers : worker' = [worker EXCEPT ![t][w] = new]
      BY <1>2, ReadsDoes
    <3>2. ASSUME NEW new \in Workers, worker' = [worker EXCEPT ![t][w] = new]
          PROVE  worker' \in [Table -> [TableWorker -> Workers]]
      BY <1>0, <3>2, Updated
    <3> QED BY <1>0, <3>1, <3>2
  <2>3. pushed' \in [Table -> Nat] /\ taken' \in [Table -> Nat] /\ faults' \in 0..source.maxFaults
    <3>1. /\ pushed' = pushed \/ pushed' = [pushed EXCEPT ![t] = @ + 1]
          /\ taken' = taken \/ taken' = [taken EXCEPT ![t] = @ + 1]
          /\ faults' = faults \/ Fault
      BY <1>2, ReadsDoes
    <3>0. pushed \in [Table -> Nat] /\ taken \in [Table -> Nat]
      BY DEF Shape, TypeOK
    <3>2. pushed' \in [Table -> Nat]
      BY <3>0, <3>1
    <3>3. taken' \in [Table -> Nat]
      BY <3>0, <3>1
    <3>4. faults' \in 0..source.maxFaults
      BY <1>0, <3>1 DEF Shape, TypeOK, Fault
    <3> QED BY <3>2, <3>3, <3>4
  <2>4. Rows' = Rows
    BY <2>1 DEF Rows, schemaVars
  <2> QED BY <2>1, <2>2, <2>3, <2>4 DEF Shape, TypeOK, schemaVars, Workers, SizesAssumption
<1>3. ASSUME NEW t \in Table, NEW w \in TableWorker, Hands(t, w)
      PROVE  Shape' /\ source' = source
  <2>1. UNCHANGED <<schemaVars, pushed, taken, target, faults>>
    BY <1>3, HandsDoes
  <2>2. Rows' = Rows
    BY <2>1 DEF Rows, schemaVars
  <2>3. /\ worker' \in [Table -> [TableWorker -> Workers]]
        /\ sender' \in [Table -> [TableWorker -> Senders]]
        /\ handed' \in [Rows -> Nat] /\ mapped' \in [Table -> TableWorker \cup {Nobody}]
    <3>1. CASE /\ worker' = [worker EXCEPT ![t][w].at = "building"]
                  \/ worker' = [worker EXCEPT ![t][w].at = "failed"]
               /\ UNCHANGED <<sender, handed, mapped>>
      <4>1. /\ [worker[t][w] EXCEPT !.at = "building"] \in Workers
            /\ [worker[t][w] EXCEPT !.at = "failed"] \in Workers
        <5>1. PICK old \in Workers : old = worker[t][w]
          BY <1>0
        <5>2. [old EXCEPT !.at = "building"] \in Workers /\ [old EXCEPT !.at = "failed"] \in Workers
          BY DEF Workers
        <5> QED BY <5>1, <5>2
      <4>2. \/ worker' = [worker EXCEPT ![t][w] = [worker[t][w] EXCEPT !.at = "building"]]
            \/ worker' = [worker EXCEPT ![t][w] = [worker[t][w] EXCEPT !.at = "failed"]]
        BY <1>0, <3>1
      <4>3. worker' \in [Table -> [TableWorker -> Workers]]
        <5>1. PICK new \in Workers : worker' = [worker EXCEPT ![t][w] = new]
          BY <4>1, <4>2
        <5> QED BY <1>0, <5>1, Updated
      <4> QED BY <1>0, <3>1, <4>3 DEF Shape, TypeOK
    <3>2. ASSUME NEW k \in TableWorker, NEW page \in worker[t][w].pages,
                 NEW s \in {sender[t][k], NewSender}, Joins(t, w, k, s, page)
          PROVE  <2>3!:
      <4>1. page \in source.rows[t] /\ <<t, page>> \in Rows
        BY RowsAre DEF Ranges
      <4>2. s \in Senders
        BY <1>0 DEF NewSender, Senders
      <4>3. [s EXCEPT !.batch = s.batch \cup {<<t, page>>}] \in Senders
        BY <4>1, <4>2 DEF Senders
      <4>4. [at |-> "reading", pages |-> worker[t][w].pages \ {page}] \in Workers
        BY <1>0 DEF Workers
      <4>5. worker' \in [Table -> [TableWorker -> Workers]]
        BY <1>0, <3>2, <4>4 DEF Joins
      <4>6. sender' \in [Table -> [TableWorker -> Senders]]
        BY <1>0, <3>2, <4>3 DEF Joins
      <4>7. handed' \in [Rows -> Nat] /\ mapped' \in [Table -> TableWorker \cup {Nobody}]
        <5>1. handed \in [Rows -> Nat] /\ mapped \in [Table -> TableWorker \cup {Nobody}]
          BY DEF Shape, TypeOK
        <5>2. handed' = [handed EXCEPT ![<<t, page>>] = handed[<<t, page>>] + 1]
          BY <3>2 DEF Joins
        <5>3. handed[<<t, page>>] + 1 \in Nat
          BY <4>1, <5>1
        <5>4. handed' \in [Rows -> Nat]
          BY <5>1, <5>2, <5>3
        <5> QED BY <3>2, <5>1, <5>4 DEF Joins
      <4> QED BY <4>5, <4>6, <4>7
    <3> QED BY <1>3, <3>1, <3>2, HandsDoes
  <2> QED BY <2>1, <2>2, <2>3 DEF Shape, TypeOK, schemaVars, Workers, Senders, SizesAssumption
<1>4. ASSUME NEW t \in Table, NEW w \in TableWorker, Sends(t, w)
      PROVE  Shape' /\ source' = source
  <2>1. /\ UNCHANGED <<schemaVars, pushed, taken, worker, handed, mapped>>
        /\ target' = target \/ target' = target \cup sender[t][w].writing
        /\ faults' = faults \/ Fault
    BY <1>4, SendsDoes
  <2>2. Rows' = Rows
    BY <2>1 DEF Rows, schemaVars
  <2>3. sender' \in [Table -> [TableWorker -> Senders]]
    <3>1. PICK new \in Senders : sender' = [sender EXCEPT ![t][w] = new]
      BY <1>4, SendsDoes
    <3> QED BY <1>0, <3>1, Updated
  <2>4. target' \subseteq Rows /\ faults' \in 0..source.maxFaults
    BY <1>0, <2>1 DEF Shape, TypeOK, Senders, Fault
  <2> QED BY <2>1, <2>2, <2>3, <2>4 DEF Shape, TypeOK, schemaVars, Senders, SizesAssumption
<1> QED BY <1>0, <1>1, <1>2, <1>3, <1>4, StepKinds

-----------------------------------------------------------------------------
(* Stages.                                                                 *)

\* Every step keeps a table's stage in line with its schema's.
LEMMA StagesStep ==
  ASSUME Shape, Stages, \A t \in Table : Ranges(t), Started \/ Next
  PROVE  Stages'
<1>0. /\ TableWorker # {} /\ \A t \in Table : source.schema[t] \in Schema
      /\ worker \in [Table -> [TableWorker -> Workers]]
      /\ schema \in [Schema -> {"queued", "open", "failing", "storing", "ended"}]
      /\ table \in [Table -> {"queued", "copying", "done", "failed"}]
      /\ mapped \in [Table -> TableWorker \cup {Nobody}] /\ Nobody \notin TableWorker
  <2>1. TableWorker # {} /\ Nobody \notin TableWorker
    BY DEF Shape, SizesAssumption
  <2> QED BY <2>1, Sources DEF Shape, TypeOK, Workers
<1>1. CASE Outer
  <2>1. UNCHANGED <<source, pushed, taken, worker, mapped>>
    BY <1>1, OuterDoes DEF copyVars
  <2>2. CASE NotStarted
    BY <2>1, <2>2 DEF NotStarted, Stages, TablesOf
  <2>3. ASSUME NEW tables \in SUBSET Table, Start(tables) PROVE Stages'
    BY <2>1, <2>3 DEF Start, Stages, TablesOf
  <2>4. CASE CloseProcessor \/ Finish
    BY <2>1, <2>4 DEF CloseProcessor, Finish, Stages, TablesOf
  <2>5. ASSUME NEW s \in Schema, TakeSchema(s) PROVE Stages'
    BY <1>0, <2>1, <2>5 DEF TakeSchema, Stages, TablesOf
  <2>6. ASSUME NEW s \in Schema, EndSchema(s) PROVE Stages'
    <3>1. /\ schema[s] = "open" /\ \A t \in TablesOf(s) : table[t] \in {"done", "failed"}
          /\ \E l \in {"failing", "ended"} : schema' = [schema EXCEPT ![s] = l]
          /\ UNCHANGED <<asked, snap, table>>
      BY <2>6 DEF EndSchema
    <3> QED BY <1>0, <2>1, <3>1 DEF Stages, TablesOf
  <2>7. ASSUME NEW s \in Schema, StoreError(s) PROVE Stages'
    <3>1. /\ schema[s] \in {"failing", "storing"}
          /\ \E l \in {"storing", "ended"} : schema' = [schema EXCEPT ![s] = l]
          /\ UNCHANGED <<asked, table>> /\ (snap' = snap \/ snap' = "crashed")
      BY <2>7 DEF StoreError
    <3> QED BY <1>0, <2>1, <3>1 DEF Stages, TablesOf
  <2>8. ASSUME NEW t \in Table, TakeTable(t) PROVE Stages'
    <3>1. /\ t \in asked /\ schema[source.schema[t]] = "open" /\ table[t] = "queued"
          /\ \E l \in {"copying", "done", "failed"} :
               table' = [table EXCEPT ![t] = l] /\ (l = "copying" => source.last[t] # Missing)
          /\ UNCHANGED <<asked, snap, schema>>
      BY <2>8 DEF TakeTable
    <3> QED BY <1>0, <2>1, <3>1 DEF Stages, TablesOf
  <2>9. ASSUME NEW t \in Table, EndTable(t) PROVE Stages'
    <3>1. /\ table[t] = "copying" /\ \A w \in TableWorker : worker[t][w].at \in {"off", "failed"}
          /\ \E l \in {"done", "failed"} : table' = [table EXCEPT ![t] = l]
          /\ UNCHANGED <<asked, snap, schema>>
      BY <2>9 DEF EndTable
    <3> QED BY <1>0, <2>1, <3>1 DEF Stages, TablesOf
  <2> QED BY <1>1, <2>2, <2>3, <2>4, <2>5, <2>6, <2>7, <2>8, <2>9 DEF Outer, Started
<1>2. ASSUME NEW t \in Table, NEW w \in TableWorker, UNCHANGED schemaVars,
             table[t] = "copying",
             \A x \in Table \ {t} : mapped'[x] = mapped[x],
             \A x \in Table, v \in TableWorker : x # t \/ v # w => worker'[x][v] = worker[x][v]
      PROVE  Stages'
  BY <1>0, <1>2 DEF Stages, TablesOf, schemaVars
<1>3. ASSUME NEW t \in Table, NEW w \in TableWorker, Reads(t, w)
      PROVE  Stages'
  <2>1. UNCHANGED <<schemaVars, mapped>>
    BY <1>3, ReadsDoes
  <2>2. table[t] = "copying"
    BY <1>3 DEF Reads, PushRange, TakeRange, RangeFails, RangeEnds, Stages
  <2>3. \A x \in Table, v \in TableWorker : x # t \/ v # w => worker'[x][v] = worker[x][v]
    <3>1. ASSUME NEW new \in Workers, worker' = [worker EXCEPT ![t][w] = new]
          PROVE  <2>3!:
      BY <1>0, <3>1, Updated
    <3>2. worker' = worker \/ \E new \in Workers : worker' = [worker EXCEPT ![t][w] = new]
      BY <1>3, ReadsDoes
    <3> QED BY <3>1, <3>2
  <2> QED BY <1>2, <2>1, <2>2, <2>3
<1>4. ASSUME NEW t \in Table, NEW w \in TableWorker, Hands(t, w)
      PROVE  Stages'
  <2>1. UNCHANGED schemaVars
    BY <1>4, HandsDoes
  <2>2. table[t] = "copying"
    BY <1>4 DEF Hands, HandRow, BuildSender, Stages
  <2>3. /\ \A x \in Table, v \in TableWorker : x # t \/ v # w => worker'[x][v] = worker[x][v]
        /\ \A x \in Table \ {t} : mapped'[x] = mapped[x]
    <3>1. CASE /\ worker' = [worker EXCEPT ![t][w].at = "building"]
                  \/ worker' = [worker EXCEPT ![t][w].at = "failed"]
               /\ UNCHANGED <<sender, handed, mapped>>
      BY <1>0, <3>1
    <3>2. ASSUME NEW k \in TableWorker, NEW page \in worker[t][w].pages,
                 NEW s \in {sender[t][k], NewSender}, Joins(t, w, k, s, page)
          PROVE  <2>3!:
      BY <1>0, <3>2 DEF Joins
    <3> QED BY <1>4, <3>1, <3>2, HandsDoes
  <2> QED BY <1>2, <2>1, <2>2, <2>3
<1>5. ASSUME NEW t \in Table, NEW w \in TableWorker, Sends(t, w)
      PROVE  Stages'
  <2>1. UNCHANGED <<schemaVars, worker, mapped>>
    BY <1>5, SendsDoes
  <2> QED BY <2>1 DEF Stages, TablesOf, schemaVars
<1> QED BY <1>0, <1>1, <1>3, <1>4, <1>5, StepKinds

-----------------------------------------------------------------------------
(* Ranges.                                                                 *)

\* The ranges of a table only depend on that table.
LEMMA RangesKept ==
  ASSUME NEW x \in Table, Ranges(x), source' = source,
         pushed'[x] = pushed[x], taken'[x] = taken[x], worker'[x] = worker[x],
         \A p \in source.rows[x] : handed'[<<x, p>>] = handed[<<x, p>>],
         table'[x] = "done" => \A p \in source.rows[x] : handed[<<x, p>>] = 1
  PROVE  Ranges(x)'
BY DEF Ranges, Front, HasRange, RangeStart, BatchPageSize

\* A table whose workers have all left, for want of ranges, is read.
LEMMA AllRead ==
  ASSUME Shape, NEW t \in Table, Ranges(t), source.last[t] # Missing,
         \A w \in TableWorker : worker[t][w].at = "off"
  PROVE  \A p \in source.rows[t] : handed[<<t, p>>] = 1
<1>1. PICK w \in TableWorker : TRUE
  BY Sources
<1>2. /\ taken[t] = pushed[t] /\ ~HasRange(t, pushed[t])
      /\ \A v \in TableWorker : worker[t][v].pages = {}
  BY <1>1 DEF Ranges
<1>3. PICK f \in Nat : f = Front(t)
  BY RangesAdjoin DEF Shape, TypeOK, Front
<1>4. ~(f <= source.last[t])
  BY <1>2, <1>3 DEF HasRange, RangeStart, Front
<1>5. \A p \in source.rows[t] : p < f
  BY <1>3, <1>4, Sources
<1> QED BY <1>2, <1>3, <1>5 DEF Ranges

\* The generator ends a table only when all of it is read.
LEMMA RangesOuter ==
  ASSUME Shape, Stages, NEW x \in Table, Ranges(x), Outer
  PROVE  Ranges(x)'
<1>1. source' = source /\ UNCHANGED copyVars
  BY OuterDoes
<1>0. table \in [Table -> {"queued", "copying", "done", "failed"}]
  BY DEF Shape, TypeOK
<1>2. CASE table' = table
  <2>1. table'[x] = "done" => \A p \in source.rows[x] : handed[<<x, p>>] = 1
    BY <1>2 DEF Ranges
  <2> QED BY <1>1, <2>1, RangesKept DEF copyVars
<1>3. ASSUME NEW t \in Table, TakeTable(t) PROVE Ranges(x)'
  <2>1. \E l \in {"copying", "done", "failed"} :
          table' = [table EXCEPT ![t] = l] /\ (l = "done" => source.last[t] = Missing)
    BY <1>3 DEF TakeTable
  <2>2. source.last[x] = Missing => source.rows[x] = {}
    BY Sources DEF Missing
  <2>3. table'[x] = "done" => table[x] = "done" \/ source.rows[x] = {}
    BY <1>0, <2>1, <2>2
  <2>4. table'[x] = "done" => \A p \in source.rows[x] : handed[<<x, p>>] = 1
    BY <2>3 DEF Ranges
  <2> QED BY <1>1, <2>4, RangesKept DEF copyVars
<1>4. ASSUME NEW t \in Table, EndTable(t) PROVE Ranges(x)'
  <2>1. /\ table[t] = "copying" /\ \A w \in TableWorker : worker[t][w].at \in {"off", "failed"}
        /\ \E l \in {"done", "failed"} :
             /\ table' = [table EXCEPT ![t] = l]
             /\ l = "done" => \A w \in TableWorker : worker[t][w].at # "failed"
    BY <1>4 DEF EndTable
  <2>2. source.last[t] # Missing
    BY <2>1 DEF Stages
  <2>0. PICK l \in {"done", "failed"} :
          /\ table' = [table EXCEPT ![t] = l]
          /\ l = "done" => \A w \in TableWorker : worker[t][w].at # "failed"
    BY <2>1
  <2>5. table' = [table EXCEPT ![t] = l]
    BY <2>0
  <2>3. CASE x = t
    <3>1. table'[x] = "done" => \A w \in TableWorker : worker[t][w].at = "off"
      <4>1. table'[x] = l
        BY <1>0, <2>3, <2>5
      <4>2. table'[x] = "done" => \A w \in TableWorker : worker[t][w].at # "failed"
        BY <2>0, <4>1
      <4> QED BY <2>1, <4>2
    <3>2. table'[x] = "done" => \A p \in source.rows[x] : handed[<<x, p>>] = 1
      BY <2>2, <2>3, <3>1, AllRead
    <3> QED BY <1>1, <3>2, RangesKept DEF copyVars
  <2>4. CASE x # t
    <3>1. table'[x] = table[x]
      BY <1>0, <2>4, <2>5
    <3>2. table'[x] = "done" => \A p \in source.rows[x] : handed[<<x, p>>] = 1
      BY <3>1 DEF Ranges
    <3> QED BY <1>1, <3>2, RangesKept DEF copyVars
  <2> QED BY <2>3, <2>4
<1>5. \/ table' = table \/ \E t \in Table : TakeTable(t) \/ EndTable(t)
  BY DEF Outer, Started, NotStarted, Start, CloseProcessor, Finish, TakeSchema, EndSchema,
         StoreError
<1> QED BY <1>2, <1>3, <1>4, <1>5

\* Taking a range moves the front behind it.
LEMMA RangesTaken ==
  ASSUME Shape, Stages, NEW t \in Table, NEW w \in TableWorker, Ranges(t), TakeRange(t, w)
  PROVE  Ranges(t)'
<1>0. /\ worker \in [Table -> [TableWorker -> Workers]]
      /\ pushed[t] \in Nat /\ taken \in [Table -> Nat]
      /\ table[t] = "copying" /\ source.last[t] # Missing /\ source.rows[t] \subseteq Nat
      /\ worker[t][w].at = "idle" /\ worker[t][w].pages = {}
      /\ UNCHANGED <<source, table, pushed, handed>>
  <2>1. /\ worker[t][w].at = "idle" /\ table[t] = "copying"
        /\ UNCHANGED <<source, table, pushed, handed>>
    BY DEF TakeRange, schemaVars
  <2>2. source.rows[t] \subseteq Nat
    BY Sources
  <2> QED BY <2>1, <2>2 DEF Shape, TypeOK, Workers, Stages, Ranges
<1>1. CASE /\ taken[t] < pushed[t] /\ taken' = [taken EXCEPT ![t] = @ + 1]
           /\ worker' = [worker EXCEPT ![t][w] =
                           [at |-> "reading", pages |-> RangePages(t, taken[t])]]
  <2>1. /\ taken[t] \in Nat /\ taken'[t] = taken[t] + 1 /\ taken'[t] <= pushed'[t]
        /\ worker'[t][w] = [at |-> "reading", pages |-> RangePages(t, taken[t])]
        /\ \A v \in TableWorker \ {w} : worker'[t][v] = worker[t][v]
    BY <1>0, <1>1
  <2>2. PICK f \in Nat, g \in Nat : f = Front(t) /\ g = Front(t)' /\ f < g
          /\ RangePages(t, taken[t]) = {p \in source.rows[t] : f <= p /\ p < g}
    <3>1. Front(t)' = (taken[t] + 1) * BatchPageSize(t)
      BY <1>0, <2>1 DEF Front, BatchPageSize
    <3>2. /\ taken[t] * BatchPageSize(t) \in Nat /\ (taken[t] + 1) * BatchPageSize(t) \in Nat
          /\ taken[t] * BatchPageSize(t) < (taken[t] + 1) * BatchPageSize(t)
          /\ \A p \in source.rows[t] :
               p \in RangePages(t, taken[t])
                 <=> p >= taken[t] * BatchPageSize(t) /\ p < (taken[t] + 1) * BatchPageSize(t)
          /\ RangePages(t, taken[t]) \subseteq source.rows[t]
      BY <1>0, <2>1, RangesAdjoin
    <3> QED BY <3>1, <3>2 DEF Front
  <2>3. \A v \in TableWorker : worker[t][v].at # "off"
    BY <1>0, <1>1, <2>1 DEF Ranges
  <2>4. \A v \in TableWorker :
          /\ worker'[t][v].at \in {"idle", "off"} => worker'[t][v].pages = {}
          /\ worker'[t][v].at = "building" => worker'[t][v].pages # {}
          /\ worker'[t][v].at # "off"
    BY <2>1, <2>3 DEF Ranges
  <2>5. \A v \in TableWorker \ {w} : \A p \in worker[t][v].pages : p \in source.rows[t] /\ p < f
    BY <2>2 DEF Ranges
  <2>6. \A p \in RangePages(t, taken[t]) : handed[<<t, p>>] = 0
    BY <2>2 DEF Ranges
  <2>7. ASSUME NEW v \in TableWorker, NEW p \in worker'[t][v].pages
        PROVE  /\ p \in source.rows[t] /\ p < g /\ handed[<<t, p>>] = 0
               /\ \A u \in TableWorker \ {v} : p \notin worker'[t][u].pages
    <3>1. CASE v = w
      <4>1. p \in source.rows[t] /\ f <= p /\ p < g /\ handed[<<t, p>>] = 0
        BY <2>1, <2>2, <2>6, <2>7, <3>1
      <4>2. \A u \in TableWorker \ {v} : p \notin worker[t][u].pages
        BY <1>0, <2>5, <3>1, <4>1
      <4> QED BY <2>1, <3>1, <4>1, <4>2
    <3>2. CASE v # w
      <4>1. p \in worker[t][v].pages /\ p \in source.rows[t] /\ p < f
        BY <2>1, <2>5, <2>7, <3>2
      <4>2. p < g /\ p \notin RangePages(t, taken[t])
        BY <1>0, <2>2, <4>1
      <4>3. handed[<<t, p>>] = 0 /\ \A u \in TableWorker \ {v} : p \notin worker[t][u].pages
        BY <4>1 DEF Ranges
      <4> QED BY <2>1, <4>1, <4>2, <4>3
    <3> QED BY <3>1, <3>2
  <2>8. ASSUME NEW p \in source.rows[t]
        PROVE  /\ handed[<<t, p>>] <= 1
               /\ p >= g => handed[<<t, p>>] = 0
               /\ p < g => handed[<<t, p>>] = 1 \/ \E v \in TableWorker : p \in worker'[t][v].pages
               /\ table[t] = "done" => handed[<<t, p>>] = 1
    <3>1. p \in Nat
      BY <1>0
    <3>2. CASE p < f
      <4>1. handed[<<t, p>>] = 1 \/ \E v \in TableWorker \ {w} : p \in worker[t][v].pages
        BY <1>0, <2>2, <3>2 DEF Ranges
      <4> QED BY <1>0, <2>1, <2>2, <3>1, <3>2, <4>1 DEF Ranges
    <3>3. CASE p >= f
      <4>1. p < g => p \in worker'[t][w].pages
        BY <2>1, <2>2, <3>3
      <4>2. handed[<<t, p>>] = 0
        BY <2>2, <3>3 DEF Ranges
      <4> QED BY <1>0, <4>1, <4>2
    <3> QED BY <2>2, <3>1, <3>2, <3>3
  <2> QED BY <1>0, <2>1, <2>2, <2>4, <2>7, <2>8 DEF Ranges
<1>2. CASE /\ taken[t] = pushed[t] /\ ~HasRange(t, pushed[t]) /\ taken' = taken
           /\ worker' = [worker EXCEPT ![t][w].at = "off"]
  <2>1. /\ worker'[t][w].at = "off" /\ worker'[t][w].pages = {}
        /\ \A v \in TableWorker \ {w} : worker'[t][v] = worker[t][v]
    BY <1>0, <1>2
  <2>2. Front(t)' = Front(t) /\ HasRange(t, pushed[t])' = HasRange(t, pushed[t])
    BY <1>0, <1>2 DEF Front, BatchPageSize, HasRange, RangeStart
  <2>3. \A v \in TableWorker : worker'[t][v].pages = worker[t][v].pages
    BY <1>0, <2>1
  <2>4. \A v \in TableWorker :
          /\ worker'[t][v].at \in {"idle", "off"} => worker'[t][v].pages = {}
          /\ worker'[t][v].at = "building" => worker'[t][v].pages # {}
    BY <2>1 DEF Ranges
  <2> QED BY <1>0, <1>2, <2>2, <2>3, <2>4 DEF Ranges
<1> QED BY <1>1, <1>2 DEF TakeRange

\* Every step keeps the ranges apart, and together they are what was given out.
LEMMA RangesStep ==
  ASSUME Shape, Stages, \A t \in Table : Ranges(t), Started \/ Next
  PROVE  \A x \in Table : Ranges(x)'
<1>0. /\ TableWorker # {} /\ worker \in [Table -> [TableWorker -> Workers]]
      /\ pushed \in [Table -> Nat] /\ taken \in [Table -> Nat] /\ handed \in [Rows -> Nat]
      /\ \A t \in Table : source.rows[t] \subseteq Nat
  <2>1. TableWorker # {} /\ \A t \in Table : source.rows[t] \subseteq Nat
    BY Sources DEF Shape, SizesAssumption
  <2> QED BY <2>1 DEF Shape, TypeOK, Workers
<1>1. CASE Outer
  BY <1>1, RangesOuter
<1>2. ASSUME NEW t \in Table, NEW w \in TableWorker, Reads(t, w), NEW x \in Table
      PROVE  Ranges(x)'
  <2>1. UNCHANGED <<schemaVars, handed>>
    BY <1>2, ReadsDoes
  <2>2. CASE x # t
    <3>1. pushed'[x] = pushed[x] /\ taken'[x] = taken[x]
      BY <1>0, <1>2, <2>2, ReadsDoes
    <3>2. worker'[x] = worker[x]
      <4>1. worker' = worker \/ \E new \in Workers : worker' = [worker EXCEPT ![t][w] = new]
        BY <1>2, ReadsDoes
      <4> QED BY <1>0, <2>2, <4>1
    <3>3. table'[x] = "done" => \A p \in source.rows[x] : handed[<<x, p>>] = 1
      BY <2>1 DEF Ranges, schemaVars
    <3> QED BY <2>1, <3>1, <3>2, <3>3, RangesKept DEF schemaVars
  <2>3. CASE x = t /\ TakeRange(t, w)
    BY <2>3, RangesTaken
  <2>4. CASE x = t /\ PushRange(t)
    <3>1. /\ HasRange(t, pushed[t]) /\ pushed'[t] = pushed[t] + 1
          /\ UNCHANGED <<schemaVars, taken, worker, handed>>
      BY <1>0, <2>4 DEF PushRange
    <3>2. \A v \in TableWorker : worker[t][v].at # "off"
      BY <3>1 DEF Ranges
    <3>3. Front(t)' = Front(t)
      BY <3>1 DEF Front, BatchPageSize, schemaVars
    <3>4. taken'[t] <= pushed'[t]
      BY <1>0, <3>1 DEF Ranges
    <3> QED BY <2>4, <3>1, <3>2, <3>3, <3>4 DEF Ranges, schemaVars
  <2>5. CASE x = t /\ (RangeFails(t, w) \/ RangeEnds(t, w))
    <3>1. /\ UNCHANGED <<schemaVars, pushed, taken, handed>>
          /\ \A v \in TableWorker \ {w} : worker'[t][v] = worker[t][v]
          /\ worker'[t][w].pages = worker[t][w].pages
          /\ \/ worker'[t][w].at = "failed"
             \/ worker'[t][w].at = "idle" /\ worker[t][w].pages = {}
      <4>0. PICK old \in Workers : old = worker[t][w]
        BY <1>0
      <4>1. CASE RangeFails(t, w)
        <5>1. worker' = [worker EXCEPT ![t][w] = [old EXCEPT !.at = "failed"]]
          BY <1>0, <4>0, <4>1 DEF RangeFails
        <5>2. [old EXCEPT !.at = "failed"].pages = old.pages
              /\ [old EXCEPT !.at = "failed"].at = "failed"
          BY DEF Workers
        <5> QED BY <1>0, <4>0, <4>1, <5>1, <5>2 DEF RangeFails
      <4>2. CASE RangeEnds(t, w)
        <5>1. worker' = [worker EXCEPT ![t][w] = [at |-> "idle", pages |-> {}]]
              /\ worker[t][w].pages = {}
          BY <4>2 DEF RangeEnds, Idle
        <5> QED BY <1>0, <4>2, <5>1 DEF RangeEnds
      <4> QED BY <2>5, <4>1, <4>2
    <3>2. Front(t)' = Front(t) /\ HasRange(t, pushed[t])' = HasRange(t, pushed[t])
      BY <3>1 DEF Front, BatchPageSize, HasRange, RangeStart, schemaVars
    <3>3. \A v \in TableWorker : worker'[t][v].pages = worker[t][v].pages
      BY <3>1
    <3>4. \A v \in TableWorker :
            /\ worker'[t][v].at \in {"idle", "off"} => worker'[t][v].pages = {}
            /\ worker'[t][v].at = "building" => worker'[t][v].pages # {}
            /\ worker'[t][v].at = "off" => taken[t] = pushed[t] /\ ~HasRange(t, pushed[t])
      BY <3>1 DEF Ranges
    <3> QED BY <2>5, <3>1, <3>2, <3>3, <3>4 DEF Ranges, schemaVars
  <2> QED BY <1>2, <2>2, <2>3, <2>4, <2>5 DEF Reads
<1>3. ASSUME NEW t \in Table, NEW w \in TableWorker, Hands(t, w), NEW x \in Table
      PROVE  Ranges(x)'
  <2>1. UNCHANGED <<schemaVars, pushed, taken>> /\ worker[t][w].pages # {}
        /\ worker[t][w].at \in {"reading", "building"}
    BY <1>3, HandsDoes DEF Joins
  <2>2. Front(t)' = Front(t) /\ \A n : HasRange(t, n)' = HasRange(t, n)
    BY <2>1 DEF Front, BatchPageSize, HasRange, RangeStart, schemaVars
  <2>3. CASE /\ worker' = [worker EXCEPT ![t][w].at = "building"]
                \/ worker' = [worker EXCEPT ![t][w].at = "failed"]
             /\ UNCHANGED handed
    <3>1. /\ \A y \in Table, v \in TableWorker : worker'[y][v].pages = worker[y][v].pages
          /\ \A y \in Table, v \in TableWorker : y # t \/ v # w => worker'[y][v] = worker[y][v]
          /\ worker'[t][w].at \in {"building", "failed"}
      <4>0. PICK old \in Workers : old = worker[t][w]
        BY <1>0
      <4>1. ASSUME NEW l \in {"building", "failed"},
                   worker' = [worker EXCEPT ![t][w] = [old EXCEPT !.at = l]]
            PROVE  <3>1!:
        <5>1. [old EXCEPT !.at = l].pages = old.pages /\ [old EXCEPT !.at = l].at = l
              /\ [old EXCEPT !.at = l] \in Workers
          BY DEF Workers
        <5>2. PICK new \in Workers : new = [old EXCEPT !.at = l]
          BY <5>1
        <5>3. \A y \in Table, v \in TableWorker :
                 worker'[y][v] = IF y = t /\ v = w THEN new ELSE worker[y][v]
          BY <1>0, <4>1, <5>2, Updated
        <5> QED BY <4>0, <5>1, <5>2, <5>3
      <4>2. \E l \in {"building", "failed"} :
              worker' = [worker EXCEPT ![t][w] = [old EXCEPT !.at = l]]
        BY <1>0, <2>3, <4>0
      <4> QED BY <4>1, <4>2
    <3>2. CASE x = t
      BY <2>1, <2>2, <2>3, <3>1, <3>2 DEF Ranges, schemaVars
    <3>3. CASE x # t
      <4>1. worker'[x] = worker[x]
        <5>1. CASE worker' = [worker EXCEPT ![t][w].at = "building"]
          BY <1>0, <3>3, <5>1
        <5>2. CASE worker' = [worker EXCEPT ![t][w].at = "failed"]
          BY <1>0, <3>3, <5>2
        <5> QED BY <2>3, <5>1, <5>2
      <4>2. table'[x] = "done" => \A p \in source.rows[x] : handed[<<x, p>>] = 1
        BY <2>1 DEF Ranges, schemaVars
      <4> QED BY <2>1, <2>3, <4>1, <4>2, RangesKept DEF schemaVars
    <3> QED BY <3>2, <3>3
  <2>4. ASSUME NEW k \in TableWorker, NEW page \in worker[t][w].pages,
               NEW s \in {sender[t][k], NewSender}, Joins(t, w, k, s, page)
        PROVE  Ranges(x)'
    <3>1. /\ page \in source.rows[t] /\ page < Front(t) /\ handed[<<t, page>>] = 0
          /\ \A v \in TableWorker \ {w} : page \notin worker[t][v].pages
      BY DEF Ranges
    <3>2. /\ worker'[t][w] = [at |-> "reading", pages |-> worker[t][w].pages \ {page}]
          /\ \A y \in Table, v \in TableWorker : y # t \/ v # w => worker'[y][v] = worker[y][v]
          /\ \A y \in Table \ {t} : worker'[y] = worker[y]
      BY <1>0, <2>4 DEF Joins
    <3>3. /\ handed'[<<t, page>>] = 1
          /\ \A r \in Rows \ {<<t, page>>} : handed'[r] = handed[r]
      <4>1. /\ handed' = [handed EXCEPT ![<<t, page>>] = handed[<<t, page>>] + 1]
            /\ <<t, page>> \in Rows
        BY <2>4, <3>1, RowsAre DEF Joins
      <4> QED BY <1>0, <3>1, <4>1
    <3>4. CASE x # t
      <4>1. \A p \in source.rows[x] : handed'[<<x, p>>] = handed[<<x, p>>]
        BY <3>3, <3>4, RowsAre
      <4>2. table'[x] = "done" => \A p \in source.rows[x] : handed[<<x, p>>] = 1
        BY <2>1 DEF Ranges, schemaVars
      <4> QED BY <2>1, <3>2, <3>4, <4>1, <4>2, RangesKept DEF schemaVars
    <3>5. CASE x = t
      <4>1. \A p \in source.rows[t] \ {page} : handed'[<<t, p>>] = handed[<<t, p>>]
        BY <3>3, RowsAre
      <4>2. \A v \in TableWorker :
              /\ worker'[t][v].at \in {"idle", "off"} => worker'[t][v].pages = {}
              /\ worker'[t][v].at = "building" => worker'[t][v].pages # {}
              /\ worker'[t][v].at = "off" => taken[t] = pushed[t] /\ ~HasRange(t, pushed[t])
        BY <3>2 DEF Ranges
      <4>3. \A v \in TableWorker : worker'[t][v].pages = worker[t][v].pages \ {page}
        BY <3>1, <3>2
      <4>4. ASSUME NEW v \in TableWorker, NEW p \in worker'[t][v].pages
            PROVE  /\ p \in source.rows[t] /\ p < Front(t) /\ handed'[<<t, p>>] = 0
                   /\ \A u \in TableWorker \ {v} : p \notin worker'[t][u].pages
        <5>1. p \in worker[t][v].pages /\ p # page
          BY <4>3, <4>4
        <5> QED BY <4>1, <4>3, <5>1 DEF Ranges
      <4>5. ASSUME NEW p \in source.rows[t]
            PROVE  /\ handed'[<<t, p>>] <= 1
                   /\ p >= Front(t) => handed'[<<t, p>>] = 0
                   /\ p < Front(t) => handed'[<<t, p>>] = 1
                                      \/ \E v \in TableWorker : p \in worker'[t][v].pages
                   /\ table[t] = "done" => handed'[<<t, p>>] = 1
        <5>1. CASE p = page
          <6>1. Front(t) \in Int /\ ~(p >= Front(t))
            <7>1. source.last[t] # Missing
              BY <3>1, Sources DEF Missing
            <7>2. Front(t) \in Nat
              BY <1>0, <7>1, RangesAdjoin DEF Front
            <7> QED BY <1>0, <3>1, <5>1, <7>2
          <6> QED BY <3>3, <5>1, <6>1
        <5>2. CASE p # page
          BY <4>1, <4>3, <5>2 DEF Ranges
        <5> QED BY <5>1, <5>2
      <4> QED BY <2>1, <2>2, <3>5, <4>2, <4>4, <4>5 DEF Ranges, schemaVars
    <3> QED BY <3>4, <3>5
  <2> QED BY <1>3, <2>3, <2>4, HandsDoes
<1>4. ASSUME NEW t \in Table, NEW w \in TableWorker, Sends(t, w), NEW x \in Table
      PROVE  Ranges(x)'
  <2>1. UNCHANGED <<schemaVars, pushed, taken, worker, handed>>
    BY <1>4, SendsDoes
  <2>2. table'[x] = "done" => \A p \in source.rows[x] : handed[<<x, p>>] = 1
    BY <2>1 DEF Ranges, schemaVars
  <2> QED BY <2>1, <2>2, RangesKept DEF schemaVars
<1> QED BY <1>0, <1>1, <1>2, <1>3, <1>4, StepKinds

-----------------------------------------------------------------------------
(* What is not read is reported.                                           *)

\* The range workers change nothing of the schemas, and only hand rows on.
LEMMA Inner ==
  ASSUME Shape, NEW t \in Table, NEW w \in TableWorker, Ranges(t),
         Reads(t, w) \/ Hands(t, w) \/ Sends(t, w)
  PROVE  UNCHANGED schemaVars /\ \A r \in Rows : handed'[r] = 0 => handed[r] = 0
<1>1. CASE Reads(t, w)
  BY <1>1, ReadsDoes
<1>2. CASE Sends(t, w)
  BY <1>2, SendsDoes
<1>3. CASE Hands(t, w)
  <2>1. ASSUME NEW k \in TableWorker, NEW page \in worker[t][w].pages,
               NEW s \in {sender[t][k], NewSender}, Joins(t, w, k, s, page), NEW r \in Rows
        PROVE  handed'[r] = 0 => handed[r] = 0
    <3>1. handed \in [Rows -> Nat]
      BY DEF Shape, TypeOK
    <3>2. handed' = [handed EXCEPT ![<<t, page>>] = handed[<<t, page>>] + 1]
      BY <2>1 DEF Joins
    <3> QED BY <3>1, <3>2
  <2> QED BY <1>3, <2>1, HandsDoes
<1> QED BY <1>1, <1>2, <1>3

\* A schema does not get rows that are not read.
LEMMA UnreadKept ==
  ASSUME Shape, \A t \in Table : Ranges(t),
         \/ \E t \in Table, w \in TableWorker : Reads(t, w) \/ Hands(t, w) \/ Sends(t, w)
         \/ Outer /\ asked' = asked,
         NEW s \in Schema, Unread(s)'
  PROVE  Unread(s)
<1>1. source' = source /\ asked' = asked /\ \A r \in Rows : handed'[r] = 0 => handed[r] = 0
  BY Inner, OuterDoes DEF schemaVars, copyVars
<1>2. PICK t \in TablesOf(s) : \E p \in source.rows[t] : handed'[<<t, p>>] = 0
  BY <1>1 DEF Unread, TablesOf
<1>3. t \in Table
  BY DEF TablesOf, Shape, TypeOK
<1>4. \A p \in source.rows[t] : <<t, p>> \in Rows
  BY <1>3, RowsAre
<1> QED BY <1>1, <1>2, <1>4 DEF Unread

\* The tables of a schema that are done have been read.
LEMMA DoneIsRead ==
  ASSUME Shape, \A t \in Table : Ranges(t), NEW s \in Schema,
         \A t \in TablesOf(s) : table[t] = "done"
  PROVE  ~Unread(s)
<1> SUFFICES ASSUME NEW t \in TablesOf(s), NEW p \in source.rows[t], handed[<<t, p>>] = 0
             PROVE  FALSE
  BY DEF Unread
<1>1. t \in Table /\ table[t] = "done"
  BY DEF TablesOf, Shape, TypeOK
<1>2. Ranges(t)
  BY <1>1
<1> QED BY <1>1, <1>2 DEF Ranges

\* What the workers of CreateSnapshot and of its schemas do.
LEMMA OuterKinds ==
  ASSUME Outer
  PROVE  \/ Started \/ CloseProcessor \/ Finish
         \/ \E s \in Schema : TakeSchema(s) \/ EndSchema(s) \/ StoreError(s)
         \/ \E t \in Table : TakeTable(t) \/ EndTable(t)
BY DEF Outer

\* An error that is lost leaves the other one to be stored.
LEMMA ReportedStep ==
  ASSUME Shape, Stages, Reported, \A t \in Table : Ranges(t), Started \/ Next
  PROVE  Reported'
<1>0. /\ schema \in [Schema -> {"queued", "open", "failing", "storing", "ended"}]
      /\ table \in [Table -> {"queued", "copying", "done", "failed"}]
      /\ TableWorker # {} /\ asked \subseteq Table
  <2>1. TableWorker # {}
    BY DEF Shape, SizesAssumption
  <2> QED BY <2>1 DEF Shape, TypeOK
<1>1. CASE \E t \in Table, w \in TableWorker : Reads(t, w) \/ Hands(t, w) \/ Sends(t, w)
  <2>1. UNCHANGED schemaVars /\ \A s \in Schema : Unread(s)' => Unread(s)
    BY <1>1, Inner, UnreadKept
  <2> QED BY <2>1 DEF Reported, schemaVars
<1>2. CASE Started
  <2>1. /\ snap = "idle" /\ schema' = schema /\ errors' = errors /\ snap' \in {"running", "error"}
    BY <1>2 DEF Started, Start, NotStarted
  <2> QED BY <2>1 DEF Reported, Stages
<1>3. ASSUME Outer, asked' = asked, errors' = errors, snap' # "ok" \/ snap' = snap \/ errors = {},
             \A s \in Schema : schema'[s] = "ended" => schema[s] = "ended" \/ ~Unread(s),
             \A s \in Schema : schema[s] \in {"failing", "storing"} =>
               \E x \in Schema : schema'[x] \in {"failing", "storing"}
      PROVE  Reported'
  <2>1. \A s \in Schema : Unread(s)' => Unread(s)
    BY <1>3, UnreadKept
  <2> QED BY <1>3, <2>1 DEF Reported
<1>4. CASE CloseProcessor \/ Finish
  <2>1. Outer /\ UNCHANGED <<asked, errors, schema>>
    BY <1>4 DEF Outer, CloseProcessor, Finish
  <2>2. snap' # "ok" \/ errors = {}
    BY <1>4 DEF CloseProcessor, Finish
  <2> QED BY <1>3, <2>1, <2>2
<1>5. ASSUME NEW t \in Table, TakeTable(t) \/ EndTable(t) PROVE Reported'
  <2>1. Outer /\ UNCHANGED <<asked, errors, schema, snap>>
    BY <1>5 DEF Outer, TakeTable, EndTable
  <2> QED BY <1>3, <2>1
<1>6. ASSUME NEW s \in Schema, TakeSchema(s) PROVE Reported'
  <2>1. Outer /\ UNCHANGED <<asked, errors, snap>>
    BY <1>6 DEF Outer, TakeSchema
  <2>2. \E l \in {"open", "failing"} : schema' = [schema EXCEPT ![s] = l] /\ schema[s] = "queued"
    BY <1>6 DEF TakeSchema
  <2> QED BY <1>0, <1>3, <2>1, <2>2
<1>7. ASSUME NEW s \in Schema, EndSchema(s) PROVE Reported'
  <2>1. Outer /\ UNCHANGED <<asked, errors, snap>> /\ schema[s] = "open"
    BY <1>7 DEF Outer, EndSchema
  <2>2. PICK l \in {"failing", "ended"} :
          /\ schema' = [schema EXCEPT ![s] = l]
          /\ l = "ended" => \A t \in TablesOf(s) : table[t] = "done"
    BY <1>7 DEF EndSchema
  <2>3. l = "ended" => ~Unread(s)
    BY <2>2, DoneIsRead
  <2>4. schema' = [schema EXCEPT ![s] = l]
    BY <2>2
  <2> QED BY <1>0, <1>3, <2>1, <2>3, <2>4
<1>8. ASSUME NEW s \in Schema, StoreError(s) PROVE Reported'
  <2>1. Outer /\ UNCHANGED <<asked, table>> /\ schema[s] \in {"failing", "storing"}
    BY <1>8 DEF Outer, StoreError
  <2>2. snap # "ok"
    BY <1>0, <2>1 DEF Stages
  <2>3. snap' # "ok"
    BY <1>8, <2>2 DEF StoreError
  <2>4. errors' # {} \/ \E x \in Schema : schema'[x] \in {"failing", "storing"}
    <3>1. CASE schema' = [schema EXCEPT ![s] = "storing"]
      BY <1>0, <3>1
    <3>2. CASE errors' = errors \cup {s}
      BY <3>2
    <3>3. CASE /\ schema' = [schema EXCEPT ![s] = "ended"]
               /\ \E other \in Schema \ {s} : schema[other] = "storing"
      BY <1>0, <3>3
    <3> QED BY <1>8, <3>1, <3>2, <3>3 DEF StoreError
  <2> QED BY <2>3, <2>4 DEF Reported
<1> QED BY <1>0, <1>1, <1>2, <1>4, <1>5, <1>6, <1>7, <1>8, StepKinds, OuterKinds

-----------------------------------------------------------------------------
(* What fails.                                                             *)

\* A step blames one schema at most, and an operation has failed in it.
LEMMA BlameKept ==
  ASSUME Shape, Blame, NEW z,
         \/ /\ faults' = faults
            /\ \A s \in Schema : Culprit(s)' => Culprit(s)
         \/ /\ faults' = faults + 1
            /\ \A s \in Schema : Culprit(s)' => Culprit(s) \/ s = z,
         \A s \in Schema : schema'[s] = "ended" /\ Unread(s)' =>
           s \in errors' \/ (schema[s] = "ended" /\ Unread(s)),
         errors \subseteq errors'
  PROVE  Blame'
<1>1. faults \in Nat
  BY DEF Shape, TypeOK, SizesAssumption
<1>2. CASE faults' = faults /\ \A s \in Schema : Culprit(s)' => Culprit(s)
  <2>1. faults' = 0 => \A s \in Schema : ~Culprit(s)'
    BY <1>2 DEF Blame
  <2>2. faults' <= 1 => \A s, x \in Schema : Culprit(s)' /\ Culprit(x)' => s = x
    BY <1>2 DEF Blame
  <2>3. faults' <= 1 => \A s \in Schema : schema'[s] = "ended" /\ Unread(s)' => s \in errors'
    BY <1>2 DEF Blame
  <2> QED BY <2>1, <2>2, <2>3 DEF Blame
<1>3. CASE faults' = faults + 1 /\ \A s \in Schema : Culprit(s)' => Culprit(s) \/ s = z
  <2>1. faults' # 0
    BY <1>1, <1>3
  <2>2. faults' <= 1 => \A s, x \in Schema : Culprit(s)' /\ Culprit(x)' => s = x
    <3>1. faults' <= 1 => \A s \in Schema : ~Culprit(s)
      BY <1>1, <1>3 DEF Blame
    <3> QED BY <1>3, <3>1
  <2>3. faults' <= 1 => \A s \in Schema : schema'[s] = "ended" /\ Unread(s)' => s \in errors'
    <3>1. faults' <= 1 => faults <= 1
      BY <1>1, <1>3
    <3> QED BY <3>1 DEF Blame
  <2> QED BY <2>1, <2>2, <2>3 DEF Blame
<1> QED BY <1>2, <1>3

\* A table of a schema whose snapshot is not open is not copied any more.
LEMMA CopyingOpen ==
  ASSUME Shape, Stages, NEW t \in Table, table[t] = "copying"
  PROVE  /\ source.schema[t] \in Schema /\ t \in TablesOf(source.schema[t])
         /\ schema[source.schema[t]] = "open"
         /\ ~Closed
<1>1. source.schema[t] \in Schema /\ t \in asked /\ schema[source.schema[t]] = "open"
  BY Sources DEF Stages
<1>2. t \in TablesOf(source.schema[t])
  BY <1>1 DEF TablesOf
<1> QED BY <1>1, <1>2 DEF Stages, Closed

\* Of the steps of the workers and senders of a table, only a failed operation
\* breaks it.
LEMMA InnerBreaks ==
  ASSUME Shape, Stages, NEW t \in Table, NEW w \in TableWorker, Ranges(t), Kept(t),
         Reads(t, w) \/ Hands(t, w) \/ Sends(t, w)
  PROVE  /\ faults' = faults \/ faults' = faults + 1
         /\ faults' = faults => (Broken(t)' => Broken(t))
         /\ \A x \in Table \ {t} : Broken(x)' => Broken(x)
<1>0. /\ worker \in [Table -> [TableWorker -> Workers]]
      /\ sender \in [Table -> [TableWorker -> Senders]]
      /\ table' = table
  BY Inner DEF Shape, TypeOK, Workers, Senders, schemaVars
<1>1. ASSUME \A x \in Table, v \in TableWorker :
               /\ worker'[x][v].at = "failed" => worker[x][v].at = "failed" \/ (x = t /\ Broken(t))
               /\ sender'[x][v].loop = "stopped" =>
                    sender[x][v].loop = "stopped" \/ (x = t /\ (Broken(t) \/ table[t] # "copying"))
               /\ sender'[x][v].writer = "failed" =>
                    sender[x][v].writer = "failed" \/ (x = t /\ (Broken(t) \/ table[t] # "copying"))
      PROVE  \A x \in Table : Broken(x)' => Broken(x)
  BY <1>0, <1>1 DEF Broken
<1>2. CASE Reads(t, w)
  <2>0. sender' = sender /\ (faults' = faults \/ faults' = faults + 1)
    BY <1>2, ReadsDoes DEF Fault
  <2>1. worker' = worker \/ \E new \in Workers : worker' = [worker EXCEPT ![t][w] = new]
    BY <1>2, ReadsDoes
  <2>2. \A x \in Table \ {t} : worker'[x] = worker[x]
    BY <1>0, <2>1
  <2>3. \A x \in Table \ {t} : Broken(x)' => Broken(x)
    BY <1>0, <2>0, <2>2 DEF Broken
  <2>4. ASSUME faults' = faults PROVE Broken(t)' => Broken(t)
    <3>1. CASE PushRange(t)
      BY <1>0, <3>1 DEF PushRange, Broken
    <3>2. ASSUME NEW new, new.at # "failed", worker' = [worker EXCEPT ![t][w] = new]
          PROVE  Broken(t)' => Broken(t)
      BY <1>0, <2>0, <3>2 DEF Broken
    <3>3. CASE TakeRange(t, w)
      <4>1. \/ worker' = [worker EXCEPT ![t][w] =
                            [at |-> "reading", pages |-> RangePages(t, taken[t])]]
            \/ worker' = [worker EXCEPT ![t][w] = [worker[t][w] EXCEPT !.at = "off"]]
        BY <1>0, <3>3 DEF TakeRange
      <4>2. /\ [at |-> "reading", pages |-> RangePages(t, taken[t])].at # "failed"
            /\ [worker[t][w] EXCEPT !.at = "off"].at # "failed"
        <5>1. PICK old \in Workers : old = worker[t][w]
          BY <1>0
        <5>2. [old EXCEPT !.at = "off"].at = "off"
          BY DEF Workers
        <5> QED BY <5>1, <5>2
      <4> QED BY <3>2, <4>1, <4>2
    <3>4. CASE RangeEnds(t, w)
      <4>1. worker' = [worker EXCEPT ![t][w] = [at |-> "idle", pages |-> {}]]
        BY <3>4 DEF RangeEnds, Idle
      <4>2. [at |-> "idle", pages |-> {}].at # "failed"
        OBVIOUS
      <4> QED BY <3>2, <4>1, <4>2
    <3>5. CASE RangeFails(t, w)
      <4>1. table[t] = "copying" /\ faults \in Nat
        BY <3>5 DEF RangeFails, Stages, Shape, TypeOK, SizesAssumption
      <4>2. Cancelled(t)
        BY <2>4, <3>5, <4>1 DEF RangeFails, Fault
      <4> QED BY <4>1, <4>2 DEF Cancelled, Broken
    <3> QED BY <1>2, <3>1, <3>3, <3>4, <3>5 DEF Reads
  <2> QED BY <2>0, <2>3, <2>4
<1>3. CASE Hands(t, w)
  <2>0. faults' = faults
    BY <1>3, HandsDoes
  <2>1. table[t] = "copying"
    BY <1>3 DEF Hands, HandRow, BuildSender, Stages
  <2>2. CASE /\ worker' = [worker EXCEPT ![t][w].at = "building"] /\ sender' = sender
    BY <1>0, <1>1, <2>0, <2>2
  <2>3. CASE /\ mapped[t] \in TableWorker /\ sender[t][mapped[t]].loop = "stopped"
             /\ worker' = [worker EXCEPT ![t][w].at = "failed"] /\ sender' = sender
    <3>1. Broken(t)
      BY <2>1, <2>3 DEF Broken
    <3> QED BY <1>0, <1>1, <2>0, <2>3, <3>1
  <2>4. ASSUME NEW k \in TableWorker, NEW page \in worker[t][w].pages,
               NEW s \in {sender[t][k], NewSender}, Joins(t, w, k, s, page)
        PROVE  \A x \in Table : Broken(x)' => Broken(x)
    <3>1. s \in Senders /\ (s = sender[t][k] \/ (s.loop = "running" /\ s.writer = "running"))
      BY <1>0 DEF NewSender, Senders
    <3>2. /\ [s EXCEPT !.batch = s.batch \cup {<<t, page>>}].loop = s.loop
          /\ [s EXCEPT !.batch = s.batch \cup {<<t, page>>}].writer = s.writer
      BY <3>1 DEF Senders
    <3>3. PICK new : /\ sender' = [sender EXCEPT ![t][k] = new]
                     /\ new.loop = s.loop /\ new.writer = s.writer
      BY <2>4, <3>2 DEF Joins
    <3>4. worker' = [worker EXCEPT ![t][w] =
                          [at |-> "reading", pages |-> worker[t][w].pages \ {page}]]
      BY <2>4 DEF Joins
    <3> QED BY <1>0, <1>1, <3>1, <3>3, <3>4
  <2> QED BY <1>3, <2>0, <2>2, <2>3, <2>4, HandsDoes
<1>4. CASE Sends(t, w)
  <2>0. worker' = worker /\ (faults' = faults \/ faults' = faults + 1)
    BY <1>4, SendsDoes DEF Fault
  <2>1. PICK new \in Senders : sender' = [sender EXCEPT ![t][w] = new]
    BY <1>4, SendsDoes
  <2>2. \A x \in Table, v \in TableWorker :
          sender'[x][v] = IF x = t /\ v = w THEN new ELSE sender[x][v]
    BY <1>0, <2>1, Updated
  <2>3. \A x \in Table \ {t} : Broken(x)' => Broken(x)
    BY <1>0, <2>0, <2>2 DEF Broken
  <2>4. ASSUME faults' = faults PROVE Broken(t)' => Broken(t)
    <3>0. PICK s \in Senders : s = sender[t][w]
      BY <1>0
    <3>5. \A r : SenderStep(t, w, r) => r = new
      BY <1>0, <2>2 DEF SenderStep
    <3>1. CASE Drain(t, w)
      <4>1. /\ new.writer = s.writer
            /\ new.loop = s.loop \/ Cancelled(t)
        <5>1. /\ [s EXCEPT !.writing = s.batch, !.batch = {}].writer = s.writer
              /\ [s EXCEPT !.writing = s.batch, !.batch = {}].loop = s.loop
              /\ \A q : [s EXCEPT !.writing = q, !.batch = {}, !.loop = "stopped"].writer = s.writer
          BY DEF Senders
        <5>2. \/ SenderStep(t, w, [s EXCEPT !.writing = s.batch, !.batch = {}])
              \/ /\ Cancelled(t)
                 /\ \E q : SenderStep(t, w, [s EXCEPT !.writing = q, !.batch = {},
                                                      !.loop = "stopped"])
          BY <3>0, <3>1 DEF Drain
        <5> QED BY <3>5, <5>1, <5>2
      <4>2. Cancelled(t) => Broken(t) \/ table[t] # "copying"
        BY DEF Cancelled, Broken
      <4> QED BY <1>1, <2>0, <2>2, <3>0, <4>1, <4>2
    <3>2. CASE Write(t, w)
      <4>1. new.loop = s.loop /\ (new.writer = s.writer \/ Closed)
        <5>1. faults \in Nat
          BY DEF Shape, TypeOK, SizesAssumption
        <5>2. /\ [s EXCEPT !.writing = {}].writer = s.writer
              /\ [s EXCEPT !.writing = {}].loop = s.loop
              /\ [s EXCEPT !.writing = {}, !.writer = "failed"].loop = s.loop
          BY DEF Senders
        <5>3. \/ SenderStep(t, w, [s EXCEPT !.writing = {}])
              \/ Closed /\ SenderStep(t, w, [s EXCEPT !.writing = {}, !.writer = "failed"])
          BY <2>4, <3>0, <3>2, <5>1 DEF Write, Fault
        <5> QED BY <3>5, <5>2, <5>3
      <4>2. Closed => table[t] # "copying"
        BY CopyingOpen
      <4> QED BY <1>1, <2>0, <2>2, <3>0, <4>1, <4>2
    <3>3. CASE NoticeFailure(t, w)
      <4>1. new.writer = s.writer /\ s.writer = "failed"
        BY <1>0, <2>2, <3>0, <3>3, ZenonT(30) DEF NoticeFailure, SenderStep, Senders
      <4>2. Broken(t) \/ table[t] # "copying"
        BY <3>0, <4>1 DEF Broken
      <4> QED BY <1>1, <2>0, <2>2, <3>0, <4>1, <4>2
    <3> QED BY <1>4, <3>1, <3>2, <3>3 DEF Sends
  <2> QED BY <2>0, <2>3, <2>4
<1> QED BY <1>2, <1>3, <1>4

\* The second failure may be lost, the first is stored for its own schema.
LEMMA BlameStep ==
  ASSUME Shape, Stages, Blame, \A t \in Table : Ranges(t) /\ Kept(t), Started \/ Next
  PROVE  Blame'
<1>0. /\ schema \in [Schema -> {"queued", "open", "failing", "storing", "ended"}]
      /\ table \in [Table -> {"queued", "copying", "done", "failed"}]
      /\ TableWorker # {} /\ asked \subseteq Table /\ faults \in Nat
      /\ \A s \in Schema : TablesOf(s) \subseteq Table
  <2>1. TableWorker # {}
    BY DEF Shape, SizesAssumption
  <2> QED BY <2>1 DEF Shape, TypeOK, TablesOf, SizesAssumption
<1>1. ASSUME NEW t \in Table, NEW w \in TableWorker, Reads(t, w) \/ Hands(t, w) \/ Sends(t, w)
      PROVE  Blame'
  <2>1. UNCHANGED schemaVars /\ \A s \in Schema : Unread(s)' => Unread(s)
    BY <1>1, Inner, UnreadKept
  <2>2. \A s \in Schema : TablesOf(s)' = TablesOf(s)
    BY <2>1 DEF TablesOf, schemaVars
  <2>3. \A s \in Schema : t \in TablesOf(s) => s = source.schema[t]
    BY DEF TablesOf
  <2>4. /\ faults' = faults \/ faults' = faults + 1
        /\ faults' = faults => (Broken(t)' => Broken(t))
        /\ \A x \in Table \ {t} : Broken(x)' => Broken(x)
    BY <1>1, InnerBreaks
  <2>5. \A s \in Schema : Culprit(s)' => Culprit(s) \/ s = source.schema[t]
    BY <1>0, <2>1, <2>2, <2>3, <2>4 DEF Culprit, schemaVars
  <2>6. faults' = faults => \A s \in Schema : Culprit(s)' => Culprit(s)
    BY <1>0, <2>1, <2>2, <2>4 DEF Culprit, schemaVars
  <2>7. /\ \A s \in Schema : schema'[s] = "ended" /\ Unread(s)' =>
             s \in errors' \/ (schema[s] = "ended" /\ Unread(s))
        /\ errors \subseteq errors'
    BY <2>1 DEF schemaVars
  <2> HIDE DEF Culprit
  <2> QED BY <2>4, <2>5, <2>6, <2>7, BlameKept
\* What the steps of the schemas have to show.
<1>2. ASSUME Outer, asked' = asked, errors \subseteq errors', NEW z,
             \/ faults' = faults /\ \A s \in Schema : Culprit(s)' => Culprit(s)
             \/ faults' = faults + 1 /\ \A s \in Schema : Culprit(s)' => Culprit(s) \/ s = z,
             \A s \in Schema : schema'[s] = "ended" =>
               schema[s] = "ended" \/ ~Unread(s) \/ s \in errors'
      PROVE  Blame'
  <2>1. \A s \in Schema : Unread(s)' => Unread(s)
    BY <1>2, UnreadKept
  <2> QED BY <1>2, <2>1, BlameKept
<1>3. ASSUME Outer PROVE source' = source /\ worker' = worker /\ sender' = sender
  BY <1>3, OuterDoes DEF copyVars
<1>4. ASSUME Outer, UNCHANGED <<asked, table>>
      PROVE  \A s \in Schema :
               (\E t \in TablesOf(s)' : Broken(t)') => \E t \in TablesOf(s) : Broken(t)
  BY <1>3, <1>4 DEF TablesOf, Broken
<1>5. CASE Started
  <2>1. /\ snap = "idle" /\ UNCHANGED <<schema, errors, table, faults>>
        /\ Outer /\ asked' \subseteq Table
    BY <1>0, <1>5 DEF Started, Start, NotStarted, Outer
  <2>2. \A t \in Table : table[t] = "queued"
    BY <1>0, <2>1 DEF Stages
  <2>3. \A t \in Table : ~Broken(t)'
    BY <2>1, <2>2 DEF Broken
  <2>4. \A s \in Schema : TablesOf(s)' \subseteq Table
    BY <2>1 DEF TablesOf
  <2>5. \A s \in Schema : Culprit(s)' => Culprit(s)
    BY <2>1, <2>3, <2>4 DEF Culprit
  <2>6. \A s \in Schema : schema'[s] # "ended"
    BY <2>1 DEF Stages
  <2> HIDE DEF Culprit
  <2> QED BY <2>1, <2>5, <2>6, BlameKept
<1>6. CASE CloseProcessor \/ Finish
  <2>1. /\ Outer /\ UNCHANGED <<asked, errors, schema, table>>
        /\ faults' = faults \/ faults' = faults + 1
    BY <1>6 DEF Outer, CloseProcessor, Finish, Fault
  <2>2. \A s \in Schema : Culprit(s)' => Culprit(s)
    BY <1>4, <2>1 DEF Culprit
  <2> HIDE DEF Culprit
  <2> QED BY <1>2, <2>1, <2>2
<1>7. ASSUME NEW s \in Schema, TakeSchema(s) PROVE Blame'
  <2>1. Outer /\ UNCHANGED <<asked, errors, table>>
    BY <1>7 DEF Outer, TakeSchema
  <2>2. PICK l \in {"open", "failing"} : schema' = [schema EXCEPT ![s] = l]
          /\ (faults' = faults + 1 \/ (faults' = faults /\ l = "open"))
    BY <1>7 DEF TakeSchema, Fault
  <2>3. \A x \in Schema : schema'[x] = IF x = s THEN l ELSE schema[x]
    BY <1>0, <2>2
  <2>4. \A x \in Schema : Culprit(x)' => Culprit(x) \/ (x = s /\ l = "failing")
    BY <1>4, <2>1, <2>3 DEF Culprit
  <2> HIDE DEF Culprit
  <2>5. \A x \in Schema : schema'[x] = "ended" => schema[x] = "ended"
    BY <2>3
  <2> QED BY <1>2, <2>1, <2>2, <2>4, <2>5
<1>8. ASSUME NEW s \in Schema, EndSchema(s) PROVE Blame'
  <2>1. Outer /\ UNCHANGED <<asked, errors, table>>
    BY <1>8 DEF Outer, EndSchema
  <2>2. PICK l \in {"failing", "ended"} :
          /\ schema' = [schema EXCEPT ![s] = l]
          /\ l = "ended" => \A t \in TablesOf(s) : table[t] = "done"
          /\ \/ faults' = faults + 1
             \/ faults' = faults /\ (l = "failing" => \E t \in TablesOf(s) : table[t] = "failed")
    BY <1>8 DEF EndSchema, Fault
  <2>3. \A x \in Schema : schema'[x] = IF x = s THEN l ELSE schema[x]
    BY <1>0, <2>2
  <2>4. \A x \in Schema : Culprit(x)' => Culprit(x) \/ (x = s /\ l = "failing")
    BY <1>4, <2>1, <2>3 DEF Culprit
  <2>5. (\E t \in TablesOf(s) : table[t] = "failed") => Culprit(s)
    BY DEF Culprit, Broken
  <2>6. l = "ended" => ~Unread(s)
    BY <2>2, DoneIsRead
  <2> HIDE DEF Culprit
  <2>7. \A x \in Schema : schema'[x] = "ended" => schema[x] = "ended" \/ ~Unread(x)
    BY <2>3, <2>6
  <2> QED BY <1>2, <2>1, <2>2, <2>4, <2>5, <2>7
<1>9. ASSUME NEW s \in Schema, StoreError(s) PROVE Blame'
  <2>1. Outer /\ UNCHANGED <<asked, table, faults>> /\ schema[s] \in {"failing", "storing"}
    BY <1>9 DEF Outer, StoreError
  <2>2. CASE schema' = [schema EXCEPT ![s] = "storing"] /\ errors' = errors
    <3>1. \A x \in Schema : schema'[x] = IF x = s THEN "storing" ELSE schema[x]
      BY <1>0, <2>2
    <3>2. \A x \in Schema : Culprit(x)' => Culprit(x)
      BY <1>4, <2>1, <2>2, <3>1 DEF Culprit
    <3>3. \A x \in Schema : schema'[x] = "ended" => schema[x] = "ended"
      BY <3>1
    <3> HIDE DEF Culprit
    <3> QED BY <1>2, <2>1, <2>2, <3>2, <3>3
  <2>3. CASE schema' = [schema EXCEPT ![s] = "ended"] /\ errors' = errors \cup {s}
    <3>1. \A x \in Schema : schema'[x] = IF x = s THEN "ended" ELSE schema[x]
      BY <1>0, <2>3
    <3>2. \A x \in Schema : Culprit(x)' => Culprit(x)
      BY <1>4, <2>1, <2>3, <3>1 DEF Culprit
    <3>3. \A x \in Schema : schema'[x] = "ended" => schema[x] = "ended" \/ x \in errors'
      BY <2>3, <3>1
    <3> HIDE DEF Culprit
    <3> QED BY <1>2, <2>1, <2>3, <3>2, <3>3
  <2>4. CASE \E other \in Schema \ {s} : schema[other] = "storing"
    <3>1. ~(faults <= 1)
      BY <2>1, <2>4 DEF Blame, Culprit
    <3> QED BY <1>0, <2>1, <3>1 DEF Blame
  <2> QED BY <1>9, <2>2, <2>3, <2>4 DEF StoreError
<1>10. ASSUME NEW t \in Table, TakeTable(t) PROVE Blame'
  <2>1. Outer /\ UNCHANGED <<asked, errors, schema, snap>> /\ table[t] = "queued"
    BY <1>10 DEF Outer, TakeTable
  <2>2. PICK l \in {"copying", "done", "failed"} : table' = [table EXCEPT ![t] = l]
          /\ (faults' = faults + 1 \/ (faults' = faults /\ l # "failed"))
    BY <1>10 DEF TakeTable, Fault
  <2>3. \A x \in Table : table'[x] = IF x = t THEN l ELSE table[x]
    BY <1>0, <2>2
  <2>4. \A w \in TableWorker : worker[t][w].at = "idle" /\ sender[t][w] = NoSender
    BY <2>1 DEF Stages, Kept
  <2>5. Broken(t)' => l = "failed"
    BY <1>3, <2>1, <2>3, <2>4 DEF Broken, NoSender
  <2>6. \A x \in Table \ {t} : Broken(x)' => Broken(x)
    BY <1>3, <2>1, <2>3 DEF Broken
  <2>7. \A s \in Schema : TablesOf(s)' = TablesOf(s) /\ (t \in TablesOf(s) => s = source.schema[t])
    BY <1>3, <2>1 DEF TablesOf
  <2>8. \A s \in Schema : Culprit(s)' => Culprit(s) \/ (s = source.schema[t] /\ l = "failed")
    BY <1>0, <2>1, <2>5, <2>6, <2>7 DEF Culprit
  <2> HIDE DEF Culprit
  <2> QED BY <1>2, <2>1, <2>2, <2>8
<1>11. ASSUME NEW t \in Table, EndTable(t) PROVE Blame'
  <2>1. Outer /\ UNCHANGED <<asked, errors, schema, snap, faults>> /\ table[t] = "copying"
    BY <1>11 DEF Outer, EndTable
  <2>2. PICK l \in {"done", "failed"} : table' = [table EXCEPT ![t] = l]
          /\ (l = "failed" => \E w \in TableWorker : worker[t][w].at = "failed")
    BY <1>11 DEF EndTable
  <2>3. \A x \in Table : table'[x] = IF x = t THEN l ELSE table[x]
    BY <1>0, <2>2
  <2>4. \A x \in Table : Broken(x)' => Broken(x)
    BY <1>3, <2>1, <2>2, <2>3 DEF Broken
  <2>5. \A s \in Schema : TablesOf(s)' = TablesOf(s)
    BY <1>3, <2>1 DEF TablesOf
  <2>6. \A s \in Schema : Culprit(s)' => Culprit(s)
    BY <1>0, <2>1, <2>4, <2>5 DEF Culprit
  <2> HIDE DEF Culprit
  <2> QED BY <1>2, <2>1, <2>6
<1> QED BY <1>0, <1>1, <1>5, <1>6, <1>7, <1>8, <1>9, <1>10, <1>11, StepKinds, OuterKinds

-----------------------------------------------------------------------------
(* What is accepted is kept.                                               *)

\* What is kept of a table only depends on that table.
LEMMA KeptKept ==
  ASSUME NEW x \in Table, Kept(x), source' = source,
         worker'[x] = worker[x], sender'[x] = sender[x], mapped'[x] = mapped[x],
         \A p \in source.rows[x] : handed'[<<x, p>>] = handed[<<x, p>>],
         target \subseteq target', Closed' => Closed \/ mapped[x] = Nobody
  PROVE  Kept(x)'
BY DEF Kept, Holds

\* CreateSnapshot returns when the senders in the map have stopped.
LEMMA KeptOuter ==
  ASSUME Shape, Stages, NEW x \in Table, Kept(x), Outer
  PROVE  Kept(x)'
<1>1. source' = source /\ UNCHANGED copyVars
  BY OuterDoes
<1>2. CASE Closed' => Closed \/ mapped[x] = Nobody
  BY <1>1, <1>2, KeptKept DEF copyVars
<1>3. CASE Finish
  <2>1. mapped[x] # Nobody =>
          sender[x][mapped[x]].loop = "stopped" /\ sender[x][mapped[x]].writing = {}
    BY <1>3 DEF Finish
  <2> QED BY <1>1, <2>1 DEF Kept, Holds, copyVars
<1>4. CASE NotStarted
  <2>1. mapped[x] = Nobody
    BY <1>4, Sources DEF NotStarted, Stages, Shape, TypeOK
  <2> QED BY <1>2, <2>1
<1>5. CASE \/ CloseProcessor \/ \E tables \in SUBSET Table : Start(tables)
           \/ \E s \in Schema : TakeSchema(s) \/ EndSchema(s) \/ StoreError(s)
           \/ \E t \in Table : TakeTable(t) \/ EndTable(t)
  <2>1. Closed' => Closed
    BY <1>5 DEF CloseProcessor, Start, TakeSchema, EndSchema, StoreError, TakeTable, EndTable,
                Closed
  <2> QED BY <1>2, <2>1
<1> QED BY <1>3, <1>4, <1>5, OuterKinds DEF Started

\* Reading concerns no sender.
LEMMA KeptReads ==
  ASSUME Shape, NEW t \in Table, NEW w \in TableWorker, Reads(t, w), NEW x \in Table, Kept(x)
  PROVE  Kept(x)'
<1>0. /\ worker \in [Table -> [TableWorker -> Workers]]
      /\ UNCHANGED <<source, handed, mapped, sender, target>> /\ Closed' = Closed
  BY ReadsDoes DEF Shape, TypeOK, Workers, schemaVars, Closed
<1>1. \A v \in TableWorker : worker'[x][v].at = "building" => worker[x][v].at = "building"
  <2>1. ASSUME NEW new, new.at # "building", worker' = [worker EXCEPT ![t][w] = new]
        PROVE  <1>1!:
    BY <1>0, <2>1
  <2>2. PICK old \in Workers : old = worker[t][w]
    BY <1>0
  <2>3. /\ [old EXCEPT !.at = "off"].at # "building" /\ [old EXCEPT !.at = "failed"].at # "building"
        /\ [at |-> "idle", pages |-> {}].at # "building"
    BY DEF Workers
  <2>4. CASE PushRange(t)
    BY <2>4 DEF PushRange
  <2>5. CASE TakeRange(t, w)
    <3>1. \/ worker' = [worker EXCEPT ![t][w] =
                          [at |-> "reading", pages |-> RangePages(t, taken[t])]]
          \/ worker' = [worker EXCEPT ![t][w] = [old EXCEPT !.at = "off"]]
      BY <1>0, <2>2, <2>5 DEF TakeRange
    <3>2. [at |-> "reading", pages |-> RangePages(t, taken[t])].at # "building"
      OBVIOUS
    <3> QED BY <2>1, <2>3, <3>1, <3>2
  <2>6. CASE RangeFails(t, w)
    <3>1. worker' = [worker EXCEPT ![t][w] = [old EXCEPT !.at = "failed"]]
      BY <1>0, <2>2, <2>6 DEF RangeFails
    <3> QED BY <2>1, <2>3, <3>1
  <2>7. CASE RangeEnds(t, w)
    <3>1. worker' = [worker EXCEPT ![t][w] = [at |-> "idle", pages |-> {}]]
      BY <2>7 DEF RangeEnds, Idle
    <3> QED BY <2>1, <2>3, <3>1
  <2> QED BY <2>4, <2>5, <2>6, <2>7 DEF Reads
<1> QED BY <1>0, <1>1 DEF Kept, Holds

\* A sender drains its batch into its writer, which writes it or fails.
LEMMA KeptSends ==
  ASSUME Shape, NEW t \in Table, NEW k \in TableWorker, Sends(t, k), NEW x \in Table, Kept(x)
  PROVE  Kept(x)'
<1>0. /\ sender \in [Table -> [TableWorker -> Senders]]
      /\ UNCHANGED <<source, worker, handed, mapped>> /\ Closed' = Closed
      /\ target \subseteq target'
  BY SendsDoes DEF Shape, TypeOK, Senders, schemaVars, Closed
<1>1. PICK new \in Senders : sender' = [sender EXCEPT ![t][k] = new]
  BY SendsDoes
<1>2. \A y \in Table, v \in TableWorker :
        sender'[y][v] = IF y = t /\ v = k THEN new ELSE sender[y][v]
  BY <1>0, <1>1, Updated
<1>3. CASE x # t
  <2>1. sender'[x] = sender[x]
    BY <1>0, <1>1, <1>3
  <2> QED BY <1>0, <2>1, KeptKept
<1>4. CASE x = t
  <2>0. PICK s \in Senders : s = sender[t][k]
    BY <1>0
  <2>1. \A r : SenderStep(t, k, r) => r = new
    BY <1>0, <1>2 DEF SenderStep
  <2>2. /\ s.loop = "running" \/ s.writing # {}
        /\ new.loop = "stopped" => new.batch = {}
        /\ s.batch \cup s.writing \subseteq new.batch \cup new.writing \cup target'
           \/ new.writer = "failed"
        /\ s.writer = "failed" => new.writer = "failed"
        /\ s.loop = "stopped" => s.batch = {}
    <3>0. s.loop = "stopped" => s.batch = {}
      BY <1>4, <2>0 DEF Kept
    <3>1. CASE Drain(t, k)
      <4>1. s.loop = "running"
        BY <2>0, <3>1 DEF Drain
      <4>2. CASE /\ s.writing = {} /\ s.writer = "running"
                 /\ SenderStep(t, k, [s EXCEPT !.writing = s.batch, !.batch = {}])
        <5>1. new = [s EXCEPT !.writing = s.batch, !.batch = {}]
          BY <2>1, <4>2
        <5> QED BY <4>1, <4>2, <5>1 DEF Senders
      <4>3. CASE /\ s.writing = {} /\ s.writer = "running"
                 /\ SenderStep(t, k, [s EXCEPT !.writing = s.batch, !.batch = {},
                                               !.loop = "stopped"])
        <5>1. new = [s EXCEPT !.writing = s.batch, !.batch = {}, !.loop = "stopped"]
          BY <2>1, <4>3
        <5> QED BY <4>1, <4>3, <5>1 DEF Senders
      <4>4. CASE /\ s.batch = {}
                 /\ SenderStep(t, k, [s EXCEPT !.writing = s.writing, !.batch = {},
                                               !.loop = "stopped"])
        <5>1. new = [s EXCEPT !.writing = s.writing, !.batch = {}, !.loop = "stopped"]
          BY <2>1, <4>4
        <5> QED BY <4>1, <4>4, <5>1 DEF Senders
      <4> QED BY <2>0, <3>1, <4>2, <4>3, <4>4 DEF Drain
    <3>2. CASE Write(t, k)
      <4>1. s.writing # {}
        BY <2>0, <3>2 DEF Write
      <4>2. CASE target' = target \cup s.writing /\ SenderStep(t, k, [s EXCEPT !.writing = {}])
        <5>1. new = [s EXCEPT !.writing = {}]
          BY <2>1, <4>2
        <5> QED BY <3>0, <4>1, <4>2, <5>1 DEF Senders
      <4>3. CASE SenderStep(t, k, [s EXCEPT !.writing = {}, !.writer = "failed"])
        <5>1. new = [s EXCEPT !.writing = {}, !.writer = "failed"]
          BY <2>1, <4>3
        <5> QED BY <3>0, <4>1, <5>1 DEF Senders
      <4> QED BY <2>0, <3>2, <4>2, <4>3 DEF Write
    <3>3. CASE NoticeFailure(t, k)
      <4>1. /\ s.loop = "running" /\ s.writer = "failed"
            /\ SenderStep(t, k, [s EXCEPT !.loop = "stopped", !.batch = {}])
        BY <2>0, <3>3 DEF NoticeFailure
      <4>2. new = [s EXCEPT !.loop = "stopped", !.batch = {}]
        BY <2>1, <4>1
      <4> QED BY <4>1, <4>2 DEF Senders
    <3> QED BY <3>1, <3>2, <3>3 DEF Sends
  <2>3. s # NoSender
    BY <2>2 DEF NoSender
  <2>4. \A v \in TableWorker :
          /\ mapped[t] = Nobody \/ worker[t][v].at = "building" => sender'[t][v] = NoSender
          /\ worker[t][v].at = "building" => mapped[t] # v
          /\ sender'[t][v].loop = "stopped" => sender'[t][v].batch = {}
    BY <1>2, <1>4, <2>0, <2>2, <2>3 DEF Kept
  <2>5. ASSUME NEW p \in source.rows[t], handed[<<t, p>>] = 1
        PROVE  \/ <<t, p>> \in target'
               \/ \E v \in TableWorker : Holds(t, v, <<t, p>>)' \/ sender'[t][v].writer = "failed"
    <3>1. \/ <<t, p>> \in target
          \/ \E v \in TableWorker : Holds(t, v, <<t, p>>) \/ sender[t][v].writer = "failed"
      BY <1>4, <2>5 DEF Kept
    <3>2. ASSUME NEW v \in TableWorker, Holds(t, v, <<t, p>>) \/ sender[t][v].writer = "failed"
          PROVE  <<t, p>> \in target' \/ Holds(t, v, <<t, p>>)' \/ sender'[t][v].writer = "failed"
      <4>1. CASE v = k
        BY <1>2, <2>0, <2>2, <3>2, <4>1 DEF Holds
      <4>2. CASE v # k
        BY <1>2, <3>2, <4>2 DEF Holds
      <4> QED BY <4>1, <4>2
    <3> QED BY <1>0, <3>1, <3>2
  <2>6. Closed /\ mapped[t] # Nobody =>
          sender'[t][mapped[t]].loop = "stopped" /\ sender'[t][mapped[t]].writing = {}
    <3>1. Closed /\ mapped[t] # Nobody => mapped[t] \in TableWorker /\ mapped[t] # k
      BY <1>4, <2>0, <2>2 DEF Kept, Shape, TypeOK
    <3> QED BY <1>2, <1>4, <3>1 DEF Kept
  <2> QED BY <1>0, <1>4, <2>4, <2>5, <2>6 DEF Kept
<1> QED BY <1>3, <1>4

\* A row that is accepted is in a batch, and a sender that is built has none before.
LEMMA KeptHands ==
  ASSUME Shape, Stages, NEW t \in Table, NEW w \in TableWorker, Hands(t, w), Ranges(t), Kept(t),
         NEW x \in Table, Kept(x)
  PROVE  Kept(x)'
<1>0. /\ sender \in [Table -> [TableWorker -> Senders]]
      /\ worker \in [Table -> [TableWorker -> Workers]]
      /\ mapped \in [Table -> TableWorker \cup {Nobody}] /\ Nobody \notin TableWorker
      /\ handed \in [Rows -> Nat]
      /\ UNCHANGED <<source, target>> /\ Closed' = Closed
  <2>1. Nobody \notin TableWorker
    BY DEF Shape, SizesAssumption
  <2> QED BY <2>1, HandsDoes DEF Shape, TypeOK, Senders, Workers, schemaVars, Closed
<1>1. table[t] = "copying" /\ ~Closed
  <2>1. table[t] = "copying"
    BY DEF Hands, HandRow, BuildSender, Stages
  <2> QED BY <2>1, CopyingOpen
<1>2. CASE /\ worker' = [worker EXCEPT ![t][w].at = "building"] /\ mapped[t] = Nobody
           /\ UNCHANGED <<sender, handed, mapped>>
  <2>1. /\ \A v \in TableWorker \ {w} : worker'[t][v] = worker[t][v]
        /\ x # t => worker'[x] = worker[x]
    BY <1>0, <1>2
  <2>2. CASE x # t
    BY <1>0, <1>2, <2>1, <2>2, KeptKept
  <2>3. CASE x = t
    <3>1. \A v \in TableWorker : sender[t][v] = NoSender /\ mapped[t] # v
      BY <1>0, <1>2 DEF Kept
    <3> QED BY <1>0, <1>1, <1>2, <2>3, <3>1 DEF Kept, Holds
  <2> QED BY <2>2, <2>3
<1>3. CASE /\ worker' = [worker EXCEPT ![t][w].at = "failed"]
           /\ UNCHANGED <<sender, handed, mapped>>
  <2>1. \A v \in TableWorker : worker'[x][v].at = "building" => worker[x][v].at = "building"
    <3>1. PICK old \in Workers : old = worker[t][w]
      BY <1>0
    <3>2. worker' = [worker EXCEPT ![t][w] = [old EXCEPT !.at = "failed"]]
      BY <1>0, <1>3, <3>1
    <3>3. [old EXCEPT !.at = "failed"].at = "failed"
      BY DEF Workers
    <3> QED BY <1>0, <3>2, <3>3
  <2> QED BY <1>0, <1>3, <2>1 DEF Kept, Holds
<1>4. ASSUME NEW k \in TableWorker, NEW page \in worker[t][w].pages,
             NEW s \in {sender[t][k], NewSender}, Joins(t, w, k, s, page)
      PROVE  Kept(x)'
  <2>1. page \in source.rows[t] /\ <<t, page>> \in Rows
    BY RowsAre DEF Ranges
  <2>2. s \in Senders
    BY <1>0 DEF NewSender, Senders
  <2>3. PICK new \in Senders :
          /\ sender' = [sender EXCEPT ![t][k] = new]
          /\ new.loop = s.loop /\ new.writer = s.writer /\ new.writing = s.writing
          /\ new.batch = s.batch \cup {<<t, page>>}
    <3>1. [s EXCEPT !.batch = s.batch \cup {<<t, page>>}] \in Senders
      BY <2>1, <2>2 DEF Senders
    <3>2. sender' = [sender EXCEPT ![t][k] = [s EXCEPT !.batch = s.batch \cup {<<t, page>>}]]
      BY <1>4 DEF Joins
    <3> QED BY <2>2, <3>1, <3>2 DEF Senders
  <2>4. sender' = [sender EXCEPT ![t][k] = new]
    BY <2>3
  <2>5. worker' = [worker EXCEPT ![t][w] =
                        [at |-> "reading", pages |-> worker[t][w].pages \ {page}]]
    BY <1>4 DEF Joins
  <2>6. handed' = [handed EXCEPT ![<<t, page>>] = handed[<<t, page>>] + 1]
    BY <1>4 DEF Joins
  <2>7. \/ /\ worker[t][w].at = "reading" /\ k = mapped[t] /\ mapped' = mapped
           /\ s = sender[t][k] /\ s.loop # "stopped"
        \/ /\ worker[t][w].at = "building" /\ k = w /\ s = NewSender
           /\ mapped' = [mapped EXCEPT ![t] = w]
    BY <1>4 DEF Joins
  <2>8. CASE x # t
    <3>1. sender'[x] = sender[x] /\ worker'[x] = worker[x] /\ mapped'[x] = mapped[x]
      BY <1>0, <2>4, <2>5, <2>7, <2>8
    <3>2. \A p \in source.rows[x] : handed'[<<x, p>>] = handed[<<x, p>>]
      BY <1>0, <2>6, <2>8, RowsAre
    <3> QED BY <1>0, <3>1, <3>2, KeptKept
  <2>9. CASE x = t
    <3>1. /\ \A v \in TableWorker : sender'[t][v] = IF v = k THEN new ELSE sender[t][v]
          /\ \A v \in TableWorker \ {w} : worker'[t][v] = worker[t][v]
          /\ worker'[t][w].at = "reading"
      BY <1>0, <2>4, <2>5
    <3>2. mapped'[t] = k /\ k # Nobody
      BY <1>0, <2>7
    \* Whoever still builds a sender has none yet, and another one than k.
    <3>3. \A v \in TableWorker : worker'[t][v].at = "building" => sender[t][v] = NoSender /\ v # k
      BY <2>7, <3>1 DEF Kept
    <3>4. new.loop # "stopped"
      BY <2>3, <2>7 DEF NewSender
    <3>5. \A v \in TableWorker :
            /\ mapped'[t] = Nobody \/ worker'[t][v].at = "building" => sender'[t][v] = NoSender
            /\ worker'[t][v].at = "building" => mapped'[t] # v
            /\ sender'[t][v].loop = "stopped" => sender'[t][v].batch = {}
      BY <3>1, <3>2, <3>3, <3>4, <2>9 DEF Kept
    <3>6. ASSUME NEW p \in source.rows[t], handed'[<<t, p>>] = 1
          PROVE  \/ <<t, p>> \in target
                 \/ \E v \in TableWorker : Holds(t, v, <<t, p>>)' \/ sender'[t][v].writer = "failed"
      <4>1. CASE p = page
        <5>1. Holds(t, k, <<t, p>>)'
          BY <2>3, <3>1, <4>1 DEF Holds
        <5> QED BY <5>1
      <4>2. CASE p # page
        <5>1. handed[<<t, p>>] = 1
          <6>1. <<t, p>> # <<t, page>> /\ <<t, p>> \in Rows
            BY <4>2, RowsAre
          <6> QED BY <1>0, <2>6, <3>6, <6>1
        <5>2. \/ <<t, p>> \in target
              \/ \E v \in TableWorker : Holds(t, v, <<t, p>>) \/ sender[t][v].writer = "failed"
          BY <2>9, <5>1 DEF Kept
        <5>3. sender[t][k] = s \/ sender[t][k] = NoSender
          BY <2>7 DEF Kept
        <5>4. ASSUME NEW v \in TableWorker, Holds(t, v, <<t, p>>) \/ sender[t][v].writer = "failed"
              PROVE  Holds(t, v, <<t, p>>)' \/ sender'[t][v].writer = "failed"
          <6>1. CASE v = k
            <7>1. sender[t][k] = s
              BY <5>3, <5>4, <6>1 DEF Holds, NoSender
            <7> QED BY <2>3, <3>1, <5>4, <6>1, <7>1 DEF Holds
          <6>2. CASE v # k
            BY <3>1, <5>4, <6>2 DEF Holds
          <6> QED BY <6>1, <6>2
        <5> QED BY <5>2, <5>4
      <4> QED BY <4>1, <4>2
    <3> QED BY <1>0, <1>1, <2>9, <3>5, <3>6 DEF Kept
  <2> QED BY <2>8, <2>9
<1> QED BY <1>2, <1>3, <1>4, HandsDoes

-----------------------------------------------------------------------------
(* The invariant.                                                          *)

\* The invariant holds before the copy is started.
LEMMA SafeInit ==
  ASSUME SizesAssumption, Init
  PROVE  Safe
<1>1. source \in Snapshots /\ source.maxFaults \in Nat /\ TableWorker # {}
  BY DEF Init, SizesAssumption
<1>2. Shape
  BY <1>1 DEF Init, Shape, TypeOK, SizesAssumption, Idle, NoSender
<1>3. Stages
  BY DEF Init, Stages, Idle
<1>4. Reported
  BY DEF Init, Reported
<1>5. Blame
  BY DEF Init, Blame, Culprit, Broken, TablesOf
<1>6. ASSUME NEW t \in Table PROVE Ranges(t) /\ Kept(t)
  <2>1. /\ \A w \in TableWorker : worker[t][w] = Idle /\ sender[t][w] = NoSender
        /\ pushed[t] = 0 /\ taken[t] = 0 /\ table[t] = "queued" /\ mapped[t] = Nobody
        /\ \A p \in source.rows[t] : handed[<<t, p>>] = 0
        /\ ~Closed /\ Nobody \notin TableWorker
    BY RowsAre DEF Init, Closed, SizesAssumption
  <2>2. \A p \in source.rows[t] : ~(p < Front(t))
    <3>1. CASE source.last[t] = Missing
      <4>1. source.rows[t] = {}
        BY <1>2, <3>1, Sources DEF Missing
      <4> QED BY <4>1
    <3>2. CASE source.last[t] # Missing
      <4>1. Front(t) = 0
        BY <1>2, <2>1, <3>2, RangeHasPages DEF Front
      <4>2. source.rows[t] \subseteq Nat
        BY <1>2, Sources
      <4> QED BY <4>1, <4>2
    <3> QED BY <3>1, <3>2
  <2> QED BY <2>1, <2>2 DEF Ranges, Kept, Idle, NoSender
<1> QED BY <1>2, <1>3, <1>4, <1>5, <1>6 DEF Safe

\* Every step keeps the invariant.
LEMMA SafeStep ==
  ASSUME Safe, [NotStarted \/ (\E tables \in SUBSET Table : Start(tables)) \/ Next]_vars
  PROVE  Safe'
<1>0. Shape /\ Stages /\ Reported /\ Blame /\ \A t \in Table : Ranges(t) /\ Kept(t)
  BY DEF Safe
<1>1. CASE UNCHANGED vars
  <2>1. UNCHANGED <<source, asked, snap, schema, errors, table, pushed, taken, worker, handed,
                    mapped, sender, target, faults>>
    BY <1>1 DEF vars
  <2>2. Shape' /\ Stages' /\ Reported'
    <3>1. Shape'
      BY <1>0, <2>1 DEF Shape, TypeOK, SizesAssumption, Rows
    <3>2. Stages'
      BY <1>0, <2>1 DEF Stages, TablesOf
    <3>3. Reported'
      <4>1. \A x \in Schema : Unread(x)' <=> Unread(x)
        BY <2>1 DEF Unread, TablesOf
      <4> QED BY <1>0, <2>1, <4>1 DEF Reported
    <3> QED BY <3>1, <3>2, <3>3
  <2>3. Blame'
    BY <1>0, <2>1 DEF Blame, Culprit, Broken, TablesOf, Unread
  <2>4. ASSUME NEW t \in Table PROVE Ranges(t)' /\ Kept(t)'
    <3>1. Ranges(t) /\ Kept(t)
      BY <1>0
    <3>2. table'[t] = "done" => \A p \in source.rows[t] : handed[<<t, p>>] = 1
      BY <2>1, <3>1 DEF Ranges
    <3> QED BY <2>1, <3>1, <3>2, RangesKept, KeptKept DEF Closed
  <2> QED BY <2>2, <2>3, <2>4 DEF Safe
<1>2. CASE Started \/ Next
  <2>0. TableWorker # {}
    BY <1>0 DEF Shape, SizesAssumption
  <2>1. Shape' /\ Stages' /\ Reported' /\ Blame' /\ \A t \in Table : Ranges(t)'
    BY <1>0, <1>2, ShapeStep, StagesStep, ReportedStep, BlameStep, RangesStep
  <2>2. \A t \in Table : Kept(t)'
    BY <1>0, <1>2, <2>0, StepKinds, KeptOuter, KeptReads, KeptHands, KeptSends
  <2> QED BY <2>1, <2>2 DEF Safe
<1> QED BY <1>1, <1>2 DEF Started

\* The invariant always holds.
LEMMA AlwaysSafe == SizesAssumption /\ Spec => []Safe
<1>1. SizesAssumption /\ Init => Safe
  BY SafeInit
<1>2. Safe /\ [NotStarted \/ (\E tables \in SUBSET Table : Start(tables)) \/ Next]_vars => Safe'
  BY SafeStep
<1> QED BY <1>1, <1>2, PTL DEF Spec

\* The rows that are not read are in schemas of the error; with no error there are none.
LEMMA SafeRows ==
  ASSUME Safe
  PROVE  RowsHandedOnce /\ SnapshotStaysOpen
<1>0. Shape /\ Stages /\ Reported /\ Blame /\ \A t \in Table : Ranges(t)
  BY DEF Safe
<1>1. \A r \in Rows : handed[r] <= 1
  BY <1>0, RowsOfTables DEF Ranges
<1>2. ASSUME snap \in {"ok", "error"}, NEW r \in AskedRows, handed[r] = 0
      PROVE  /\ source.schema[r[1]] \in Schema
             /\ schema[source.schema[r[1]]] = "ended" /\ Unread(source.schema[r[1]])
  <2>1. /\ r[1] \in Table /\ r[1] \in asked /\ r[2] \in source.rows[r[1]] /\ r = <<r[1], r[2]>>
    BY RowsOfTables DEF AskedRows
  <2>2. source.schema[r[1]] \in Schema /\ r[1] \in TablesOf(source.schema[r[1]])
    BY <1>0, <2>1, Sources DEF TablesOf
  <2>3. schema[source.schema[r[1]]] = "ended"
    BY <1>0, <1>2, <2>2 DEF Stages
  <2>4. Unread(source.schema[r[1]])
    BY <1>2, <2>1, <2>2 DEF Unread
  <2> QED BY <2>2, <2>3, <2>4
<1>3. ASSUME snap = "ok", NEW r \in AskedRows, handed[r] = 0
      PROVE  FALSE
  <2>1. errors = {}
    BY <1>0, <1>3 DEF Reported
  <2>2. PICK s \in Schema : schema[s] \in {"failing", "storing"}
    BY <1>0, <1>2, <1>3, <2>1 DEF Reported
  <2> QED BY <1>0, <1>3, <2>2 DEF Stages
<1>4. ASSUME snap = "error", faults <= 1, NEW r \in AskedRows, handed[r] = 0
      PROVE  source.schema[r[1]] \in errors
  BY <1>0, <1>2, <1>4 DEF Blame
<1>5. RowsHandedOnce
  BY <1>1, <1>3, <1>4 DEF RowsHandedOnce
<1>6. SnapshotStaysOpen
  BY <1>0 DEF SnapshotStaysOpen, Stages
<1> QED BY <1>5, <1>6

\* A row that was accepted and not written had a writer that failed or was left behind.
LEMMA SafeTarget ==
  ASSUME Safe
  PROVE  MissingRowsFailedUnseen
<1>0. Shape /\ Stages /\ (\A t \in Table : Ranges(t) /\ Kept(t)) /\ RowsHandedOnce
  BY SafeRows DEF Safe
<1> SUFFICES ASSUME snap = "ok", NEW r \in AskedRows, r \notin target
             PROVE  \E k \in TableWorker :
                      \/ sender[r[1]][k].writer = "failed"
                      \/ /\ mapped[r[1]] # k
                         /\ r \in sender[r[1]][k].writing \cup sender[r[1]][k].batch
  BY DEF MissingRowsFailedUnseen
<1>1. PICK t \in Table : t = r[1] /\ r[2] \in source.rows[t] /\ r = <<t, r[2]>> /\ r \in Rows
  BY RowsOfTables DEF AskedRows
<1>2. handed[r] = 1
  <2>1. handed[r] # 0 /\ handed[r] <= 1 /\ handed[r] \in Nat
    BY <1>0, <1>1 DEF RowsHandedOnce, Shape, TypeOK
  <2> QED BY <2>1
<1>3. PICK k \in TableWorker : Holds(t, k, r) \/ sender[t][k].writer = "failed"
  BY <1>0, <1>1, <1>2 DEF Kept
<1>4. mapped[t] = k /\ Holds(t, k, r) => FALSE
  <2> SUFFICES ASSUME mapped[t] = k, Holds(t, k, r) PROVE FALSE
    OBVIOUS
  <2>1. sender[t][k].loop = "stopped" /\ sender[t][k].writing = {}
    BY <1>0, Sources DEF Kept, Closed
  <2>2. sender[t][k].batch = {}
    BY <1>0, <2>1 DEF Kept
  <2> QED BY <2>1, <2>2 DEF Holds
<1> QED BY <1>1, <1>3, <1>4 DEF Holds

-----------------------------------------------------------------------------
(* Whatever fails, no row is accepted twice, an accepted snapshot has read *)
(* every row of its tables, a refused one names the schemas whose rows it  *)
(* has not read if no more than one operation failed, and every row is     *)
(* read while the exporting transaction is open: for every set of schemas  *)
(* and tables, every layout of the pages, any batch size and any number of *)
(* workers (CreateSnapshot, createSnapshotWorker, snapshotTable).          *)
THEOREM RowsAreHandedOnce == SizesAssumption /\ Spec => [](RowsHandedOnce /\ SnapshotStaysOpen)
<1>1. Safe => RowsHandedOnce /\ SnapshotStaysOpen
  BY SafeRows
<1> QED BY <1>1, AlwaysSafe, PTL

(* A row that an accepted snapshot read and did not write was lost by a    *)
(* COPY that failed, or is in a sender that another one replaced in the    *)
(* map: Close waits for the senders of the map only (Close of the bulk     *)
(* ingest writer, getBatchSender).                                         *)
THEOREM MissingRowsHadAWriter == SizesAssumption /\ Spec => []MissingRowsFailedUnseen
<1>1. Safe => MissingRowsFailedUnseen
  BY SafeTarget
<1> QED BY <1>1, AlwaysSafe, PTL
=============================================================================
