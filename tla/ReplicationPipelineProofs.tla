---------------------- MODULE ReplicationPipelineProofs ----------------------
(***************************************************************************)
(* Theorems about ReplicationPipeline, for any transactions of any number  *)
(* of changes, any queue, and any number of failures, where the position   *)
(* of a message ends with its own record (Span = {0}).  With a JSON text   *)
(* that reaches further, the pipeline's overshoot run shows them false.    *)
(*                                                                         *)
(* Safe, the invariant, has four parts.  Shape: the log is well formed and *)
(* every position and message lies in it.  Anchors: what is committed      *)
(* before the confirmed position, or before a position replication will    *)
(* start from, is in the target.  Flow: the batch being written, the queue,*)
(* the listener's event and the connection, in this order, can be taken up *)
(* one message after the other without a gap, and together with the target *)
(* they reach to where the walsender is.  InOrder: the target is closed    *)
(* under what was committed before.                                        *)
(***************************************************************************)
EXTENDS ReplicationPipeline, FiniteSetTheorems, SequenceTheorems, TLAPS

-----------------------------------------------------------------------------
(* The log.                                                                *)

\* A record whose JSON ends where the record does.
Record == [kind : {"change", "commit"}, txn : Txn, span : {0}]

\* A transaction has one commit record, behind all of its changes.
WellFormed(log) ==
  /\ log \in Seq(Record)
  /\ \A i \in Changes(log), j \in Commits(log) : log[i].txn = log[j].txn => i < j
  /\ \A i, j \in Commits(log) : log[i].txn = log[j].txn => i = j

\* What is committed before position c is in D.
Covered(log, D, c) == \A i \in Committed(log) : CommitLSN(log, i) < c => i \in D

\* What must not be lost when message m is checkpointed, or written.
Precedes(log, i, m) ==
  \/ CommitLSN(log, i) < m.pos
  \/ m.kind = "change" /\ StreamedBefore(log, i, m.idx)

\* With D in the target, the messages of b can be taken up one after the other.
Follows(log, D, b) ==
  \A k \in DOMAIN b : \A i \in Committed(log) : Precedes(log, i, b[k]) =>
    i \in D \/ \E l \in DOMAIN b : l < k /\ b[l].kind = "change" /\ b[l].idx = i

DownClosed(log, D) ==
  \A i, j \in Committed(log) : StreamedBefore(log, i, j) /\ j \in D => i \in D

Message(log) ==
  {m \in EventMessage : /\ m.pos \in 1..(Len(log) + 1)
                        /\ m.kind = "change" => m.idx \in Committed(log)}

\* Where changes and commits are in a well formed log.
LEMMA LogFacts ==
  ASSUME NEW log, WellFormed(log)
  PROVE  /\ Len(log) \in Nat /\ Changes(log) \subseteq 1..Len(log)
         /\ Commits(log) \subseteq 1..Len(log) /\ Committed(log) \subseteq Changes(log)
         /\ \A i \in 1..Len(log) : log[i] \in Record
         /\ \A i \in Committed(log) :
              /\ CommitLSN(log, i) \in Commits(log) /\ i < CommitLSN(log, i)
              /\ log[CommitLSN(log, i)].txn = log[i].txn
              /\ \A j \in Commits(log) : log[j].txn = log[i].txn => j = CommitLSN(log, i)
<1>1. /\ Len(log) \in Nat /\ DOMAIN log = 1..Len(log) /\ \A i \in 1..Len(log) : log[i] \in Record
  BY LenProperties DEF WellFormed
<1>2. /\ Changes(log) \subseteq 1..Len(log) /\ Commits(log) \subseteq 1..Len(log)
      /\ Committed(log) \subseteq Changes(log)
  BY <1>1 DEF Changes, Commits, Committed
<1>3. ASSUME NEW i \in Committed(log)
      PROVE  CommitLSN(log, i) \in CommitOf(log, i)
  BY <1>3 DEF Committed, CommitLSN
<1>4. ASSUME NEW i \in Committed(log)
      PROVE  /\ CommitLSN(log, i) \in Commits(log)
             /\ log[CommitLSN(log, i)].txn = log[i].txn
  BY <1>3, <1>4 DEF CommitOf
<1> QED BY <1>1, <1>2, <1>4 DEF WellFormed

\* A record is added: what was committed stays so, and what is committed now is
\* behind everything.
LEMMA LogGrows ==
  ASSUME NEW log, WellFormed(log), NEW r \in Record,
         \A i \in Commits(log) : log[i].txn # r.txn
  PROVE  LET new == Append(log, r) IN
         /\ WellFormed(new) /\ Len(new) = Len(log) + 1
         /\ Committed(log) \subseteq Committed(new)
         /\ \A i \in Committed(log) : CommitLSN(new, i) = CommitLSN(log, i)
         /\ \A i \in Committed(new) \ Committed(log) : CommitLSN(new, i) = Len(log) + 1
<1> DEFINE new == Append(log, r)
           n == Len(log)
<1>1. /\ n \in Nat /\ DOMAIN log = 1..n /\ \A i \in 1..n : log[i] \in Record
      /\ new \in Seq(Record) /\ Len(new) = n + 1 /\ DOMAIN new = 1..(n + 1)
      /\ new[n + 1] = r /\ \A i \in 1..n : new[i] = log[i]
  BY LenProperties, AppendProperties DEF WellFormed
<1> HIDE DEF new, n
<1>2. /\ Changes(new) = Changes(log) \cup (IF r.kind = "change" THEN {n + 1} ELSE {})
      /\ Commits(new) = Commits(log) \cup (IF r.kind = "commit" THEN {n + 1} ELSE {})
      /\ Changes(log) \subseteq 1..n /\ Commits(log) \subseteq 1..n
  BY <1>1 DEF Changes, Commits
<1>3. WellFormed(new)
  <2>1. \A i \in Changes(new), j \in Commits(new) : new[i].txn = new[j].txn => i < j
    BY <1>1, <1>2 DEF WellFormed, Record
  <2>2. \A i, j \in Commits(new) : new[i].txn = new[j].txn => i = j
    BY <1>1, <1>2 DEF WellFormed
  <2> QED BY <1>1, <2>1, <2>2 DEF WellFormed
<1>4. \A i \in Changes(log) :
        CommitOf(new, i) = CommitOf(log, i)
                             \cup (IF r.kind = "commit" /\ r.txn = log[i].txn THEN {n + 1} ELSE {})
  BY <1>1, <1>2 DEF CommitOf
<1>5. \A i \in Committed(log) : i \in Changes(log) /\ CommitOf(new, i) = CommitOf(log, i)
  <2> TAKE i \in Committed(log)
  <2>1. i \in Changes(log) /\ CommitOf(log, i) # {}
    BY DEF Committed
  <2>2. r.txn # log[i].txn
    BY <2>1 DEF CommitOf
  <2> QED BY <1>4, <2>1, <2>2
<1>6. Committed(log) \subseteq Committed(new)
  BY <1>2, <1>5 DEF Committed
<1>7. \A i \in Committed(log) : CommitLSN(new, i) = CommitLSN(log, i)
  BY <1>5 DEF CommitLSN
<1>8. ASSUME NEW i \in Committed(new), i \notin Committed(log)
      PROVE  CommitLSN(new, i) = n + 1
  <2>1. CommitOf(new, i) # {} /\ i \in Changes(new)
    BY DEF Committed
  <2>2. CASE i \in Changes(log)
    <3>1. CommitOf(log, i) = {}
      BY <1>8, <2>2 DEF Committed
    <3>2. CommitOf(new, i) = {n + 1}
      BY <1>4, <2>1, <2>2, <3>1
    <3> QED BY <3>2 DEF CommitLSN
  <2>3. CASE i \notin Changes(log)
    <3>1. i = n + 1 /\ r.kind = "change"
      BY <1>2, <2>1, <2>3
    <3>2. CommitOf(new, i) = {}
      BY <1>1, <1>2, <3>1 DEF CommitOf
    <3> QED BY <2>1, <3>2
  <2> QED BY <2>2, <2>3
<1> QED BY <1>1, <1>3, <1>6, <1>7, <1>8 DEF new, n

\* What held of the log holds of it when it has grown.
LEMMA LogGrowthKeeps ==
  ASSUME NEW log, WellFormed(log), NEW r \in Record,
         \A i \in Commits(log) : log[i].txn # r.txn
  PROVE  LET new == Append(log, r) IN
         /\ Message(log) \subseteq Message(new)
         /\ \A D, c : c \in 0..(Len(log) + 1) /\ Covered(log, D, c) => Covered(new, D, c)
         /\ \A D \in SUBSET Committed(log) : DownClosed(log, D) => DownClosed(new, D)
         /\ \A D, b : b \in Seq(Message(log)) /\ Follows(log, D, b) => Follows(new, D, b)
<1> DEFINE new == Append(log, r)
           n == Len(log)
<1>1. /\ WellFormed(new) /\ Len(new) = n + 1 /\ n \in Nat
      /\ Committed(log) \subseteq Committed(new)
      /\ \A i \in Committed(log) : CommitLSN(new, i) = CommitLSN(log, i)
      /\ \A i \in Committed(new) \ Committed(log) : CommitLSN(new, i) = n + 1
      /\ \A i \in Committed(log) : CommitLSN(log, i) \in 1..n
  BY LogGrows, LogFacts
<1> HIDE DEF new
<1>2. Message(log) \subseteq Message(new)
  BY <1>1 DEF Message
<1>3. ASSUME NEW D, NEW c \in 0..(n + 1), Covered(log, D, c) PROVE Covered(new, D, c)
  BY <1>1, <1>3 DEF Covered
<1>4. ASSUME NEW D \in SUBSET Committed(log), DownClosed(log, D) PROVE DownClosed(new, D)
  BY <1>1, <1>4 DEF DownClosed, StreamedBefore
<1>5. ASSUME NEW m \in Message(log), NEW i \in Committed(new), Precedes(new, i, m)
      PROVE  i \in Committed(log) /\ Precedes(log, i, m)
  <2>1. m.pos \in 1..(n + 1) /\ (m.kind = "change" => m.idx \in Committed(log))
    BY DEF Message
  <2>2. i \in Committed(log)
    BY <1>1, <1>5, <2>1 DEF Precedes, StreamedBefore
  <2> QED BY <1>1, <1>5, <2>1, <2>2 DEF Precedes, StreamedBefore
<1>6. ASSUME NEW D, NEW b \in Seq(Message(log)), Follows(log, D, b) PROVE Follows(new, D, b)
  <2>1. \A k \in DOMAIN b : b[k] \in Message(log)
    OBVIOUS
  <2> QED BY <1>5, <1>6, <2>1 DEF Follows
<1> QED BY <1>2, <1>3, <1>4, <1>6 DEF new, n

-----------------------------------------------------------------------------
(* Batches of messages.                                                    *)

\* b is b1 and b2, one after the other.
Joined(log, D, b1, b2, b) ==
  /\ b \in Seq(Message(log))
  /\ BatchChanges(b) = BatchChanges(b1) \cup BatchChanges(b2)
  /\ Follows(log, D, b) <=> Follows(log, D, b1) /\ Follows(log, D \cup BatchChanges(b1), b2)

\* A change is in a batch when one of its messages carries it.
LEMMA BatchHas ==
  ASSUME NEW b, NEW i
  PROVE  i \in BatchChanges(b) <=> \E l \in DOMAIN b : b[l].kind = "change" /\ b[l].idx = i
BY DEF BatchChanges

\* Two batches can be taken up one after the other when the second can after the first.
LEMMA ConcatJoins ==
  ASSUME NEW log, NEW D, NEW b1 \in Seq(Message(log)), NEW b2 \in Seq(Message(log))
  PROVE  Joined(log, D, b1, b2, b1 \o b2)
<1> DEFINE b == b1 \o b2
           m == Len(b1)
           n == Len(b2)
<1>1. /\ m \in Nat /\ n \in Nat /\ DOMAIN b1 = 1..m /\ DOMAIN b2 = 1..n
      /\ b \in Seq(Message(log)) /\ DOMAIN b = 1..(m + n)
      /\ \A k \in 1..(m + n) : b[k] = IF k <= m THEN b1[k] ELSE b2[k - m]
  BY LenProperties, ConcatProperties
<1> HIDE DEF b, m, n
<1>2. /\ \A k \in 1..m : k \in 1..(m + n) /\ b[k] = b1[k]
      /\ \A k \in 1..n : k + m \in 1..(m + n) /\ b[k + m] = b2[k]
      /\ \A k \in 1..(m + n) : k \in 1..m \/ (k - m \in 1..n /\ k = (k - m) + m)
  BY <1>1
<1>3. BatchChanges(b) = BatchChanges(b1) \cup BatchChanges(b2)
  <2>1. ASSUME NEW i \in BatchChanges(b) PROVE i \in BatchChanges(b1) \cup BatchChanges(b2)
    <3>1. PICK l \in 1..(m + n) : b[l].kind = "change" /\ b[l].idx = i
      BY <1>1, <2>1, BatchHas
    <3>2. CASE l \in 1..m
      BY <1>1, <1>2, <3>1, <3>2, BatchHas
    <3>3. CASE l - m \in 1..n
      BY <1>1, <1>2, <3>1, <3>3, BatchHas
    <3> QED BY <1>2, <3>2, <3>3
  <2>2. ASSUME NEW i \in BatchChanges(b1) \cup BatchChanges(b2) PROVE i \in BatchChanges(b)
    <3>1. CASE i \in BatchChanges(b1)
      <4>1. PICK l \in 1..m : b1[l].kind = "change" /\ b1[l].idx = i
        BY <1>1, <3>1, BatchHas
      <4> QED BY <1>1, <1>2, <4>1, BatchHas
    <3>2. CASE i \in BatchChanges(b2)
      <4>1. PICK l \in 1..n : b2[l].kind = "change" /\ b2[l].idx = i
        BY <1>1, <3>2, BatchHas
      <4> QED BY <1>1, <1>2, <4>1, BatchHas
    <3> QED BY <2>2, <3>1, <3>2
  <2> QED BY <2>1, <2>2
<1>4. ASSUME Follows(log, D, b) PROVE Follows(log, D, b1)
  <2> SUFFICES ASSUME NEW k \in 1..m, NEW i \in Committed(log), Precedes(log, i, b1[k]), i \notin D
               PROVE  \E l \in DOMAIN b1 : l < k /\ b1[l].kind = "change" /\ b1[l].idx = i
    BY <1>1 DEF Follows
  <2>1. PICK l \in 1..(m + n) : l < k /\ b[l].kind = "change" /\ b[l].idx = i
    <3>1. k \in DOMAIN b /\ Precedes(log, i, b[k])
      BY <1>1, <1>2
    <3> QED BY <1>1, <1>4, <3>1, ZenonT(30) DEF Follows
  <2>2. l \in 1..m
    BY <1>1, <2>1
  <2> QED BY <1>1, <1>2, <2>1, <2>2
<1>5. ASSUME Follows(log, D, b) PROVE Follows(log, D \cup BatchChanges(b1), b2)
  <2> SUFFICES ASSUME NEW k \in 1..n, NEW i \in Committed(log), Precedes(log, i, b2[k]),
                      i \notin D, i \notin BatchChanges(b1)
               PROVE  \E l \in DOMAIN b2 : l < k /\ b2[l].kind = "change" /\ b2[l].idx = i
    BY <1>1 DEF Follows
  <2>1. PICK l \in 1..(m + n) : l < k + m /\ b[l].kind = "change" /\ b[l].idx = i
    <3>1. k + m \in DOMAIN b /\ Precedes(log, i, b[k + m])
      BY <1>1, <1>2
    <3> QED BY <1>1, <1>5, <3>1, ZenonT(30) DEF Follows
  <2>2. l \notin 1..m
    <3> SUFFICES ASSUME l \in 1..m PROVE FALSE
      OBVIOUS
    <3>1. b1[l].kind = "change" /\ b1[l].idx = i
      BY <1>2, <2>1
    <3> QED BY <1>1, <3>1, BatchHas
  <2>3. l - m \in 1..n /\ b2[l - m] = b[l] /\ l - m < k
    BY <1>1, <1>2, <2>1, <2>2
  <2> QED BY <1>1, <2>1, <2>3
<1>6. ASSUME Follows(log, D, b1), Follows(log, D \cup BatchChanges(b1), b2) PROVE Follows(log, D, b)
  <2> SUFFICES ASSUME NEW k \in 1..(m + n), NEW i \in Committed(log), Precedes(log, i, b[k]),
                      i \notin D
               PROVE  \E l \in DOMAIN b : l < k /\ b[l].kind = "change" /\ b[l].idx = i
    BY <1>1 DEF Follows
  <2>1. CASE k \in 1..m
    <3>1. PICK l \in 1..m : l < k /\ b1[l].kind = "change" /\ b1[l].idx = i
      <4>1. k \in DOMAIN b1 /\ Precedes(log, i, b1[k])
        BY <1>1, <1>2, <2>1
      <4>2. i \in D \/ \E l \in DOMAIN b1 : l < k /\ b1[l].kind = "change" /\ b1[l].idx = i
        BY <1>6, <4>1 DEF Follows
      <4> QED BY <1>1, <4>2
    <3> QED BY <1>1, <1>2, <3>1
  <2>2. CASE k - m \in 1..n
    <3>1. Precedes(log, i, b2[k - m])
      BY <1>1, <1>2, <2>2
    <3>2. CASE i \in BatchChanges(b1)
      <4>1. PICK l \in 1..m : b1[l].kind = "change" /\ b1[l].idx = i
        BY <1>1, <3>2, BatchHas
      <4>2. l < k
        BY <1>1, <2>2
      <4> QED BY <1>1, <1>2, <4>1, <4>2
    <3>3. CASE i \notin BatchChanges(b1)
      <4>1. PICK l \in 1..n : l < k - m /\ b2[l].kind = "change" /\ b2[l].idx = i
        <5>1. k - m \in DOMAIN b2 /\ i \notin D \cup BatchChanges(b1)
          BY <1>1, <2>2, <3>3
        <5>2. \E l \in DOMAIN b2 : l < k - m /\ b2[l].kind = "change" /\ b2[l].idx = i
          BY <1>6, <3>1, <5>1 DEF Follows
        <5> QED BY <1>1, <5>2
      <4>2. l + m < k
        BY <1>1, <4>1
      <4> QED BY <1>1, <1>2, <4>1, <4>2
    <3> QED BY <3>2, <3>3
  <2> QED BY <1>2, <2>1, <2>2
<1>7. b \in Seq(Message(log))
  BY <1>1
<1> QED BY <1>3, <1>4, <1>5, <1>6, <1>7 DEF Joined, b

\* ... and so with a message behind a batch,
LEMMA AppendJoins ==
  ASSUME NEW log, NEW D, NEW b \in Seq(Message(log)), NEW m \in Message(log)
  PROVE  Joined(log, D, b, <<m>>, Append(b, m))
<1>1. <<m>> \in Seq(Message(log)) /\ Append(b, m) = b \o <<m>>
  BY AppendIsConcat
<1> QED BY <1>1, ConcatJoins

\* ... a batch cut in two,
LEMMA SplitJoins ==
  ASSUME NEW log, NEW D, NEW b \in Seq(Message(log)), NEW k \in DOMAIN b
  PROVE  /\ SubSeq(b, 1, k) \in Seq(Message(log)) /\ SubSeq(b, k + 1, Len(b)) \in Seq(Message(log))
         /\ Joined(log, D, SubSeq(b, 1, k), SubSeq(b, k + 1, Len(b)), b)
<1>1. Len(b) \in Nat /\ k \in 1..Len(b) /\ \A i \in 1..Len(b) : b[i] \in Message(log)
  BY LenProperties
<1>2. SubSeq(b, 1, k) \in Seq(Message(log)) /\ SubSeq(b, k + 1, Len(b)) \in Seq(Message(log))
  <2>1. \A i \in 1..k : i \in 1..Len(b)
    BY <1>1
  <2>2. \A i \in (k + 1)..Len(b) : i \in 1..Len(b)
    BY <1>1
  <2>3. k \in Int /\ k + 1 \in Int /\ Len(b) \in Int
    BY <1>1
  <2> QED BY <1>1, <2>1, <2>2, <2>3, SubSeqProperties
<1>3. b = SubSeq(b, 1, k) \o SubSeq(b, k + 1, Len(b))
  <2>1. /\ 1 \in 1..(Len(b) + 1) /\ k \in (1 - 1)..Len(b) /\ Len(b) \in k..Len(b)
    BY <1>1
  <2>2. SubSeq(b, 1, Len(b)) = SubSeq(b, 1, k) \o SubSeq(b, k + 1, Len(b))
    BY <2>1, ConcatAdjacentSubSeq
  <2> QED BY <2>2, SubSeqFull
<1> QED BY <1>2, <1>3, ConcatJoins

\* ... and a message ahead of a batch.
LEMMA HeadJoins ==
  ASSUME NEW log, NEW D, NEW b \in Seq(Message(log)), b # <<>>
  PROVE  /\ Head(b) \in Message(log) /\ Tail(b) \in Seq(Message(log))
         /\ Joined(log, D, <<Head(b)>>, Tail(b), b)
<1>1. Head(b) \in Message(log) /\ Tail(b) \in Seq(Message(log)) /\ Len(b) \in Nat \ {0}
  BY HeadTailProperties, EmptySeq
<1>2. b = <<Head(b)>> \o Tail(b)
  OBVIOUS
<1>3. <<Head(b)>> \in Seq(Message(log))
  BY <1>1
<1>4. Joined(log, D, <<Head(b)>>, Tail(b), <<Head(b)>> \o Tail(b))
  BY <1>1, <1>3, ConcatJoins
<1> QED BY <1>1, <1>2, <1>4

\* A batch of one message, and of none.
LEMMA OneMessage ==
  ASSUME NEW log, NEW D, NEW m
  PROVE  /\ BatchChanges(<<m>>) = IF m.kind = "change" THEN {m.idx} ELSE {}
         /\ Follows(log, D, <<m>>) <=> \A i \in Committed(log) : Precedes(log, i, m) => i \in D
<1>1. DOMAIN <<m>> = {1} /\ <<m>>[1] = m
  OBVIOUS
<1> QED BY <1>1 DEF BatchChanges, Follows

LEMMA NoMessages ==
  ASSUME NEW log, NEW D
  PROVE  BatchChanges(<<>>) = {} /\ Follows(log, D, <<>>) /\ <<>> \in Seq(Message(log))
BY DEF BatchChanges, Follows

\* A target that holds more loses no order.
LEMMA FollowsMore ==
  ASSUME NEW log, NEW D, NEW E, D \subseteq E, NEW b, Follows(log, D, b)
  PROVE  Follows(log, E, b)
BY DEF Follows

\* A batch that is written leaves no gap.
LEMMA BatchKeepsOrder ==
  ASSUME NEW log, NEW D, DownClosed(log, D), NEW b \in Seq(Message(log)), Follows(log, D, b)
  PROVE  DownClosed(log, D \cup BatchChanges(b))
<1> SUFFICES ASSUME NEW i \in Committed(log), NEW j \in Committed(log), StreamedBefore(log, i, j),
                    j \in BatchChanges(b)
             PROVE  i \in D \cup BatchChanges(b)
  BY DEF DownClosed
<1>1. PICK l \in DOMAIN b : b[l].kind = "change" /\ b[l].idx = j
  BY BatchHas
<1>2. Precedes(log, i, b[l])
  BY <1>1 DEF Precedes
<1> QED BY <1>2, BatchHas DEF Follows

\* What is committed before the position of a batch is written with it.
LEMMA BatchCovers ==
  ASSUME NEW log, NEW D, NEW b \in Seq(Message(log)), Follows(log, D, b),
         BatchChanges(b) \subseteq D,
         NEW p \in CheckpointPositions(b)
  PROVE  p \in 1..(Len(log) + 1) /\ Covered(log, D, p)
<1>1. PICK k \in DOMAIN b : p = b[k].pos
  BY DEF CheckpointPositions
<1>2. b[k] \in Message(log)
  OBVIOUS
<1>3. \A i \in Committed(log) : CommitLSN(log, i) < p => Precedes(log, i, b[k])
  BY <1>1 DEF Precedes
<1> QED BY <1>1, <1>2, <1>3, BatchHas DEF Covered, Follows, Message

\* Only committed changes are sent.
LEMMA BatchChangesCommitted ==
  ASSUME NEW log, NEW b \in Seq(Message(log))
  PROVE  BatchChanges(b) \subseteq Committed(log)
<1>1. \A k \in DOMAIN b : b[k] \in Message(log)
  OBVIOUS
<1> QED BY <1>1 DEF BatchChanges, Message

-----------------------------------------------------------------------------
(* The shape of the state.                                                 *)

\* A goroutine that has read the confirmed position and will start from there.
InUse(th) ==
  \/ retry[th] \in {"start", "sync"}
  \/ th = "listener" /\ lpc \in {"snapshot", "copy", "begin", "beginSync"}

\* Nothing has been received by this process.
Early == ~started \/ lpc \in {"start", "snapshot", "copy", "begin"}

Labels ==
  /\ snapshots \in BOOLEAN /\ started \in BOOLEAN
  /\ conn \in {"idle", "streaming", "broken"}
  /\ proc \in {"up", "stopping", "down"}
  /\ lpc \in {"start", "snapshot", "copy", "begin", "beginSync", "receive", "deliver", "exited"}
  /\ wpc \in {"idle", "writing", "syncing", "failed"}
  /\ retry \in [Thread -> {"op", "again", "dial", "start", "sync"}]
  /\ proc = "up" => lpc # "exited"
  /\ proc = "down" => lpc = "start"
  /\ ~started => lpc \in {"start", "snapshot", "copy", "begin", "exited"}
  /\ lpc \in {"snapshot", "copy"} => snapshots
  /\ lpc = "beginSync" => retry["listener"] = "op"
  /\ Early => /\ conn # "streaming" /\ wpc = "idle" /\ queue = <<>>
              /\ \A th \in Thread : retry[th] = "op"

Positions ==
  /\ confirmed \in 1..(Len(wal) + 1) /\ decoded \in 0..Len(wal)
  /\ start \in [Thread -> 0..(Len(wal) + 1)]
  /\ \A th \in Thread : InUse(th) => start[th] # 0

Contents ==
  /\ wire \in Seq(Message(wal)) /\ queue \in Seq(Message(wal)) /\ wbatch \in Seq(Message(wal))
  /\ IF lpc = "deliver" THEN cur \in Message(wal) ELSE cur = NoMessage
  /\ conn # "streaming" => wire = <<>>
  /\ wpc \in {"idle", "failed"} => wbatch = <<>>
  /\ snap \in SUBSET Committed(wal) /\ written \in SUBSET Committed(wal)
  /\ lpc # "copy" => snap = {}

Shape == WellFormed(wal) /\ Labels /\ Positions /\ Contents

\* The labels stay in their sets, and before the first message nothing is queued.
LEMMA LabelsStep == Labels /\ [Next]_vars => Labels'
<1> SUFFICES ASSUME Labels, [Next]_vars PROVE Labels'
  OBVIOUS
<1> USE DEF walVars, slotVars, connVars, listVars, retryVars, sinkVars, histVars, bounds, Labels,
        Early, Thread
<1>1. CASE SourceStep \/ ServerStep \/ UNCHANGED vars
  <2>1. UNCHANGED <<snapshots, started, proc, lpc, wpc, retry, queue>> /\ conn' \in {conn, "broken"}
    <3>1. SourceStep => UNCHANGED <<snapshots, started, proc, lpc, wpc, retry, queue, conn>>
      BY DEF SourceStep, SourceWrites
    <3>2. ServerStep => /\ UNCHANGED <<snapshots, started, proc, lpc, wpc, retry, queue>>
                        /\ conn' \in {conn, "broken"}
      BY DEF ServerStep, WalsenderDecodes, WalsenderKeepAlive, ConnectionBreaks
    <3> QED BY <1>1, <3>1, <3>2 DEF vars
  <2> QED BY <2>1
<1>2. ASSUME NEW th \in Thread, AttemptFails(th) PROVE Labels'
  BY <1>2 DEF AttemptFails, Busy, Attempting, Fails
<1>3. ASSUME NEW th \in Thread, ResetDials(th) PROVE Labels'
  BY <1>3 DEF ResetDials
<1>4. ASSUME NEW th \in Thread, ResetStarts(th) PROVE Labels'
  BY <1>4 DEF ResetStarts, BeginStreaming
<1>5. ASSUME NEW th \in Thread, ResetStartFails(th) PROVE Labels'
  BY <1>5 DEF ResetStartFails
<1>6. ASSUME NEW th \in Thread, ResetSyncs(th) PROVE Labels'
  BY <1>6 DEF ResetSyncs
<1>7. CASE ResetStartStolen
  BY <1>7 DEF ResetStartStolen, BeginStreaming, Busy
<1>8. CASE ListenerStarts \/ SnapshotReads \/ SnapshotReturns
  BY <1>8 DEF ListenerStarts, SnapshotReads, SnapshotReturns
<1>9. CASE ListenerBegins \/ ListenerBeginSyncs
  BY <1>9 DEF ListenerBegins, ListenerBeginSyncs, BeginStreaming
<1>10. CASE ListenerReceives \/ ListenerDelivers
  BY <1>10 DEF ListenerReceives, ListenerDelivers, Succeeds
<1>11. CASE ListenerFails \/ Signal
  BY <1>11 DEF ListenerFails, Signal, ListenReturns, Succeeds
<1>12. CASE WriterStep
  <2>1. CASE WriterTakes
    <3>1. /\ UNCHANGED <<snapshots, started, proc, lpc, retry, conn>>
          /\ wpc' = "writing" /\ queue # <<>>
      BY <2>1 DEF WriterTakes
    <3> QED BY <3>1
  <2>2. CASE WriterWrites
    BY <2>2 DEF WriterWrites
  <2>3. CASE WriterSyncs
    BY <2>3 DEF WriterSyncs, Succeeds
  <2>4. CASE WriterFails
    BY <2>4 DEF WriterFails, Succeeds
  <2> QED BY <1>12, <2>1, <2>2, <2>3, <2>4 DEF WriterStep
<1>13. CASE Stops \/ Crashes
  BY <1>13 DEF Stops, Crashes, GoDown
<1>14. CASE Restarts
  BY <1>14 DEF Restarts
<1> QED
  BY <1>1, <1>2, <1>3, <1>4, <1>5, <1>6, <1>7, <1>8, <1>9, <1>10, <1>11, <1>12, <1>13, <1>14
  DEF Next, RetryStep, ListenerStep, ProcessStep

\* The source adds one record and touches nothing else; only it writes the log.
LEMMA SourceAdds ==
  ASSUME Span = {0}, SourceStep
  PROVE  /\ \E r \in Record : /\ wal' = Append(wal, r)
                              /\ \A i \in Commits(wal) : wal[i].txn # r.txn
         /\ UNCHANGED <<snapshots, confirmed, conn, decoded, wire, proc, lpc, cur, start, retry,
                        queue, wpc, wbatch, snap, written, started>>
<1>1. PICK t \in Txn : SourceWrites(t, "change", 0) \/ SourceWrites(t, "commit", 0)
  BY DEF SourceStep
<1>2. ASSUME NEW kind \in {"change", "commit"}, SourceWrites(t, kind, 0)
      PROVE  /\ \E r \in Record : /\ wal' = Append(wal, r)
                                  /\ \A i \in Commits(wal) : wal[i].txn # r.txn
             /\ UNCHANGED <<snapshots, confirmed, conn, decoded, wire, proc, lpc, cur, start, retry,
                            queue, wpc, wbatch, snap, written, started>>
  <2> DEFINE r == [kind |-> kind, txn |-> t, span |-> 0]
  <2>1. r \in Record
    BY DEF Record
  <2>2. r.txn = t
    OBVIOUS
  <2>3. wal' = Append(wal, r) /\ \A i \in Commits(wal) : wal[i].txn # t
    BY <1>2 DEF SourceWrites
  <2>4. UNCHANGED <<snapshots, confirmed, conn, decoded, wire, proc, lpc, cur, start, retry,
                    queue, wpc, wbatch, snap, written, started>>
    BY <1>2 DEF SourceWrites, slotVars, connVars, listVars, retryVars, sinkVars, histVars
  <2> HIDE DEF r
  <2> QED BY <2>1, <2>2, <2>3, <2>4
<1> QED BY <1>1, <1>2

LogIsRead == UNCHANGED <<wal, snapshots>>

\* Every step but the source's leaves the log alone.
LEMMA OnlySourceWrites ==
  [Next]_vars => SourceStep \/ LogIsRead
<1> USE DEF walVars, LogIsRead
<1>1. ServerStep \/ UNCHANGED vars => LogIsRead
  BY DEF ServerStep, WalsenderDecodes, WalsenderKeepAlive, ConnectionBreaks, vars
<1>2. \A th \in Thread : RetryStep(th) => LogIsRead
  BY DEF RetryStep, AttemptFails, ResetDials, ResetStarts, ResetStartFails, ResetSyncs
<1>3. ResetStartStolen => LogIsRead
  BY DEF ResetStartStolen
<1>4. ListenerStep => LogIsRead
  BY DEF ListenerStep, ListenerStarts, SnapshotReads, SnapshotReturns, ListenerBegins,
         ListenerBeginSyncs, ListenerReceives, ListenerDelivers, ListenerFails
<1>5. WriterStep => LogIsRead
  BY DEF WriterStep, WriterTakes, WriterWrites, WriterSyncs, WriterFails
<1>6. ProcessStep => LogIsRead
  BY DEF ProcessStep, Signal, Stops, Crashes, Restarts
<1> QED BY <1>1, <1>2, <1>3, <1>4, <1>5, <1>6 DEF Next

\* The larger of two positions is one of them.
LEMMA MaxOfTwo == \A a, b \in Int : Max({a, b}) \in {a, b}
<1> SUFFICES ASSUME NEW a \in Int, NEW b \in Int PROVE Max({a, b}) \in {a, b}
  OBVIOUS
<1>1. \E x \in {a, b} : \A y \in {a, b} : x >= y
  OBVIOUS
<1> QED BY <1>1 DEF Max

\* A status update leaves the confirmed position or moves it to the one sent.
LEMMA ConfirmedMoves ==
  ASSUME confirmed \in Int, NEW p \in Int, StatusUpdate(p)
  PROVE  confirmed' \in {p, confirmed}
BY MaxOfTwo DEF StatusUpdate

\* A stream begins at the position asked for or at the confirmed one.
LEMMA StreamingBegins ==
  ASSUME confirmed \in Int, NEW p \in Int, BeginStreaming(p)
  PROVE  /\ decoded' \in {p - 1, confirmed - 1}
         /\ conn = "idle" /\ conn' = "streaming" /\ wire' = <<>> /\ started' = TRUE
<1>1. Max({p, confirmed}) \in {p, confirmed} /\ decoded' = Max({p, confirmed}) - 1
  BY MaxOfTwo DEF BeginStreaming
<1> QED BY <1>1 DEF BeginStreaming

\* A checkpointed position lies in the log.
LEMMA CheckpointInLog ==
  ASSUME Shape, NEW p \in CheckpointPositions(wbatch)
  PROVE  p \in 1..(Len(wal) + 1)
<1>1. PICK k \in DOMAIN wbatch : p = wbatch[k].pos
  BY DEF CheckpointPositions
<1>2. wbatch[k] \in Message(wal)
  BY DEF Shape, Contents
<1> QED BY <1>1, <1>2 DEF Message

\* Positions stay in the log.
LEMMA PositionsStep ==
  ASSUME Shape, [Next]_vars, LogIsRead
  PROVE  Positions'
<1> USE DEF walVars, slotVars, connVars, listVars, retryVars, sinkVars, histVars, bounds, Thread
<1> DEFINE n == Len(wal)
<1>0. /\ n \in Nat /\ wal' = wal /\ Len(wal') = n
      /\ confirmed \in 1..(n + 1) /\ decoded \in 0..n /\ start \in [Thread -> 0..(n + 1)]
      /\ \A th \in Thread : InUse(th) => start[th] # 0
      /\ retry \in [Thread -> {"op", "again", "dial", "start", "sync"}]
      /\ lpc = "beginSync" => retry["listener"] = "op"
      /\ Early => \A th \in Thread : retry[th] = "op"
  BY LogFacts DEF Shape, Positions, LogIsRead, Labels
<1>p. ASSUME confirmed' \in 1..(n + 1), decoded' \in 0..n, start' \in [Thread -> 0..(n + 1)],
             \A th \in Thread : InUse(th)' => start'[th] # 0
      PROVE  Positions'
  BY <1>0, <1>p, <1>p DEF Positions
<1> HIDE DEF n
<1>1. CASE ServerStep \/ UNCHANGED vars \/ SourceStep
  <2>1. SourceStep => FALSE
    <3>1. SourceStep => \E r : wal' = Append(wal, r)
      BY DEF SourceStep, SourceWrites
    <3>2. wal \in Seq(Record)
      BY DEF Shape, WellFormed
    <3>3. \A r : Append(wal, r) # wal
      BY <3>2
    <3> QED BY <1>0, <3>1, <3>3
  <2>2. UNCHANGED <<confirmed, start, retry, lpc>> /\ decoded' \in {decoded, decoded + 1}
        /\ (decoded' = decoded + 1 => decoded < Len(wal))
    BY <1>0, <1>1, <2>1 DEF ServerStep, WalsenderDecodes, WalsenderKeepAlive, ConnectionBreaks, vars
  <2> QED BY <1>0, <1>p, <2>2 DEF n, InUse
<1>2. ASSUME NEW th \in Thread, AttemptFails(th)
      PROVE  Positions'
  BY <1>0, <1>p, <1>2 DEF AttemptFails, Attempting, Fails, InUse
<1>3. ASSUME NEW th \in Thread, ResetDials(th)
      PROVE  Positions'
  BY <1>0, <1>p, <1>3 DEF ResetDials, InUse
<1>4. ASSUME NEW th \in Thread, ResetStarts(th)
      PROVE  Positions'
  <2>1. BeginStreaming(start[th]) /\ UNCHANGED <<start, confirmed, lpc>> /\ retry[th] = "start"
        /\ retry' = [retry EXCEPT ![th] = "sync"]
    BY <1>4 DEF ResetStarts
  <2>2. start[th] \in 1..(n + 1)
    BY <1>0, <2>1 DEF InUse
  <2>3. decoded' \in 0..n
    <3>1. start[th] \in Int /\ confirmed \in Int
      BY <1>0, <2>2
    <3>2. decoded' \in {start[th] - 1, confirmed - 1}
      BY <2>1, <3>1, StreamingBegins
    <3> QED BY <1>0, <2>2, <3>2
  <2> QED BY <1>0, <1>p, <2>1, <2>2, <2>3 DEF InUse
<1>5. ASSUME NEW th \in Thread, ResetStartFails(th)
      PROVE  Positions'
  <2>1. /\ UNCHANGED <<confirmed, decoded, lpc>> /\ retry[th] = "start"
        /\ retry' = [retry EXCEPT ![th] = "again"] /\ start' = [start EXCEPT ![th] = 0]
    BY <1>5 DEF ResetStartFails
  <2>2. th = "listener" => lpc \notin {"snapshot", "copy", "begin", "beginSync"}
    BY <1>0, <2>1 DEF Early
  <2> QED BY <1>0, <1>p, <2>1, <2>2 DEF InUse
<1>6. ASSUME NEW th \in Thread, ResetSyncs(th)
      PROVE  Positions'
  <2>1. /\ (confirmed' = confirmed \/ StatusUpdate(start[th])) /\ retry[th] = "sync"
        /\ UNCHANGED <<decoded, lpc>>
        /\ retry' = [retry EXCEPT ![th] = "again"] /\ start' = [start EXCEPT ![th] = 0]
    BY <1>6 DEF ResetSyncs
  <2>2. start[th] \in 1..(n + 1)
    BY <1>0, <1>p, <1>6 DEF InUse, ResetSyncs
  <2>3. confirmed' \in 1..(n + 1)
    <3>1. start[th] \in Int /\ confirmed \in Int
      BY <1>0, <2>2
    <3>2. confirmed' \in {start[th], confirmed}
      BY <2>1, <3>1, ConfirmedMoves
    <3> QED BY <1>0, <2>2, <3>2
  <2>4. th = "listener" => lpc \notin {"snapshot", "copy", "begin", "beginSync"}
    BY <1>0, <2>1 DEF Early
  <2> QED BY <1>0, <1>p, <2>1, <2>2, <2>3, <2>4 DEF InUse
<1>7. CASE ResetStartStolen
  <2>1. /\ BeginStreaming(start["writer"]) /\ UNCHANGED <<confirmed, lpc>>
        /\ retry["writer"] = "start"
        /\ retry' = [writer |-> "again",
                     listener |-> IF retry["listener"] = "op" THEN "again" ELSE "dial"]
        /\ start' = [start EXCEPT !["writer"] = 0]
    BY <1>7 DEF ResetStartStolen
  <2>2. start["writer"] \in 1..(n + 1)
    BY <1>0, <2>1 DEF InUse
  <2>3. decoded' \in 0..n
    <3>1. start["writer"] \in Int /\ confirmed \in Int
      BY <1>0, <2>2
    <3>2. decoded' \in {start["writer"] - 1, confirmed - 1}
      BY <2>1, <3>1, StreamingBegins
    <3> QED BY <1>0, <2>2, <3>2
  <2>4. InUse("writer")' = FALSE /\ (InUse("listener")' => InUse("listener"))
    BY <2>1 DEF InUse
  <2> QED BY <1>0, <1>p, <2>1, <2>2, <2>3, <2>4
<1>8. CASE ListenerStarts \/ SnapshotReads \/ SnapshotReturns
  BY <1>0, <1>p, <1>8 DEF ListenerStarts, SnapshotReads, SnapshotReturns, InUse
<1>9. CASE ListenerBegins
  <2>1. /\ BeginStreaming(start["listener"]) /\ UNCHANGED <<confirmed, start, retry>>
        /\ lpc = "begin" /\ lpc' = "beginSync"
    BY <1>9 DEF ListenerBegins
  <2>2. start["listener"] \in 1..(n + 1)
    BY <1>0, <1>p, <2>1 DEF InUse
  <2>3. decoded' \in 0..n
    <3>1. start["listener"] \in Int /\ confirmed \in Int
      BY <1>0, <2>2
    <3>2. decoded' \in {start["listener"] - 1, confirmed - 1}
      BY <2>1, <3>1, StreamingBegins
    <3> QED BY <1>0, <2>2, <3>2
  <2> QED BY <1>0, <1>p, <2>1, <2>2, <2>3 DEF InUse
<1>10. CASE ListenerBeginSyncs
  <2>1. /\ StatusUpdate(start["listener"]) /\ UNCHANGED <<decoded, retry>>
        /\ lpc = "beginSync" /\ lpc' = "receive" /\ start' = [start EXCEPT !["listener"] = 0]
        /\ conn = "streaming"
    BY <1>10 DEF ListenerBeginSyncs
  <2>2. start["listener"] \in 1..(n + 1)
    BY <1>0, <1>p, <2>1 DEF InUse
  <2>3. confirmed' \in 1..(n + 1)
    BY <1>0, <1>p, <2>1, <2>2, ConfirmedMoves
  <2> QED BY <1>0, <1>p, <2>1, <2>3 DEF InUse
<1>11. CASE ListenerReceives \/ ListenerDelivers
  <2>1. /\ UNCHANGED <<confirmed, decoded, start>> /\ lpc' \in {"receive", "deliver"}
        /\ retry' \in {retry, [retry EXCEPT !["listener"] = "op"]}
    BY <1>11 DEF ListenerReceives, ListenerDelivers, Succeeds
  <2> QED BY <1>0, <1>p, <2>1 DEF InUse
<1>12. CASE ListenerFails \/ Signal
  BY <1>0, <1>p, <1>12 DEF ListenerFails, Signal, ListenReturns, Succeeds, InUse
<1>13. CASE WriterSyncs
  <2>1. /\ UNCHANGED <<decoded, start, lpc>> /\ retry' = [retry EXCEPT !["writer"] = "op"]
        /\ confirmed' = confirmed \/ \E p \in CheckpointPositions(wbatch) : StatusUpdate(p)
    BY <1>13 DEF WriterSyncs, Succeeds
  <2>2. confirmed' \in 1..(n + 1)
    BY <1>0, <2>1, CheckpointInLog, ConfirmedMoves DEF n
  <2> QED BY <1>0, <1>p, <2>1, <2>2 DEF InUse
<1>14. CASE WriterTakes \/ WriterWrites \/ WriterFails
  <2>1. /\ UNCHANGED <<confirmed, decoded, start, lpc>>
        /\ retry' \in {retry, [retry EXCEPT !["writer"] = "op"]}
    BY <1>14 DEF WriterTakes, WriterWrites, WriterFails, Succeeds
  <2> QED BY <1>0, <1>p, <2>1 DEF InUse
<1>15. CASE Stops \/ Crashes
  <2>1. /\ UNCHANGED confirmed /\ decoded' = 0 /\ start' = [th \in Thread |-> 0]
        /\ lpc' = "start" /\ retry' = [th \in Thread |-> "op"]
    BY <1>15 DEF Stops, Crashes, GoDown
  <2> QED BY <1>0, <1>p, <2>1 DEF InUse
<1>16. CASE Restarts
  BY <1>0, <1>p, <1>16 DEF Restarts, InUse
<1> QED
  BY <1>1, <1>2, <1>3, <1>4, <1>5, <1>6, <1>7, <1>8, <1>9, <1>10, <1>11, <1>12, <1>13, <1>14, <1>15,
     <1>16
  DEF Next, RetryStep, ListenerStep, WriterStep, ProcessStep

\* The messages of a transaction: with all that was committed before it in D, they
\* can be taken up one after the other.
LEMMA DecodedMessages ==
  ASSUME WellFormed(wal), decoded \in Nat, decoded < Len(wal), wal[decoded + 1].kind = "commit",
         NEW s \in Ascending(ChangesBy(wal[decoded + 1].txn)),
         NEW new, new = [k \in DOMAIN s |-> ChangeMessage(s[k])]
  PROVE  /\ new \in Seq(Message(wal))
         /\ \A D : Covered(wal, D, decoded + 1) =>
              /\ Follows(wal, D, new)
              /\ Covered(wal, D \cup BatchChanges(new), decoded + 2)
<1> DEFINE j == decoded + 1
           S == ChangesBy(wal[j].txn)
<1>1. /\ Len(wal) \in Nat /\ S \subseteq Changes(wal) /\ S \subseteq 1..Len(wal)
      /\ j \in Commits(wal) /\ \A i \in S : wal[i].txn = wal[j].txn /\ i < j
  <2>1. j \in Commits(wal)
    BY LenProperties DEF Commits, WellFormed
  <2> QED BY <2>1, LogFacts DEF ChangesBy, WellFormed
<1>2. /\ Cardinality(S) \in Nat /\ s \in [1..Cardinality(S) -> S] /\ ToSet(s) = S
      /\ \A k, l \in DOMAIN s : k < l => s[k] < s[l]
  <2>1. IsFiniteSet(1..Len(wal))
    BY <1>1, FS_Interval
  <2>2. IsFiniteSet(S)
    BY <1>1, <2>1, FS_Subset
  <2> QED BY <2>2, FS_CardinalityType DEF Ascending
<1> DEFINE c == Cardinality(S)
<1> HIDE DEF c
<1>3. /\ c \in Nat /\ DOMAIN s = 1..c /\ \A k \in 1..c : s[k] \in S
      /\ \A i \in S : \E k \in 1..c : s[k] = i
      /\ \A k, l \in 1..c : k < l => s[k] < s[l]
  BY <1>2 DEF c, ToSet
<1> HIDE DEF S
<1>4. ASSUME NEW i \in S
      PROVE  /\ i \in Committed(wal) /\ CommitLSN(wal, i) = j
             /\ ChangeMessage(i) \in Message(wal)
             /\ ChangeMessage(i).kind = "change" /\ ChangeMessage(i).idx = i
             /\ ChangeMessage(i).pos = i + 1
  <2>1. i \in Changes(wal) /\ j \in CommitOf(wal, i)
    BY <1>1 DEF CommitOf
  <2>2. i \in Committed(wal)
    BY <2>1 DEF Committed
  <2>3. CommitLSN(wal, i) = j
    BY <1>1, <2>2, LogFacts
  <2>4. i \in Nat /\ i + 1 \in 1..(Len(wal) + 1) /\ wal[i].span = 0
    BY <1>1, LogFacts DEF Record
  <2>5. MessagePosition(wal, i) = i + 1
    BY <2>4 DEF MessagePosition
  <2>6. ChangeMessage(i) = [kind |-> "change", idx |-> i, pos |-> i + 1, reply |-> FALSE]
    BY <2>5 DEF ChangeMessage
  <2>7. ChangeMessage(i) \in EventMessage
    BY <2>4, <2>6 DEF EventMessage
  <2> QED BY <2>2, <2>3, <2>4, <2>6, <2>7 DEF Message
<1>5. /\ new \in Seq(Message(wal)) /\ DOMAIN new = 1..c
      /\ \A k \in 1..c : new[k].kind = "change" /\ new[k].idx = s[k] /\ new[k].pos = s[k] + 1
  <2>1. new = [k \in 1..c |-> ChangeMessage(s[k])]
    BY <1>3
  <2>2. \A k \in 1..c : ChangeMessage(s[k]) \in Message(wal)
    BY <1>3, <1>4
  <2>3. new \in [1..c -> Message(wal)]
    BY <2>1, <2>2
  <2>4. new \in Seq(Message(wal))
    BY <1>3, <2>3
  <2> QED BY <1>3, <1>4, <2>1, <2>4
<1>6. ASSUME NEW D, Covered(wal, D, j) PROVE Follows(wal, D, new)
  <2> SUFFICES ASSUME NEW k \in 1..c, NEW i \in Committed(wal), Precedes(wal, i, new[k]), i \notin D
               PROVE  \E l \in 1..c : l < k /\ new[l].kind = "change" /\ new[l].idx = i
    BY <1>5 DEF Follows
  <2>1. ~(CommitLSN(wal, i) < j) /\ CommitLSN(wal, i) \in Nat /\ i \in Nat
    BY <1>6, LogFacts DEF Covered
  <2>2. s[k] \in S /\ s[k] < j /\ s[k] \in Nat /\ CommitLSN(wal, s[k]) = j
    BY <1>1, <1>3, <1>4
  <2>3. CommitLSN(wal, i) = j /\ i < s[k]
    <3>1. ~(CommitLSN(wal, i) < new[k].pos)
      BY <1>5, <2>1, <2>2
    <3>2. StreamedBefore(wal, i, s[k])
      BY <1>5, <3>1 DEF Precedes
    <3> QED BY <2>1, <2>2, <3>2 DEF StreamedBefore
  <2>4. i \in S
    BY <2>3, LogFacts DEF S, ChangesBy
  <2>5. PICK l \in 1..c : s[l] = i
    BY <1>3, <2>4
  <2>6. l < k
    <3>1. l = k \/ l < k \/ k < l
      BY <1>3
    <3>2. ~(s[k] < s[l]) /\ s[k] # s[l]
      BY <2>1, <2>2, <2>3, <2>5
    <3> QED BY <1>3, <3>1, <3>2
  <2> QED BY <1>5, <2>5, <2>6
<1>7. ASSUME NEW D, Covered(wal, D, j) PROVE Covered(wal, D \cup BatchChanges(new), decoded + 2)
  <2> SUFFICES ASSUME NEW i \in Committed(wal), CommitLSN(wal, i) < decoded + 2, i \notin D
               PROVE  i \in BatchChanges(new)
    BY DEF Covered
  <2>1. CommitLSN(wal, i) = j
    <3>1. ~(CommitLSN(wal, i) < j)
      BY <1>7 DEF Covered
    <3>2. CommitLSN(wal, i) \in Nat /\ j \in Nat
      BY LogFacts
    <3> QED BY <3>1, <3>2
  <2>2. i \in S
    BY <2>1, LogFacts DEF S, ChangesBy
  <2>3. PICK l \in 1..c : s[l] = i
    BY <1>3, <2>2
  <2>4. l \in DOMAIN new /\ new[l].kind = "change" /\ new[l].idx = i
    BY <1>5, <2>3
  <2> QED BY <2>4, BatchHas
<1> QED BY <1>5, <1>6, <1>7

\* A keep alive carries the position the walsender has decoded to.
LEMMA KeepAliveMessage ==
  ASSUME WellFormed(wal), decoded \in 0..Len(wal), NEW reply \in BOOLEAN
  PROVE  /\ KeepAlive(reply) \in Message(wal) /\ KeepAlive(reply).kind = "keepalive"
         /\ KeepAlive(reply).pos = decoded + 1
<1>1. decoded + 1 \in 1..(Len(wal) + 1) /\ decoded + 1 \in Nat
  BY LogFacts
<1> QED BY <1>1 DEF KeepAlive, Message, EventMessage

\* What is queued, written and copied are messages and changes of the log.
LEMMA ContentsStep ==
  ASSUME Shape, Labels', [Next]_vars, LogIsRead
  PROVE  Contents'
<1> USE DEF walVars, slotVars, connVars, listVars, retryVars, sinkVars, histVars, bounds
<1> DEFINE M == Message(wal)
           C == Committed(wal)
<1>0. /\ wire \in Seq(M) /\ queue \in Seq(M) /\ wbatch \in Seq(M)
      /\ IF lpc = "deliver" THEN cur \in M ELSE cur = NoMessage
      /\ conn # "streaming" => wire = <<>>
      /\ wpc \in {"idle", "failed"} => wbatch = <<>>
      /\ snap \in SUBSET C /\ written \in SUBSET C
      /\ lpc # "copy" => snap = {}
      /\ wal' = wal /\ Message(wal') = M /\ Committed(wal') = C
      /\ <<>> \in Seq(M)
  BY DEF Shape, Contents, LogIsRead
<1>p. ASSUME wire' \in Seq(M), queue' \in Seq(M), wbatch' \in Seq(M),
             IF lpc' = "deliver" THEN cur' \in M ELSE cur' = NoMessage,
             conn' # "streaming" => wire' = <<>>,
             wpc' \in {"idle", "failed"} => wbatch' = <<>>,
             snap' \in SUBSET C, written' \in SUBSET C,
             lpc' # "copy" => snap' = {}
      PROVE  Contents'
  BY <1>0, <1>p DEF Contents
<1> HIDE DEF M, C
<1>1. CASE WalsenderDecodes
  <2>0. decoded \in Nat /\ WellFormed(wal)
    BY LogFacts DEF Shape, Positions
  <2>1. /\ conn = "streaming" /\ decoded < Len(wal)
        /\ UNCHANGED <<conn, lpc, cur, snap, queue, wpc, wbatch, written>>
        /\ IF wal[decoded + 1].kind = "commit"
           THEN \E s \in Ascending(ChangesBy(wal[decoded + 1].txn)) :
                  wire' = wire \o [k \in DOMAIN s |-> ChangeMessage(s[k])]
           ELSE UNCHANGED wire
    BY <1>1 DEF WalsenderDecodes
  <2>2. wire' \in Seq(M)
    <3>1. CASE wal[decoded + 1].kind = "commit"
      <4>1. PICK s \in Ascending(ChangesBy(wal[decoded + 1].txn)) :
              wire' = wire \o [k \in DOMAIN s |-> ChangeMessage(s[k])]
        BY <2>1, <3>1
      <4>2. [k \in DOMAIN s |-> ChangeMessage(s[k])] \in Seq(M)
        BY <2>0, <2>1, <3>1, DecodedMessages DEF M
      <4> QED BY <1>0, <4>1, <4>2, ConcatProperties
    <3> QED BY <1>0, <2>1, <3>1
  <2> QED BY <1>0, <1>p, <2>1, <2>2
<1>2. CASE WalsenderKeepAlive
  <2>1. /\ conn = "streaming" /\ \E reply \in BOOLEAN : wire' = <<KeepAlive(reply)>>
        /\ UNCHANGED <<conn, lpc, cur, snap, queue, wpc, wbatch, written>>
    BY <1>2 DEF WalsenderKeepAlive
  <2>2. wire' \in Seq(M)
    <3>1. \A reply \in BOOLEAN : KeepAlive(reply) \in M
      BY KeepAliveMessage DEF Shape, Positions, M
    <3> QED BY <2>1, <3>1
  <2> QED BY <1>0, <1>p, <2>1, <2>2
<1>3. CASE ConnectionBreaks \/ UNCHANGED vars
  <2>1. /\ (conn' = "broken" /\ wire' = <<>>) \/ UNCHANGED <<conn, wire>>
        /\ UNCHANGED <<lpc, cur, snap, queue, wpc, wbatch, written>>
    BY <1>3 DEF ConnectionBreaks, vars
  <2> QED BY <1>0, <1>p, <2>1
<1>4. ASSUME NEW th \in Thread, RetryStep(th) PROVE Contents'
  <2>1. /\ wire' = <<>> \/ UNCHANGED <<conn, wire>>
        /\ UNCHANGED <<lpc, cur, snap, queue, wpc, wbatch, written>>
    <3>1. AttemptFails(th) \/ ResetSyncs(th) => UNCHANGED <<conn, wire>>
      BY DEF AttemptFails, ResetSyncs
    <3>2. ResetDials(th) \/ ResetStarts(th) \/ ResetStartFails(th) => wire' = <<>>
      BY DEF ResetDials, ResetStarts, BeginStreaming, ResetStartFails
    <3>3. UNCHANGED <<lpc, cur, snap, queue, wpc, wbatch, written>>
      BY <1>4 DEF RetryStep, AttemptFails, ResetDials, ResetStarts, ResetStartFails, ResetSyncs
    <3> QED BY <1>4, <3>1, <3>2, <3>3 DEF RetryStep
  <2> QED BY <1>0, <1>p, <2>1
<1>5. CASE ResetStartStolen
  <2>1. wire' = <<>> /\ UNCHANGED <<lpc, cur, snap, queue, wpc, wbatch, written>>
    BY <1>5 DEF ResetStartStolen, BeginStreaming
  <2> QED BY <1>0, <1>p, <2>1
<1>6. CASE ListenerStarts \/ ListenerBegins \/ ListenerBeginSyncs
  <2>1. /\ wire' = <<>> \/ UNCHANGED <<conn, wire>>
        /\ UNCHANGED <<cur, snap, queue, wpc, wbatch, written>>
        /\ lpc \notin {"copy", "deliver"} /\ lpc' \notin {"copy", "deliver"}
    BY <1>6 DEF ListenerStarts, ListenerBegins, ListenerBeginSyncs, BeginStreaming
  <2> QED BY <1>0, <1>p, <2>1
<1>7. CASE SnapshotReads \/ SnapshotReturns
  <2>1. /\ UNCHANGED <<cur, wire, conn, queue, wpc, wbatch>>
        /\ lpc # "deliver" /\ lpc' # "deliver"
        /\ \/ snap' = Committed(wal) /\ lpc' = "copy" /\ written' = written
           \/ snap' = {} /\ written' = written \cup snap
    BY <1>7 DEF SnapshotReads, SnapshotReturns
  <2> QED BY <1>0, <1>p, <2>1 DEF C
<1>8. CASE ListenerReceives
  <2>1. /\ wire # <<>> /\ wire' = Tail(wire) /\ conn = "streaming" /\ lpc = "receive"
        /\ UNCHANGED <<snap, conn, queue, wpc, wbatch, written>>
        /\ \/ UNCHANGED <<cur, lpc>>
           \/ cur' = Head(wire) /\ lpc' = "deliver"
    BY <1>8 DEF ListenerReceives
  <2>2. Head(wire) \in M /\ Tail(wire) \in Seq(M)
    BY <1>0, <2>1, HeadTailProperties
  <2> QED BY <1>0, <1>p, <2>1, <2>2
<1>9. CASE ListenerDelivers
  <2>1. /\ lpc = "deliver" /\ lpc' = "receive" /\ queue' = Append(queue, cur) /\ cur' = NoMessage
        /\ UNCHANGED <<snap, conn, wire, wpc, wbatch, written>>
    BY <1>9 DEF ListenerDelivers
  <2>2. queue' \in Seq(M)
    BY <1>0, <2>1, AppendProperties
  <2> QED BY <1>0, <1>p, <2>1, <2>2
<1>10. CASE ListenerFails \/ Signal
  <2>1. /\ UNCHANGED <<conn, wire, queue, wpc, wbatch, written>>
        /\ lpc' = "exited" /\ cur' = NoMessage /\ snap' = {}
    BY <1>10 DEF ListenerFails, Signal, ListenReturns
  <2> QED BY <1>0, <1>p, <2>1
<1>11. CASE WriterTakes
  <2>1. /\ \E k \in DOMAIN queue : /\ wbatch' = SubSeq(queue, 1, k)
                                   /\ queue' = SubSeq(queue, k + 1, Len(queue))
        /\ wpc' = "writing" /\ UNCHANGED <<conn, wire, lpc, cur, snap, written>>
    BY <1>11 DEF WriterTakes
  <2>2. wbatch' \in Seq(M) /\ queue' \in Seq(M)
    BY <1>0, <2>1, SplitJoins DEF M
  <2> QED BY <1>0, <1>p, <2>1, <2>2
<1>12. CASE WriterWrites
  <2>1. /\ written' = written \cup BatchChanges(wbatch) /\ wpc' = "syncing"
        /\ UNCHANGED <<conn, wire, lpc, cur, snap, queue, wbatch>>
    BY <1>12 DEF WriterWrites
  <2>2. BatchChanges(wbatch) \subseteq C
    BY <1>0, BatchChangesCommitted DEF M, C
  <2> QED BY <1>0, <1>p, <2>1, <2>2
<1>13. CASE WriterSyncs \/ WriterFails
  <2>1. wbatch' = <<>> /\ UNCHANGED <<conn, wire, lpc, cur, snap, queue, written>>
    BY <1>13 DEF WriterSyncs, WriterFails
  <2> QED BY <1>0, <1>p, <2>1
<1>14. CASE Stops \/ Crashes
  <2>1. /\ wire' = <<>> /\ queue' = <<>> /\ wbatch' = <<>> /\ lpc' = "start" /\ cur' = NoMessage
        /\ snap' = {} /\ UNCHANGED written
    BY <1>14 DEF Stops, Crashes, GoDown
  <2> QED BY <1>0, <1>p, <2>1
<1>15. CASE Restarts
  <2>1. /\ lpc = "start" /\ conn # "streaming"
        /\ UNCHANGED <<wire, lpc, cur, snap, queue, wpc, wbatch, written>>
    BY <1>15 DEF Restarts, Shape, Labels, Early
  <2> QED BY <1>0, <1>p, <2>1
<1>16. CASE SourceStep
  <2>1. UNCHANGED <<conn, wire, lpc, cur, snap, queue, wpc, wbatch, written>>
    BY <1>16 DEF SourceStep, SourceWrites
  <2> QED BY <1>0, <1>p, <2>1
<1> QED
  BY <1>1, <1>2, <1>3, <1>4, <1>5, <1>6, <1>7, <1>8, <1>9, <1>10, <1>11, <1>12, <1>13, <1>14, <1>15,
     <1>16
  DEF Next, ServerStep, ListenerStep, WriterStep, ProcessStep

\* Every step keeps the shape of the state.
LEMMA ShapeStep == Span = {0} /\ Shape /\ [Next]_vars => Shape'
<1> SUFFICES ASSUME Span = {0}, Shape, [Next]_vars PROVE Shape'
  OBVIOUS
<1>1. Labels'
  BY LabelsStep DEF Shape
<1>2. CASE LogIsRead
  <2>1. WellFormed(wal)'
    BY <1>2 DEF LogIsRead, Shape
  <2> QED BY <1>1, <1>2, <2>1, PositionsStep, ContentsStep DEF Shape
<1>3. CASE SourceStep
  <2>1. /\ UNCHANGED <<confirmed, conn, decoded, wire, lpc, cur, start, retry, queue, wpc, wbatch,
                       snap, written>>
        /\ \E r \in Record : wal' = Append(wal, r) /\ \A i \in Commits(wal) : wal[i].txn # r.txn
    BY <1>3, SourceAdds
  <2>2. PICK r \in Record : wal' = Append(wal, r) /\ \A i \in Commits(wal) : wal[i].txn # r.txn
    BY <2>1
  <2>3. /\ WellFormed(wal') /\ Len(wal') = Len(wal) + 1 /\ Len(wal) \in Nat
        /\ Committed(wal) \subseteq Committed(wal') /\ Message(wal) \subseteq Message(wal')
    BY <2>2, LogGrows, LogGrowthKeeps, LogFacts DEF Shape
  <2>4. Positions'
    BY <2>1, <2>3 DEF Shape, Positions, InUse
  <2>5. Contents'
    <3>1. /\ wire \in Seq(Message(wal')) /\ queue \in Seq(Message(wal'))
          /\ wbatch \in Seq(Message(wal'))
      BY <2>3, SeqMonotonic DEF Shape, Contents
    <3> QED BY <2>1, <2>3, <3>1 DEF Shape, Contents
  <2> QED BY <1>1, <2>3, <2>4, <2>5 DEF Shape
<1> QED BY <1>2, <1>3, OnlySourceWrites

-----------------------------------------------------------------------------
(* What is committed before an anchor is in the target: before the         *)
(* confirmed position, and before any position replication will start from.*)

Anchors ==
  /\ started \/ lpc = "begin" =>
       /\ Covered(wal, written, confirmed)
       /\ \A th \in Thread : InUse(th) => Covered(wal, written, start[th])
  /\ lpc = "copy" => Covered(wal, written \cup snap, confirmed)
  /\ ~started => /\ \A th \in Thread : InUse(th) => start[th] = confirmed
                 /\ ~snapshots => confirmed = 1

\* What the writer, the queue, and the listener have, in this order.
Taken == written \cup BatchChanges(wbatch)
Queued == Taken \cup BatchChanges(queue)
Received == Queued \cup BatchChanges(<<cur>>)

\* The messages under way can be taken up in their order, and those of the stream
\* reach back to what the target has.
Flow ==
  wpc # "failed" =>
    /\ wpc = "syncing" => BatchChanges(wbatch) \subseteq written
    /\ Follows(wal, written, wbatch)
    /\ Follows(wal, Taken, queue)
    /\ lpc # "exited" =>
         /\ Follows(wal, Queued, <<cur>>)
         /\ Follows(wal, Received, wire)
         /\ conn = "streaming" => Covered(wal, Received \cup BatchChanges(wire), decoded + 1)

\* The target is what the source was at some commit, or a part of the next.
InOrder == DownClosed(wal, written) /\ DownClosed(wal, written \cup snap)

Safe == Shape /\ Anchors /\ Flow /\ InOrder

\* A target that holds more covers what it covered.
LEMMA CoveredMore ==
  ASSUME NEW log, NEW D, NEW E, D \subseteq E, NEW c, Covered(log, D, c)
  PROVE  Covered(log, E, c)
BY DEF Covered

\* A step that adds no anchor.
LEMMA AnchorsFrame ==
  ASSUME Anchors, LogIsRead, UNCHANGED <<started, confirmed>>, written \subseteq written',
         \A th \in Thread : InUse(th)' => InUse(th) /\ start'[th] = start[th],
         lpc' = "begin" => lpc = "begin",
         lpc' = "copy" => lpc = "copy" /\ snap' = snap
  PROVE  Anchors'
<1>1. wal' = wal /\ snapshots' = snapshots
  BY DEF LogIsRead
<1>2. \A c : Covered(wal, written, c) => Covered(wal, written', c)
  BY CoveredMore
<1>3. \A c : Covered(wal, written \cup snap, c) => Covered(wal, written' \cup snap, c)
  BY CoveredMore
<1>4. started' \/ lpc' = "begin" =>
        /\ Covered(wal', written', confirmed')
        /\ \A th \in Thread : InUse(th)' => Covered(wal', written', start'[th])
  BY <1>1, <1>2 DEF Anchors
<1>5. lpc' = "copy" => Covered(wal', written' \cup snap', confirmed')
  BY <1>1, <1>3 DEF Anchors
<1>6. ~started' => /\ \A th \in Thread : InUse(th)' => start'[th] = confirmed'
                   /\ ~snapshots' => confirmed' = 1
  BY <1>1 DEF Anchors
<1> QED BY <1>4, <1>5, <1>6 DEF Anchors

\* A step that moves the confirmed position to another anchor.
LEMMA AnchorsMove ==
  ASSUME Anchors, LogIsRead, UNCHANGED <<written, snap>>, started, started',
         Covered(wal, written, confirmed'),
         \A th \in Thread : InUse(th)' => InUse(th) /\ start'[th] = start[th]
  PROVE  Anchors'
<1>1. Covered(wal, written \cup snap, confirmed')
  BY CoveredMore
<1> QED BY <1>1 DEF Anchors, LogIsRead

\* Every step keeps the anchors: the confirmed position moves to one, or to the highest
\* position of a batch that is written.
LEMMA AnchorsStep ==
  ASSUME Safe, [Next]_vars, LogIsRead
  PROVE  Anchors'
<1> USE DEF walVars, slotVars, connVars, listVars, retryVars, sinkVars, histVars, bounds, Thread
<1>0. /\ Anchors /\ wal' = wal /\ snapshots' = snapshots
      /\ confirmed \in Int /\ start \in [Thread -> Int]
      /\ \A th \in Thread : InUse(th) => start[th] \in Int
      /\ retry \in [Thread -> {"op", "again", "dial", "start", "sync"}]
      /\ lpc = "beginSync" => retry["listener"] = "op"
      /\ ~started => lpc \in {"start", "snapshot", "copy", "begin", "exited"}
      /\ lpc \in {"snapshot", "copy"} => snapshots
      /\ Early => wpc = "idle" /\ \A th \in Thread : retry[th] = "op"
  BY LogFacts DEF Safe, Shape, Labels, Positions, LogIsRead
<1>1. CASE ServerStep \/ UNCHANGED vars \/ SourceStep
  <2>1. UNCHANGED <<started, confirmed, written, snap, lpc, start, retry>>
    BY <1>1 DEF ServerStep, WalsenderDecodes, WalsenderKeepAlive, ConnectionBreaks, vars,
                SourceStep, SourceWrites
  <2> QED BY <1>0, <2>1, AnchorsFrame DEF InUse
<1>2. ASSUME NEW th \in Thread, AttemptFails(th) PROVE Anchors'
  <2>1. /\ UNCHANGED <<started, confirmed, written, snap, lpc, start>>
        /\ retry' = [retry EXCEPT ![th] = IF retry[th] = "op" THEN "again" ELSE "dial"]
    BY <1>2 DEF AttemptFails, Fails
  <2> QED BY <1>0, <2>1, AnchorsFrame DEF InUse
<1>3. ASSUME NEW th \in Thread, ResetDials(th) PROVE Anchors'
  <2>1. /\ UNCHANGED <<started, confirmed, written, snap, lpc>> /\ retry[th] = "dial"
        /\ start' = [start EXCEPT ![th] = confirmed] /\ retry' = [retry EXCEPT ![th] = "start"]
    BY <1>3 DEF ResetDials
  <2>2. started /\ lpc \notin {"copy", "begin"}
    BY <1>0, <2>1 DEF Early
  <2>3. \A t \in Thread : InUse(t)' => start'[t] = confirmed \/ (InUse(t) /\ start'[t] = start[t])
    BY <1>0, <2>1 DEF InUse
  <2> QED BY <1>0, <2>1, <2>2, <2>3 DEF Anchors
<1>4. ASSUME NEW th \in Thread, ResetStarts(th) PROVE Anchors'
  <2>1. /\ UNCHANGED <<confirmed, written, snap, lpc, start>> /\ retry[th] = "start"
        /\ retry' = [retry EXCEPT ![th] = "sync"] /\ started' = TRUE
    BY <1>4 DEF ResetStarts, BeginStreaming
  <2>2. started
    BY <1>0, <2>1 DEF Early
  <2>3. \A t \in Thread : InUse(t)' => InUse(t)
    BY <1>0, <2>1 DEF InUse
  <2> QED BY <1>0, <2>1, <2>2, <2>3, AnchorsMove DEF Anchors
<1>5. ASSUME NEW th \in Thread, ResetStartFails(th) PROVE Anchors'
  <2>1. /\ UNCHANGED <<started, confirmed, written, snap, lpc>> /\ retry[th] = "start"
        /\ start' = [start EXCEPT ![th] = 0] /\ retry' = [retry EXCEPT ![th] = "again"]
    BY <1>5 DEF ResetStartFails
  <2>2. th = "listener" => lpc \notin {"snapshot", "copy", "begin", "beginSync"}
    BY <1>0, <2>1 DEF Early
  <2>3. \A t \in Thread : InUse(t)' => InUse(t) /\ start'[t] = start[t]
    BY <1>0, <2>1, <2>2 DEF InUse
  <2> QED BY <1>0, <2>1, <2>3, AnchorsFrame
<1>6. ASSUME NEW th \in Thread, ResetSyncs(th) PROVE Anchors'
  <2>1. /\ UNCHANGED <<started, written, snap, lpc>> /\ retry[th] = "sync"
        /\ start' = [start EXCEPT ![th] = 0] /\ retry' = [retry EXCEPT ![th] = "again"]
        /\ confirmed' = confirmed \/ StatusUpdate(start[th])
    BY <1>6 DEF ResetSyncs
  <2>2. started /\ (th = "listener" => lpc \notin {"snapshot", "copy", "begin", "beginSync"})
    BY <1>0, <2>1 DEF Early
  <2>3. \A t \in Thread : InUse(t)' => InUse(t) /\ start'[t] = start[t]
    BY <1>0, <2>1, <2>2 DEF InUse
  <2>4. Covered(wal, written, confirmed) /\ Covered(wal, written, start[th])
    BY <1>0, <2>1, <2>2 DEF Anchors, InUse
  <2>5. confirmed' \in {confirmed, start[th]}
    BY <1>0, <2>1, ConfirmedMoves
  <2>6. Covered(wal, written, confirmed')
    BY <2>4, <2>5
  <2> QED BY <1>0, <2>1, <2>2, <2>3, <2>6, AnchorsMove
<1>7. CASE ResetStartStolen
  <2>1. /\ UNCHANGED <<confirmed, written, snap, lpc>> /\ started' = TRUE
        /\ retry["writer"] = "start"
        /\ start' = [start EXCEPT !["writer"] = 0]
        /\ retry' = [writer |-> "again",
                     listener |-> IF retry["listener"] = "op" THEN "again" ELSE "dial"]
    BY <1>7 DEF ResetStartStolen, BeginStreaming
  <2>2. started
    BY <1>0, <2>1 DEF Early
  <2>3. \A t \in Thread : InUse(t)' => InUse(t) /\ start'[t] = start[t]
    BY <1>0, <2>1 DEF InUse
  <2> QED BY <1>0, <2>1, <2>2, <2>3, AnchorsMove DEF Anchors
<1>8. CASE ListenerStarts
  <2>1. /\ UNCHANGED <<started, confirmed, written, snap, retry>> /\ lpc = "start"
        /\ start' = [start EXCEPT !["listener"] = confirmed]
        /\ lpc' = IF snapshots THEN "snapshot" ELSE "begin"
    BY <1>8 DEF ListenerStarts
  <2>2. \A t \in Thread : InUse(t)' => start'[t] = confirmed
    BY <1>0, <2>1 DEF InUse, Early
  <2>3. started' \/ lpc' = "begin" => Covered(wal, written, confirmed)
    <3>1. CASE started
      BY <1>0, <3>1 DEF Anchors
    <3>2. CASE ~started /\ lpc' = "begin"
      <4>1. confirmed = 1
        BY <1>0, <2>1, <3>2 DEF Anchors
      <4>2. \A i \in Committed(wal) : CommitLSN(wal, i) \in Nat /\ CommitLSN(wal, i) > 0
        BY LogFacts DEF Safe, Shape
      <4> QED BY <4>1, <4>2 DEF Covered
    <3> QED BY <2>1, <3>1, <3>2
  <2>4. lpc' # "copy"
    BY <2>1
  <2> QED BY <1>0, <2>1, <2>2, <2>3, <2>4 DEF Anchors
<1>9. CASE SnapshotReads
  <2>1. /\ UNCHANGED <<started, confirmed, written, retry, start>>
        /\ lpc = "snapshot" /\ lpc' = "copy"
        /\ snap' = Committed(wal)
    BY <1>9 DEF SnapshotReads
  <2>2. Covered(wal, written \cup snap', confirmed)
    BY <2>1 DEF Covered
  <2>3. \A t \in Thread : InUse(t)' => InUse(t)
    BY <2>1 DEF InUse
  <2> QED BY <1>0, <2>1, <2>2, <2>3 DEF Anchors
<1>10. CASE SnapshotReturns
  <2>1. /\ UNCHANGED <<started, confirmed, retry, start>> /\ lpc = "copy" /\ lpc' = "begin"
        /\ written' = written \cup snap
    BY <1>10 DEF SnapshotReturns
  <2>2. \A c : Covered(wal, written, c) => Covered(wal, written', c)
    BY <2>1, CoveredMore
  <2>3. \A t \in Thread : InUse(t)' => InUse(t)
    BY <2>1 DEF InUse
  <2>4. Covered(wal, written', confirmed)
    BY <1>0, <2>1 DEF Anchors
  <2>5. \A t \in Thread : InUse(t) => Covered(wal, written', start[t])
    <3>1. CASE started
      BY <1>0, <2>2, <3>1 DEF Anchors
    <3>2. CASE ~started
      BY <1>0, <2>4, <3>2 DEF Anchors
    <3> QED BY <3>1, <3>2
  <2> QED BY <1>0, <2>1, <2>3, <2>4, <2>5 DEF Anchors
<1>11. CASE ListenerBegins
  <2>1. /\ UNCHANGED <<confirmed, retry, start, written, snap>>
        /\ lpc = "begin" /\ lpc' = "beginSync"
        /\ started' = TRUE
    BY <1>11 DEF ListenerBegins, BeginStreaming
  <2>2. \A t \in Thread : InUse(t)' => InUse(t)
    BY <2>1 DEF InUse
  <2> QED BY <1>0, <2>1, <2>2 DEF Anchors
<1>12. CASE ListenerBeginSyncs
  <2>1. /\ UNCHANGED <<started, retry, written, snap>> /\ lpc = "beginSync" /\ lpc' = "receive"
        /\ start' = [start EXCEPT !["listener"] = 0] /\ StatusUpdate(start["listener"])
    BY <1>12 DEF ListenerBeginSyncs
  <2>2. started /\ \A t \in Thread : InUse(t)' => InUse(t) /\ start'[t] = start[t]
    BY <1>0, <2>1 DEF InUse
  <2>3. Covered(wal, written, confirmed) /\ Covered(wal, written, start["listener"])
    BY <1>0, <2>1, <2>2 DEF Anchors, InUse
  <2>4. confirmed' \in {confirmed, start["listener"]}
    <3>1. start["listener"] \in Int
      BY <1>0
    <3> QED BY <1>0, <2>1, <3>1, ConfirmedMoves
  <2>5. Covered(wal, written, confirmed')
    BY <2>3, <2>4
  <2> QED BY <1>0, <2>1, <2>2, <2>5, AnchorsMove
<1>13. CASE ListenerReceives \/ ListenerDelivers
  <2>1. /\ UNCHANGED <<started, confirmed, written, snap, start>>
        /\ lpc' \in {"receive", "deliver"}
        /\ retry' \in {retry, [retry EXCEPT !["listener"] = "op"]}
    BY <1>13 DEF ListenerReceives, ListenerDelivers, Succeeds
  <2>2. \A t \in Thread : InUse(t)' => InUse(t)
    BY <1>0, <2>1 DEF InUse
  <2> QED BY <1>0, <2>1, <2>2, AnchorsFrame
<1>14. CASE ListenerFails \/ Signal
  <2>1. /\ UNCHANGED <<started, confirmed, written>> /\ lpc' = "exited"
        /\ start' = [start EXCEPT !["listener"] = 0] /\ retry' = [retry EXCEPT !["listener"] = "op"]
    BY <1>14 DEF ListenerFails, Signal, ListenReturns, Succeeds
  <2>2. \A t \in Thread : InUse(t)' => InUse(t) /\ start'[t] = start[t]
    BY <1>0, <2>1 DEF InUse
  <2> QED BY <1>0, <2>1, <2>2, AnchorsFrame
<1>15. CASE WriterTakes \/ WriterWrites \/ WriterFails
  <2>1. /\ UNCHANGED <<started, confirmed, snap, start, lpc>> /\ written \subseteq written'
        /\ retry' \in {retry, [retry EXCEPT !["writer"] = "op"]}
    BY <1>15 DEF WriterTakes, WriterWrites, WriterFails, Succeeds
  <2>2. \A t \in Thread : InUse(t)' => InUse(t)
    BY <1>0, <2>1 DEF InUse
  <2> QED BY <1>0, <2>1, <2>2, AnchorsFrame
<1>16. CASE WriterSyncs
  <2>1. /\ UNCHANGED <<started, snap, start, lpc, written>> /\ wpc = "syncing"
        /\ retry' = [retry EXCEPT !["writer"] = "op"]
        /\ \/ UNCHANGED confirmed
           \/ \E p \in CheckpointPositions(wbatch) : StatusUpdate(p)
    BY <1>16 DEF WriterSyncs, Succeeds
  <2>2. started
    BY <1>0, <2>1 DEF Early
  <2>3. \A t \in Thread : InUse(t)' => InUse(t)
    BY <1>0, <2>1 DEF InUse
  <2>4. Covered(wal, written, confirmed)
    BY <1>0, <2>2 DEF Anchors
  <2>5. ASSUME NEW p \in CheckpointPositions(wbatch) PROVE p \in Int /\ Covered(wal, written, p)
    <3>1. /\ wbatch \in Seq(Message(wal)) /\ Follows(wal, written, wbatch)
          /\ BatchChanges(wbatch) \subseteq written
      BY <2>1 DEF Safe, Shape, Contents, Flow
    <3>2. p \in 1..(Len(wal) + 1) /\ Covered(wal, written, p)
      BY <3>1, BatchCovers
    <3> QED BY <3>2
  <2>6. Covered(wal, written, confirmed')
    <3>1. CASE UNCHANGED confirmed
      BY <2>4, <3>1
    <3>2. CASE \E p \in CheckpointPositions(wbatch) : StatusUpdate(p)
      <4>1. PICK p \in CheckpointPositions(wbatch) : StatusUpdate(p)
        BY <3>2
      <4>2. confirmed' \in {p, confirmed}
        BY <1>0, <2>5, <4>1, ConfirmedMoves
      <4> QED BY <2>4, <2>5, <4>2
    <3> QED BY <2>1, <3>1, <3>2
  <2> QED BY <1>0, <2>1, <2>2, <2>3, <2>6, AnchorsMove
<1>17. CASE Stops \/ Crashes
  <2>1. /\ UNCHANGED <<started, confirmed, written>> /\ lpc' = "start"
        /\ retry' = [th \in Thread |-> "op"]
    BY <1>17 DEF Stops, Crashes, GoDown
  <2>2. \A t \in Thread : ~InUse(t)'
    BY <2>1 DEF InUse
  <2> QED BY <1>0, <2>1, <2>2, AnchorsFrame
<1>18. CASE Restarts
  <2>1. UNCHANGED <<started, confirmed, written, snap, start, lpc, retry>>
    BY <1>18 DEF Restarts
  <2> QED BY <1>0, <2>1, AnchorsFrame DEF InUse
<1> QED
  BY <1>1, <1>2, <1>3, <1>4, <1>5, <1>6, <1>7, <1>8, <1>9, <1>10, <1>11, <1>12, <1>13, <1>14, <1>15,
     <1>16, <1>17, <1>18
  DEF Next, RetryStep, ListenerStep, WriterStep, ProcessStep

\* Every step keeps the target closed under what was committed before.
LEMMA InOrderStep ==
  ASSUME Safe, [Next]_vars, LogIsRead
  PROVE  InOrder'
<1> USE DEF walVars, slotVars, connVars, listVars, retryVars, sinkVars, histVars, bounds
<1>0. /\ wal' = wal /\ DownClosed(wal, written) /\ DownClosed(wal, written \cup snap)
      /\ snap \subseteq Committed(wal) /\ wbatch \in Seq(Message(wal))
  BY DEF Safe, Shape, Contents, InOrder, LogIsRead
<1>1. CASE SnapshotReads
  <2>1. snap' = Committed(wal) /\ written' = written
    BY <1>1 DEF SnapshotReads
  <2>2. DownClosed(wal, written \cup Committed(wal))
    BY DEF DownClosed
  <2> QED BY <1>0, <2>1, <2>2 DEF InOrder
<1>2. CASE SnapshotReturns
  <2>1. snap' = {} /\ written' = written \cup snap
    BY <1>2 DEF SnapshotReturns
  <2>2. written' \cup snap' = written'
    BY <2>1
  <2> QED BY <1>0, <2>1, <2>2 DEF InOrder
<1>3. CASE WriterWrites
  <2>1. /\ written' = written \cup BatchChanges(wbatch) /\ snap' = snap /\ wpc = "writing"
    BY <1>3 DEF WriterWrites
  <2>2. snap = {}
    BY <2>1 DEF Safe, Shape, Labels, Early, Contents
  <2>3. Follows(wal, written, wbatch)
    BY <2>1 DEF Safe, Flow
  <2>4. DownClosed(wal, written')
    BY <1>0, <2>1, <2>3, BatchKeepsOrder
  <2>5. written' \cup snap' = written'
    BY <2>1, <2>2
  <2> QED BY <1>0, <2>4, <2>5 DEF InOrder
<1>4. CASE written' = written /\ snap' \in {snap, {}}
  <2>1. written' \cup snap' \in {written, written \cup snap}
    BY <1>4
  <2> QED BY <1>0, <1>4, <2>1 DEF InOrder
<1>5. \/ SnapshotReads \/ SnapshotReturns \/ WriterWrites
      \/ written' = written /\ snap' \in {snap, {}}
  <2>1. SourceStep \/ ServerStep \/ UNCHANGED vars => UNCHANGED <<written, snap>>
    BY DEF SourceStep, SourceWrites, ServerStep, WalsenderDecodes, WalsenderKeepAlive,
           ConnectionBreaks, vars
  <2>2. \A th \in Thread : RetryStep(th) => UNCHANGED <<written, snap>>
    BY DEF RetryStep, AttemptFails, ResetDials, ResetStarts, ResetStartFails, ResetSyncs
  <2>3. ResetStartStolen => UNCHANGED <<written, snap>>
    BY DEF ResetStartStolen
  <2>4. ListenerStep => \/ SnapshotReads \/ SnapshotReturns
                        \/ written' = written /\ snap' \in {snap, {}}
    BY DEF ListenerStep, ListenerStarts, ListenerBegins, ListenerBeginSyncs, ListenerReceives,
           ListenerDelivers, ListenerFails, ListenReturns
  <2>5. WriterStep => WriterWrites \/ UNCHANGED <<written, snap>>
    BY DEF WriterStep, WriterTakes, WriterSyncs, WriterFails
  <2>6. ProcessStep => written' = written /\ snap' \in {snap, {}}
    BY DEF ProcessStep, Signal, ListenReturns, Stops, Crashes, GoDown, Restarts
  <2> QED BY <2>1, <2>2, <2>3, <2>4, <2>5, <2>6 DEF Next
<1> QED BY <1>1, <1>2, <1>3, <1>4, <1>5

\* A step that touches no message.
LEMMA FlowFrame ==
  ASSUME Flow, LogIsRead, UNCHANGED <<written, wbatch, queue, cur, wire>>,
         wpc' \in {wpc, "failed"}, lpc' # "exited" => lpc # "exited",
         conn' = "streaming" => conn = "streaming" /\ decoded' = decoded
  PROVE  Flow'
BY DEF Flow, LogIsRead, Taken, Queued, Received

\* A step that empties the connection, and may start a stream at an anchor.
LEMMA FlowAnew ==
  ASSUME Flow, LogIsRead, UNCHANGED <<written, wbatch, queue, cur, wpc>>, wire' = <<>>,
         lpc' # "exited" => lpc # "exited",
         conn' = "streaming" => Covered(wal, written, decoded' + 1)
  PROVE  Flow'
<1>1. wal' = wal /\ Received' = Received /\ Queued' = Queued /\ Taken' = Taken
  BY DEF LogIsRead, Received, Queued, Taken
<1>2. Follows(wal, Received, wire')
  BY NoMessages
<1>3. conn' = "streaming" => Covered(wal, Received \cup BatchChanges(wire'), decoded' + 1)
  BY CoveredMore DEF Received, Queued, Taken
<1> QED BY <1>1, <1>2, <1>3 DEF Flow

\* A listener without a message has nothing under way.
LEMMA NoMessageIsEmpty ==
  ASSUME NEW log, WellFormed(log)
  PROVE  BatchChanges(<<NoMessage>>) = {} /\ \A D : Follows(log, D, <<NoMessage>>)
<1>1. NoMessage.kind = "keepalive" /\ NoMessage.pos = 0
  BY DEF NoMessage
<1>2. \A i \in Committed(log) : ~Precedes(log, i, NoMessage)
  <2> TAKE i \in Committed(log)
  <2>1. CommitLSN(log, i) \in Nat /\ CommitLSN(log, i) > 0
    BY LogFacts
  <2> QED BY <1>1, <2>1 DEF Precedes
<1> QED BY <1>1, <1>2, OneMessage

\* Every step keeps the flow of messages without a gap.
LEMMA FlowStep ==
  ASSUME Safe, [Next]_vars, LogIsRead
  PROVE  Flow'
<1> USE DEF walVars, slotVars, connVars, listVars, retryVars, sinkVars, histVars, bounds, Thread
<1>0. /\ Flow /\ wal' = wal /\ WellFormed(wal)
      /\ wire \in Seq(Message(wal)) /\ queue \in Seq(Message(wal)) /\ wbatch \in Seq(Message(wal))
      /\ IF lpc = "deliver" THEN cur \in Message(wal) ELSE cur = NoMessage
      /\ conn # "streaming" => wire = <<>>
      /\ wpc \in {"idle", "failed"} => wbatch = <<>>
      /\ lpc # "copy" => snap = {}
      /\ decoded \in 0..Len(wal) /\ Len(wal) \in Nat
      /\ proc = "up" => lpc # "exited"
      /\ retry \in [Thread -> {"op", "again", "dial", "start", "sync"}]
      /\ confirmed \in 1..(Len(wal) + 1)
      /\ \A D : Follows(wal, D, <<>>) /\ Follows(wal, D, <<NoMessage>>)
      /\ BatchChanges(<<>>) = {} /\ BatchChanges(<<NoMessage>>) = {}
  BY LogFacts, NoMessages, NoMessageIsEmpty DEF Safe, Shape, Labels, Positions, Contents, LogIsRead
<1>s. ASSUME NEW p \in Int, Covered(wal, written, p), Covered(wal, written, confirmed),
             BeginStreaming(p)
      PROVE  wire' = <<>> /\ Covered(wal, written, decoded' + 1)
  <2>1. confirmed \in Int
    BY <1>0
  <2>2. wire' = <<>> /\ decoded' \in {p - 1, confirmed - 1}
    BY <1>s, <2>1, StreamingBegins
  <2>3. decoded' + 1 \in {p, confirmed}
    <3>1. decoded' = p - 1 \/ decoded' = confirmed - 1
      BY <2>2
    <3>2. (p - 1) + 1 = p /\ (confirmed - 1) + 1 = confirmed
      BY <2>1
    <3> QED BY <3>1, <3>2
  <2> QED BY <1>s, <2>2, <2>3
<1>a. /\ \A th \in Thread : start[th] \in Int
      /\ started \/ lpc = "begin" =>
           /\ Covered(wal, written, confirmed)
           /\ \A th \in Thread : InUse(th) => Covered(wal, written, start[th])
      /\ Early => \A th \in Thread : retry[th] = "op"
  BY <1>0 DEF Safe, Shape, Positions, Anchors, Labels
<1>1. CASE WalsenderDecodes
  <2>1. /\ conn = "streaming" /\ decoded < Len(wal) /\ decoded' = decoded + 1
        /\ UNCHANGED <<conn, lpc, cur, queue, wpc, wbatch, written>>
        /\ IF wal[decoded + 1].kind = "commit"
           THEN \E s \in Ascending(ChangesBy(wal[decoded + 1].txn)) :
                  wire' = wire \o [k \in DOMAIN s |-> ChangeMessage(s[k])]
           ELSE UNCHANGED wire
    BY <1>1 DEF WalsenderDecodes
  <2> DEFINE All == Received \cup BatchChanges(wire)
  <2>2. ASSUME wpc # "failed", lpc # "exited"
        PROVE  /\ Follows(wal, Received, wire')
               /\ Covered(wal, Received \cup BatchChanges(wire'), decoded + 2)
    <3>1. Follows(wal, Received, wire) /\ Covered(wal, All, decoded + 1)
      BY <1>0, <2>1, <2>2 DEF Flow
    <3>2. CASE wal[decoded + 1].kind = "commit"
      <4>1. PICK s \in Ascending(ChangesBy(wal[decoded + 1].txn)) :
              wire' = wire \o [k \in DOMAIN s |-> ChangeMessage(s[k])]
        BY <2>1, <3>2
      <4> DEFINE new == [k \in DOMAIN s |-> ChangeMessage(s[k])]
      <4>2. /\ new \in Seq(Message(wal)) /\ Follows(wal, All, new)
            /\ Covered(wal, All \cup BatchChanges(new), decoded + 2)
        <5>1. decoded \in Nat
          BY <1>0
        <5> HIDE DEF All
        <5> QED BY <1>0, <2>1, <3>1, <3>2, <5>1, DecodedMessages
      <4>3. Joined(wal, Received, wire, new, wire')
        BY <1>0, <4>1, <4>2, ConcatJoins
      <4>4. /\ Follows(wal, Received, wire')
            /\ BatchChanges(wire') = BatchChanges(wire) \cup BatchChanges(new)
        BY <3>1, <4>2, <4>3 DEF Joined
      <4>5. Received \cup BatchChanges(wire') = All \cup BatchChanges(new)
        BY <4>4
      <4> QED BY <4>2, <4>4, <4>5
    <3>3. CASE wal[decoded + 1].kind # "commit"
      <4>1. ASSUME NEW i \in Committed(wal), CommitLSN(wal, i) < decoded + 2
            PROVE  i \in All
        <5>1. CommitLSN(wal, i) \in Commits(wal) /\ CommitLSN(wal, i) \in Nat
          BY <1>0, LogFacts
        <5>2. CommitLSN(wal, i) # decoded + 1
          BY <3>3, <5>1 DEF Commits
        <5>3. CommitLSN(wal, i) < decoded + 1
          BY <1>0, <4>1, <5>1, <5>2
        <5> QED BY <3>1, <5>3 DEF Covered
      <4>2. wire' = wire
        BY <2>1, <3>3
      <4> QED BY <3>1, <4>1, <4>2 DEF Covered
    <3> QED BY <3>2, <3>3
  <2>3. Received' = Received /\ Queued' = Queued /\ Taken' = Taken /\ decoded' + 1 = decoded + 2
    BY <1>0, <2>1 DEF Received, Queued, Taken
  <2> HIDE DEF All
  <2> QED BY <1>0, <2>1, <2>2, <2>3 DEF Flow
<1>2. CASE WalsenderKeepAlive
  <2>1. /\ wire = <<>> /\ UNCHANGED <<conn, decoded, lpc, cur, queue, wpc, wbatch, written>>
        /\ conn = "streaming" /\ \E reply \in BOOLEAN : wire' = <<KeepAlive(reply)>>
    BY <1>2 DEF WalsenderKeepAlive
  <2>2. PICK reply \in BOOLEAN : wire' = <<KeepAlive(reply)>>
    BY <2>1
  <2>3. KeepAlive(reply).kind = "keepalive" /\ KeepAlive(reply).pos = decoded + 1
    BY <1>0, KeepAliveMessage
  <2>4. BatchChanges(wire') = {}
    BY <2>2, <2>3, OneMessage
  <2>5. ASSUME NEW D, Covered(wal, D, decoded + 1) PROVE Follows(wal, D, wire')
    <3>1. \A i \in Committed(wal) : Precedes(wal, i, KeepAlive(reply)) => i \in D
      BY <2>3, <2>5 DEF Precedes, Covered
    <3> QED BY <2>2, <3>1, OneMessage
  <2>6. Received' = Received /\ Queued' = Queued /\ Taken' = Taken
    BY <1>0, <2>1 DEF Received, Queued, Taken
  <2>7. Received \cup BatchChanges(wire) = Received /\ Received \cup BatchChanges(wire') = Received
    BY <1>0, <2>1, <2>4
  <2> QED BY <1>0, <2>1, <2>5, <2>6, <2>7 DEF Flow
<1>3. CASE ConnectionBreaks \/ UNCHANGED vars
  <2>1. CASE ConnectionBreaks
    <3>1. /\ conn' = "broken" /\ wire' = <<>>
          /\ UNCHANGED <<lpc, cur, queue, wpc, wbatch, written>>
      BY <2>1 DEF ConnectionBreaks
    <3> QED BY <1>0, <3>1, FlowAnew
  <2>2. CASE UNCHANGED vars
    <3>1. UNCHANGED <<conn, decoded, wire, lpc, cur, queue, wpc, wbatch, written>>
      BY <2>2 DEF vars
    <3> QED BY <1>0, <3>1, FlowFrame
  <2> QED BY <1>3, <2>1, <2>2
<1>4. ASSUME NEW th \in Thread, AttemptFails(th) \/ ResetSyncs(th) PROVE Flow'
  <2>1. UNCHANGED <<conn, decoded, wire, lpc, cur, queue, wpc, wbatch, written>>
    BY <1>4 DEF AttemptFails, ResetSyncs
  <2> QED BY <1>0, <2>1, FlowFrame
<1>5. ASSUME NEW th \in Thread, ResetDials(th) \/ ResetStartFails(th) PROVE Flow'
  <2>1. /\ wire' = <<>> /\ conn' # "streaming"
        /\ UNCHANGED <<lpc, cur, queue, wpc, wbatch, written>>
    BY <1>5 DEF ResetDials, ResetStartFails
  <2> QED BY <1>0, <2>1, FlowAnew
<1>6. ASSUME NEW th \in Thread, ResetStarts(th) \/ (th = "writer" /\ ResetStartStolen) PROVE Flow'
  <2>1. /\ BeginStreaming(start[th]) /\ retry[th] = "start"
        /\ UNCHANGED <<lpc, cur, queue, wpc, wbatch, written>>
    BY <1>6 DEF ResetStarts, ResetStartStolen
  <2>2. started /\ InUse(th)
    BY <1>a, <2>1 DEF InUse, Early
  <2>3. wire' = <<>> /\ Covered(wal, written, decoded' + 1)
    <3>1. start[th] \in Int /\ Covered(wal, written, start[th]) /\ Covered(wal, written, confirmed)
      BY <1>a, <2>2
    <3> QED BY <1>s, <2>1, <3>1
  <2> QED BY <1>0, <2>1, <2>3, FlowAnew
<1>7. CASE ListenerBegins
  <2>1. /\ BeginStreaming(start["listener"]) /\ lpc = "begin" /\ lpc' = "beginSync"
        /\ UNCHANGED <<cur, queue, wpc, wbatch, written>>
    BY <1>7 DEF ListenerBegins
  <2>2. wire' = <<>> /\ Covered(wal, written, decoded' + 1)
    <3>1. /\ start["listener"] \in Int /\ Covered(wal, written, start["listener"])
          /\ Covered(wal, written, confirmed)
      BY <1>a, <2>1 DEF InUse
    <3> QED BY <1>s, <2>1, <3>1
  <2> QED BY <1>0, <2>1, <2>2, FlowAnew
<1>8. CASE ListenerStarts \/ ListenerBeginSyncs \/ SnapshotReads
  <2>1. /\ UNCHANGED <<conn, decoded, wire, cur, queue, wpc, wbatch, written>>
        /\ lpc # "exited"
    BY <1>8 DEF ListenerStarts, ListenerBeginSyncs, SnapshotReads
  <2> QED BY <1>0, <2>1, FlowFrame
<1>9. CASE SnapshotReturns
  <2>1. /\ UNCHANGED <<conn, decoded, wire, cur, queue, wpc, wbatch>> /\ lpc = "copy"
        /\ written' = written \cup snap
    BY <1>9 DEF SnapshotReturns
  <2>2. conn # "streaming" /\ wpc = "idle" /\ queue = <<>>
    BY <2>1 DEF Safe, Shape, Labels, Early
  <2>3. wbatch' = <<>> /\ queue' = <<>> /\ wire' = <<>> /\ cur' = NoMessage
        /\ wpc' = "idle" /\ conn' # "streaming"
    BY <1>0, <2>1, <2>2
  <2> QED BY <1>0, <2>3 DEF Flow
<1>10. CASE ListenerReceives
  <2>1. /\ lpc = "receive" /\ wire # <<>> /\ wire' = Tail(wire)
        /\ UNCHANGED <<conn, decoded, queue, wpc, wbatch, written>>
        /\ lpc' # "exited"
        /\ \/ Head(wire).kind = "keepalive" /\ cur' = cur
           \/ cur' = Head(wire)
    BY <1>10 DEF ListenerReceives
  <2>2. cur = NoMessage /\ Received = Queued
    BY <1>0, <2>1 DEF Received
  <2>3. Joined(wal, Queued, <<Head(wire)>>, Tail(wire), wire)
    BY <1>0, <2>1, HeadJoins
  <2>4. Queued' = Queued /\ Taken' = Taken
    BY <1>0, <2>1 DEF Queued, Taken
  <2>5. ASSUME wpc # "failed"
        PROVE  /\ Follows(wal, Queued, <<cur'>>) /\ Follows(wal, Received', wire')
               /\ Received' \cup BatchChanges(wire') = Received \cup BatchChanges(wire)
    <3>1. Follows(wal, Queued, wire)
      BY <1>0, <2>1, <2>2, <2>5 DEF Flow
    <3>2. /\ Follows(wal, Queued, <<Head(wire)>>)
          /\ Follows(wal, Queued \cup BatchChanges(<<Head(wire)>>), wire')
          /\ BatchChanges(wire) = BatchChanges(<<Head(wire)>>) \cup BatchChanges(wire')
      BY <2>1, <2>3, <3>1 DEF Joined
    <3>3. CASE cur' = Head(wire)
      <4>1. Received' = Queued \cup BatchChanges(<<Head(wire)>>)
        BY <2>4, <3>3 DEF Received
      <4> QED BY <2>2, <3>2, <3>3, <4>1
    <3>4. CASE Head(wire).kind = "keepalive" /\ cur' = cur
      <4>1. BatchChanges(<<Head(wire)>>) = {}
        BY <3>4, OneMessage
      <4>2. Received' = Queued
        BY <1>0, <2>2, <2>4, <3>4 DEF Received
      <4>3. Queued \cup BatchChanges(<<Head(wire)>>) = Queued
        BY <4>1
      <4> QED BY <1>0, <2>2, <3>2, <3>4, <4>1, <4>2, <4>3
    <3> QED BY <2>1, <3>3, <3>4
  <2>6. lpc # "exited"
    BY <2>1
  <2> QED BY <1>0, <2>1, <2>4, <2>5, <2>6 DEF Flow
<1>11. CASE ListenerDelivers
  <2>1. /\ lpc = "deliver" /\ lpc' = "receive" /\ queue' = Append(queue, cur) /\ cur' = NoMessage
        /\ UNCHANGED <<conn, decoded, wire, wpc, wbatch, written>>
    BY <1>11 DEF ListenerDelivers
  <2>2. Joined(wal, Taken, queue, <<cur>>, queue')
    BY <1>0, <2>1, AppendJoins
  <2>3. Taken' = Taken
    BY <1>0, <2>1 DEF Taken
  <2>4. Queued' = Received
    BY <2>2, <2>3 DEF Joined, Queued, Received
  <2>5. Received' = Received
    BY <1>0, <2>1, <2>4 DEF Received
  <2>6. ASSUME wpc # "failed" PROVE Follows(wal, Taken, queue')
    <3>1. Follows(wal, Taken, queue) /\ Follows(wal, Queued, <<cur>>)
      BY <1>0, <2>1, <2>6 DEF Flow
    <3> QED BY <2>2, <3>1 DEF Joined, Queued
  <2> QED BY <1>0, <2>1, <2>3, <2>4, <2>5, <2>6 DEF Flow
<1>12. CASE ListenerFails \/ Signal
  <2>1. /\ UNCHANGED <<queue, wpc, wbatch, written>> /\ lpc' = "exited"
    BY <1>12 DEF ListenerFails, Signal, ListenReturns
  <2>2. Taken' = Taken
    BY <2>1 DEF Taken
  <2> QED BY <1>0, <2>1, <2>2 DEF Flow
<1>13. CASE WriterTakes
  <2>1. /\ \E k \in DOMAIN queue : /\ wbatch' = SubSeq(queue, 1, k)
                                   /\ queue' = SubSeq(queue, k + 1, Len(queue))
        /\ wpc = "idle" /\ wpc' = "writing"
        /\ UNCHANGED <<conn, decoded, wire, lpc, cur, written>>
    BY <1>13 DEF WriterTakes
  <2>2. wbatch = <<>> /\ Taken = written
    BY <1>0, <2>1 DEF Taken
  <2>3. Joined(wal, written, wbatch', queue', queue)
    BY <1>0, <2>1, SplitJoins
  <2>4. /\ Follows(wal, written, wbatch')
        /\ Follows(wal, written \cup BatchChanges(wbatch'), queue')
        /\ BatchChanges(queue) = BatchChanges(wbatch') \cup BatchChanges(queue')
    BY <1>0, <2>1, <2>2, <2>3 DEF Joined, Flow
  <2>5. Taken' = written \cup BatchChanges(wbatch')
    BY <2>1 DEF Taken
  <2>6. Queued' = Queued
    BY <2>2, <2>4, <2>5 DEF Queued
  <2>7. Received' = Received
    BY <2>1, <2>6 DEF Received
  <2> QED BY <1>0, <2>1, <2>4, <2>5, <2>6, <2>7 DEF Flow
<1>14. CASE WriterWrites
  <2>1. /\ written' = written \cup BatchChanges(wbatch) /\ wpc = "writing" /\ wpc' = "syncing"
        /\ UNCHANGED <<conn, decoded, wire, lpc, cur, queue, wbatch>>
    BY <1>14 DEF WriterWrites
  <2>2. Taken' = Taken
    BY <2>1 DEF Taken
  <2>3. Queued' = Queued /\ Received' = Received
    BY <2>1, <2>2 DEF Queued, Received
  <2>4. Follows(wal, written', wbatch) /\ BatchChanges(wbatch) \subseteq written'
    BY <1>0, <2>1, FollowsMore DEF Flow
  <2> QED BY <1>0, <2>1, <2>2, <2>3, <2>4 DEF Flow
<1>15. CASE WriterSyncs
  <2>1. /\ wpc = "syncing" /\ wpc' = "idle" /\ wbatch' = <<>>
        /\ UNCHANGED <<conn, decoded, wire, lpc, cur, queue, written>>
    BY <1>15 DEF WriterSyncs
  <2>2. Taken' = Taken
    BY <1>0, <2>1 DEF Taken, Flow
  <2>3. Queued' = Queued /\ Received' = Received
    BY <2>1, <2>2 DEF Queued, Received
  <2> QED BY <1>0, <2>1, <2>2, <2>3 DEF Flow
<1>16. CASE WriterFails
  <2>1. wpc' = "failed"
    BY <1>16 DEF WriterFails
  <2> QED BY <2>1 DEF Flow
<1>17. CASE Stops \/ Crashes
  <2>1. /\ wire' = <<>> /\ queue' = <<>> /\ wbatch' = <<>> /\ cur' = NoMessage
        /\ wpc' = "idle" /\ conn' = "broken"
    BY <1>17 DEF Stops, Crashes, GoDown
  <2> QED BY <1>0, <2>1 DEF Flow
<1>18. CASE Restarts
  <2>1. /\ UNCHANGED <<wire, lpc, cur, queue, wpc, wbatch, written>> /\ conn' = "idle"
        /\ lpc = "start"
    BY <1>18 DEF Restarts, Safe, Shape, Labels
  <2>2. conn # "streaming"
    BY <2>1 DEF Safe, Shape, Labels, Early
  <2> QED BY <1>0, <2>1, <2>2, FlowAnew
<1>19. CASE SourceStep
  <2>1. UNCHANGED <<conn, decoded, wire, lpc, cur, queue, wpc, wbatch, written>>
    BY <1>19 DEF SourceStep, SourceWrites
  <2> QED BY <1>0, <2>1, FlowFrame
<1>20. CASE ResetStartStolen
  <2>1. "writer" \in Thread
    OBVIOUS
  <2> QED BY <1>6, <1>20, <2>1
<1> QED
  BY <1>1, <1>2, <1>3, <1>4, <1>5, <1>6, <1>7, <1>8, <1>9, <1>10, <1>11, <1>12, <1>13, <1>14, <1>15,
     <1>16, <1>17, <1>18, <1>19, <1>20
  DEF Next, ServerStep, RetryStep, ListenerStep, WriterStep, ProcessStep

\* The source's steps keep the invariant: what they commit is behind everything.
LEMMA SafeWhenLogGrows ==
  ASSUME Safe, SourceStep, Span = {0}
  PROVE  Anchors' /\ Flow' /\ InOrder'
<1>1. /\ UNCHANGED <<snapshots, confirmed, conn, decoded, lpc, cur, start, retry, wpc, snap,
                     written, started, wire, queue, wbatch>>
      /\ \E r \in Record : wal' = Append(wal, r) /\ \A i \in Commits(wal) : wal[i].txn # r.txn
  BY SourceAdds
<1>2. /\ Anchors /\ Flow /\ InOrder /\ WellFormed(wal) /\ Len(wal) \in Nat
      /\ wire \in Seq(Message(wal)) /\ queue \in Seq(Message(wal)) /\ wbatch \in Seq(Message(wal))
      /\ lpc = "deliver" => cur \in Message(wal)
      /\ lpc # "deliver" => cur = NoMessage
      /\ snap \in SUBSET Committed(wal) /\ written \in SUBSET Committed(wal)
      /\ confirmed \in 0..(Len(wal) + 1) /\ decoded + 1 \in 0..(Len(wal) + 1)
      /\ \A th \in Thread : start[th] \in 0..(Len(wal) + 1)
  BY LogFacts DEF Safe, Shape, Contents, Positions
<1>3. /\ WellFormed(wal')
      /\ \A D, c : c \in 0..(Len(wal) + 1) /\ Covered(wal, D, c) => Covered(wal', D, c)
      /\ \A D \in SUBSET Committed(wal) : DownClosed(wal, D) => DownClosed(wal', D)
      /\ \A D, b : b \in Seq(Message(wal)) /\ Follows(wal, D, b) => Follows(wal', D, b)
  <2>1. PICK r \in Record : wal' = Append(wal, r) /\ \A i \in Commits(wal) : wal[i].txn # r.txn
    BY <1>1
  <2>2. WellFormed(wal')
    BY <1>2, <2>1, LogGrows
  <2> QED BY <1>2, <2>1, <2>2, LogGrowthKeeps
<1>4. Anchors'
  <2>1. \A th \in Thread : InUse(th)' <=> InUse(th)
    BY <1>1 DEF InUse
  <2>2. started \/ lpc = "begin" =>
          /\ Covered(wal', written, confirmed)
          /\ \A th \in Thread : InUse(th) => Covered(wal', written, start[th])
    BY <1>2, <1>3 DEF Anchors
  <2>3. lpc = "copy" => Covered(wal', written \cup snap, confirmed)
    BY <1>2, <1>3 DEF Anchors
  <2>4. /\ ~started => \A th \in Thread : InUse(th) => start[th] = confirmed
        /\ ~started => (~snapshots => confirmed = 1)
    BY <1>2 DEF Anchors
  <2> QED BY <1>1, <2>1, <2>2, <2>3, <2>4 DEF Anchors
<1>5. Flow'
  <2>1. Taken' = Taken /\ Queued' = Queued /\ Received' = Received
    BY <1>1 DEF Taken, Queued, Received
  <2>2. \A D : Follows(wal, D, <<cur>>) => Follows(wal', D, <<cur>>)
    <3>1. CASE lpc = "deliver"
      <4>1. <<cur>> \in Seq(Message(wal))
        BY <1>2, <3>1
      <4> QED BY <1>3, <4>1
    <3>2. CASE lpc # "deliver"
      BY <1>2, <1>3, <3>2, NoMessageIsEmpty
    <3> QED BY <3>1, <3>2
  <2>3. wpc # "failed" =>
          /\ wpc = "syncing" => BatchChanges(wbatch) \subseteq written
          /\ Follows(wal', written, wbatch)
          /\ Follows(wal', Taken, queue)
    BY <1>2, <1>3 DEF Flow
  <2>4. wpc # "failed" /\ lpc # "exited" =>
          /\ Follows(wal', Queued, <<cur>>)
          /\ Follows(wal', Received, wire)
          /\ conn = "streaming" => Covered(wal', Received \cup BatchChanges(wire), decoded + 1)
    BY <1>2, <1>3, <2>2 DEF Flow
  <2> QED BY <1>1, <2>1, <2>3, <2>4 DEF Flow
<1>6. InOrder'
  <2>1. written \cup snap \in SUBSET Committed(wal)
    BY <1>2
  <2>2. DownClosed(wal', written) /\ DownClosed(wal', written \cup snap)
    BY <1>2, <1>3, <2>1 DEF InOrder
  <2> QED BY <1>1, <2>2 DEF InOrder
<1> QED BY <1>4, <1>5, <1>6

\* The invariant is inductive ...
LEMMA SafeStep == Span = {0} /\ Safe /\ [Next]_vars => Safe'
<1> SUFFICES ASSUME Span = {0}, Safe, [Next]_vars PROVE Safe'
  OBVIOUS
<1>1. Shape'
  BY ShapeStep DEF Safe
<1>2. CASE LogIsRead
  BY <1>1, <1>2, AnchorsStep, FlowStep, InOrderStep DEF Safe
<1>3. CASE SourceStep
  BY <1>1, <1>3, SafeWhenLogGrows DEF Safe
<1> QED BY <1>2, <1>3, OnlySourceWrites

\* The log that a snapshot finds.
LEMMA OldLogWellFormed ==
  ASSUME NEW old \in Ascending(OldTxns)
  PROVE  WellFormed(OldLog(old))
<1> DEFINE n == Cardinality(OldTxns)
           log == OldLog(old)
<1>1. n \in Nat /\ OldTxns \subseteq Txn /\ Txn \subseteq Nat
  BY PipelineAssumption, FS_CardinalityType
<1>2. /\ old \in [1..n -> OldTxns]
      /\ \A k, l \in 1..n : k < l => old[k] < old[l]
  <2>1. old \in [1..n -> OldTxns]
    BY DEF Ascending
  <2>2. \A k, l \in DOMAIN old : k < l => old[k] < old[l]
    BY DEF Ascending
  <2> QED BY <2>1, <2>2
<1> HIDE DEF n
<1>3. Len(old) = n /\ \A k \in 1..n : old[k] \in Txn /\ old[k] \in Nat
  <2>1. Len(old) = n
    <3>1. old \in Seq(OldTxns) /\ DOMAIN old = 1..n
      BY <1>1, <1>2
    <3>2. Len(old) \in Nat /\ DOMAIN old = 1..Len(old)
      BY <3>1, LenProperties
    <3>3. \A k, l \in Nat : 1..k = 1..l => k = l
      <4> SUFFICES ASSUME NEW k \in Nat, NEW l \in Nat, k < l, 1..k = 1..l PROVE FALSE
        OBVIOUS
      <4>1. l \in 1..l /\ l \notin 1..k
        OBVIOUS
      <4> QED BY <4>1
    <3> HIDE DEF n
    <3> QED BY <1>1, <3>1, <3>2, <3>3
  <2>2. \A k \in 1..n : old[k] \in OldTxns
    BY <1>2
  <2> QED BY <1>1, <2>1, <2>2
<1>4. \A k, l \in 1..n : old[k] = old[l] => k = l
  <2> SUFFICES ASSUME NEW k \in 1..n, NEW l \in 1..n, old[k] = old[l], k < l \/ l < k
               PROVE  FALSE
    BY <1>1
  <2> QED BY <1>2, <1>3
<1>5. \A i \in 1..(2 * n) : (i + 1) \div 2 \in 1..n
  BY <1>1
<1>6. /\ DOMAIN log = 1..(2 * n)
      /\ \A i \in 1..(2 * n) :
           /\ log[i].kind = IF i % 2 = 1 THEN "change" ELSE "commit"
           /\ log[i].txn = old[(i + 1) \div 2]
           /\ log[i] \in Record
  <2>1. log = [i \in 1..(2 * n) |-> [kind |-> IF i % 2 = 1 THEN "change" ELSE "commit",
                                    txn |-> old[(i + 1) \div 2], span |-> 0]]
    BY <1>3 DEF OldLog
  <2>2. \A i \in 1..(2 * n) : old[(i + 1) \div 2] \in Txn
    BY <1>3, <1>5
  <2> QED BY <2>1, <2>2 DEF Record
<1>7. log \in Seq(Record)
  <2>1. log \in [1..(2 * n) -> Record]
    BY <1>6 DEF OldLog
  <2>2. 2 * n \in Nat
    BY <1>1
  <2> QED BY <2>1, <2>2
<1> HIDE DEF log
<1>8. ASSUME NEW i \in Changes(log), NEW j \in Commits(log), log[i].txn = log[j].txn
      PROVE  i < j
  <2>1. i \in 1..(2 * n) /\ i % 2 = 1 /\ j \in 1..(2 * n) /\ j % 2 # 1
    BY <1>6 DEF Changes, Commits
  <2>2. (i + 1) \div 2 = (j + 1) \div 2
    BY <1>4, <1>5, <1>6, <1>8, <2>1
  <2> QED BY <1>1, <2>1, <2>2
<1>9. ASSUME NEW i \in Commits(log), NEW j \in Commits(log), log[i].txn = log[j].txn
      PROVE  i = j
  <2>1. i \in 1..(2 * n) /\ i % 2 # 1 /\ j \in 1..(2 * n) /\ j % 2 # 1
    BY <1>6 DEF Commits
  <2>2. (i + 1) \div 2 = (j + 1) \div 2
    BY <1>4, <1>5, <1>6, <1>9, <2>1
  <2> QED BY <1>1, <2>1, <2>2
<1>10. WellFormed(log)
  BY <1>7, <1>8, <1>9 DEF WellFormed
<1> QED BY <1>10 DEF log

\* ... holds at first ...
LEMMA SafeInit == Init => Safe
<1> SUFFICES ASSUME Init PROVE Safe
  OBVIOUS
<1>1. WellFormed(wal) /\ (~snapshots => wal = <<>>)
  <2>1. PICK old \in Ascending(OldTxns) : wal = IF snapshots THEN OldLog(old) ELSE <<>>
    BY DEF Init
  <2>2. WellFormed(<<>>)
    BY DEF WellFormed, Changes, Commits
  <2> QED BY <2>1, <2>2, OldLogWellFormed
<1>2. Len(wal) \in Nat
  BY <1>1, LogFacts
<1>3. Labels
  <2>1. /\ snapshots \in BOOLEAN /\ started = FALSE
    BY PipelineAssumption DEF Init
  <2>2. /\ conn = "broken" /\ proc = "down" /\ lpc = "start" /\ wpc = "idle" /\ queue = <<>>
        /\ retry = [th \in Thread |-> "op"]
    BY DEF Init
  <2> QED BY <2>1, <2>2 DEF Labels
<1>4. \A th \in Thread : ~InUse(th)
  BY DEF Init, InUse
<1>5. Positions
  BY <1>2, <1>4 DEF Init, Positions
<1>6. Contents
  <2>1. <<>> \in Seq(Message(wal))
    BY NoMessages
  <2> QED BY <2>1 DEF Init, Contents
<1>7. Anchors
  <2>1. ~snapshots => confirmed = 1
    BY <1>1 DEF Init
  <2> QED BY <1>4, <2>1 DEF Init, Anchors
<1>8. Flow
  <2>1. /\ \A D : Follows(wal, D, <<>>) /\ Follows(wal, D, <<NoMessage>>)
    BY <1>1, NoMessages, NoMessageIsEmpty
  <2> QED BY <2>1 DEF Init, Flow
<1>9. InOrder
  <2>1. written = {} /\ written \cup snap = {}
    BY DEF Init
  <2> QED BY <2>1 DEF InOrder, DownClosed
<1> QED BY <1>1, <1>3, <1>5, <1>6, <1>7, <1>8, <1>9 DEF Safe, Shape

\* ... and so always.
LEMMA SafeAlways == Span = {0} /\ Spec => []Safe
<1> SUFFICES ASSUME Span = {0} PROVE Spec => []Safe
  OBVIOUS
<1>1. Safe /\ [Next]_vars => Safe'
  BY SafeStep
<1> QED BY <1>1, SafeInit, PTL DEF Spec

-----------------------------------------------------------------------------
(* The theorems.                                                           *)

\* Whatever the slot will never send again is in the target: connections that break,
\* goroutines that reset the connection under each other, crashes, signals and failed
\* writes, before, during or after the initial snapshot, lose nothing
\* (Checkpointer.SyncLSN, Handler.ResetConnection, Listener.Listen).
THEOREM ConfirmedLosesNothing == Span = {0} /\ Spec => []ConfirmedIsWritten
<1> SUFFICES ASSUME Span = {0} PROVE Spec => []ConfirmedIsWritten
  OBVIOUS
<1>1. Safe => ConfirmedIsWritten
  BY DEF Safe, Anchors, Covered, ConfirmedIsWritten
<1> QED BY <1>1, SafeAlways, PTL

\* The target never holds a change without those committed before it, however often
\* the stream went back to an earlier position (Listener.listen, the processor's queue,
\* Handler.StartReplicationFromLSN).
THEOREM TargetIsAPrefix == Span = {0} /\ Spec => []WrittenInCommitOrder
<1> SUFFICES ASSUME Span = {0} PROVE Spec => []WrittenInCommitOrder
  OBVIOUS
<1>1. Safe => WrittenInCommitOrder
  BY DEF Safe, InOrder, DownClosed, WrittenInCommitOrder
<1> QED BY <1>1, SafeAlways, PTL

\* A session begins where the one before it, or the snapshot, ended: what the
\* walsender has passed over is in the target or in one of the queues between them
\* (Handler.StartReplicationFromLSN, Listener.Listen).
THEOREM SessionsMeet == Span = {0} /\ Spec => []NothingFallsBetween
<1> SUFFICES ASSUME Span = {0} PROVE Spec => []NothingFallsBetween
  OBVIOUS
<1>1. Safe => NothingFallsBetween
  <2> SUFFICES ASSUME Safe, conn = "streaming", proc = "up", wpc # "failed",
                      NEW i \in Committed(wal), CommitLSN(wal, i) <= decoded
               PROVE  i \in written \cup InFlight
    BY DEF NothingFallsBetween
  <2>1. Covered(wal, Received \cup BatchChanges(wire), decoded + 1)
    BY DEF Safe, Shape, Labels, Flow
  <2>2. CommitLSN(wal, i) < decoded + 1
    <3>1. CommitLSN(wal, i) \in Nat /\ decoded \in Nat
      BY LogFacts DEF Safe, Shape, Positions
    <3> QED BY <3>1
  <2>3. i \in Received \cup BatchChanges(wire)
    BY <2>1, <2>2 DEF Covered
  <2>4. lpc # "deliver" => BatchChanges(<<cur>>) = {}
    BY NoMessageIsEmpty DEF Safe, Shape, Contents
  <2> QED BY <2>3, <2>4 DEF Received, Queued, Taken, InFlight
<1> QED BY <1>1, SafeAlways, PTL
=============================================================================
