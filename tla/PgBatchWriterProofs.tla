-------------------------- MODULE PgBatchWriterProofs --------------------------
(***************************************************************************)
(* The batch writer loses no change: whatever the source's history, the    *)
(* batch boundaries, the chunk size, the faults and the redeliveries, a    *)
(* confirmed position is one up to which every change was committed or     *)
(* refused by the target.                                                  *)
(*                                                                         *)
(* And a target that accepts every change shows the source: a state the    *)
(* source went through until something is delivered twice, and the         *)
(* source's last one when everything has been sent, over any number of     *)
(* crashes, resets and unacknowledged commits.                             *)
(***************************************************************************)
EXTENDS PgBatchWriter, FiniteSetTheorems, SequenceTheorems, TLAPS

\* The part of the types this argument needs; the target's tables are not.
TypeInv ==
    /\ confirmed \in Nat
    /\ next \in Nat \ {0}
    /\ pending \in Seq(Nat)
    /\ batch \in Seq(Nat)
    /\ rest \in Seq(Nat)
    /\ queries \in Seq(Seq(Nat))
    /\ retry \in Seq(Seq(Nat))
    /\ lastErr \in {None, Data, Lost}

\* Between batches nothing of a batch is left.
Idle ==
    phase = "collecting" => batch = <<>> /\ rest = <<>> /\ queries = <<>>

\* While a batch is being sent, a change of it is settled, or in a query of the
\* run being flushed, or in a run still to come.
BatchKept ==
    phase = "flushing" =>
        Range(batch) \subseteq settled \union Range(rest) \union ChangesOf(queries)

\* When the retrier gives up on an error of the target's, retryQueries is
\* everything but what was refused.
RetryKept ==
    lastErr = Data =>
        /\ queries # <<>>
        /\ ChangesOf(queries) \subseteq settled \union ChangesOf(retry)

\* What lies between the confirmed position and a change of the batch was
\* settled, or is in the batch too; and so on for the changes collected and for
\* the position the stream has reached.
BatchReaches ==
    \A p \in Range(batch) : confirmed + 1 .. p \subseteq settled \union Range(batch)
PendingReaches ==
    \A p \in Range(pending) :
        confirmed + 1 .. p \subseteq settled \union Range(batch) \union Range(pending)
StreamReaches ==
    confirmed + 1 .. next - 1 \subseteq settled \union Range(batch) \union Range(pending)

Inv ==
    /\ TypeInv
    /\ Idle
    /\ BatchKept
    /\ RetryKept
    /\ BatchReaches
    /\ PendingReaches
    /\ StreamReaches
    /\ NothingLost
-----------------------------------------------------------------------------
(* Sequences of positions and of queries.                                  *)

\* Appending a position adds it to the positions of a sequence.
LEMMA RangeAppend ==
    ASSUME NEW s \in Seq(Nat), NEW p \in Nat
    PROVE  Range(Append(s, p)) = Range(s) \union {p}
<1>1. Len(Append(s, p)) = Len(s) + 1 /\ DOMAIN Append(s, p) = 1..Len(s) + 1
  OBVIOUS
<1>2. \A i \in 1..Len(s) : Append(s, p)[i] = s[i]
  OBVIOUS
<1>3. Append(s, p)[Len(s) + 1] = p
  OBVIOUS
<1>4. DOMAIN s = 1..Len(s) /\ Len(s) \in Nat
  OBVIOUS
<1> QED
  BY <1>1, <1>2, <1>3, <1>4 DEF Range

\* Cutting a sequence in two keeps its elements.
LEMMA RangeCut ==
    ASSUME NEW S, NEW s \in Seq(S), NEW n \in 0..Len(s)
    PROVE  /\ SubSeq(s, 1, n) \in Seq(S)
           /\ SubSeq(s, n + 1, Len(s)) \in Seq(S)
           /\ Len(SubSeq(s, 1, n)) = n
           /\ Range(s) = Range(SubSeq(s, 1, n)) \union Range(SubSeq(s, n + 1, Len(s)))
<1>1. Len(s) \in Nat /\ n \in Int /\ n + 1 \in Int /\ Len(s) \in Int /\ 0 <= n
  BY LenProperties
<1>2. \A i \in 1..Len(s) : s[i] \in S
  BY ElementOfSeq
<1>3. (\A i \in 1..n : s[i] \in S) /\ (\A i \in n + 1 .. Len(s) : s[i] \in S)
  BY <1>1, <1>2
<1>4. SubSeq(s, 1, n) \in Seq(S) /\ Len(SubSeq(s, 1, n)) = n
  <2>1. /\ SubSeq(s, 1, n) \in Seq(S)
        /\ Len(SubSeq(s, 1, n)) = IF 1 <= n THEN n - 1 + 1 ELSE 0
    BY <1>1, <1>3, SubSeqProperties
  <2> QED
    BY <1>1, <2>1
<1>5. SubSeq(s, n + 1, Len(s)) \in Seq(S)
  BY <1>1, <1>3, SubSeqProperties
<1>6. SubSeq(s, 1, n) \o SubSeq(s, n + 1, Len(s)) = s
  <2>1. 1 \in 1..Len(s) + 1 /\ n \in (1 - 1)..Len(s) /\ Len(s) \in n..Len(s)
    BY <1>1
  <2>2. SubSeq(s, 1, n) \o SubSeq(s, n + 1, Len(s)) = SubSeq(s, 1, Len(s))
    BY <2>1, ConcatAdjacentSubSeq
  <2> QED
    BY <2>2, SubSeqFull
<1>7. Range(SubSeq(s, 1, n) \o SubSeq(s, n + 1, Len(s)))
        = Range(SubSeq(s, 1, n)) \union Range(SubSeq(s, n + 1, Len(s)))
  BY <1>4, <1>5, RangeConcatenation, ZenonT(30)
<1> QED
  BY <1>4, <1>5, <1>6, <1>7

\* removeIndex keeps the changes of every query but the one it removes.
LEMMA RemoveKeepsOthers ==
    ASSUME NEW qs \in Seq(Seq(Nat)), NEW i \in DOMAIN qs
    PROVE  /\ RemoveAt(qs, i) \in Seq(Seq(Nat))
           /\ ChangesOf(qs) \subseteq Range(qs[i]) \union ChangesOf(RemoveAt(qs, i))
<1> DEFINE head == SubSeq(qs, 1, i - 1)
           tail == SubSeq(qs, i + 1, Len(qs))
<1>0. i \in 1..Len(qs) /\ i - 1 \in 0..Len(qs) /\ i \in 0..Len(qs) /\ Len(qs) \in Nat
  BY LenProperties
<1>1. head \in Seq(Seq(Nat)) /\ tail \in Seq(Seq(Nat))
  BY <1>0, RangeCut
<1>2. RemoveAt(qs, i) = head \o tail
  BY DEF RemoveAt
<1>3. Range(head \o tail) = Range(head) \union Range(tail)
  BY <1>1, RangeConcatenation, ZenonT(30)
<1>4. Range(qs) = Range(SubSeq(qs, 1, i)) \union Range(tail)
  BY <1>0, RangeCut
<1>5. Range(SubSeq(qs, 1, i)) = Range(head) \union {qs[i]}
  <2>1. 1 \in 1..Len(qs) /\ i \in 1..Len(qs)
    BY <1>0
  <2> DEFINE one == <<qs[i]>>
  <2>2. SubSeq(qs, 1, i) = head \o one
    BY <2>1, SubSeqRecursiveSecond
  <2>3. qs[i] \in Seq(Nat)
    BY <1>0, ElementOfSeq
  <2>4. one \in Seq(Seq(Nat)) /\ Range(one) = {qs[i]}
    BY <2>3 DEF Range
  <2> HIDE DEF head, one
  <2>5. Range(head \o one) = Range(head) \union Range(one)
    BY <1>1, <2>4, RangeConcatenation
  <2> QED
    BY <2>2, <2>4, <2>5
<1>6. head \o tail \in Seq(Seq(Nat))
  BY <1>1, ConcatProperties
<1>7. Range(qs) = Range(head \o tail) \union {qs[i]}
  BY <1>3, <1>4, <1>5
<1> HIDE DEF head, tail
<1>8. ChangesOf(qs) \subseteq Range(qs[i]) \union ChangesOf(head \o tail)
  BY <1>7 DEF ChangesOf
<1> QED
  BY <1>2, <1>6, <1>8

\* A run is not empty and not longer than what is left of the batch.
LEMMA RunLengthRange ==
    ASSUME NEW ps \in Seq(Nat), ps # <<>>
    PROVE  RunLength(ps) \in 1..Len(ps)
<1> DEFINE N == {n \in 1..Len(ps) : \A i \in 2..n : Continues(ps[1], ps[i])}
<1>1. Len(ps) \in Nat /\ Len(ps) >= 1
  BY LenProperties, EmptySeq
<1>2. IsFiniteSet(1..Len(ps)) /\ Cardinality(1..Len(ps)) = Len(ps)
  BY <1>1, FS_Interval
<1>3. N \subseteq 1..Len(ps) /\ 1 \in N
  BY <1>1
<1> HIDE DEF N
<1>4. IsFiniteSet(N) /\ Cardinality(N) <= Len(ps)
  BY <1>2, <1>3, FS_Subset, ZenonT(30)
<1>5. Cardinality(N) \in Nat /\ Cardinality(N) # 0
  BY <1>3, <1>4, FS_CardinalityType, FS_EmptySet
<1>6. Cardinality(N) \in 1..Len(ps)
  BY <1>1, <1>4, <1>5
<1> QED
  BY <1>6 DEF N, RunLength

\* A part of a sequence holds the elements between its ends.
LEMMA SubSeqHolds ==
    ASSUME NEW s \in Seq(Nat), NEW a \in Nat \ {0}, NEW b \in 0..Len(s)
    PROVE  /\ SubSeq(s, a, b) \in Seq(Nat)
           /\ \A j \in a..b : s[j] \in Range(SubSeq(s, a, b))
<1>1. /\ Len(s) \in Nat /\ a \in Int /\ b \in Int /\ a >= 1 /\ 0 <= b /\ b <= Len(s)
      /\ \A i \in 1..Len(s) : s[i] \in Nat
  BY LenProperties, ElementOfSeq
<1>2. \A i \in a..b : s[i] \in Nat
  BY <1>1
<1>3. /\ SubSeq(s, a, b) \in Seq(Nat)
      /\ Len(SubSeq(s, a, b)) = IF a <= b THEN b - a + 1 ELSE 0
      /\ \A i \in 1 .. b - a + 1 : SubSeq(s, a, b)[i] = s[a + i - 1]
  BY <1>1, <1>2, SubSeqProperties
<1>4. ASSUME NEW j \in a..b PROVE s[j] \in Range(SubSeq(s, a, b))
  <2>1. /\ j - a + 1 \in 1 .. b - a + 1
        /\ a + (j - a + 1) - 1 = j
        /\ Len(SubSeq(s, a, b)) = b - a + 1
    BY <1>1, <1>3, <1>4
  <2>2. SubSeq(s, a, b)[j - a + 1] = s[j]
    BY <1>3, <2>1
  <2>3. j - a + 1 \in DOMAIN SubSeq(s, a, b)
    BY <1>3, <2>1, LenProperties
  <2> QED
    BY <2>2, <2>3 DEF Range
<1> QED
  BY <1>3, <1>4

\* The smaller of two numbers.
LEMMA MinOfTwo ==
    ASSUME NEW a \in Nat, NEW b \in Nat
    PROVE  Min({a, b}) = IF a <= b THEN a ELSE b
BY DEF Min

\* The chunks of a run are the run.
LEMMA ChunksCover ==
    ASSUME NEW run \in Seq(Nat), run # <<>>, NEW size \in Nat \ {0}
    PROVE  /\ Chunks(run, size) \in Seq(Seq(Nat))
           /\ Range(run) \subseteq ChangesOf(Chunks(run, size))
<1> DEFINE L == Len(run)
           count == (L + size - 1) \div size
           from(i) == (i - 1) * size + 1
           upto(i) == Min({i * size, L})
           chunk(i) == SubSeq(run, from(i), upto(i))
<1>1. L \in Nat /\ L >= 1 /\ size \in Nat /\ size >= 1
  BY LenProperties, EmptySeq
<1>2. count \in Nat /\ L + size - 1 < count * size + size
  BY <1>1
<1>3. ASSUME NEW i \in 1..count
      PROVE  /\ from(i) \in Nat \ {0} /\ upto(i) \in 0..L
             /\ upto(i) = IF i * size <= L THEN i * size ELSE L
             /\ chunk(i) \in Seq(Nat)
             /\ \A j \in from(i)..upto(i) : run[j] \in Range(chunk(i))
  <2>1. (i - 1) * size \in Nat /\ i * size \in Nat
    BY <1>1, <1>2
  <2>2. upto(i) = IF i * size <= L THEN i * size ELSE L
    BY <1>1, <2>1, MinOfTwo
  <2>3. from(i) \in Nat \ {0} /\ upto(i) \in 0..L
    BY <1>1, <2>1, <2>2, SMTT(30)
  <2> HIDE DEF from, upto
  <2>4. /\ SubSeq(run, from(i), upto(i)) \in Seq(Nat)
        /\ \A j \in from(i)..upto(i) : run[j] \in Range(SubSeq(run, from(i), upto(i)))
    BY <2>3, SubSeqHolds
  <2> QED
    BY <2>2, <2>3, <2>4
<1>4. Chunks(run, size) = [i \in 1..count |-> chunk(i)]
  BY DEF Chunks
<1>5. ASSUME NEW j \in 1..L
      PROVE  \E i \in 1..count : j \in from(i)..upto(i)
  <2> DEFINE d == (j - 1) \div size
  <2>1. d \in Nat /\ d * size <= j - 1 /\ j - 1 < d * size + size
    BY <1>1
  <2>2. d * size < count * size
    BY <1>1, <1>2, <2>1
  <2> HIDE DEF d, count
  <2>3. d < count
    BY <1>1, <1>2, <2>1, <2>2
  <2>4. d + 1 \in 1..count /\ (d + 1) * size = d * size + size /\ (d + 1) - 1 = d
    BY <1>1, <1>2, <2>1, <2>3
  <2>5. from(d + 1) = d * size + 1
    BY <2>4
  <2> HIDE DEF from, upto
  <2>6. upto(d + 1) = IF (d + 1) * size <= L THEN (d + 1) * size ELSE L
    BY <1>3, <2>4
  <2>7. upto(d + 1) \in 0..L /\ from(d + 1) \in Nat \ {0}
    BY <1>3, <2>4
  <2>8. j \in from(d + 1)..upto(d + 1)
    BY <1>1, <2>1, <2>4, <2>5, <2>6, <2>7
  <2> QED
    BY <2>4, <2>8
<1> HIDE DEF count, from, upto, chunk
<1>6. Chunks(run, size) \in Seq(Seq(Nat)) /\ DOMAIN Chunks(run, size) = 1..count
  <2>1. Chunks(run, size) \in [1..count -> Seq(Nat)]
    BY <1>3, <1>4
  <2> QED
    BY <1>2, <2>1
<1>7. ASSUME NEW x \in Range(run) PROVE x \in ChangesOf(Chunks(run, size))
  <2>1. PICK j \in 1..L : x = run[j]
    BY RangeEquality
  <2>2. PICK i \in 1..count : j \in from(i)..upto(i)
    BY <1>5, <2>1
  <2>3. x \in Range(chunk(i))
    BY <1>3, <2>1, <2>2
  <2>4. chunk(i) \in Range(Chunks(run, size))
    BY <1>4, <1>6, <2>2 DEF Range
  <2> QED
    BY <2>3, <2>4 DEF ChangesOf
<1> QED
  BY <1>6, <1>7

\* The queries of a run hold every change of the run.
LEMMA QueriesCover ==
    ASSUME NEW run \in Seq(Nat), run # <<>>
    PROVE  /\ buildCoalescedQueries(run) \in Seq(Seq(Nat))
           /\ Range(run) \subseteq ChangesOf(buildCoalescedQueries(run))
<1>1. CASE log[run[1]].op = Delete
  <2>1. buildCoalescedQueries(run) = <<run>>
    BY <1>1 DEF buildCoalescedQueries, Delete, Insert
  <2>2. <<run>> \in Seq(Seq(Nat)) /\ Range(<<run>>) = {run}
    BY DEF Range
  <2> QED
    BY <2>1, <2>2 DEF ChangesOf
<1>2. CASE log[run[1]].op = Insert /\ log[run[1]].op # Delete
  <2>1. buildCoalescedQueries(run) = Chunks(run, RowsPerChunk)
    BY <1>2 DEF buildCoalescedQueries, Delete, Insert
  <2> QED
    BY <2>1, ChunksCover, ConstantsOK
<1>3. CASE log[run[1]].op \notin {Insert, Delete}
  <2>1. buildCoalescedQueries(run) = Chunks(run, 1)
    BY <1>3 DEF buildCoalescedQueries, Delete, Insert
  <2> QED
    BY <2>1, ChunksCover
<1> QED
  BY <1>1, <1>2, <1>3
-----------------------------------------------------------------------------
(* The invariant.                                                          *)

LEMMA EmptyRange == Range(<<>>) = {} /\ ChangesOf(<<>>) = {}
BY DEF Range, ChangesOf

LEMMA InitInv == Init => Inv
<1> SUFFICES ASSUME Init PROVE Inv
  OBVIOUS
<1>1. TypeInv
  BY DEF Init, TypeInv
<1>2. Idle /\ BatchKept /\ RetryKept
  BY DEF Init, Idle, BatchKept, RetryKept, None, Data
<1>3. BatchReaches /\ PendingReaches /\ StreamReaches
  BY EmptyRange DEF Init, BatchReaches, PendingReaches, StreamReaches
<1>4. NothingLost
  BY DEF Init, NothingLost
<1> QED
  BY <1>1, <1>2, <1>3, <1>4 DEF Inv

\* What is reached stays reached when a step of the flush only settles changes.
LEMMA FlushKeepsReach ==
    ASSUME Inv, UNCHANGED <<confirmed, next, pending, batch>>, settled \subseteq settled'
    PROVE  BatchReaches' /\ PendingReaches' /\ StreamReaches' /\ NothingLost'
BY DEF Inv, BatchReaches, PendingReaches, StreamReaches, NothingLost

LEMMA ReceivesInv == Inv /\ Receives => Inv'
<1> SUFFICES ASSUME Inv, Receives PROVE Inv'
  OBVIOUS
<1> USE DEF Inv
<1>1. /\ pending' = Append(pending, next) /\ next' = next + 1
      /\ UNCHANGED <<confirmed, batch, rest, flush, phase, settled>>
  BY DEF Receives
<1>2. TypeInv'
  BY <1>1 DEF TypeInv, flush
<1>3. Idle' /\ BatchKept' /\ RetryKept'
  BY <1>1 DEF Idle, BatchKept, RetryKept, flush
<1>4. next \in Nat /\ confirmed \in Nat /\ Range(pending') = Range(pending) \union {next}
  BY <1>1, RangeAppend DEF TypeInv
<1>5. confirmed + 1 .. next \subseteq (confirmed + 1 .. next - 1) \union {next}
  BY <1>4
<1>6. confirmed + 1 .. next \subseteq settled \union Range(batch) \union Range(pending')
  BY <1>4, <1>5 DEF StreamReaches
<1>7. BatchReaches' /\ NothingLost'
  BY <1>1 DEF BatchReaches, NothingLost
<1>8. PendingReaches'
  BY <1>1, <1>4, <1>6 DEF PendingReaches
<1>9. StreamReaches'
  <2>1. next' - 1 = next
    BY <1>1, <1>4
  <2> QED
    BY <1>1, <1>6, <2>1 DEF StreamReaches
<1> QED
  BY <1>2, <1>3, <1>7, <1>8, <1>9

LEMMA ResetInv == Inv /\ ConnectionResets => Inv'
<1> SUFFICES ASSUME Inv, ConnectionResets PROVE Inv'
  OBVIOUS
<1> USE DEF Inv
<1>1. next' = confirmed + 1 /\ UNCHANGED <<pending, confirmed, batch, rest, flush, phase, settled>>
  BY DEF ConnectionResets
<1>2. TypeInv'
  BY <1>1 DEF TypeInv, flush
<1>3. Idle' /\ BatchKept' /\ RetryKept'
  BY <1>1 DEF Idle, BatchKept, RetryKept, flush
<1>4. BatchReaches' /\ PendingReaches' /\ NothingLost'
  BY <1>1 DEF BatchReaches, PendingReaches, NothingLost
<1>5. StreamReaches'
  <2>1. confirmed \in Nat
    BY DEF TypeInv
  <2>2. confirmed' + 1 .. next' - 1 = {}
    BY <1>1, <2>1
  <2> QED
    BY <2>2 DEF StreamReaches
<1> QED
  BY <1>2, <1>3, <1>4, <1>5

LEMMA StartsOverInv == Inv /\ StartsOver => Inv'
<1> SUFFICES ASSUME Inv, StartsOver PROVE Inv'
  OBVIOUS
<1> USE DEF Inv
<1>1. /\ next' = confirmed + 1 /\ pending' = <<>> /\ batch' = <<>> /\ rest' = <<>>
      /\ queries' = <<>> /\ retry' = <<>> /\ lastErr' = None /\ phase' = "collecting"
      /\ UNCHANGED <<confirmed, settled>>
  BY DEF StartsOver
<1>2. confirmed \in Nat
  BY DEF TypeInv
<1>3. TypeInv'
  BY <1>1, <1>2 DEF TypeInv
<1>4. Idle' /\ BatchKept' /\ RetryKept'
  BY <1>1 DEF Idle, BatchKept, RetryKept, None, Data
<1>5. confirmed' + 1 .. next' - 1 = {}
  BY <1>1, <1>2
<1>6. BatchReaches' /\ PendingReaches' /\ StreamReaches' /\ NothingLost'
  BY <1>1, <1>5, EmptyRange DEF BatchReaches, PendingReaches, StreamReaches, NothingLost
<1> QED
  BY <1>3, <1>4, <1>6

LEMMA SendsBatchInv == Inv /\ SendsBatch => Inv'
<1> SUFFICES ASSUME Inv, SendsBatch PROVE Inv'
  OBVIOUS
<1> USE DEF Inv
<1>1. /\ batch' = pending /\ rest' = pending /\ pending' = <<>> /\ phase' = "flushing"
      /\ UNCHANGED <<confirmed, next, flush, settled>>
      /\ phase = "collecting"
  BY DEF SendsBatch
<1>2. batch = <<>>
  BY <1>1 DEF Idle
<1>3. TypeInv'
  BY <1>1 DEF TypeInv, flush
<1>4. Idle' /\ BatchKept' /\ RetryKept'
  BY <1>1 DEF Idle, BatchKept, RetryKept, flush
<1>5. BatchReaches' /\ PendingReaches' /\ StreamReaches' /\ NothingLost'
  BY <1>1, <1>2, EmptyRange DEF BatchReaches, PendingReaches, StreamReaches, NothingLost
<1> QED
  BY <1>3, <1>4, <1>5

LEMMA FlushesRunInv == Inv /\ FlushesRun => Inv'
<1> SUFFICES ASSUME Inv, FlushesRun PROVE Inv'
  OBVIOUS
<1> USE DEF Inv
<1> DEFINE n == RunLength(rest)
           run == SubSeq(rest, 1, n)
           left == SubSeq(rest, n + 1, Len(rest))
<1>1. /\ queries = <<>> /\ rest # <<>> /\ phase = "flushing"
      /\ queries' = buildCoalescedQueries(run) /\ rest' = left
      /\ UNCHANGED <<confirmed, next, pending, batch, retry, lastErr, phase, settled>>
  BY DEF FlushesRun, stream
<1>2. rest \in Seq(Nat) /\ n \in 1..Len(rest) /\ Len(rest) \in Nat
  BY <1>1, RunLengthRange, LenProperties DEF TypeInv
<1>3. /\ run \in Seq(Nat) /\ left \in Seq(Nat) /\ Len(run) = n
      /\ Range(rest) = Range(run) \union Range(left)
  <2>1. n \in 0..Len(rest)
    BY <1>2
  <2> QED
    BY <1>2, <2>1, RangeCut
<1>4. run # <<>>
  BY <1>2, <1>3
<1> HIDE DEF n, run, left
<1>5. queries' \in Seq(Seq(Nat)) /\ Range(run) \subseteq ChangesOf(queries')
  BY <1>1, <1>3, <1>4, QueriesCover
<1>6. TypeInv'
  BY <1>1, <1>3, <1>5 DEF TypeInv
<1>7. Idle'
  BY <1>1 DEF Idle
<1>8. BatchKept'
  BY <1>1, <1>3, <1>5, EmptyRange DEF BatchKept
<1>9. RetryKept'
  BY <1>1 DEF RetryKept
<1> QED
  BY <1>1, <1>6, <1>7, <1>8, <1>9, FlushKeepsReach

LEMMA CheckpointsInv == Inv /\ Checkpoints => Inv'
<1> SUFFICES ASSUME Inv, Checkpoints PROVE Inv'
  OBVIOUS
<1> USE DEF Inv
<1>1. /\ phase = "flushing" /\ queries = <<>> /\ rest = <<>>
      /\ batch' = <<>> /\ phase' = "collecting"
      /\ UNCHANGED <<next, pending, rest, queries, retry, lastErr, settled>>
  BY DEF Checkpoints, stream, flush
<1>2. PICK p \in Range(batch) \union {confirmed} :
        /\ \A q \in Range(batch) \union {confirmed} : q <= p
        /\ confirmed' = p
  BY DEF Checkpoints
<1>3. Range(batch) \subseteq settled
  BY <1>1, EmptyRange DEF BatchKept
<1>4. confirmed \in Nat /\ confirmed' \in Nat /\ confirmed <= confirmed' /\ next \in Nat
  BY <1>2, RangeOfSeq DEF TypeInv
<1>5. confirmed + 1 .. confirmed' \subseteq settled
  <2>1. CASE confirmed' = confirmed
    BY <1>4, <2>1
  <2>2. CASE confirmed' \in Range(batch)
    BY <1>3, <2>2 DEF BatchReaches
  <2> QED
    BY <1>2, <2>1, <2>2
<1>6. TypeInv'
  BY <1>1, <1>4 DEF TypeInv
<1>7. Idle' /\ BatchKept' /\ RetryKept'
  BY <1>1 DEF Idle, BatchKept, RetryKept
<1>8. NothingLost'
  <2>1. 1..confirmed' \subseteq (1..confirmed) \union (confirmed + 1 .. confirmed')
    BY <1>4
  <2> QED
    BY <1>1, <1>5, <2>1 DEF NothingLost
<1>9. \A q : confirmed' + 1 .. q \subseteq confirmed + 1 .. q
  BY <1>4
<1>10. BatchReaches'
  BY <1>1, EmptyRange DEF BatchReaches
<1>11. PendingReaches' /\ StreamReaches'
  BY <1>1, <1>3, <1>9, EmptyRange DEF PendingReaches, StreamReaches
<1> QED
  BY <1>6, <1>7, <1>8, <1>10, <1>11

\* The steps of the flush leave the stream and the batch as they are.
LEMMA FlushStepInv ==
    ASSUME Inv,
           phase = "flushing",
           UNCHANGED <<confirmed, next, pending, batch, rest>>,
           settled \subseteq settled',
           queries' \in Seq(Seq(Nat)),
           retry' \in Seq(Seq(Nat)),
           lastErr' \in {None, Data, Lost},
           phase' \in {"flushing", "failed"},
           phase' = "flushing" =>
               ChangesOf(queries) \subseteq settled' \union ChangesOf(queries'),
           RetryKept'
    PROVE  Inv'
<1>1. TypeInv'
  BY DEF Inv, TypeInv
<1>2. Idle'
  BY DEF Idle
<1>3. BatchKept'
  BY DEF Inv, BatchKept
<1> QED
  BY <1>1, <1>2, <1>3, FlushKeepsReach DEF Inv

LEMMA TxCommitsInv == Inv /\ TxCommits => Inv'
<1> SUFFICES ASSUME Inv, TxCommits PROVE Inv'
  OBVIOUS
<1>1. /\ phase = "flushing" /\ phase' = phase
      /\ UNCHANGED <<confirmed, next, pending, batch, rest>>
      /\ settled' = settled \union ChangesOf(queries)
      /\ queries' = retry /\ retry' = <<>> /\ lastErr' = None
  BY DEF TxCommits, Executing, Returns, stream
<1>2. retry \in Seq(Seq(Nat)) /\ retry' \in Seq(Seq(Nat))
  BY <1>1 DEF Inv, TypeInv
<1>3. RetryKept'
  BY <1>1 DEF RetryKept, None, Data
<1> QED
  BY <1>1, <1>2, <1>3, FlushStepInv

LEMMA QueryRejectedInv ==
    ASSUME Inv, NEW i \in DOMAIN queries, QueryRejected(i)
    PROVE  Inv'
<1>1. /\ phase = "flushing" /\ phase' = phase
      /\ UNCHANGED <<confirmed, next, pending, batch, rest>>
      /\ settled' = settled \union Range(queries[i])
      /\ queries' = RemoveAt(queries, i) /\ retry' = <<>> /\ lastErr' = None
  BY DEF QueryRejected, Executing, Returns, stream
<1>2. queries \in Seq(Seq(Nat)) /\ retry' \in Seq(Seq(Nat))
  BY <1>1 DEF Inv, TypeInv
<1>3. /\ RemoveAt(queries, i) \in Seq(Seq(Nat))
      /\ ChangesOf(queries) \subseteq Range(queries[i]) \union ChangesOf(RemoveAt(queries, i))
  BY <1>2, RemoveKeepsOthers
<1>4. RetryKept'
  BY <1>1 DEF RetryKept, None, Data
<1> QED
  BY <1>1, <1>2, <1>3, <1>4, FlushStepInv

LEMMA QueryErrsInv ==
    ASSUME Inv, NEW i \in DOMAIN queries, QueryErrs(i)
    PROVE  Inv'
<1> DEFINE err == ErrorOf(Within(queries)[i - 1], queries[i])
<1>1. /\ phase = "flushing" /\ phase' = phase /\ queries # <<>>
      /\ UNCHANGED <<confirmed, next, pending, batch, rest, queries>>
      /\ settled' = IF err = Data THEN settled \union Range(queries[i]) ELSE settled
      /\ err \in {Data, Lost} /\ lastErr' \in {err, Lost}
      /\ retry' = RemoveAt(queries, i)
  BY DEF QueryErrs, TriesAgain, Executing, stream
<1> HIDE DEF err
<1>2. queries \in Seq(Seq(Nat))
  BY DEF Inv, TypeInv
<1>3. /\ RemoveAt(queries, i) \in Seq(Seq(Nat))
      /\ ChangesOf(queries) \subseteq Range(queries[i]) \union ChangesOf(RemoveAt(queries, i))
  BY <1>2, RemoveKeepsOthers
<1>4. RetryKept'
  <2>1. CASE err = Data
    BY <1>1, <1>3, <2>1 DEF RetryKept
  <2>2. CASE err = Lost
    BY <1>1, <2>2 DEF RetryKept, Data, Lost
  <2> QED
    BY <1>1, <2>1, <2>2
<1>5. settled \subseteq settled' /\ lastErr' \in {None, Data, Lost}
  BY <1>1
<1> QED
  BY <1>1, <1>2, <1>3, <1>4, <1>5, FlushStepInv

LEMMA QueryLostInv ==
    ASSUME Inv, NEW i \in DOMAIN queries, QueryLost(i)
    PROVE  Inv'
<1>1. /\ phase = "flushing" /\ phase' = phase
      /\ UNCHANGED <<confirmed, next, pending, batch, rest, queries, settled>>
      /\ retry' = RemoveAt(queries, i) /\ lastErr' = Lost
  BY DEF QueryLost, Executing, stream
<1>2. queries \in Seq(Seq(Nat))
  BY DEF Inv, TypeInv
<1>3. retry' \in Seq(Seq(Nat))
  BY <1>1, <1>2, RemoveKeepsOthers
<1>4. RetryKept'
  BY <1>1 DEF RetryKept, Data, Lost
<1> QED
  BY <1>1, <1>2, <1>3, <1>4, FlushStepInv

LEMMA CommitLostInv ==
    ASSUME Inv, NEW applied \in BOOLEAN, CommitLost(applied)
    PROVE  Inv'
<1>1. /\ phase = "flushing" /\ phase' = phase
      /\ UNCHANGED <<confirmed, next, pending, batch, rest, queries, retry>>
      /\ settled \subseteq settled' /\ lastErr' = Lost
  BY DEF CommitLost, Executing, stream
<1>2. queries \in Seq(Seq(Nat)) /\ retry \in Seq(Seq(Nat))
  BY DEF Inv, TypeInv
<1>3. RetryKept'
  BY <1>1 DEF RetryKept, Data, Lost
<1> QED
  BY <1>1, <1>2, <1>3, FlushStepInv

LEMMA GivesUpInv == Inv /\ GivesUp => Inv'
<1> SUFFICES ASSUME Inv, GivesUp PROVE Inv'
  OBVIOUS
<1>1. /\ phase = "flushing" /\ lastErr # None
      /\ UNCHANGED <<confirmed, next, pending, batch, rest, settled>>
      /\ IF lastErr = Lost
         THEN phase' = "failed" /\ UNCHANGED <<queries, retry, lastErr>>
         ELSE queries' = retry /\ retry' = <<>> /\ lastErr' = None /\ phase' = phase
  BY DEF GivesUp, Executing, Returns, stream, flush
<1>2. /\ queries \in Seq(Seq(Nat)) /\ retry \in Seq(Seq(Nat))
      /\ lastErr \in {None, Data, Lost}
  BY DEF Inv, TypeInv
<1>3. CASE lastErr = Lost
  <2>1. RetryKept'
    BY <1>1, <1>3 DEF RetryKept, Data, Lost
  <2> QED
    BY <1>1, <1>2, <1>3, <2>1, FlushStepInv
<1>4. CASE lastErr = Data
  <2>1. /\ queries' = retry /\ retry' = <<>> /\ lastErr' = None /\ phase' = phase
    BY <1>1, <1>4 DEF Data, Lost
  <2>2. RetryKept'
    BY <2>1 DEF RetryKept, None, Data
  <2>3. ChangesOf(queries) \subseteq settled' \union ChangesOf(queries')
    BY <1>1, <1>4, <2>1 DEF Inv, RetryKept
  <2>4. retry' \in Seq(Seq(Nat))
    BY <2>1
  <2> QED
    BY <1>1, <1>2, <2>1, <2>2, <2>3, <2>4, FlushStepInv
<1> QED
  BY <1>1, <1>2, <1>3, <1>4

LEMMA StutterInv == Inv /\ UNCHANGED vars => Inv'
BY DEF Inv, TypeInv, Idle, BatchKept, RetryKept, BatchReaches, PendingReaches,
       StreamReaches, NothingLost, vars, stream, flush

LEMMA NextInv == Inv /\ [Next]_vars => Inv'
<1> SUFFICES ASSUME Inv, [Next]_vars PROVE Inv'
  OBVIOUS
<1>1. CASE Receives
  BY <1>1, ReceivesInv
<1>2. CASE ConnectionResets
  BY <1>2, ResetInv
<1>3. CASE Crashes \/ Restarts
  <2>1. StartsOver
    BY <1>3 DEF Crashes, Restarts
  <2> QED
    BY <2>1, StartsOverInv
<1>4. CASE SenderStep
  BY <1>4, SendsBatchInv, FlushesRunInv, CheckpointsInv DEF SenderStep
<1>5. CASE AttemptStep
  BY <1>5, TxCommitsInv, GivesUpInv, QueryRejectedInv, QueryErrsInv DEF AttemptStep
<1>6. CASE FaultStep
  BY <1>6, CommitLostInv, QueryLostInv DEF FaultStep
<1>7. CASE Done \/ UNCHANGED vars
  BY <1>7, StutterInv DEF Done
<1> QED
  BY <1>1, <1>2, <1>3, <1>4, <1>5, <1>6, <1>7 DEF Next
-----------------------------------------------------------------------------
\* Whatever position the checkpointer has reported, the target has committed
\* every change up to it or has itself refused it: sendBatch, its runs and chunks,
\* flushQueries and the retrier lose nothing between them, in spite of the
\* retryQueries an earlier attempt left behind.
THEOREM WriterLosesNothing == Spec => []NothingLost
<1>1. Inv => NothingLost
  BY DEF Inv
<1> QED
  BY <1>1, InitInv, NextInv, PTL DEF Spec
\* A set of numbers has a least one: otherwise the numbers below all of its would
\* be finitely many, and each have a successor among them.
LEMMA Least ==
  ASSUME NEW S \in SUBSET Nat, S # {}
  PROVE  \E p \in S : \A q \in S : p <= q
<1> SUFFICES ASSUME \A p \in S : \E q \in S : q < p PROVE FALSE
  OBVIOUS
<1> DEFINE U == {n \in Nat : \A q \in S : n < q}
           next1 == [n \in U |-> n + 1]
<1>1. 0 \in U /\ \A n \in U : n + 1 \in U
  <2>1. \A n \in Nat : (\A q \in S : n <= q) => n \in U
    OBVIOUS
  <2> QED BY <2>1
<1>2. IsFiniteSet(U)
  <2>1. PICK m \in S : TRUE
    OBVIOUS
  <2>2. \A n \in U : n <= m
    OBVIOUS
  <2> QED BY <2>2, FS_BoundedSetOfNaturals
<1>3. next1 \in Injection(U, U)
  BY <1>1 DEF Injection, IsInjective
<1>4. next1 \in Surjection(U, U)
  BY <1>2, <1>3, FS_Injection
<1>5. PICK n \in U : next1[n] = 0
  BY <1>1, <1>4 DEF Surjection
<1> QED BY <1>5

\* Induction, for the numbers that have a property as a set.
LEMMA UpTo ==
  ASSUME NEW N \in Nat, NEW S, 0 \in S, \A n \in 0..N : n \in S /\ n < N => n + 1 \in S
  PROVE  \A n \in 0..N : n \in S
<1> DEFINE Other == {n \in 0..N : n \notin S}
<1> SUFFICES ASSUME Other # {} PROVE FALSE
  OBVIOUS
<1>1. PICK m \in Other : \A q \in Other : m <= q
  <2>1. Other \in SUBSET Nat
    OBVIOUS
  <2> HIDE DEF Other
  <2> QED BY <2>1, Least
<1>2. m # 0 /\ m - 1 \in 0..N /\ m - 1 \notin Other
  BY <1>1
<1> QED BY <1>1, <1>2

\* A function of 0..N that takes steps given one by one.
Iteration(N, D, a, s, f) ==
  f \in [0..N -> D] /\ f[0] = a /\ \A n \in 1..N : f[n] = s[n][f[n - 1]]

\* A sequence of functions can be applied, one after the other.
LEMMA Iterates ==
  ASSUME NEW N \in Nat, NEW D, NEW a \in D, NEW s \in [1..N -> [D -> D]]
  PROVE  \E f : Iteration(N, D, a, s, f)
<1> DEFINE Good == {n \in 0..N : \E f \in [0..n -> D] :
                      f[0] = a /\ \A m \in 1..n : f[m] = s[m][f[m - 1]]}
<1>1. 0 \in Good
  <2> DEFINE f == [m \in 0..0 |-> a]
  <2>1. f \in [0..0 -> D] /\ f[0] = a /\ 1..0 = {} /\ 0 \in 0..N
    OBVIOUS
  <2> HIDE DEF f
  <2> QED BY <2>1
<1>2. ASSUME NEW n \in 0..N, n \in Good, n < N PROVE n + 1 \in Good
  <2>1. PICK f \in [0..n -> D] : f[0] = a /\ \A m \in 1..n : f[m] = s[m][f[m - 1]]
    BY <1>2
  <2> DEFINE e == s[n + 1][f[n]]
             g == [m \in 0..n + 1 |-> IF m = n + 1 THEN e ELSE f[m]]
  <2>2. n + 1 \in 1..N /\ n + 1 \in 0..N /\ f[n] \in D /\ \A m \in 0..n + 1 : m = n + 1 \/ m \in 0..n
    BY <1>2
  <2>3. e \in D
    BY <2>2
  <2> HIDE DEF e
  <2>4. g \in [0..n + 1 -> D]
    BY <2>2, <2>3
  <2>5. g[0] = a /\ g[n + 1] = e /\ \A m \in 0..n : g[m] = f[m]
    BY <1>2, <2>1
  <2>6. \A m \in 1..n + 1 : m = n + 1 \/ (m \in 1..n /\ m \in 0..n)
    BY <1>2
  <2>7. n + 1 - 1 = n /\ n \in 0..n /\ \A m \in 1..n : m - 1 \in 0..n
    BY <1>2
  <2> HIDE DEF g
  <2>8. \A m \in 1..n + 1 : g[m] = s[m][g[m - 1]]
    <3> SUFFICES ASSUME NEW m \in 1..n + 1 PROVE g[m] = s[m][g[m - 1]]
      OBVIOUS
    <3>1. CASE m = n + 1
      <4>1. g[m - 1] = f[n]
        BY <2>5, <2>7, <3>1
      <4> QED BY <2>5, <3>1, <4>1 DEF e
    <3>2. CASE m \in 1..n
      BY <2>1, <2>5, <2>6, <2>7, <3>2
    <3> QED BY <2>6, <3>1, <3>2
  <2> QED BY <2>2, <2>4, <2>5, <2>8
<1>3. N \in Good
  <2> HIDE DEF Good
  <2>1. \A n \in 0..N : n \in Good /\ n < N => n + 1 \in Good
    BY <1>2
  <2>2. \A n \in 0..N : n \in Good
    BY <1>1, <2>1, UpTo
  <2> QED BY <2>2
<1> QED BY <1>3 DEF Iteration

\* What a function given by recursion is made of.
LEMMA Recursion ==
  ASSUME NEW N \in Nat, NEW D, NEW f, f = [n \in 0..N |-> f[n]], f[0] \in D,
         \A n \in 1..N : f[n - 1] \in D => f[n] \in D
  PROVE  f \in [0..N -> D]
<1> DEFINE S == {n \in 0..N : f[n] \in D}
<1>1. 0 \in S
  OBVIOUS
<1>2. ASSUME NEW n \in 0..N, n \in S, n < N PROVE n + 1 \in S
  <2> DEFINE m == n + 1
  <2>1. m \in 1..N /\ m \in 0..N /\ m - 1 = n
    BY <1>2
  <2> HIDE DEF m
  <2>2. m \in S
    BY <1>2, <2>1
  <2> QED BY <2>2 DEF m
<1> HIDE DEF S
<1>3. \A n \in 0..N : n \in S /\ n < N => n + 1 \in S
  BY <1>2
<1>4. \A n \in 0..N : n \in S
  BY <1>1, <1>3, UpTo
<1> QED BY <1>4 DEF S
-----------------------------------------------------------------------------
(* The source, and what a change makes of one row of the target.           *)

Tables == [Key -> Nat]

\* What Init chooses, and no step changes.
Chosen ==
  /\ setting \in Settings
  /\ log \in Histories
  /\ \A n \in DOMAIN log : log[n].op \in setting.ops
  /\ setting.poison = {} => poison = 0

\* What the change at p makes of row k of a target that accepts everything, where
\* the row's version is v.
RowAfter(k, v, p) ==
  IF log[p].op \in {Truncate, DDL}
  THEN IF TableOf[k] = TableOf[log[p].key] THEN NoRow ELSE v
  ELSE IF log[p].key # k THEN v
  ELSE IF log[p].op = Delete THEN NoRow
  ELSE IF (log[p].op = Insert) = (v = NoRow) THEN p ELSE v

\* What a change is made of.
LEMMA ChangeFacts ==
  ASSUME NEW c \in Change
  PROVE  c.op \in AllOps /\ c.key \in Key /\ c.to \in Key
BY ConstantsOK DEF Change

\* A change takes tables to tables.
LEMMA ChangedTyped ==
  ASSUME NEW t \in Tables, NEW c \in Change, NEW p \in Nat
  PROVE  Changed(t, c, p) \in Tables
<1>1. c.op \in AllOps /\ c.key \in Key /\ c.to \in Key
  BY ChangeFacts
<1>2. \A table : Emptied(t, table) \in Tables
  BY DEF Emptied, NoRow, Tables
<1>3. \A k, l \in Key : [t EXCEPT ![k] = NoRow] \in Tables /\ [t EXCEPT ![k] = p] \in Tables
        /\ [t EXCEPT ![k] = NoRow, ![l] = p] \in Tables
  BY DEF NoRow, Tables
<1> QED BY <1>1, <1>2, <1>3 DEF Changed, AllOps, Insert, Update, Rekey, Delete, Truncate, DDL

\* A history is a sequence of changes the source's own tables allow.
LEMMA LogFacts ==
  ASSUME log \in Histories
  PROVE  /\ Len(log) \in Nat /\ log \in Seq(Change) /\ DOMAIN log = 1..Len(log)
         /\ \A n \in 1..Len(log) : log[n] \in Change
         /\ \A n \in 1..Len(log) : Possible(History(log)[n - 1], log[n])
<1>1. PICK n \in 0..MaxLog : log \in [1..n -> Change]
  BY DEF Histories
<1>2. n \in Nat
  BY <1>1, ConstantsOK
<1>3. log \in Seq(Change)
  BY <1>1, <1>2
<1>4. DOMAIN log = 1..Len(log) /\ Len(log) \in Nat
  BY <1>3, LenProperties
<1>5. \A m \in DOMAIN log : Possible(History(log)[m - 1], log[m])
  BY DEF Histories
<1> QED BY <1>3, <1>4, <1>5, ElementOfSeq

\* The source before its first change, and after each.
LEMMA HistoryFacts ==
  ASSUME log \in Histories
  PROVE  /\ History(log) \in [0..Len(log) -> Tables]
         /\ History(log)[0] = EmptyTables
         /\ \A n \in 1..Len(log) : History(log)[n] = Changed(History(log)[n - 1], log[n], n)
<1> DEFINE N == Len(log)
           s == [n \in 1..N |-> [d \in Tables |-> Changed(d, log[n], n)]]
           IsHistory(f) == f = [n \in 0..N |-> IF n = 0 THEN EmptyTables
                                               ELSE Changed(f[n - 1], log[n], n)]
<1>1. N \in Nat /\ \A n \in 1..N : log[n] \in Change
  BY LogFacts
<1>2. EmptyTables \in Tables
  BY DEF EmptyTables, Tables, NoRow
<1>3. \A n \in 1..N : \A d \in Tables : Changed(d, log[n], n) \in Tables
  BY <1>1, ChangedTyped
<1>4. s \in [1..N -> [Tables -> Tables]]
  BY <1>3
<1>5. PICK f : Iteration(N, Tables, EmptyTables, s, f)
  <2> HIDE DEF s, N
  <2> QED BY <1>1, <1>2, <1>4, Iterates
<1>6. \A n \in 0..N : n = 0 \/ (n \in 1..N /\ n - 1 \in 0..N)
  BY <1>1
<1>7. \A n \in 1..N : f[n] = Changed(f[n - 1], log[n], n)
  <2> SUFFICES ASSUME NEW n \in 1..N PROVE f[n] = Changed(f[n - 1], log[n], n)
    OBVIOUS
  <2> HIDE DEF N
  <2>1. f[n - 1] \in Tables /\ f[n] = s[n][f[n - 1]]
    BY <1>1, <1>5, <1>6 DEF Iteration
  <2> QED BY <2>1
<1>8. IsHistory(f)
  <2>1. f = [n \in 0..N |-> f[n]] /\ f[0] = EmptyTables
    BY <1>5 DEF Iteration
  <2> HIDE DEF N, s
  <2>2. f = [n \in 0..N |-> IF n = 0 THEN EmptyTables ELSE Changed(f[n - 1], log[n], n)]
    BY <2>1, <1>6, <1>7
  <2> QED BY <2>2
<1> DEFINE at == CHOOSE g : IsHistory(g)
<1>9. History(log) = at
  BY DEF History
<1>10. IsHistory(at)
  <2> HIDE DEF IsHistory
  <2> QED BY <1>8
<1> HIDE DEF at, s
<1>11. /\ at = [n \in 0..N |-> at[n]] /\ at[0] = EmptyTables
       /\ \A n \in 1..N : at[n] = Changed(at[n - 1], log[n], n)
  <2> HIDE DEF N
  <2>1. 0 \in 0..N /\ \A n \in 1..N : n \in 0..N /\ n # 0
    BY <1>1
  <2>2. at = [n \in 0..N |-> IF n = 0 THEN EmptyTables ELSE Changed(at[n - 1], log[n], n)]
    BY <1>10
  <2> QED BY <2>1, <2>2
<1> HIDE DEF IsHistory, N
<1>12. \A n \in 1..N : at[n - 1] \in Tables => at[n] \in Tables
  BY <1>3, <1>11
<1>13. at \in [0..N -> Tables]
  BY <1>1, <1>2, <1>11, <1>12, Recursion
<1> QED BY <1>9, <1>11, <1>13 DEF N

\* The source's rows are what RowAfter makes of them.
LEMMA HistoryRows ==
  ASSUME Chosen, Accepting, NEW p \in 1..Len(log), NEW k \in Key
  PROVE  History(log)[p][k] = RowAfter(k, History(log)[p - 1][k], p)
<1> DEFINE t == History(log)[p - 1]
<1>1. p \in Nat /\ p # 0 /\ p - 1 \in 0..Len(log) /\ log[p] \in Change
      /\ Possible(t, log[p]) /\ log[p].op # Rekey
  BY LogFacts DEF Chosen, Accepting
<1>2. t \in Tables /\ History(log)[p] = Changed(t, log[p], p)
  BY <1>1, HistoryFacts DEF Chosen
<1>3. log[p].op \in AllOps /\ log[p].key \in Key
  BY <1>1, ChangeFacts
<1> HIDE DEF t
<1>4. CASE log[p].op \in {Truncate, DDL}
  <2>1. History(log)[p] = [l \in Key |-> IF TableOf[l] = TableOf[log[p].key] THEN NoRow ELSE t[l]]
    BY <1>2, <1>4 DEF Changed, Emptied, Insert, Update, Rekey, Delete, Truncate, DDL
  <2> QED BY <1>4, <2>1 DEF RowAfter, t
<1>5. CASE log[p].op \notin {Truncate, DDL}
  <2> DEFINE c == log[p]
  <2>1. c.op \in {Insert, Update, Delete}
    BY <1>1, <1>3, <1>5 DEF AllOps
  <2> HIDE DEF c
  <2>2. /\ c.op = Insert => t[c.key] = NoRow
        /\ c.op = Update => t[c.key] # NoRow
    BY <1>1 DEF Possible, c
  <2>3. History(log)[p] = [t EXCEPT ![c.key] = IF c.op = Delete THEN NoRow ELSE p]
    BY <1>2, <2>1 DEF Changed, c, Insert, Update, Rekey, Delete, Truncate, DDL
  <2>4. History(log)[p][k] = IF c.key = k THEN IF c.op = Delete THEN NoRow ELSE p ELSE t[k]
    BY <1>2, <1>3, <2>3 DEF Tables, c
  <2> QED BY <1>5, <2>1, <2>2, <2>4 DEF RowAfter, c, t, Insert, Update, Delete
<1> QED BY <1>4, <1>5 DEF t

-----------------------------------------------------------------------------
(* What the changes to come make of a row.                                 *)

\* f is what the changes after n make of row k, where the row's version is v and
\* the source's is reached in the end.
Landing(k, v, n, f) ==
  /\ f \in [n..Len(log) -> Nat]
  /\ f[n] = v
  /\ \A p \in n + 1 .. Len(log) : f[p] = RowAfter(k, f[p - 1], p)
  /\ f[Len(log)] = History(log)[Len(log)][k]

Lands(k, v, n) == \E f : Landing(k, v, n, f)

\* The version of a row is a number.
LEMMA RowAfterTyped ==
  ASSUME NEW k, NEW v \in Nat, NEW p \in Nat
  PROVE  RowAfter(k, v, p) \in Nat
BY DEF RowAfter, NoRow

\* The source's own rows land.
LEMMA SourceLands ==
  ASSUME Chosen, Accepting, NEW k \in Key, NEW n \in 0..Len(log)
  PROVE  Lands(k, History(log)[n][k], n)
<1> DEFINE L == Len(log)
           H == History(log)
           f == [p \in n..L |-> H[p][k]]
<1>1. L \in Nat /\ H \in [0..L -> Tables]
  BY LogFacts, HistoryFacts DEF Chosen
<1>2. \A p \in 1..L : H[p][k] = RowAfter(k, H[p - 1][k], p)
  BY HistoryRows
<1> HIDE DEF H, L
<1>3. \A p \in n..L : H[p][k] \in Nat
  BY <1>1 DEF Tables, L
<1>4. n \in Nat /\ n <= L
  BY <1>1 DEF L
<1>5. f \in [n..L -> Nat] /\ f[n] = H[n][k] /\ f[L] = H[L][k]
  BY <1>1, <1>3, <1>4
<1>6. \A p \in n + 1 .. L : f[p] = RowAfter(k, f[p - 1], p)
  <2> SUFFICES ASSUME NEW p \in n + 1 .. L PROVE f[p] = RowAfter(k, f[p - 1], p)
    OBVIOUS
  <2>1. p \in 1..L /\ p \in n..L /\ p - 1 \in n..L
    BY <1>1, <1>4
  <2>2. f[p] = H[p][k] /\ f[p - 1] = H[p - 1][k]
    BY <2>1
  <2> QED BY <1>2, <2>1, <2>2
<1> HIDE DEF f
<1>7. Landing(k, H[n][k], n, f)
  BY <1>5, <1>6 DEF Landing, H, L
<1> QED BY <1>7 DEF Lands, H

\* At the end of the source's history only its own rows land.
LEMMA LandsAtTheEnd ==
  ASSUME NEW k, NEW v, Lands(k, v, Len(log))
  PROVE  v = History(log)[Len(log)][k]
BY DEF Lands, Landing

\* A row that lands does so over its next change, too, ...
LEMMA LandsOverNext ==
  ASSUME NEW k, NEW v, NEW n \in Nat, NEW m \in Nat, n = m - 1, m <= Len(log), Len(log) \in Nat,
         Lands(k, v, n)
  PROVE  Lands(k, RowAfter(k, v, m), m)
<1>1. PICK f : Landing(k, v, n, f)
  BY DEF Lands
<1> DEFINE L == Len(log)
           g == [p \in m..L |-> f[p]]
<1>2. /\ f \in [n..L -> Nat] /\ f[n] = v /\ f[L] = History(log)[L][k]
      /\ \A p \in n + 1 .. L : f[p] = RowAfter(k, f[p - 1], p)
  BY <1>1 DEF Landing
<1> HIDE DEF L
<1>3. /\ m \in n + 1 .. L /\ m \in m..L /\ L \in m..L
      /\ \A p \in m..L : p \in n..L
      /\ \A p \in m + 1 .. L : p \in n + 1 .. L /\ p - 1 \in m..L /\ p \in m..L
  BY DEF L
<1>4. g \in [m..L -> Nat] /\ g[m] = RowAfter(k, v, m) /\ g[L] = f[L]
  BY <1>2, <1>3
<1>5. \A p \in m + 1 .. L : g[p] = RowAfter(k, g[p - 1], p)
  BY <1>2, <1>3
<1> HIDE DEF g
<1>6. Landing(k, RowAfter(k, v, m), m, g)
  BY <1>2, <1>4, <1>5 DEF Landing, L
<1> QED BY <1>6 DEF Lands

\* ... and the other way round.
LEMMA LandsBefore ==
  ASSUME NEW k, NEW v \in Nat, NEW n \in Nat, NEW m \in Nat, n = m - 1, m <= Len(log),
         Len(log) \in Nat, Lands(k, RowAfter(k, v, m), m)
  PROVE  Lands(k, v, n)
<1>1. PICK f : Landing(k, RowAfter(k, v, m), m, f)
  BY DEF Lands
<1> DEFINE L == Len(log)
           g == [p \in n..L |-> IF p = n THEN v ELSE f[p]]
<1>2. /\ f \in [m..L -> Nat] /\ f[m] = RowAfter(k, v, m) /\ f[L] = History(log)[L][k]
      /\ \A p \in m + 1 .. L : f[p] = RowAfter(k, f[p - 1], p)
  BY <1>1 DEF Landing
<1> HIDE DEF L
<1>3. /\ n \in n..L /\ L \in n..L /\ L # n /\ m \in n..L /\ m # n
      /\ \A p \in n..L : p = n \/ (p # n /\ p \in m..L)
      /\ \A p \in n + 1 .. L :
            p = m \/ (p \in m + 1 .. L /\ p - 1 \in n..L /\ p - 1 # n /\ p \in n..L /\ p # n)
  BY DEF L
<1>4. g \in [n..L -> Nat] /\ g[n] = v /\ g[L] = f[L] /\ g[m] = f[m]
  BY <1>2, <1>3
<1>5. \A p \in n + 1 .. L : g[p] = RowAfter(k, g[p - 1], p)
  <2> SUFFICES ASSUME NEW p \in n + 1 .. L PROVE g[p] = RowAfter(k, g[p - 1], p)
    OBVIOUS
  <2>1. CASE p = m
    BY <1>2, <1>4, <2>1
  <2>2. CASE p # m
    <3>1. g[p] = f[p] /\ g[p - 1] = f[p - 1]
      BY <1>3, <2>2
    <3> QED BY <1>2, <1>3, <2>2, <3>1
  <2> QED BY <2>1, <2>2
<1> HIDE DEF g
<1>6. Landing(k, v, n, g)
  BY <1>2, <1>4, <1>5 DEF Landing, L
<1> QED BY <1>6 DEF Lands

\* A change executed again does no harm: a row that lands after it lands before
\* it, for the change either leaves the row or gives it the source's version.
LEMMA LandsOneBack ==
  ASSUME Chosen, Accepting, NEW k \in Key, NEW v \in Nat, NEW m \in 1..Len(log), Lands(k, v, m)
  PROVE  Lands(k, v, m - 1)
<1> DEFINE n == m - 1
           h == History(log)[n][k]
<1>1. Len(log) \in Nat /\ m \in Nat /\ n \in Nat /\ n = m - 1 /\ m <= Len(log) /\ m \in 0..Len(log)
      /\ m # 0
  BY LogFacts DEF Chosen
<1>2. History(log)[m][k] = RowAfter(k, h, m)
  BY HistoryRows
<1>3. Possible(History(log)[n], log[m]) /\ log[m].op \in AllOps /\ log[m].op # Rekey
  BY LogFacts, ChangeFacts DEF Chosen, Accepting
<1> HIDE DEF n
<1>4. /\ log[m].key = k /\ log[m].op = Insert => h = NoRow
      /\ log[m].key = k /\ log[m].op = Update => h # NoRow
  BY <1>3 DEF Possible
<1>5. RowAfter(k, v, m) = v \/ RowAfter(k, v, m) = RowAfter(k, h, m)
  <2> HIDE DEF h
  <2> QED BY <1>3, <1>4 DEF RowAfter, AllOps, Insert, Update, Rekey, Delete, Truncate, DDL
<1>6. Lands(k, RowAfter(k, v, m), m)
  <2>1. Lands(k, History(log)[m][k], m)
    BY <1>1, SourceLands
  <2> QED BY <1>2, <1>5, <2>1
<1>7. Lands(k, v, n)
  BY <1>1, <1>6, LandsBefore
<1> QED BY <1>7 DEF n

\* A row that lands over the changes after n lands over those after an earlier m: the
\* changes between, made again, do no harm.
LEMMA LandsFromBefore ==
  ASSUME Chosen, Accepting, NEW k \in Key, NEW v \in Nat, NEW n \in 0..Len(log), Lands(k, v, n),
         NEW m \in 0..n
  PROVE  Lands(k, v, m)
<1> DEFINE S == {i \in 0..n : Lands(k, v, n - i)}
<1>0. Len(log) \in Nat /\ n \in Nat /\ n <= Len(log)
  BY LogFacts DEF Chosen
<1>1. 0 \in S
  <2>1. 0 \in 0..n /\ n - 0 = n
    BY <1>0
  <2> QED BY <2>1
<1>2. ASSUME NEW i \in 0..n, i \in S, i < n PROVE i + 1 \in S
  <2>1. n - i \in 1..Len(log) /\ Lands(k, v, n - i) /\ n - i - 1 = n - (i + 1) /\ i + 1 \in 0..n
    BY <1>0, <1>2
  <2>2. Lands(k, v, n - i - 1)
    BY <2>1, LandsOneBack
  <2> QED BY <2>1, <2>2
<1> HIDE DEF S
<1>3. \A i \in 0..n : i \in S /\ i < n => i + 1 \in S
  BY <1>2
<1>4. \A i \in 0..n : i \in S
  BY <1>0, <1>1, <1>3, UpTo
<1>5. n - m \in S /\ n - (n - m) = m
  BY <1>0, <1>4
<1> QED BY <1>5 DEF S

-----------------------------------------------------------------------------
(* Queries, change by change.                                              *)

\* The target's tables after the change at p.
Applied(t, p) == [k \in Key |-> RowAfter(k, t[k], p)]

\* The positions q that may come after p: once something is delivered twice they
\* may lie further back, but never ahead.
Follows(p, q) ==
  /\ q <= p + 1
  /\ redeliveries = 0 => q = p + 1

Chain(s) == \A i \in 1..Len(s) - 1 : Follows(s[i], s[i + 1])

\* A query stands for changes of one kind, and for one only, unless it inserts or deletes.
QueryOK(q) ==
  /\ q \in Seq(1..Len(log))
  /\ q # <<>>
  /\ \A i \in DOMAIN q : log[q[i]].op = log[q[1]].op
  /\ log[q[1]].op \notin {Insert, Delete} => Len(q) = 1
  /\ Chain(q)

\* a is what the changes of q make of t, one after the other.
Trace(t, q, a) ==
  /\ a \in [0..Len(q) -> Tables]
  /\ a[0] = t
  /\ \A i \in 1..Len(q) : a[i] = Applied(a[i - 1], q[i])
  /\ a[Len(q)] = Executed(t, q)

\* A change of the target takes tables to tables.
LEMMA AppliedTyped ==
  ASSUME NEW t \in Tables, NEW p \in Nat
  PROVE  Applied(t, p) \in Tables
BY RowAfterTyped DEF Applied, Tables

\* What a query stands for.
LEMMA QueryFacts ==
  ASSUME Chosen, Accepting, NEW q, QueryOK(q)
  PROVE  /\ Len(q) \in Nat /\ Len(q) >= 1 /\ DOMAIN q = 1..Len(q) /\ Len(log) \in Nat
         /\ \A i \in 1..Len(q) : /\ q[i] \in 1..Len(log) /\ q[i] \in Nat
                                 /\ log[q[i]].key \in Key
                                 /\ log[q[i]].op = OpOf(q)
         /\ OpOf(q) \in {Insert, Update, Delete, Truncate, DDL}
<1>1. q \in Seq(1..Len(log)) /\ q # <<>> /\ Len(log) \in Nat
  BY LogFacts DEF QueryOK, Chosen
<1>2. Len(q) \in Nat /\ Len(q) >= 1 /\ DOMAIN q = 1..Len(q) /\ \A i \in 1..Len(q) : q[i] \in 1..Len(log)
  BY <1>1, LenProperties, ElementOfSeq, EmptySeq
<1>3. \A i \in 1..Len(q) : log[q[i]] \in Change
  BY <1>2, LogFacts DEF Chosen
<1>4. \A i \in 1..Len(q) : log[q[i]].op \in AllOps /\ log[q[i]].key \in Key
  BY <1>3, ChangeFacts
<1>5. \A i \in 1..Len(q) : log[q[i]].op # Rekey
  BY <1>1, <1>2, LogFacts DEF Chosen, Accepting
<1>6. \A i \in 1..Len(q) : log[q[i]].op = OpOf(q)
  BY <1>2 DEF QueryOK, OpOf
<1>7. OpOf(q) \in {Insert, Update, Delete, Truncate, DDL}
  <2>1. 1 \in 1..Len(q)
    BY <1>2
  <2>2. OpOf(q) \in AllOps /\ OpOf(q) # Rekey
    BY <1>4, <1>5, <2>1 DEF OpOf
  <2> QED BY <2>2 DEF AllOps
<1> QED BY <1>1, <1>2, <1>4, <1>6, <1>7

\* A multi-row INSERT, row by row.
LEMMA InsertTrace ==
  ASSUME Chosen, Accepting, NEW q, QueryOK(q), OpOf(q) = Insert, NEW t \in Tables
  PROVE  \E a : Trace(t, q, a)
<1> DEFINE N == Len(q)
           s == [i \in 1..N |-> [d \in Tables |-> Applied(d, q[i])]]
           Step(d, i) == IF setting.onConflict = "nothing" /\ d[log[q[i]].key] # NoRow
                         THEN d ELSE [d EXCEPT ![log[q[i]].key] = q[i]]
           IsAfter(f) == f = [i \in 0..N |-> IF i = 0 THEN t
                                ELSE IF setting.onConflict = "nothing" /\ f[i - 1][log[q[i]].key] # NoRow
                                     THEN f[i - 1]
                                     ELSE [f[i - 1] EXCEPT ![log[q[i]].key] = q[i]]]
<1>1. /\ N \in Nat
      /\ \A i \in 1..N : q[i] \in Nat /\ log[q[i]].key \in Key /\ log[q[i]].op = Insert
  BY QueryFacts
<1>2. ASSUME NEW i \in 1..N, NEW d \in Tables PROVE Applied(d, q[i]) = Step(d, i)
  <2>1. q[i] \in Nat /\ log[q[i]].key \in Key /\ log[q[i]].op = Insert
    BY <1>1
  <2>2. setting.onConflict = "nothing"
    BY DEF Accepting
  <2>3. Applied(d, q[i]) = [k \in Key |-> IF log[q[i]].key # k THEN d[k]
                                          ELSE IF d[k] = NoRow THEN q[i] ELSE d[k]]
    BY <2>1 DEF Applied, RowAfter, Insert, Truncate, DDL, Delete
  <2>4. Step(d, i) = IF d[log[q[i]].key] # NoRow THEN d ELSE [d EXCEPT ![log[q[i]].key] = q[i]]
    BY <2>2
  <2> QED BY <2>1, <2>3, <2>4 DEF Tables
<1>3. \A i \in 1..N : \A d \in Tables : Applied(d, q[i]) \in Tables
  BY <1>1, AppliedTyped
<1>4. s \in [1..N -> [Tables -> Tables]]
  BY <1>3
<1>5. PICK f : Iteration(N, Tables, t, s, f)
  <2> HIDE DEF s, N
  <2> QED BY <1>1, <1>4, Iterates
<1>6. \A i \in 0..N : i = 0 \/ (i \in 1..N /\ i - 1 \in 0..N)
  BY <1>1
<1> HIDE DEF N
<1>7. \A i \in 1..N : f[i - 1] \in Tables /\ f[i] = Step(f[i - 1], i)
  <2> SUFFICES ASSUME NEW i \in 1..N PROVE f[i - 1] \in Tables /\ f[i] = Step(f[i - 1], i)
    OBVIOUS
  <2>1. f[i - 1] \in Tables /\ f[i] = s[i][f[i - 1]]
    BY <1>1, <1>5, <1>6, SMTT(30) DEF Iteration
  <2>2. f[i] = Applied(f[i - 1], q[i])
    BY <2>1
  <2> QED BY <1>2, <2>1, <2>2
<1>8. IsAfter(f)
  <2>1. f = [i \in 0..N |-> f[i]] /\ f[0] = t
    BY <1>5 DEF Iteration
  <2>2. f = [i \in 0..N |-> IF i = 0 THEN t ELSE Step(f[i - 1], i)]
    <3> HIDE DEF Step
    <3> QED BY <1>6, <1>7, <2>1
  <2> QED BY <2>2, Zenon
<1> DEFINE after == CHOOSE g : IsAfter(g)
<1>9. Inserted(t, q) = after[N]
  BY DEF Inserted, N
<1>10. IsAfter(after)
  <2> HIDE DEF IsAfter
  <2> QED BY <1>8
<1> HIDE DEF after, s
<1>11. /\ after = [i \in 0..N |-> after[i]] /\ after[0] = t
       /\ \A i \in 1..N : after[i] = Step(after[i - 1], i)
  <2>1. 0 \in 0..N /\ \A i \in 1..N : i \in 0..N /\ i # 0
    BY <1>1
  <2>2. after = [i \in 0..N |-> IF i = 0 THEN t ELSE Step(after[i - 1], i)]
    BY <1>10, Zenon
  <2> HIDE DEF Step
  <2> QED BY <2>1, <2>2, Zenon
<1> HIDE DEF IsAfter, Step
<1>12. \A i \in 1..N : after[i - 1] \in Tables => after[i] \in Tables
  <2> SUFFICES ASSUME NEW i \in 1..N, after[i - 1] \in Tables PROVE after[i] \in Tables
    OBVIOUS
  <2>1. after[i] = Applied(after[i - 1], q[i])
    BY <1>2, <1>11
  <2> QED BY <1>3, <2>1
<1>13. after \in [0..N -> Tables]
  BY <1>1, <1>11, <1>12, Recursion
<1>14. \A i \in 1..N : i - 1 \in 0..N
  BY <1>1
<1>15. \A i \in 1..N : after[i] = Applied(after[i - 1], q[i])
  BY <1>2, <1>11, <1>13, <1>14
<1>16. after[N] = Executed(t, q)
  BY <1>9 DEF Executed, Insert, Update, Rekey, Delete, Truncate, DDL
<1>17. Trace(t, q, after)
  BY <1>11, <1>13, <1>15, <1>16 DEF Trace, N
<1> QED BY <1>17

\* A multi-row DELETE, row by row.
LEMMA DeleteTrace ==
  ASSUME Chosen, Accepting, NEW q, QueryOK(q), OpOf(q) = Delete, NEW t \in Tables
  PROVE  \E a : Trace(t, q, a)
<1> DEFINE N == Len(q)
           a == [i \in 0..N |-> [k \in Key |-> IF \E j \in 1..i : log[q[j]].key = k THEN NoRow ELSE t[k]]]
<1>1. /\ N \in Nat /\ DOMAIN q = 1..N
      /\ \A i \in 1..N : q[i] \in Nat /\ log[q[i]].key \in Key /\ log[q[i]].op = Delete
  BY QueryFacts
<1> HIDE DEF N
<1>2. \A i \in 0..N : a[i] \in Tables
  BY DEF Tables, NoRow
<1>3. a[0] = t
  <2>1. 0 \in 0..N /\ 1..0 = {}
    BY <1>1
  <2>2. a[0] = [k \in Key |-> t[k]]
    BY <2>1
  <2> QED BY <2>2 DEF Tables
<1>4. ASSUME NEW i \in 1..N PROVE a[i] = Applied(a[i - 1], q[i])
  <2>1. /\ i \in 0..N /\ i - 1 \in 0..N
        /\ \A j \in 1..i : j = i \/ j \in 1..i - 1
        /\ \A j \in 1..i - 1 : j \in 1..i
        /\ i \in 1..i
    BY <1>1
  <2>2. log[q[i]].op = Delete
    BY <1>1
  <2>3. \A k \in Key : a[i][k] = IF log[q[i]].key # k THEN a[i - 1][k] ELSE NoRow
    <3> SUFFICES ASSUME NEW k \in Key
                 PROVE  a[i][k] = IF log[q[i]].key # k THEN a[i - 1][k] ELSE NoRow
      OBVIOUS
    <3>1. a[i][k] = IF \E j \in 1..i : log[q[j]].key = k THEN NoRow ELSE t[k]
      BY <2>1
    <3>2. a[i - 1][k] = IF \E j \in 1..i - 1 : log[q[j]].key = k THEN NoRow ELSE t[k]
      BY <2>1
    <3> HIDE DEF a
    <3> QED BY <2>1, <3>1, <3>2
  <2>4. a[i] \in Tables
    BY <1>2, <2>1
  <2> HIDE DEF a
  <2>5. Applied(a[i - 1], q[i]) = [k \in Key |-> IF log[q[i]].key # k THEN a[i - 1][k] ELSE NoRow]
    BY <2>2 DEF Applied, RowAfter, Delete, Truncate, DDL
  <2> QED BY <2>3, <2>4, <2>5 DEF Tables
<1>5. a[N] = Executed(t, q)
  <2>1. a[N] = [k \in Key |-> IF \E j \in 1..N : log[q[j]].key = k THEN NoRow ELSE t[k]]
    BY <1>1
  <2>2. KeysOf(q) = {log[q[j]].key : j \in 1..N}
    BY <1>1 DEF KeysOf
  <2>3. Executed(t, q) = [k \in Key |-> IF k \in KeysOf(q) THEN NoRow ELSE t[k]]
    BY DEF Executed, Insert, Update, Rekey, Delete, Truncate, DDL
  <2> HIDE DEF a
  <2> QED BY <2>1, <2>2, <2>3
<1>6. a \in [0..N -> Tables]
  BY <1>2
<1> HIDE DEF a
<1>7. Trace(t, q, a)
  BY <1>3, <1>4, <1>5, <1>6 DEF Trace, N
<1> QED BY <1>7

\* A query of one change does what the change does.
LEMMA SingleTrace ==
  ASSUME Chosen, Accepting, NEW q, QueryOK(q), OpOf(q) \in {Update, Truncate, DDL}, NEW t \in Tables
  PROVE  \E a : Trace(t, q, a)
<1> DEFINE e == Executed(t, q)
           a == [i \in 0..1 |-> IF i = 0 THEN t ELSE e]
           p == q[1]
<1>1. Len(q) = 1 /\ p \in Nat /\ log[p].key \in Key /\ log[p].op = OpOf(q) /\ log[p] \in Change
      /\ log[p].op = log[q[1]].op
  <2>1. Len(q) = 1
    BY DEF QueryOK, OpOf, Insert, Update, Delete, Truncate, DDL
  <2>2. p \in 1..Len(log)
    BY <2>1, QueryFacts
  <2>3. log[p] \in Change
    BY <2>2, LogFacts DEF Chosen
  <2> QED BY <2>1, <2>2, <2>3, QueryFacts
<1>2. e = Applied(t, p)
  <2>1. CASE OpOf(q) \in {Truncate, DDL}
    <3>1. e = Changed(t, log[p], p)
      BY <2>1 DEF Executed, Insert, Update, Rekey, Delete, Truncate, DDL
    <3>2. e = [k \in Key |-> IF TableOf[k] = TableOf[log[p].key] THEN NoRow ELSE t[k]]
      BY <1>1, <2>1, <3>1 DEF Changed, Emptied, Insert, Update, Rekey, Delete, Truncate, DDL
    <3> HIDE DEF e, p
    <3> QED BY <1>1, <2>1, <3>2 DEF Applied, RowAfter
  <2>2. CASE OpOf(q) = Update
    <3>1. e = IF t[log[p].key] = NoRow THEN t ELSE Changed(t, log[p], p)
      BY <2>2 DEF Executed, Insert, Update, Rekey, Delete, Truncate, DDL
    <3>2. e = IF t[log[p].key] = NoRow THEN t ELSE [t EXCEPT ![log[p].key] = p]
      BY <1>1, <2>2, <3>1 DEF Changed, Emptied, Insert, Update, Rekey, Delete, Truncate, DDL
    <3> HIDE DEF e, p
    <3>3. Applied(t, p) = [k \in Key |-> IF log[p].key # k THEN t[k] ELSE IF t[k] = NoRow THEN t[k] ELSE p]
      BY <1>1, <2>2 DEF Applied, RowAfter, Insert, Update, Delete, Truncate, DDL
    <3> QED BY <1>1, <3>2, <3>3 DEF Tables
  <2> QED BY <2>1, <2>2
<1>3. e \in Tables
  BY <1>1, <1>2, AppliedTyped
<1> HIDE DEF e
<1>4. a \in [0..1 -> Tables] /\ a[0] = t /\ a[1] = e
  BY <1>3
<1>5. \A i \in 1..1 : i = 1 /\ i - 1 = 0
  OBVIOUS
<1> HIDE DEF a
<1>6. Trace(t, q, a)
  BY <1>1, <1>2, <1>4, <1>5 DEF Trace, e, p
<1> QED BY <1>6

\* A query does what its changes do, one after the other.
LEMMA QueryTrace ==
  ASSUME Chosen, Accepting, NEW q, QueryOK(q), NEW t \in Tables
  PROVE  \E a : Trace(t, q, a)
<1>1. OpOf(q) \in {Insert, Update, Delete, Truncate, DDL}
  BY QueryFacts
<1> QED BY <1>1, InsertTrace, DeleteTrace, SingleTrace

-----------------------------------------------------------------------------
(* What the writer keeps of the target and the position it has reached.    *)

\* The target shows what the source was.
Exact == {x \in Tables \X (0..Len(log)) : x[1] = History(log)[x[2]]}

\* The changes to come make the target what the source is.
Healing == {x \in Tables \X (0..Len(log)) : \A k \in Key : Lands(k, x[1][k], x[2])}

\* Either is kept by the change that comes next, and when what comes next is
\* delivered again.
Kept(P) ==
  /\ P \subseteq Tables \X (0..Len(log))
  /\ \A t \in Tables, n \in 0..Len(log), m \in 1..Len(log) :
        n = m - 1 /\ <<t, n>> \in P => <<Applied(t, m), m>> \in P
  /\ \A t \in Tables, p \in 0..Len(log), n \in 0..Len(log) :
        Follows(p, n + 1) /\ <<t, p>> \in P => <<t, n>> \in P

\* What the source was is kept, as long as nothing is delivered twice.
LEMMA ExactKept ==
  ASSUME Chosen, Accepting, redeliveries = 0
  PROVE  Kept(Exact)
<1>0. Len(log) \in Nat /\ History(log) \in [0..Len(log) -> Tables]
  BY LogFacts, HistoryFacts DEF Chosen
<1>1. ASSUME NEW t \in Tables, NEW n \in 0..Len(log), NEW m \in 1..Len(log), n = m - 1,
             <<t, n>> \in Exact
      PROVE  <<Applied(t, m), m>> \in Exact
  <2>1. t = History(log)[n] /\ m \in Nat /\ m \in 0..Len(log)
    BY <1>0, <1>1 DEF Exact
  <2>2. History(log)[m] \in Tables
    BY <1>0, <2>1
  <2>3. \A k \in Key : History(log)[m][k] = RowAfter(k, t[k], m)
    BY <1>1, <2>1, HistoryRows
  <2>4. Applied(t, m) = History(log)[m]
    BY <2>2, <2>3 DEF Applied, Tables
  <2> QED BY <2>1, <2>2, <2>4 DEF Exact
<1>2. ASSUME NEW t \in Tables, NEW p \in 0..Len(log), NEW n \in 0..Len(log), Follows(p, n + 1),
             <<t, p>> \in Exact
      PROVE  <<t, n>> \in Exact
  <2>1. n = p
    BY <1>0, <1>2 DEF Follows
  <2> QED BY <1>2, <2>1
<1> QED BY <1>1, <1>2 DEF Kept, Exact

\* What heals goes on healing, over the next change and back to an earlier one.
LEMMA HealingKept ==
  ASSUME Chosen, Accepting
  PROVE  Kept(Healing)
<1>0. Len(log) \in Nat
  BY LogFacts DEF Chosen
<1>1. ASSUME NEW t \in Tables, NEW n \in 0..Len(log), NEW m \in 1..Len(log), n = m - 1,
             <<t, n>> \in Healing
      PROVE  <<Applied(t, m), m>> \in Healing
  <2>1. n \in Nat /\ m \in Nat /\ m <= Len(log) /\ m \in 0..Len(log)
    BY <1>0
  <2>2. \A k \in Key : Lands(k, t[k], n)
    BY <1>1 DEF Healing
  <2>3. \A k \in Key : Lands(k, RowAfter(k, t[k], m), m)
    BY <1>0, <1>1, <2>1, <2>2, LandsOverNext
  <2>4. Applied(t, m) \in Tables /\ \A k \in Key : Applied(t, m)[k] = RowAfter(k, t[k], m)
    BY <2>1, AppliedTyped DEF Applied
  <2> QED BY <2>1, <2>3, <2>4 DEF Healing
<1>2. ASSUME NEW t \in Tables, NEW p \in 0..Len(log), NEW n \in 0..Len(log), Follows(p, n + 1),
             <<t, p>> \in Healing
      PROVE  <<t, n>> \in Healing
  <2>1. n \in 0..p
    BY <1>0, <1>2 DEF Follows
  <2>2. \A k \in Key : t[k] \in Nat /\ Lands(k, t[k], p)
    BY <1>2 DEF Healing, Tables
  <2>3. \A k \in Key : Lands(k, t[k], n)
    BY <2>1, <2>2, LandsFromBefore
  <2> QED BY <2>3 DEF Healing
<1> QED BY <1>1, <1>2 DEF Kept, Healing

\* What shows the source shows nothing that does not heal.
LEMMA ExactHeals ==
  ASSUME Chosen, Accepting
  PROVE  Exact \subseteq Healing
BY SourceLands DEF Exact, Healing

\* What heals and has nothing to come is the source.
LEMMA HealedIsTheSource ==
  ASSUME Chosen, NEW t, <<t, Len(log)>> \in Healing
  PROVE  t = History(log)[Len(log)]
<1>1. Len(log) \in Nat /\ History(log)[Len(log)] \in Tables
  <2>1. Len(log) \in Nat
    BY LogFacts DEF Chosen
  <2> QED BY <2>1, HistoryFacts DEF Chosen
<1>2. t \in Tables /\ \A k \in Key : t[k] = History(log)[Len(log)][k]
  BY LandsAtTheEnd DEF Healing
<1> QED BY <1>1, <1>2 DEF Tables

\* A query keeps it, and moves on to its last change.
LEMMA QueryKeeps ==
  ASSUME Chosen, Accepting, NEW P, Kept(P), NEW q, QueryOK(q), NEW t \in Tables,
         <<t, q[1] - 1>> \in P
  PROVE  <<Executed(t, q), Last(q)>> \in P
<1> DEFINE N == Len(q)
<1>1. PICK a : Trace(t, q, a)
  BY QueryTrace
<1> DEFINE S == {i \in 0..N : i = 0 \/ <<a[i], q[i]>> \in P}
<1>2. N \in Nat /\ N >= 1 /\ Len(log) \in Nat /\ \A i \in 1..N : q[i] \in 1..Len(log)
  BY QueryFacts
<1>3. /\ a \in [0..N -> Tables] /\ a[0] = t
      /\ \A i \in 1..N : a[i] = Applied(a[i - 1], q[i])
      /\ a[N] = Executed(t, q)
  BY <1>1 DEF Trace
<1>4. \A i \in 1..N - 1 : Follows(q[i], q[i + 1])
  BY DEF QueryOK, Chain
<1>5. 0 \in S
  BY <1>2
<1> HIDE DEF N
<1>6. ASSUME NEW i \in 0..N, i \in S, i < N PROVE i + 1 \in S
  <2> DEFINE j == i + 1
  <2>1. j \in 1..N /\ j \in 0..N /\ j - 1 = i /\ a[i] \in Tables /\ q[j] \in 1..Len(log)
        /\ q[j] - 1 \in 0..Len(log) /\ (q[j] - 1) + 1 = q[j]
    BY <1>2, <1>3, <1>6
  <2>2. <<a[i], q[j] - 1>> \in P
    <3>1. CASE i = 0
      BY <1>3, <3>1
    <3>2. CASE i # 0
      <4>1. <<a[i], q[i]>> \in P /\ i \in 1..N - 1 /\ q[i] \in 1..Len(log) /\ q[i] \in 0..Len(log)
        BY <1>2, <1>6, <3>2
      <4>2. Follows(q[i], q[j])
        BY <1>4, <4>1
      <4> HIDE DEF j
      <4> QED BY <1>2, <2>1, <4>1, <4>2 DEF Kept
    <3> QED BY <3>1, <3>2
  <2> HIDE DEF j
  <2>3. <<Applied(a[i], q[j]), q[j]>> \in P
    BY <2>1, <2>2 DEF Kept
  <2>4. a[j] = Applied(a[i], q[j])
    BY <1>3, <2>1
  <2>5. j \in S
    BY <2>1, <2>3, <2>4
  <2> QED BY <2>5 DEF j
<1> HIDE DEF S
<1>7. \A i \in 0..N : i \in S /\ i < N => i + 1 \in S
  BY <1>6
<1>8. \A i \in 0..N : i \in S
  BY <1>2, <1>5, <1>7, UpTo
<1>9. N \in 0..N /\ N # 0
  BY <1>2
<1>10. <<a[N], q[N]>> \in P
  BY <1>8, <1>9 DEF S
<1> QED BY <1>3, <1>10 DEF Last, N

-----------------------------------------------------------------------------
(* The queries of a run, one after the other.                              *)

\* The tables t inside a transaction, after each query of qs.
WithinFrom(t, qs) ==
  LET after[i \in 0..Len(qs)] == IF i = 0 THEN t ELSE Executed(after[i - 1], qs[i])
  IN after

\* The queries of a run: changes of one kind, in the order the stream delivers them.
QueriesOK(qs) ==
  /\ qs \in Seq(Seq(Nat))
  /\ \A i \in DOMAIN qs : QueryOK(qs[i]) /\ OpOf(qs[i]) = OpOf(qs[1])
  /\ \A i \in 1..Len(qs) - 1 : Follows(Last(qs[i]), qs[i + 1][1])

\* A query takes tables to tables.
LEMMA ExecutedTyped ==
  ASSUME Chosen, Accepting, NEW q, QueryOK(q), NEW t \in Tables
  PROVE  Executed(t, q) \in Tables
<1>1. PICK a : Trace(t, q, a)
  BY QueryTrace
<1>2. Len(q) \in 0..Len(q)
  BY QueryFacts
<1> QED BY <1>1, <1>2 DEF Trace

\* The tables inside a transaction, from one query to the next.
LEMMA WithinFacts ==
  ASSUME Chosen, Accepting, NEW qs, QueriesOK(qs), NEW t \in Tables
  PROVE  /\ Len(qs) \in Nat /\ DOMAIN qs = 1..Len(qs)
         /\ WithinFrom(t, qs) \in [0..Len(qs) -> Tables]
         /\ WithinFrom(t, qs)[0] = t
         /\ \A i \in 1..Len(qs) : WithinFrom(t, qs)[i] = Executed(WithinFrom(t, qs)[i - 1], qs[i])
<1> DEFINE N == Len(qs)
           s == [i \in 1..N |-> [d \in Tables |-> Executed(d, qs[i])]]
           IsAfter(f) == f = [i \in 0..N |-> IF i = 0 THEN t ELSE Executed(f[i - 1], qs[i])]
<1>1. N \in Nat /\ DOMAIN qs = 1..N /\ \A i \in 1..N : QueryOK(qs[i])
  BY LenProperties DEF QueriesOK
<1>2. \A i \in 1..N : \A d \in Tables : Executed(d, qs[i]) \in Tables
  BY <1>1, ExecutedTyped
<1>3. s \in [1..N -> [Tables -> Tables]]
  BY <1>2
<1>4. PICK f : Iteration(N, Tables, t, s, f)
  <2> HIDE DEF s, N
  <2> QED BY <1>1, <1>3, Iterates
<1>5. \A i \in 0..N : i = 0 \/ (i \in 1..N /\ i - 1 \in 0..N)
  BY <1>1
<1> HIDE DEF N
<1>6. \A i \in 1..N : f[i] = Executed(f[i - 1], qs[i])
  <2> SUFFICES ASSUME NEW i \in 1..N PROVE f[i] = Executed(f[i - 1], qs[i])
    OBVIOUS
  <2>1. f[i - 1] \in Tables /\ f[i] = s[i][f[i - 1]]
    BY <1>1, <1>4, <1>5 DEF Iteration
  <2> QED BY <2>1
<1>7. IsAfter(f)
  <2>1. f = [i \in 0..N |-> f[i]] /\ f[0] = t
    BY <1>4 DEF Iteration
  <2>2. f = [i \in 0..N |-> IF i = 0 THEN t ELSE Executed(f[i - 1], qs[i])]
    BY <1>5, <1>6, <2>1
  <2> QED BY <2>2
<1> DEFINE after == CHOOSE g : IsAfter(g)
<1>8. WithinFrom(t, qs) = after
  BY DEF WithinFrom, N
<1>9. IsAfter(after)
  <2> HIDE DEF IsAfter
  <2> QED BY <1>7
<1> HIDE DEF after, s
<1>10. /\ after = [i \in 0..N |-> after[i]] /\ after[0] = t
       /\ \A i \in 1..N : after[i] = Executed(after[i - 1], qs[i])
  <2>1. 0 \in 0..N /\ \A i \in 1..N : i \in 0..N /\ i # 0
    BY <1>1
  <2>2. after = [i \in 0..N |-> IF i = 0 THEN t ELSE Executed(after[i - 1], qs[i])]
    BY <1>9
  <2> QED BY <2>1, <2>2
<1> HIDE DEF IsAfter
<1>11. \A i \in 1..N : after[i - 1] \in Tables => after[i] \in Tables
  BY <1>2, <1>10
<1>12. after \in [0..N -> Tables]
  BY <1>1, <1>10, <1>11, Recursion
<1> QED BY <1>1, <1>8, <1>10, <1>12 DEF N

\* A run's queries keep it, and move on to the run's last change.
LEMMA QueriesKeep ==
  ASSUME Chosen, Accepting, NEW P, Kept(P), NEW qs, QueriesOK(qs), qs # <<>>, NEW t \in Tables,
         <<t, qs[1][1] - 1>> \in P
  PROVE  <<WithinFrom(t, qs)[Len(qs)], Last(Last(qs))>> \in P
<1> DEFINE N == Len(qs)
           w == WithinFrom(t, qs)
           S == {i \in 0..N : i = 0 \/ <<w[i], Last(qs[i])>> \in P}
<1>1. /\ N \in Nat /\ DOMAIN qs = 1..N /\ w \in [0..N -> Tables] /\ w[0] = t
      /\ \A i \in 1..N : w[i] = Executed(w[i - 1], qs[i])
  BY WithinFacts
<1>2. /\ \A i \in 1..N : QueryOK(qs[i])
      /\ \A i \in 1..N - 1 : Follows(Last(qs[i]), qs[i + 1][1])
  BY <1>1 DEF QueriesOK
<1>3. N # 0
  BY <1>1, EmptySeq DEF QueriesOK
<1> HIDE DEF N, w
<1>4. Len(log) \in Nat /\ \A i \in 1..N : Last(qs[i]) \in 1..Len(log) /\ qs[i][1] \in 1..Len(log)
  <2> SUFFICES ASSUME NEW i \in 1..N
               PROVE  Len(log) \in Nat /\ Last(qs[i]) \in 1..Len(log) /\ qs[i][1] \in 1..Len(log)
    BY LogFacts DEF Chosen
  <2>1. /\ Len(qs[i]) \in Nat /\ Len(qs[i]) >= 1 /\ Len(log) \in Nat
        /\ \A j \in 1..Len(qs[i]) : qs[i][j] \in 1..Len(log)
    BY <1>2, QueryFacts
  <2> QED BY <2>1 DEF Last
<1>5. 0 \in S
  BY <1>1
<1>6. ASSUME NEW i \in 0..N, i \in S, i < N PROVE i + 1 \in S
  <2> DEFINE j == i + 1
  <2>0. j \in 1..N /\ j \in 0..N /\ j - 1 = i /\ (i = 0 => j = 1) /\ w[i] \in Tables
    BY <1>1, <1>6
  <2> HIDE DEF j
  <2>1. /\ j \in 1..N /\ j \in 0..N /\ j - 1 = i /\ w[i] \in Tables /\ qs[j][1] \in 1..Len(log)
        /\ qs[j][1] - 1 \in 0..Len(log) /\ (qs[j][1] - 1) + 1 = qs[j][1]
    BY <1>4, <2>0
  <2> USE DEF j
  <2>2. <<w[i], qs[j][1] - 1>> \in P
    <3>1. CASE i = 0
      <4> HIDE DEF j
      <4> QED BY <1>1, <2>0, <3>1
    <3>2. CASE i # 0
      <4>1. <<w[i], Last(qs[i])>> \in P /\ i \in 1..N - 1 /\ Last(qs[i]) \in 0..Len(log)
        BY <1>1, <1>4, <1>6, <3>2
      <4>2. Follows(Last(qs[i]), qs[j][1])
        BY <1>2, <4>1
      <4> HIDE DEF j
      <4> QED BY <2>1, <4>1, <4>2 DEF Kept
    <3> QED BY <3>1, <3>2
  <2> HIDE DEF j
  <2>3. <<Executed(w[i], qs[j]), Last(qs[j])>> \in P
    BY <1>2, <2>1, <2>2, QueryKeeps
  <2>4. j \in S
    BY <1>1, <2>1, <2>3
  <2> QED BY <2>4 DEF j
<1> HIDE DEF S
<1>7. \A i \in 0..N : i \in S /\ i < N => i + 1 \in S
  BY <1>6
<1>8. \A i \in 0..N : i \in S
  BY <1>1, <1>5, <1>7, UpTo
<1>9. N \in 0..N /\ N # 0
  BY <1>1, <1>3
<1>10. <<w[N], Last(qs[N])>> \in P
  BY <1>8, <1>9 DEF S
<1> QED BY <1>10 DEF Last, N, w

-----------------------------------------------------------------------------
(* A run that is executed twice.                                           *)

\* What changes of one kind make of a row of version v: nothing (c = 0), or as much
\* as one of them does.
Shape(op, c, v) ==
  IF c = 0 THEN v
  ELSE IF op \in {Insert, Update} THEN IF (op = Insert) = (v = NoRow) THEN c ELSE v
  ELSE NoRow

\* A change has the shape of its kind.
LEMMA ShapeOfChange ==
  ASSUME NEW k, NEW p \in Nat \ {0}
  PROVE  \E c \in Nat : \A v \in Nat : 
           log[p].op \in AllOps /\ log[p].op # Rekey => RowAfter(k, v, p) = Shape(log[p].op, c, v)
<1> DEFINE c == IF log[p].op \in {Truncate, DDL}
                THEN IF TableOf[k] = TableOf[log[p].key] THEN p ELSE 0
                ELSE IF log[p].key = k THEN p ELSE 0
<1>1. c \in Nat
  OBVIOUS
<1>2. ASSUME NEW v \in Nat, log[p].op \in AllOps, log[p].op # Rekey
      PROVE  RowAfter(k, v, p) = Shape(log[p].op, c, v)
  BY <1>2 DEF RowAfter, Shape, NoRow, AllOps, Insert, Update, Rekey, Delete, Truncate, DDL
<1> HIDE DEF c
<1> QED BY <1>1, <1>2

\* Two changes of a kind have the shape of one.
LEMMA ShapeTwice ==
  ASSUME NEW op, NEW c \in Nat, NEW d \in Nat
  PROVE  \E e \in Nat : \A v \in Nat : Shape(op, d, Shape(op, c, v)) = Shape(op, e, v)
<1> DEFINE e == IF d = 0 \/ (op = Insert /\ c # 0) THEN c ELSE d
<1>1. e \in Nat /\ \A v \in Nat : Shape(op, d, Shape(op, c, v)) = Shape(op, e, v)
  BY DEF Shape, NoRow, Insert, Update
<1> HIDE DEF e
<1> QED BY <1>1

\* A shape applied twice is the shape.
LEMMA ShapeAgain ==
  ASSUME NEW op, NEW c \in Nat, NEW v \in Nat
  PROVE  Shape(op, c, Shape(op, c, v)) = Shape(op, c, v)
BY DEF Shape, NoRow, Insert, Update

\* A query has the shape of its changes.
LEMMA QueryShape ==
  ASSUME Chosen, Accepting, NEW q, QueryOK(q), NEW k \in Key
  PROVE  \E c \in Nat : \A t \in Tables : Executed(t, q)[k] = Shape(OpOf(q), c, t[k])
<1> DEFINE N == Len(q)
           T(t) == CHOOSE a : Trace(t, q, a)
           S == {i \in 0..N : \E c \in Nat : \A t \in Tables : T(t)[i][k] = Shape(OpOf(q), c, t[k])}
<1>1. \A t \in Tables : Trace(t, q, T(t))
  BY QueryTrace
<1> HIDE DEF T
<1>2. /\ N \in Nat /\ N >= 1
      /\ \A i \in 1..N : q[i] \in Nat \ {0} /\ log[q[i]].op = OpOf(q)
      /\ OpOf(q) \in AllOps /\ OpOf(q) # Rekey
  BY QueryFacts DEF AllOps, Insert, Update, Rekey, Delete, Truncate, DDL
<1>3. \A t \in Tables : /\ T(t) \in [0..N -> Tables]
                        /\ T(t)[0] = t
                        /\ \A i \in 1..N : T(t)[i] = Applied(T(t)[i - 1], q[i])
                        /\ T(t)[N] = Executed(t, q)
  BY <1>1 DEF Trace
<1> HIDE DEF N
<1>4. 0 \in S
  <2>1. 0 \in 0..N /\ 0 \in Nat /\ \A t \in Tables : T(t)[0][k] = Shape(OpOf(q), 0, t[k])
    BY <1>2, <1>3 DEF Shape
  <2> QED BY <2>1
<1>5. ASSUME NEW i \in 0..N, i \in S, i < N PROVE i + 1 \in S
  <2> DEFINE j == i + 1
  <2>1. j \in 1..N /\ j \in 0..N /\ j - 1 = i
    BY <1>2, <1>5
  <2> HIDE DEF j
  <2>2. PICK c \in Nat : \A t \in Tables : T(t)[i][k] = Shape(OpOf(q), c, t[k])
    BY <1>5
  <2>3. PICK d \in Nat : \A v \in Nat : RowAfter(k, v, q[j]) = Shape(OpOf(q), d, v)
    BY <1>2, <2>1, ShapeOfChange
  <2>4. PICK e \in Nat : \A v \in Nat : Shape(OpOf(q), d, Shape(OpOf(q), c, v)) = Shape(OpOf(q), e, v)
    BY ShapeTwice
  <2>5. ASSUME NEW t \in Tables PROVE T(t)[j][k] = Shape(OpOf(q), e, t[k])
    <3>1. T(t)[i] \in Tables /\ T(t)[j] = Applied(T(t)[i], q[j])
      BY <1>3, <2>1
    <3>2. T(t)[j][k] = RowAfter(k, T(t)[i][k], q[j]) /\ T(t)[i][k] \in Nat /\ t[k] \in Nat
      BY <3>1 DEF Applied, Tables
    <3> QED BY <2>2, <2>3, <2>4, <3>2
  <2>6. j \in S
    BY <2>1, <2>5
  <2> QED BY <2>6 DEF j
<1> HIDE DEF S
<1>6. \A i \in 0..N : i \in S /\ i < N => i + 1 \in S
  BY <1>5
<1>7. \A i \in 0..N : i \in S
  BY <1>2, <1>4, <1>6, UpTo
<1>8. N \in 0..N
  BY <1>2
<1>9. PICK c \in Nat : \A t \in Tables : T(t)[N][k] = Shape(OpOf(q), c, t[k])
  BY <1>7, <1>8 DEF S
<1> QED BY <1>3, <1>9

\* The queries of a run have the shape of one change.
LEMMA QueriesShape ==
  ASSUME Chosen, Accepting, NEW qs, QueriesOK(qs), NEW k \in Key
  PROVE  \E c \in Nat : \A t \in Tables :
            WithinFrom(t, qs)[Len(qs)][k] = Shape(OpOf(qs[1]), c, t[k])
<1> DEFINE N == Len(qs)
           op == OpOf(qs[1])
           S == {i \in 0..N : \E c \in Nat : \A t \in Tables : WithinFrom(t, qs)[i][k] = Shape(op, c, t[k])}
<1>1. \A t \in Tables : /\ WithinFrom(t, qs) \in [0..N -> Tables] /\ WithinFrom(t, qs)[0] = t
                        /\ \A i \in 1..N : WithinFrom(t, qs)[i] = Executed(WithinFrom(t, qs)[i - 1], qs[i])
  BY WithinFacts
<1>2. N \in Nat /\ \A i \in 1..N : QueryOK(qs[i]) /\ OpOf(qs[i]) = op
  BY LenProperties DEF QueriesOK
<1> HIDE DEF N, op
<1>3. 0 \in S
  <2>1. 0 \in 0..N /\ 0 \in Nat /\ \A t \in Tables : WithinFrom(t, qs)[0][k] = Shape(op, 0, t[k])
    BY <1>1, <1>2 DEF Shape
  <2> QED BY <2>1
<1>4. ASSUME NEW i \in 0..N, i \in S, i < N PROVE i + 1 \in S
  <2> DEFINE j == i + 1
  <2>1. j \in 1..N /\ j \in 0..N /\ j - 1 = i
    BY <1>2, <1>4
  <2> HIDE DEF j
  <2>2. PICK c \in Nat : \A t \in Tables : WithinFrom(t, qs)[i][k] = Shape(op, c, t[k])
    BY <1>4
  <2>3. PICK d \in Nat : \A t \in Tables : Executed(t, qs[j])[k] = Shape(op, d, t[k])
    BY <1>2, <2>1, QueryShape
  <2>4. PICK e \in Nat : \A v \in Nat : Shape(op, d, Shape(op, c, v)) = Shape(op, e, v)
    BY ShapeTwice
  <2>5. ASSUME NEW t \in Tables PROVE WithinFrom(t, qs)[j][k] = Shape(op, e, t[k])
    <3>1. WithinFrom(t, qs)[i] \in Tables /\ WithinFrom(t, qs)[j] = Executed(WithinFrom(t, qs)[i], qs[j])
      BY <1>1, <2>1
    <3>2. WithinFrom(t, qs)[j][k] = Shape(op, d, WithinFrom(t, qs)[i][k]) /\ t[k] \in Nat
      BY <2>3, <3>1 DEF Tables
    <3> QED BY <2>2, <2>4, <3>2
  <2>6. j \in S
    BY <2>1, <2>5
  <2> QED BY <2>6 DEF j
<1> HIDE DEF S
<1>5. \A i \in 0..N : i \in S /\ i < N => i + 1 \in S
  BY <1>4
<1>6. \A i \in 0..N : i \in S
  BY <1>2, <1>3, <1>5, UpTo
<1>7. N \in 0..N
  BY <1>2
<1> QED BY <1>6, <1>7 DEF S, N, op

\* A run executed a second time, one after the other, changes nothing more.
LEMMA QueriesAgain ==
  ASSUME Chosen, Accepting, NEW qs, QueriesOK(qs), NEW t \in Tables
  PROVE  WithinFrom(WithinFrom(t, qs)[Len(qs)], qs)[Len(qs)] = WithinFrom(t, qs)[Len(qs)]
<1> DEFINE F(u) == WithinFrom(u, qs)[Len(qs)]
<1>1. \A u \in Tables : F(u) \in Tables
  <2> SUFFICES ASSUME NEW u \in Tables PROVE F(u) \in Tables
    OBVIOUS
  <2>1. Len(qs) \in Nat /\ WithinFrom(u, qs) \in [0..Len(qs) -> Tables]
    BY WithinFacts
  <2>2. Len(qs) \in 0..Len(qs)
    BY <2>1
  <2> QED BY <2>1, <2>2
<1>2. ASSUME NEW k \in Key PROVE F(F(t))[k] = F(t)[k]
  <2>1. PICK c \in Nat : \A u \in Tables : F(u)[k] = Shape(OpOf(qs[1]), c, u[k])
    BY QueriesShape
  <2> HIDE DEF F
  <2>2. t[k] \in Nat
    BY DEF Tables
  <2> QED BY <1>1, <2>1, <2>2, ShapeAgain
<1>3. F(t) \in Tables /\ F(F(t)) \in Tables
  BY <1>1
<1> HIDE DEF F
<1>4. F(F(t)) = F(t)
  BY <1>2, <1>3 DEF Tables
<1> QED BY <1>4 DEF F

\* A bounded set of numbers has a greatest one.
LEMMA Greatest ==
  ASSUME NEW N \in Nat, NEW S \in SUBSET (0..N), S # {}
  PROVE  \E p \in S : \A q \in S : q <= p
<1> DEFINE Down == {N - q : q \in S}
<1>0. S \subseteq Int /\ \A q \in S : q <= N /\ N - q \in Nat
  OBVIOUS
<1>1. Down \in SUBSET Nat /\ Down # {}
  BY <1>0
<1>2. PICK d \in Down : \A q \in Down : d <= q
  <2> HIDE DEF Down
  <2> QED BY <1>1, Least
<1>3. PICK p \in S : d = N - p
  OBVIOUS
<1>4. \A q \in S : N - q \in Down
  OBVIOUS
<1>5. \A q \in S : d <= N - q
  BY <1>2, <1>4
<1> HIDE DEF Down
<1> QED BY <1>0, <1>3, <1>5

-----------------------------------------------------------------------------
(* The queries a run is made into.                                         *)

\* The changes of a run are of one kind.
LEMMA RunIsOfOneKind ==
  ASSUME NEW ps \in Seq(Nat), ps # <<>>
  PROVE  \A i \in 1..RunLength(ps) : Action(ps[i]) = Action(ps[1])
<1> DEFINE L == Len(ps)
           N == {n \in 1..L : \A i \in 2..n : Continues(ps[1], ps[i])}
<1>1. L \in Nat /\ L >= 1
  BY LenProperties, EmptySeq
<1> HIDE DEF L
<1>2. 1 \in N /\ N \in SUBSET (0..L) /\ N # {} /\ \A n \in N : n \in Nat
  BY <1>1
<1>3. PICK m \in N : \A n \in N : n <= m
  <2> HIDE DEF N
  <2> QED BY <1>1, <1>2, Greatest
<1>4. m \in 1..L /\ m \in Nat /\ \A i \in 2..m : Continues(ps[1], ps[i])
  BY <1>1, <1>3
<1>5. N = 1..m
  <2>1. \A n \in 1..m : n \in 1..L /\ \A i \in 2..n : i \in 2..m
    BY <1>1, <1>4
  <2>2. 1..m \subseteq N
    BY <1>4, <2>1
  <2>3. \A n \in N : n \in 1..L
    OBVIOUS
  <2> HIDE DEF N
  <2>4. \A n \in N : n \in 1..m
    BY <1>1, <1>3, <1>4, <2>3
  <2> QED BY <2>2, <2>4
<1>6. RunLength(ps) = Cardinality(N)
  BY DEF RunLength, L
<1> HIDE DEF N
<1>7. Cardinality(N) = m
  BY <1>4, <1>5, FS_Interval
<1>8. \A i \in 1..m : i = 1 \/ i \in 2..m
  BY <1>4
<1> QED BY <1>4, <1>6, <1>7, <1>8 DEF Continues

\* A part of a chained sequence of positions.
IsPart(p, s, a, b) ==
  /\ s \in Seq(1..Len(log))
  /\ Chain(s)
  /\ a \in 1..Len(s)
  /\ b \in a..Len(s)
  /\ p = SubSeq(s, a, b)

LEMMA PartOfChain ==
  ASSUME NEW p, NEW s, NEW a \in Int, NEW b \in Int, IsPart(p, s, a, b)
  PROVE  /\ p \in Seq(1..Len(log)) /\ p # <<>>
         /\ Len(p) = b - a + 1
         /\ \A i \in 1 .. b - a + 1 : p[i] = s[a + i - 1]
         /\ p[1] = s[a] /\ Last(p) = s[b]
         /\ Chain(p)
<1> DEFINE S == 1..Len(log)
<1>0. s \in Seq(S) /\ Chain(s) /\ a \in 1..Len(s) /\ b \in a..Len(s) /\ p = SubSeq(s, a, b)
  BY DEF IsPart
<1> HIDE DEF S
<1>1. /\ Len(s) \in Nat /\ a \in Nat /\ b \in Nat /\ 1 <= a /\ a <= b /\ b <= Len(s)
      /\ \A i \in 1..Len(s) : s[i] \in S
  BY <1>0, LenProperties, ElementOfSeq
<1>2. a \in Int /\ b \in Int /\ \A i \in a..b : s[i] \in S
  BY <1>1
<1>3. /\ p \in Seq(S)
      /\ Len(p) = IF a <= b THEN b - a + 1 ELSE 0
      /\ \A i \in 1 .. b - a + 1 : p[i] = s[a + i - 1]
  <2>1. /\ SubSeq(s, a, b) \in Seq(S)
        /\ Len(SubSeq(s, a, b)) = IF a <= b THEN b - a + 1 ELSE 0
        /\ \A i \in 1 .. b - a + 1 : SubSeq(s, a, b)[i] = s[a + i - 1]
    BY <1>2, SubSeqProperties
  <2> QED BY <1>0, <2>1
<1>4. Len(p) = b - a + 1 /\ p # <<>>
  <2>1. Len(p) = b - a + 1 /\ Len(p) # 0
    BY <1>1, <1>3
  <2> QED BY <1>3, <2>1, EmptySeq
<1>5. p[1] = s[a] /\ Last(p) = s[b]
  <2>1. 1 \in 1 .. b - a + 1 /\ a + 1 - 1 = a /\ b - a + 1 \in 1 .. b - a + 1 /\ a + (b - a + 1) - 1 = b
    BY <1>1
  <2>2. p[1] = s[a] /\ p[b - a + 1] = s[b]
    BY <1>3, <2>1
  <2> QED BY <1>4, <2>2 DEF Last
<1>6. Chain(p)
  <2> SUFFICES ASSUME NEW i \in 1..Len(p) - 1 PROVE Follows(p[i], p[i + 1])
    BY DEF Chain
  <2> DEFINE j == a + i - 1
  <2>1. /\ i \in 1 .. b - a + 1 /\ i + 1 \in 1 .. b - a + 1 /\ a + (i + 1) - 1 = j + 1
        /\ j \in 1..Len(s) - 1
    BY <1>1, <1>4
  <2>2. p[i] = s[j] /\ p[i + 1] = s[a + (i + 1) - 1]
    BY <1>3, <2>1
  <2> HIDE DEF j
  <2> QED BY <1>0, <2>1, <2>2 DEF Chain
<1> QED BY <1>3, <1>4, <1>5, <1>6 DEF S

\* A factor for the other side of an inequality.
LEMMA Products ==
  ASSUME NEW a \in Nat, NEW b \in Nat, NEW s \in Nat, a <= b
  PROVE  a * s <= b * s
BY SMT

\* Where the chunks of a run begin and end.
LEMMA ChunkEnds ==
  ASSUME NEW run \in Seq(Nat), run # <<>>, NEW size \in Nat \ {0}
  PROVE  \E count \in Nat \ {0} : \E e \in [0..count -> 0..Len(run)] :
            /\ DOMAIN Chunks(run, size) = 1..count
            /\ e[0] = 0 /\ e[count] = Len(run)
            /\ \A i \in 1..count : /\ e[i - 1] < e[i] /\ e[i] - e[i - 1] <= size
                                   /\ Chunks(run, size)[i] = SubSeq(run, e[i - 1] + 1, e[i])
<1> DEFINE L == Len(run)
           count == (L + size - 1) \div size
           e == [i \in 0..count |-> Min({i * size, L})]
<1>1. L \in Nat /\ L >= 1 /\ size \in Nat /\ size >= 1
  BY LenProperties, EmptySeq
<1>2. count \in Nat /\ count * size <= L + size - 1 /\ L + size - 1 < count * size + size
  BY <1>1
<1>3. Chunks(run, size) = [i \in 1..count |-> SubSeq(run, (i - 1) * size + 1, Min({i * size, L}))]
  BY DEF Chunks
<1> HIDE DEF L, count
<1>4. count # 0 /\ L <= count * size
  <2>1. count # 0
    BY <1>1, <1>2
  <2> QED BY <1>1, <1>2, <2>1
<1>5. \A i \in 0..count : e[i] = IF i * size <= L THEN i * size ELSE L
  <2> SUFFICES ASSUME NEW i \in 0..count PROVE e[i] = IF i * size <= L THEN i * size ELSE L
    OBVIOUS
  <2>1. i * size \in Nat
    BY <1>1, <1>2
  <2> QED BY <1>1, <2>1, MinOfTwo
<1> HIDE DEF e
<1>6. \A i \in 1..count : (i - 1) * size < L /\ i * size = (i - 1) * size + size /\ (i - 1) * size \in Nat
  <2> SUFFICES ASSUME NEW i \in 1..count
               PROVE  (i - 1) * size < L /\ i * size = (i - 1) * size + size /\ (i - 1) * size \in Nat
    OBVIOUS
  <2>1. i \in Nat /\ i - 1 \in Nat /\ i <= count
    BY <1>2
  <2>2. i * size = (i - 1) * size + size /\ (i - 1) * size \in Nat /\ count * size \in Nat
    BY <1>1, <1>2, <2>1
  <2>3. i * size <= count * size
    BY <1>1, <1>2, <2>1, Products
  <2> QED BY <1>1, <1>2, <2>2, <2>3
<1>7. e \in [0..count -> 0..L]
  <2>1. e = [i \in 0..count |-> e[i]]
    BY DEF e
  <2>2. \A i \in 0..count : i * size \in Nat
    BY <1>1, <1>2
  <2>3. \A i \in 0..count : e[i] \in 0..L
    BY <1>1, <1>5, <2>2
  <2> QED BY <2>1, <2>3
<1>8. e[0] = 0 /\ e[count] = L
  BY <1>1, <1>2, <1>4, <1>5
<1>9. ASSUME NEW i \in 1..count
      PROVE  /\ e[i - 1] < e[i] /\ e[i] - e[i - 1] <= size
             /\ Chunks(run, size)[i] = SubSeq(run, e[i - 1] + 1, e[i])
  <2>1. i \in 0..count /\ i - 1 \in 0..count
    BY <1>2
  <2>2. (i - 1) * size < L /\ i * size = (i - 1) * size + size /\ (i - 1) * size \in Nat
    BY <1>6
  <2>3. e[i - 1] = (i - 1) * size /\ e[i] = IF i * size <= L THEN i * size ELSE L
    BY <1>5, <2>1, <2>2, <1>1
  <2>4. e[i] = Min({i * size, L})
    BY <2>1 DEF e
  <2>5. Chunks(run, size)[i] = SubSeq(run, (i - 1) * size + 1, Min({i * size, L}))
    BY <1>3
  <2>6. Chunks(run, size)[i] = SubSeq(run, e[i - 1] + 1, e[i])
    BY <2>3, <2>4, <2>5
  <2>7. e[i - 1] < e[i] /\ e[i] - e[i - 1] <= size
    BY <1>1, <2>2, <2>3
  <2> QED BY <2>6, <2>7
<1>10. DOMAIN Chunks(run, size) = 1..count
  BY <1>3
<1> QED BY <1>2, <1>4, <1>7, <1>8, <1>9, <1>10 DEF L

\* A run: changes of one kind, each what may follow the one before.
RunOK(run) ==
  /\ run \in Seq(1..Len(log))
  /\ run # <<>>
  /\ \A i \in DOMAIN run : log[run[i]].op = log[run[1]].op
  /\ Chain(run)

\* A part of a run is a query, if it may be one at all.
LEMMA PartIsQuery ==
  ASSUME Chosen, NEW q, NEW run, NEW a \in Int, NEW b \in Int, RunOK(run), IsPart(q, run, a, b),
         log[run[1]].op \in {Insert, Delete} \/ a = b
  PROVE  /\ QueryOK(q) /\ q \in Seq(Nat) /\ OpOf(q) = log[run[1]].op
         /\ q[1] = run[a] /\ Last(q) = run[b]
<1>0. a \in 1..Len(run) /\ b \in a..Len(run)
  BY DEF IsPart
<1>1. /\ q \in Seq(1..Len(log)) /\ q # <<>> /\ Len(q) = b - a + 1
      /\ \A i \in 1 .. b - a + 1 : q[i] = run[a + i - 1]
      /\ q[1] = run[a] /\ Last(q) = run[b] /\ Chain(q)
  BY PartOfChain
<1>2. Len(run) \in Nat /\ DOMAIN run = 1..Len(run) /\ Len(log) \in Nat
  BY LenProperties, LogFacts DEF RunOK, Chosen
<1>3. DOMAIN q = 1 .. b - a + 1 /\ 1 \in 1 .. b - a + 1
  BY <1>0, <1>1, <1>2, LenProperties
<1>4. \A i \in 1 .. b - a + 1 : log[q[i]].op = log[run[1]].op
  <2> SUFFICES ASSUME NEW i \in 1 .. b - a + 1 PROVE log[q[i]].op = log[run[1]].op
    OBVIOUS
  <2>1. a + i - 1 \in DOMAIN run
    BY <1>0, <1>2
  <2> QED BY <1>1, <2>1 DEF RunOK
<1>5. QueryOK(q)
  <2>1. \A i \in DOMAIN q : log[q[i]].op = log[q[1]].op
    BY <1>3, <1>4
  <2>2. log[q[1]].op \notin {Insert, Delete} => Len(q) = 1
    BY <1>0, <1>1, <1>2, <1>3, <1>4
  <2> QED BY <1>1, <2>1, <2>2 DEF QueryOK
<1>6. q \in Seq(Nat)
  <2>1. 1..Len(log) \subseteq Nat
    BY <1>2
  <2>2. \A i \in 1..Len(q) : q[i] \in Nat
    BY <1>1, <2>1, ElementOfSeq
  <2> QED BY <1>1, <2>2, SeqDef, LenProperties, IsASeq
<1>7. OpOf(q) = log[run[1]].op
  BY <1>3, <1>4 DEF OpOf
<1> QED BY <1>1, <1>5, <1>6, <1>7

\* The chunks of a run are its queries.
LEMMA ChunksAreQueries ==
  ASSUME Chosen, NEW run, RunOK(run), run \in Seq(Nat), NEW size \in Nat \ {0},
         log[run[1]].op \in {Insert, Delete} \/ size = 1
  PROVE  LET qs == Chunks(run, size)
         IN  QueriesOK(qs) /\ qs # <<>> /\ qs[1][1] = run[1] /\ Last(Last(qs)) = Last(run)
<1> DEFINE qs == Chunks(run, size)
           op == log[run[1]].op
<1>0. run # <<>> /\ Len(run) \in Nat
  BY LenProperties DEF RunOK
<1>1. PICK count \in Nat \ {0} : \E e \in [0..count -> 0..Len(run)] :
            /\ DOMAIN qs = 1..count
            /\ e[0] = 0 /\ e[count] = Len(run)
            /\ \A i \in 1..count : /\ e[i - 1] < e[i] /\ e[i] - e[i - 1] <= size
                                   /\ qs[i] = SubSeq(run, e[i - 1] + 1, e[i])
  BY <1>0, ChunkEnds
<1>2. PICK e \in [0..count -> 0..Len(run)] :
            /\ DOMAIN qs = 1..count
            /\ e[0] = 0 /\ e[count] = Len(run)
            /\ \A i \in 1..count : /\ e[i - 1] < e[i] /\ e[i] - e[i - 1] <= size
                                   /\ qs[i] = SubSeq(run, e[i - 1] + 1, e[i])
  BY <1>1
<1>3. qs = [i \in 1..count |-> qs[i]]
  BY <1>2 DEF Chunks
<1> HIDE DEF qs
<1>11. \A i \in 0..count : e[i] \in 0..Len(run)
  OBVIOUS
<1>12. \A i \in 1..count : i \in 0..count /\ i - 1 \in 0..count
  OBVIOUS
<1>4. ASSUME NEW i \in 1..count
      PROVE  /\ QueryOK(qs[i]) /\ qs[i] \in Seq(Nat) /\ OpOf(qs[i]) = op
             /\ qs[i][1] = run[e[i - 1] + 1] /\ Last(qs[i]) = run[e[i]]
  <2> DEFINE a == e[i - 1] + 1
             b == e[i]
  <2>1. i \in 0..count /\ i - 1 \in 0..count /\ e[i - 1] \in 0..Len(run) /\ e[i] \in 0..Len(run)
    BY <1>11, <1>12
  <2>2. e[i - 1] < e[i] /\ e[i] - e[i - 1] <= size /\ qs[i] = SubSeq(run, a, b)
    BY <1>2
  <2>3. a \in 1..Len(run) /\ b \in a..Len(run) /\ (size = 1 => a = b)
    <3> DEFINE c == e[i - 1]
               d == e[i]
    <3>1. c \in 0..Len(run) /\ d \in 0..Len(run) /\ c < d /\ d - c <= size
      BY <2>1, <2>2
    <3> HIDE DEF c, d
    <3>2. c + 1 \in 1..Len(run) /\ d \in c + 1 .. Len(run) /\ (size = 1 => c + 1 = d)
      BY <1>0, <3>1
    <3> QED BY <3>2 DEF c, d
  <2> HIDE DEF a, b
  <2>4. a \in Int /\ b \in Int
    BY <1>0, <2>3
  <2> DEFINE q == qs[i]
  <2>5. IsPart(q, run, a, b)
    BY <2>2, <2>3 DEF IsPart, RunOK
  <2>6. log[run[1]].op \in {Insert, Delete} \/ a = b
    BY <2>3
  <2> HIDE DEF q
  <2>7. /\ QueryOK(q) /\ q \in Seq(Nat) /\ OpOf(q) = log[run[1]].op
        /\ q[1] = run[a] /\ Last(q) = run[b]
    BY <2>6, <2>4, <2>5, PartIsQuery
  <2> QED BY <2>7 DEF a, b, q
<1>5. qs \in Seq(Seq(Nat)) /\ Len(qs) = count
  <2>1. qs \in [1..count -> Seq(Nat)]
    BY <1>3, <1>4
  <2> QED BY <2>1
<1>6. \A i \in DOMAIN qs : QueryOK(qs[i]) /\ OpOf(qs[i]) = OpOf(qs[1])
  <2>1. 1 \in 1..count /\ DOMAIN qs = 1..count
    BY <1>2
  <2> QED BY <1>4, <2>1
<1>7. \A i \in 1..Len(qs) - 1 : Follows(Last(qs[i]), qs[i + 1][1])
  <2> SUFFICES ASSUME NEW i \in 1..count - 1 PROVE Follows(Last(qs[i]), qs[i + 1][1])
    BY <1>5
  <2> DEFINE j == i + 1
  <2>1. i \in 1..count /\ j \in 1..count /\ j - 1 = i /\ i \in 0..count /\ j \in 0..count
        /\ e[i] \in 0..Len(run) /\ e[j] \in 0..Len(run) /\ i - 1 \in 0..count
        /\ e[i - 1] \in 0..Len(run)
    <3>1. i \in 1..count /\ j \in 1..count /\ j - 1 = i
      OBVIOUS
    <3> HIDE DEF j
    <3> QED BY <1>11, <1>12, <3>1
  <2> HIDE DEF j
  <2>2. Last(qs[i]) = run[e[i]] /\ qs[j][1] = run[e[i] + 1]
    BY <1>4, <2>1
  <2>3. e[i - 1] < e[i] /\ e[i] < e[j]
    BY <1>2, <2>1
  <2>4. e[i] \in 1..Len(run) - 1
    <3> DEFINE c == e[i - 1]
               d == e[i]
               f == e[j]
    <3>1. c \in 0..Len(run) /\ d \in 0..Len(run) /\ f \in 0..Len(run) /\ c < d /\ d < f
      BY <2>1, <2>3
    <3> HIDE DEF c, d, f
    <3>2. d \in 1..Len(run) - 1
      BY <1>0, <3>1
    <3> QED BY <3>2 DEF d
  <2>5. Follows(run[e[i]], run[e[i] + 1])
    BY <2>4 DEF RunOK, Chain
  <2> QED BY <2>2, <2>5 DEF j
<1>8. qs # <<>>
  BY <1>5
<1>9. qs[1][1] = run[1]
  <2>1. 1 \in 1..count /\ e[1 - 1] + 1 = 1
    BY <1>2
  <2> QED BY <1>4, <2>1
<1>10. Last(Last(qs)) = Last(run)
  <2>1. count \in 1..count
    OBVIOUS
  <2>2. Last(qs[count]) = run[Len(run)]
    BY <1>2, <1>4, <2>1
  <2> QED BY <1>5, <2>2 DEF Last
<1> QED BY <1>5, <1>6, <1>7, <1>8, <1>9, <1>10 DEF QueriesOK, qs

\* A run's queries are made of it, in its order.
LEMMA RunsQueries ==
  ASSUME Chosen, NEW run, RunOK(run)
  PROVE  LET qs == buildCoalescedQueries(run)
         IN  QueriesOK(qs) /\ qs # <<>> /\ qs[1][1] = run[1] /\ Last(Last(qs)) = Last(run)
<1>1. run \in Seq(Nat)
  <2>1. Len(log) \in Nat /\ run \in Seq(1..Len(log))
    BY LogFacts DEF Chosen, RunOK
  <2>2. \A i \in 1..Len(run) : run[i] \in Nat
    BY <2>1, ElementOfSeq
  <2> QED BY <2>1, <2>2, SeqDef, LenProperties, IsASeq
<1>2. CASE log[run[1]].op = Delete
  <2> DEFINE q == SubSeq(run, 1, Len(run))
             qs == <<run>>
  <2>1. q = run
    BY <1>1, SubSeqFull
  <2>2. 1 \in 1..Len(run) /\ Len(run) \in 1..Len(run)
    BY <1>1, LenProperties, EmptySeq DEF RunOK
  <2>8. IsPart(q, run, 1, Len(run)) /\ Len(run) \in Int
    BY <2>2 DEF IsPart, RunOK
  <2>3. QueryOK(q) /\ Last(q) = run[Len(run)]
    <3> HIDE DEF q
    <3> QED BY <1>2, <2>8, PartIsQuery
  <2>4. buildCoalescedQueries(run) = qs
    BY <1>2 DEF buildCoalescedQueries, Delete, Insert
  <2>5. qs \in Seq(Seq(Nat)) /\ Len(qs) = 1 /\ DOMAIN qs = {1} /\ qs[1] = run /\ qs # <<>>
    BY <1>1
  <2> HIDE DEF qs, q
  <2>6. QueriesOK(qs)
    <3>1. 1..Len(qs) - 1 = {}
      BY <2>5
    <3> QED BY <2>1, <2>3, <2>5, <3>1 DEF QueriesOK
  <2>7. Last(Last(qs)) = Last(run)
    BY <2>5 DEF Last
  <2> QED BY <2>4, <2>5, <2>6, <2>7
<1>3. CASE log[run[1]].op = Insert /\ log[run[1]].op # Delete
  <2>1. buildCoalescedQueries(run) = Chunks(run, RowsPerChunk)
    BY <1>3 DEF buildCoalescedQueries, Delete, Insert
  <2> QED BY <1>1, <1>3, <2>1, ChunksAreQueries, ConstantsOK
<1>4. CASE log[run[1]].op \notin {Insert, Delete}
  <2>1. buildCoalescedQueries(run) = Chunks(run, 1)
    BY <1>4 DEF buildCoalescedQueries, Delete, Insert
  <2> QED BY <1>1, <2>1, ChunksAreQueries
<1> QED BY <1>2, <1>3, <1>4

-----------------------------------------------------------------------------
(* What is to be done yet, and the invariant.                              *)

\* The positions in the order they are to be executed in: of the batch, of what the
\* sender has collected, and what the stream delivers next.
Todo == rest \o Append(pending, next)

\* The first position to be executed, and the last one of the run being flushed.
Ahead == IF queries # <<>> THEN queries[1][1] ELSE Todo[1]
RunEnd == Last(Last(queries))

\* The run being flushed has been executed.
Again == WithinFrom(target, queries)[Len(queries)] = target

\* The target and the position it has reached are in P, where the answer to a commit
\* may have been lost.
Holds(P) ==
  \/ <<target, Ahead - 1>> \in P
  \/ queries # <<>> /\ <<target, RunEnd>> \in P /\ Again

HoldsNext(P) ==
  \/ <<target', Ahead' - 1>> \in P
  \/ queries' # <<>> /\ <<target', RunEnd'>> \in P /\ Again'

Positioned ==
  /\ next \in 1..Len(log) + 1
  /\ confirmed \in 0..Len(log)
  /\ pending \in Seq(1..Len(log))
  /\ batch \in Seq(1..Len(log))
  /\ rest \in Seq(1..Len(log))

\* Nothing is left out: what comes next is at most one further than what comes before.
Ordered ==
  /\ Chain(Todo)
  /\ QueriesOK(queries)
  /\ queries # <<>> => Follows(RunEnd, Todo[1])

\* No query has failed.
Quiet == retry = <<>> /\ lastErr \in {None, Lost}

Flowing ==
  /\ Quiet
  /\ Ordered
  /\ Holds(Healing)
  /\ redeliveries = 0 => Holds(Exact)

WriterInv ==
  /\ Inv
  /\ Chosen
  /\ Positioned
  /\ redeliveries \in Nat
  /\ redeliveries = 0 => ~skipped
  /\ Accepting /\ ~skipped => Flowing

\* The places of a queue made of what is left, what waits and what comes next.
LEMMA QueueFacts ==
  ASSUME NEW S, NEW r \in Seq(S), NEW p \in Seq(S), NEW n \in S, NEW q,
         q = r \o Append(p, n)
  PROVE  /\ q \in Seq(S) /\ Len(q) = Len(r) + Len(p) + 1 /\ Len(r) \in Nat /\ Len(p) \in Nat
         /\ \A i \in 1..Len(r) : q[i] = r[i]
         /\ \A i \in 1..Len(p) : q[Len(r) + i] = p[i]
         /\ q[Len(q)] = n
<1> DEFINE a == Append(p, n)
<1>1. Len(r) \in Nat /\ Len(p) \in Nat
  BY LenProperties
<1>2. /\ a \in Seq(S) /\ Len(a) = Len(p) + 1
      /\ \A i \in 1..Len(p) : a[i] = p[i]
      /\ a[Len(p) + 1] = n
  BY AppendProperties
<1>0. q = r \o a
  OBVIOUS
<1> HIDE DEF a
<1>3. /\ q \in Seq(S) /\ Len(q) = Len(r) + Len(a)
      /\ \A i \in 1..Len(r) + Len(a) : q[i] = IF i <= Len(r) THEN r[i] ELSE a[i - Len(r)]
  <2>1. /\ r \o a \in Seq(S) /\ Len(r \o a) = Len(r) + Len(a)
        /\ \A i \in 1..Len(r) + Len(a) : (r \o a)[i] = IF i <= Len(r) THEN r[i] ELSE a[i - Len(r)]
    BY <1>2, ConcatProperties
  <2> QED BY <1>0, <2>1
<1>4. \A i \in 1..Len(r) : q[i] = r[i]
  BY <1>1, <1>2, <1>3
<1>5. \A i \in 1..Len(p) + 1 : q[Len(r) + i] = a[i]
  <2> SUFFICES ASSUME NEW i \in 1..Len(p) + 1 PROVE q[Len(r) + i] = a[i]
    OBVIOUS
  <2>1. Len(r) + i \in 1..Len(r) + Len(a) /\ ~(Len(r) + i <= Len(r)) /\ Len(r) + i - Len(r) = i
    BY <1>1, <1>2
  <2> DEFINE j == Len(r) + i
  <2>2. q[j] = IF j <= Len(r) THEN r[j] ELSE a[j - Len(r)]
    BY <1>3, <2>1
  <2> QED BY <2>1, <2>2
<1>6. Len(q) = Len(r) + (Len(p) + 1) /\ Len(q) = Len(r) + Len(p) + 1 /\ Len(p) + 1 \in 1..Len(p) + 1
  BY <1>1, <1>2, <1>3
<1>7. q[Len(q)] = n
  BY <1>2, <1>5, <1>6
<1>8. \A i \in 1..Len(p) : q[Len(r) + i] = p[i]
  <2>1. \A i \in 1..Len(p) : i \in 1..Len(p) + 1
    BY <1>1
  <2> QED BY <1>2, <1>5, <2>1
<1> QED BY <1>1, <1>3, <1>4, <1>6, <1>7, <1>8

\* A sequence over a set is one over a greater set.
LEMMA SeqOver ==
  ASSUME NEW S, NEW T, S \subseteq T, NEW s \in Seq(S)
  PROVE  s \in Seq(T)
<1>1. \A i \in 1..Len(s) : s[i] \in T
  BY ElementOfSeq
<1> QED BY <1>1, SeqDef, LenProperties, IsASeq

\* What is to be done, place by place.
LEMMA TodoFacts ==
  ASSUME WriterInv
  PROVE  /\ Todo \in Seq(1..Len(log) + 1) /\ Len(Todo) = Len(rest) + Len(pending) + 1
         /\ Len(rest) \in Nat /\ Len(pending) \in Nat /\ Len(log) \in Nat
         /\ \A i \in 1..Len(rest) : Todo[i] = rest[i]
         /\ \A i \in 1..Len(pending) : Todo[Len(rest) + i] = pending[i]
         /\ Todo[Len(Todo)] = next
         /\ \A i \in 1..Len(Todo) : Todo[i] \in 1..Len(log) + 1
<1> DEFINE S == 1..Len(log) + 1
<1>1. Len(log) \in Nat
  BY LogFacts DEF WriterInv, Chosen
<1>2. 1..Len(log) \subseteq S
  BY <1>1
<1>3. rest \in Seq(1..Len(log)) /\ pending \in Seq(1..Len(log)) /\ next \in S
  BY DEF WriterInv, Positioned
<1> HIDE DEF S
<1>4. rest \in Seq(S) /\ pending \in Seq(S)
  BY <1>2, <1>3, SeqOver
<1>5. /\ Todo \in Seq(S) /\ Len(Todo) = Len(rest) + Len(pending) + 1
      /\ Len(rest) \in Nat /\ Len(pending) \in Nat
      /\ \A i \in 1..Len(rest) : Todo[i] = rest[i]
      /\ \A i \in 1..Len(pending) : Todo[Len(rest) + i] = pending[i]
      /\ Todo[Len(Todo)] = next
  BY <1>3, <1>4, QueueFacts DEF Todo
<1>6. \A i \in 1..Len(Todo) : Todo[i] \in S
  BY <1>5, ElementOfSeq
<1> QED BY <1>1, <1>5, <1>6 DEF S

\* A target that accepts everything returns no error.
LEMMA NoErrors ==
  ASSUME Chosen, Accepting, NEW q, QueryOK(q), NEW t
  PROVE  ErrorOf(t, q) = None
<1>1. poison = 0 /\ setting.onConflict = "nothing"
  BY DEF Chosen, Accepting
<1>2. poison \notin Range(q)
  <2>1. q \in Seq(1..Len(log)) /\ Len(log) \in Nat
    BY LogFacts DEF QueryOK, Chosen
  <2>2. Range(q) \subseteq 1..Len(log)
    BY <2>1, RangeOfSeq
  <2> QED BY <1>1, <2>1, <2>2
<1>3. OpOf(q) # Rekey
  BY QueryFacts DEF Insert, Update, Rekey, Delete, Truncate, DDL
<1> QED BY <1>1, <1>2, <1>3 DEF ErrorOf

\* Where the log stays as it is, so does what is said about it.
LEMMA HoldsPrimed ==
  ASSUME log' = log, setting' = setting
  PROVE  /\ HoldsNext(Healing) => Holds(Healing)'
         /\ HoldsNext(Exact) => Holds(Exact)'
<1>1. Healing' = Healing
  BY SMT DEF Healing, Lands, Landing, RowAfter
<1>2. Exact' = Exact
  BY SMT DEF Exact
<1>3. HoldsNext(Healing) => Holds(Healing)'
  BY <1>1 DEF HoldsNext, Holds
<1>4. HoldsNext(Exact) => Holds(Exact)'
  BY <1>2 DEF HoldsNext, Holds
<1> QED BY <1>3, <1>4

\* A step that leaves alone what is to be done and what the target shows.
LEMMA SameFlow ==
  ASSUME Flowing, UNCHANGED <<setting, log, redeliveries, target, queries>>, Quiet',
         Len(Todo') = Len(Todo), \A i \in 1..Len(Todo) : Todo'[i] = Todo[i], Len(Todo) \in Nat \ {0}
  PROVE  Flowing'
<1>1. Todo'[1] = Todo[1]
  OBVIOUS
<1>2. Again' = Again
  BY SMT DEF Again, WithinFrom, Executed, Inserted, OpOf, KeysOf, Changed, Emptied
<1>3. Ahead' = Ahead /\ RunEnd' = RunEnd
  BY <1>1 DEF Ahead, RunEnd
<1>4. HoldsNext(Healing) /\ (redeliveries' = 0 => HoldsNext(Exact))
  BY <1>2, <1>3 DEF Flowing, Holds, HoldsNext
<1>5. Chain(Todo)'
  <2>1. \A i \in 1..Len(Todo) - 1 : Follows(Todo[i], Todo[i + 1])
    BY DEF Flowing, Ordered, Chain
  <2>2. \A i \in 1..Len(Todo) - 1 : i \in 1..Len(Todo) /\ i + 1 \in 1..Len(Todo)
    OBVIOUS
  <2>3. \A i \in 1..Len(Todo') - 1 : Follows(Todo[i], Todo[i + 1])'
    BY <2>1, <2>2 DEF Follows
  <2> QED BY <2>3 DEF Chain
<1>6. QueriesOK(queries)'
  BY DEF Flowing, Ordered, QueriesOK, QueryOK, Chain, Follows, OpOf
<1>7. (queries # <<>> => Follows(RunEnd, Todo[1]))'
  BY <1>1, <1>3 DEF Flowing, Ordered, Follows
<1>8. Ordered'
  BY <1>5, <1>6, <1>7 DEF Ordered
<1> QED BY <1>4, <1>8, HoldsPrimed DEF Flowing

-----------------------------------------------------------------------------
(* The steps.                                                              *)

\* The writer starts in the invariant.
LEMMA InitWriter == Init => WriterInv
<1> SUFFICES ASSUME Init PROVE WriterInv
  OBVIOUS
<1>1. Inv
  BY InitInv
<1>2. log \in Histories /\ \A n \in DOMAIN log : log[n].op \in setting.ops
  BY DEF Init
<1>3. Chosen
  <2>1. setting.poison = {} => poison = 0
    BY DEF Init
  <2> QED BY <1>2, <2>1 DEF Chosen, Init
<1>4. Len(log) \in Nat /\ History(log)[0] = EmptyTables
  BY <1>2, LogFacts, HistoryFacts
<1>5. Positioned
  BY <1>4 DEF Init, Positioned
<1>6. Todo = <<1>> /\ Ahead = 1 /\ queries = <<>>
  <2>1. rest = <<>> /\ pending = <<>> /\ next = 1 /\ queries = <<>>
    BY DEF Init
  <2>2. Todo = <<1>>
    BY <2>1 DEF Todo
  <2> QED BY <2>1, <2>2 DEF Ahead
<1>7. <<target, Ahead - 1>> \in Exact
  <2>1. target = EmptyTables /\ EmptyTables \in Tables
    BY DEF Init, EmptyTables, Tables, NoRow
  <2>2. Ahead - 1 = 0 /\ 0 \in 0..Len(log)
    BY <1>4, <1>6
  <2> QED BY <1>4, <2>1, <2>2 DEF Exact
<1>8. Ordered
  <2>1. Chain(Todo)
    BY <1>6 DEF Chain
  <2>2. QueriesOK(queries)
    BY <1>6 DEF QueriesOK
  <2> QED BY <1>6, <2>1, <2>2 DEF Ordered
<1>9. Accepting => Flowing
  <2> SUFFICES ASSUME Accepting PROVE Flowing
    OBVIOUS
  <2>1. Holds(Exact) /\ Holds(Healing)
    BY <1>3, <1>7, ExactHeals DEF Holds
  <2>2. Quiet
    BY DEF Init, Quiet
  <2> QED BY <1>8, <2>1, <2>2 DEF Flowing
<1> QED BY <1>1, <1>3, <1>5, <1>9 DEF Init, WriterInv

\* What no step changes.
LEMMA ChosenKept == Chosen /\ [Next]_vars => Chosen' /\ UNCHANGED <<setting, log, poison>>
<1> SUFFICES ASSUME Chosen, [Next]_vars PROVE UNCHANGED <<setting, log, poison>>
  BY DEF Chosen
<1>1. CASE Receives \/ ConnectionResets \/ Crashes \/ Restarts
  BY <1>1 DEF Receives, ConnectionResets, Crashes, Restarts, StartsOver
<1>2. CASE SenderStep
  BY <1>2 DEF SenderStep, SendsBatch, FlushesRun, Checkpoints
<1>3. CASE AttemptStep
  BY <1>3 DEF AttemptStep, TxCommits, GivesUp, QueryRejected, QueryErrs
<1>4. CASE FaultStep
  BY <1>4 DEF FaultStep, CommitLost, QueryLost
<1>5. CASE Done \/ UNCHANGED vars
  BY <1>5 DEF Done, vars
<1> QED BY <1>1, <1>2, <1>3, <1>4, <1>5 DEF Next

\* What is received was to be done already; one more position comes after it.
LEMMA ReceivesFlows ==
  ASSUME WriterInv, Flowing, Receives
  PROVE  Flowing'
<1> DEFINE L == Len(Todo)
<1>1. /\ pending' = Append(pending, next) /\ next' = next + 1 /\ next <= Len(log)
      /\ UNCHANGED <<setting, log, redeliveries, target, queries, rest, retry, lastErr>>
  BY DEF Receives, flush
<1>2. /\ L = Len(rest) + Len(pending) + 1 /\ Len(rest) \in Nat /\ Len(pending) \in Nat
      /\ \A i \in 1..Len(rest) : Todo[i] = rest[i]
      /\ \A i \in 1..Len(pending) : Todo[Len(rest) + i] = pending[i]
      /\ Todo[L] = next /\ Len(log) \in Nat
  BY TodoFacts
<1>3. /\ rest \in Seq(Nat) /\ pending \in Seq(Nat) /\ next \in Nat
  BY DEF WriterInv, Inv, TypeInv
<1> HIDE DEF L
<1>4. /\ pending' \in Seq(Nat) /\ Len(pending') = Len(pending) + 1
      /\ \A i \in 1..Len(pending) : pending'[i] = pending[i]
      /\ pending'[Len(pending) + 1] = next
  BY <1>1, <1>3, AppendProperties
<1>5. /\ Len(Todo') = L + 1
      /\ \A i \in 1..Len(rest) : Todo'[i] = rest[i]
      /\ \A i \in 1..Len(pending') : Todo'[Len(rest) + i] = pending'[i]
      /\ Todo'[Len(Todo')] = next + 1
  <2>1. next + 1 \in Nat /\ Todo' = rest \o Append(pending', next + 1)
    BY <1>1, <1>3 DEF Todo
  <2>2. /\ Len(Todo') = Len(rest) + Len(pending') + 1
        /\ \A i \in 1..Len(rest) : Todo'[i] = rest[i]
        /\ \A i \in 1..Len(pending') : Todo'[Len(rest) + i] = pending'[i]
        /\ Todo'[Len(Todo')] = next + 1
    <3> DEFINE p == pending'
               n == next + 1
               q == Todo'
    <3>1. p \in Seq(Nat) /\ n \in Nat /\ q = rest \o Append(p, n)
      BY <1>4, <2>1
    <3> HIDE DEF p, n, q
    <3>2. /\ Len(q) = Len(rest) + Len(p) + 1
          /\ \A i \in 1..Len(rest) : q[i] = rest[i]
          /\ \A i \in 1..Len(p) : q[Len(rest) + i] = p[i]
          /\ q[Len(q)] = n
      BY <1>3, <3>1, QueueFacts
    <3> QED BY <3>2 DEF p, n, q
  <2> QED BY <1>2, <1>4, <2>2
<1>6. \A i \in 1..L : Todo'[i] = Todo[i]
  <2> SUFFICES ASSUME NEW i \in 1..L PROVE Todo'[i] = Todo[i]
    OBVIOUS
  <2>1. CASE i \in 1..Len(rest)
    BY <1>2, <1>5, <2>1
  <2>2. CASE i \notin 1..Len(rest)
    <3> DEFINE j == i - Len(rest)
    <3>1. j \in 1..Len(pending) + 1 /\ Len(rest) + j = i /\ (j \in 1..Len(pending) \/ j = Len(pending) + 1)
      BY <1>2, <2>2
    <3>2. j = Len(pending) + 1 => i = L
      BY <1>2
    <3> HIDE DEF j
    <3>3. Todo'[i] = pending'[j]
      BY <1>4, <1>5, <3>1
    <3> QED BY <1>2, <1>4, <3>1, <3>2, <3>3
  <2> QED BY <2>1, <2>2
<1>7. L \in Nat /\ L >= 1 /\ Todo'[1] = Todo[1]
  BY <1>2, <1>6
<1>8. Again' = Again
  BY <1>1, SMT DEF Again, WithinFrom, Executed, Inserted, OpOf, KeysOf, Changed, Emptied
<1>9. Ahead' = Ahead /\ RunEnd' = RunEnd
  BY <1>1, <1>7 DEF Ahead, RunEnd
<1>10. HoldsNext(Healing) /\ (redeliveries' = 0 => HoldsNext(Exact))
  BY <1>1, <1>8, <1>9 DEF Flowing, Holds, HoldsNext
<1>11. Chain(Todo)'
  <2> SUFFICES ASSUME NEW i \in 1..Len(Todo') - 1 PROVE Follows(Todo[i], Todo[i + 1])'
    BY DEF Chain
  <2>1. CASE i = L
    <3>1. Todo'[i] = next /\ Todo'[i + 1] = next + 1
      BY <1>2, <1>5, <1>6, <1>7, <2>1
    <3> QED BY <1>3, <3>1 DEF Follows
  <2>2. CASE i # L
    <3>1. i \in 1..L - 1 /\ i \in 1..L /\ i + 1 \in 1..L
      BY <1>5, <1>7, <2>2
    <3>2. Follows(Todo[i], Todo[i + 1])
      BY <3>1 DEF Flowing, Ordered, Chain, L
    <3>3. Todo'[i] = Todo[i] /\ Todo'[i + 1] = Todo[i + 1]
      BY <1>6, <3>1
    <3> QED BY <1>1, <3>2, <3>3 DEF Follows
  <2> QED BY <2>1, <2>2
<1>12. QueriesOK(queries)'
  BY <1>1 DEF Flowing, Ordered, QueriesOK, QueryOK, Chain, Follows, OpOf
<1>13. (queries # <<>> => Follows(RunEnd, Todo[1]))'
  BY <1>1, <1>7, <1>9 DEF Flowing, Ordered, Follows
<1>14. Ordered' /\ Quiet'
  BY <1>1, <1>11, <1>12, <1>13 DEF Ordered, Quiet, Flowing
<1> QED BY <1>1, <1>10, <1>14, HoldsPrimed DEF Flowing

\* A batch holds what was collected, in the same order.
LEMMA SendsBatchFlows ==
  ASSUME WriterInv, Flowing, SendsBatch
  PROVE  Flowing'
<1>1. /\ phase = "collecting" /\ rest' = pending /\ pending' = <<>>
      /\ UNCHANGED <<setting, log, redeliveries, target, queries, retry, lastErr, next>>
  BY DEF SendsBatch, flush
<1>2. rest = <<>> /\ Len(rest) = 0
  BY <1>1 DEF WriterInv, Inv, Idle
<1>3. /\ Len(Todo) = Len(rest) + Len(pending) + 1 /\ Len(pending) \in Nat
      /\ \A i \in 1..Len(pending) : Todo[Len(rest) + i] = pending[i]
      /\ Todo[Len(Todo)] = next
  BY TodoFacts
<1>4. pending \in Seq(Nat) /\ next \in Nat /\ <<>> \in Seq(Nat)
  BY DEF WriterInv, Inv, TypeInv
<1>5. Todo' = pending \o Append(<<>>, next)
  BY <1>1 DEF Todo
<1>6. /\ Len(Todo') = Len(pending) + Len(<<>>) + 1
      /\ \A i \in 1..Len(pending) : Todo'[i] = pending[i]
      /\ Todo'[Len(Todo')] = next
  BY <1>4, <1>5, QueueFacts
<1>7. Len(Todo') = Len(Todo) /\ Len(Todo) = Len(pending) + 1
  BY <1>2, <1>3, <1>6
<1>8. \A i \in 1..Len(Todo) : Todo'[i] = Todo[i]
  <2> SUFFICES ASSUME NEW i \in 1..Len(Todo) PROVE Todo'[i] = Todo[i]
    OBVIOUS
  <2>1. i \in 1..Len(pending) \/ i = Len(Todo)
    BY <1>3, <1>7
  <2>2. CASE i \in 1..Len(pending)
    <3>1. Len(rest) + i = i
      BY <1>2, <2>2
    <3> QED BY <1>3, <1>6, <2>2, <3>1
  <2>3. CASE i = Len(Todo)
    BY <1>3, <1>6, <1>7, <2>3
  <2> QED BY <2>1, <2>2, <2>3
<1>9. Quiet'
  BY <1>1 DEF Flowing, Quiet
<1>10. Len(Todo) \in Nat \ {0}
  BY <1>3, <1>7
<1> QED BY <1>1, <1>7, <1>8, <1>9, <1>10, SameFlow

\* A step that leaves the queue, the queries and the target alone.
LEMMA SameQueueFlows ==
  ASSUME WriterInv, Flowing, Quiet',
         UNCHANGED <<setting, log, redeliveries, target, queries, rest, pending, next>>
  PROVE  Flowing'
<1>1. Todo' = Todo
  BY DEF Todo
<1>2. Len(Todo) \in Nat \ {0}
  BY TodoFacts
<1> QED BY <1>1, <1>2, SameFlow

\* A confirmed batch leaves nothing of itself to be done.
LEMMA CheckpointsFlows ==
  ASSUME WriterInv, Flowing, Checkpoints
  PROVE  Flowing'
<1>1. UNCHANGED <<setting, log, redeliveries, target, queries, rest, pending, next, retry, lastErr>>
  BY DEF Checkpoints, stream, flush
<1>2. Quiet'
  BY <1>1 DEF Flowing, Quiet
<1> QED BY <1>1, <1>2, SameQueueFlows

\* A retrier that gives up leaves the run where it was.
LEMMA GivesUpFlows ==
  ASSUME WriterInv, Flowing, GivesUp
  PROVE  Flowing'
<1>1. lastErr = Lost
  BY DEF GivesUp, Flowing, Quiet
<1>2. UNCHANGED <<setting, log, redeliveries, target, queries, rest, pending, next, retry, lastErr>>
  BY <1>1 DEF GivesUp, stream, flush
<1>3. Quiet'
  BY <1>2 DEF Flowing, Quiet
<1> QED BY <1>2, <1>3, SameQueueFlows

\* The attempts a target that accepts everything never makes.
LEMMA NothingFails ==
  ASSUME WriterInv, Accepting, Flowing, NEW i \in DOMAIN queries
  PROVE  ~QueryRejected(i) /\ ~QueryErrs(i) /\ ~QueryLost(i)
<1>1. QueryOK(queries[i])
  BY DEF Flowing, Ordered, QueriesOK
<1>2. ErrorOf(Within(queries)[i - 1], queries[i]) = None
  BY <1>1, NoErrors DEF WriterInv
<1>3. ~QueryRejected(i)
  BY <1>2 DEF QueryRejected, None, Reject
<1>4. ~QueryErrs(i)
  BY <1>2 DEF QueryErrs, None, Data, Lost
<1>5. ~QueryLost(i)
  BY DEF QueryLost, Accepting
<1> QED BY <1>3, <1>4, <1>5

\* The tables once the run has been executed.
LEMMA RunExecuted ==
  ASSUME WriterInv, Accepting, Flowing, queries # <<>>, NEW P, Kept(P), Holds(P), target \in Tables
  PROVE  /\ <<Within(queries)[Len(queries)], RunEnd>> \in P
         /\ WithinFrom(Within(queries)[Len(queries)], queries)[Len(queries)] = Within(queries)[Len(queries)]
<1>1. QueriesOK(queries) /\ Chosen
  BY DEF Flowing, Ordered, WriterInv
<1>2. Within(queries) = WithinFrom(target, queries)
  BY DEF Within, WithinFrom
<1>3. <<WithinFrom(target, queries)[Len(queries)], RunEnd>> \in P
  <2>1. CASE <<target, Ahead - 1>> \in P
    <3>1. <<target, queries[1][1] - 1>> \in P
      BY <2>1 DEF Ahead
    <3> QED BY <1>1, <3>1, QueriesKeep DEF RunEnd
  <2>2. CASE <<target, RunEnd>> \in P /\ Again
    BY <2>2 DEF Again
  <2> QED BY <2>1, <2>2 DEF Holds
<1>4. WithinFrom(WithinFrom(target, queries)[Len(queries)], queries)[Len(queries)]
        = WithinFrom(target, queries)[Len(queries)]
  BY <1>1, QueriesAgain
<1> QED BY <1>2, <1>3, <1>4

\* The target is a target.
LEMMA TargetTyped ==
  ASSUME Flowing
  PROVE  target \in Tables
BY DEF Flowing, Holds, Healing

\* When the run has been executed, the target is ready for what comes after it.
LEMMA AfterRun ==
  ASSUME WriterInv, Flowing, queries # <<>>, NEW P, Kept(P), NEW t \in Tables, <<t, RunEnd>> \in P
  PROVE  <<t, Todo[1] - 1>> \in P
<1>1. Len(Todo) \in Nat /\ Len(Todo) >= 1 /\ Len(log) \in Nat
      /\ \A i \in 1..Len(Todo) : Todo[i] \in 1..Len(log) + 1
  BY TodoFacts
<1>2. Todo[1] - 1 \in 0..Len(log) /\ (Todo[1] - 1) + 1 = Todo[1]
  BY <1>1
<1>3. Follows(RunEnd, Todo[1])
  BY DEF Flowing, Ordered
<1>4. RunEnd \in 0..Len(log)
  BY DEF Kept
<1> DEFINE n == Todo[1] - 1
           e == RunEnd
<1>5. Follows(e, n + 1) /\ n \in 0..Len(log) /\ e \in 0..Len(log) /\ <<t, e>> \in P
  BY <1>2, <1>3, <1>4
<1> HIDE DEF n, e
<1>6. <<t, n>> \in P
  BY <1>5 DEF Kept
<1> QED BY <1>6 DEF n

\* The run is executed, once or again, and what comes after it is next.
LEMMA TxCommitsFlows ==
  ASSUME WriterInv, Accepting, Flowing, TxCommits
  PROVE  Flowing'
<1> DEFINE u == Within(queries)[Len(queries)]
<1>1. /\ queries # <<>> /\ target' = u /\ queries' = retry /\ retry' = <<>> /\ lastErr' = None
      /\ UNCHANGED <<setting, log, redeliveries, rest, pending, next>>
  BY DEF TxCommits, Executing, Returns, stream
<1>2. queries' = <<>> /\ Quiet'
  BY <1>1 DEF Flowing, Quiet
<1> HIDE DEF u
<1>3. Todo' = Todo /\ Ahead' = Todo[1]
  BY <1>1, <1>2 DEF Todo, Ahead
<1>4. target \in Tables /\ Chosen
  BY TargetTyped DEF WriterInv
<1>5. <<u, RunEnd>> \in Healing /\ (redeliveries = 0 => <<u, RunEnd>> \in Exact)
  BY <1>1, <1>4, RunExecuted, HealingKept, ExactKept DEF Flowing, u
<1>6. u \in Tables
  BY <1>5 DEF Healing
<1>7. HoldsNext(Healing) /\ (redeliveries' = 0 => HoldsNext(Exact))
  BY <1>1, <1>3, <1>4, <1>5, <1>6, AfterRun, HealingKept, ExactKept DEF HoldsNext
<1>8. Ordered'
  <2>1. Chain(Todo)'
    BY <1>1, <1>3 DEF Flowing, Ordered, Chain, Follows
  <2>2. QueriesOK(queries)'
    BY <1>2 DEF QueriesOK
  <2> QED BY <1>2, <2>1, <2>2 DEF Ordered
<1> QED BY <1>1, <1>2, <1>7, <1>8, HoldsPrimed DEF Flowing

\* The run is executed and stays to be executed again, or is not executed at all.
LEMMA CommitLostFlows ==
  ASSUME WriterInv, Accepting, Flowing, NEW applied \in BOOLEAN, CommitLost(applied)
  PROVE  Flowing'
<1> DEFINE u == Within(queries)[Len(queries)]
<1>1. /\ queries # <<>> /\ lastErr' = Lost
      /\ UNCHANGED <<setting, log, redeliveries, queries, rest, pending, next, retry>>
  BY DEF CommitLost, Executing, stream
<1>2. Quiet'
  BY <1>1 DEF Flowing, Quiet
<1>3. CASE ~applied
  <2>1. target' = target
    BY <1>3 DEF CommitLost
  <2> QED BY <1>1, <1>2, <2>1, SameQueueFlows
<1>4. CASE applied
  <2>1. target' = u
    BY <1>4 DEF CommitLost
  <2>2. Todo' = Todo /\ RunEnd' = RunEnd /\ target \in Tables /\ Chosen
    BY <1>1, TargetTyped DEF Todo, RunEnd, WriterInv
  <2>3. /\ <<u, RunEnd>> \in Healing /\ WithinFrom(u, queries)[Len(queries)] = u
        /\ redeliveries = 0 => <<u, RunEnd>> \in Exact
    BY <1>1, <2>2, RunExecuted, HealingKept, ExactKept DEF Flowing
  <2> HIDE DEF u
  <2>4. Again'
    <3>1. WithinFrom(target, queries)' = WithinFrom(u, queries)
      BY <1>1, <2>1, SMT DEF WithinFrom, Executed, Inserted, OpOf, KeysOf, Changed, Emptied
    <3> QED BY <1>1, <2>1, <2>3, <3>1 DEF Again
  <2>5. HoldsNext(Healing) /\ (redeliveries' = 0 => HoldsNext(Exact))
    BY <1>1, <2>1, <2>2, <2>3, <2>4 DEF HoldsNext
  <2>6. Chain(Todo)'
    BY <1>1, <2>2 DEF Flowing, Ordered, Chain, Follows
  <2>7. QueriesOK(queries)'
    BY <1>1 DEF Flowing, Ordered, QueriesOK, QueryOK, Chain, Follows, OpOf
  <2>8. Ordered'
    BY <1>1, <2>2, <2>6, <2>7 DEF Flowing, Ordered, Follows
  <2> QED BY <1>1, <1>2, <2>5, <2>8, HoldsPrimed DEF Flowing
<1> QED BY <1>3, <1>4

\* The first run of what is left becomes queries, in the same order.
LEMMA FlushesRunFlows ==
  ASSUME WriterInv, Accepting, Flowing, FlushesRun
  PROVE  Flowing'
<1> DEFINE n == RunLength(rest)
           run == SubSeq(rest, 1, n)
           left == SubSeq(rest, n + 1, Len(rest))
           qs == buildCoalescedQueries(run)
           T == 1..Len(log)
<1>1. /\ queries = <<>> /\ rest # <<>> /\ queries' = qs /\ rest' = left
      /\ UNCHANGED <<setting, log, redeliveries, target, pending, next, retry, lastErr>>
  BY DEF FlushesRun, stream
<1>2. /\ Chosen /\ rest \in Seq(T) /\ rest \in Seq(Nat) /\ pending \in Seq(Nat) /\ next \in Nat
  BY DEF WriterInv, Positioned, Inv, TypeInv
<1>3. /\ Len(Todo) = Len(rest) + Len(pending) + 1 /\ Len(rest) \in Nat /\ Len(pending) \in Nat
      /\ \A i \in 1..Len(rest) : Todo[i] = rest[i]
      /\ \A i \in 1..Len(pending) : Todo[Len(rest) + i] = pending[i]
      /\ Todo[Len(Todo)] = next
  BY TodoFacts
<1>4. n \in 1..Len(rest)
  BY <1>1, <1>2, RunLengthRange
<1>5. \A i \in 1..n : Action(rest[i]) = Action(rest[1])
  BY <1>1, <1>2, RunIsOfOneKind
<1> HIDE DEF n, T
<1>6. Chain(rest)
  <2> SUFFICES ASSUME NEW i \in 1..Len(rest) - 1 PROVE Follows(rest[i], rest[i + 1])
    BY DEF Chain
  <2>1. i \in 1..Len(rest) /\ i + 1 \in 1..Len(rest) /\ i \in 1..Len(Todo) - 1
    BY <1>3
  <2>2. Follows(Todo[i], Todo[i + 1])
    BY <2>1 DEF Flowing, Ordered, Chain
  <2> QED BY <1>3, <2>1, <2>2
<1>7. /\ run \in Seq(T) /\ run # <<>> /\ Len(run) = n /\ run[1] = rest[1]
      /\ Last(run) = rest[n] /\ Chain(run) /\ \A i \in 1..n : run[i] = rest[i]
  <2>1. 1 \in 1..Len(rest) /\ n \in 1..Len(rest) /\ n - 1 + 1 = n /\ \A i \in 1..n : 1 + i - 1 = i
    BY <1>3, <1>4
  <2>2. IsPart(run, rest, 1, n) /\ n \in Int
    BY <1>2, <1>4, <1>6, <2>1 DEF IsPart, T
  <2> HIDE DEF run
  <2>3. /\ run \in Seq(T) /\ run # <<>> /\ Len(run) = n - 1 + 1 /\ run[1] = rest[1]
        /\ Last(run) = rest[n] /\ Chain(run) /\ \A i \in 1 .. n - 1 + 1 : run[i] = rest[1 + i - 1]
    BY <2>2, PartOfChain DEF T
  <2> QED BY <2>1, <2>3
<1>8. /\ left \in Seq(Nat) /\ Len(left) = Len(rest) - n
      /\ \A i \in 1 .. Len(rest) - n : left[i] = rest[n + i]
  <2>1. n + 1 \in Int /\ Len(rest) \in Int /\ \A i \in n + 1 .. Len(rest) : rest[i] \in Nat
    BY <1>2, <1>3, <1>4, ElementOfSeq
  <2>2. /\ left \in Seq(Nat)
        /\ Len(left) = IF n + 1 <= Len(rest) THEN Len(rest) - (n + 1) + 1 ELSE 0
        /\ \A i \in 1 .. Len(rest) - (n + 1) + 1 : left[i] = rest[n + 1 + i - 1]
    BY <2>1, SubSeqProperties
  <2>3. Len(rest) - (n + 1) + 1 = Len(rest) - n /\ \A i \in 1 .. Len(rest) - n : n + 1 + i - 1 = n + i
    BY <1>3, <1>4
  <2> HIDE DEF left
  <2>4. Len(left) = Len(rest) - n
    BY <1>3, <1>4, <2>2
  <2> QED BY <2>2, <2>3, <2>4
<1> HIDE DEF run, left, qs
<1>9. RunOK(run)
  <2>1. run \in Seq(1..Len(log))
    BY <1>7 DEF T
  <2>2. DOMAIN run = 1..n /\ 1 \in 1..n
    BY <1>3, <1>4, <1>7, LenProperties
  <2>3. \A i \in 1..n : log[run[i]].op # Rekey
    <3> SUFFICES ASSUME NEW i \in 1..n PROVE log[run[i]].op # Rekey
      OBVIOUS
    <3>1. run[i] \in 1..Len(log)
      BY <2>1, <2>2, ElementOfSeq, <1>7
    <3> QED BY <1>2, <3>1, LogFacts DEF Chosen, Accepting
  <2>4. \A i \in 1..n : Action(run[i]) = log[run[i]].op
    BY <2>3 DEF Action
  <2>5. \A i \in DOMAIN run : log[run[i]].op = log[run[1]].op
    BY <1>5, <1>7, <2>2, <2>4
  <2> QED BY <1>7, <2>1, <2>5 DEF RunOK
<1>10. QueriesOK(qs) /\ qs # <<>> /\ qs[1][1] = rest[1] /\ Last(Last(qs)) = rest[n]
  <2>1. QueriesOK(qs) /\ qs # <<>> /\ qs[1][1] = run[1] /\ Last(Last(qs)) = Last(run)
    BY <1>2, <1>9, RunsQueries DEF qs
  <2> QED BY <1>7, <2>1
<1>11. /\ Len(Todo') = Len(Todo) - n
       /\ \A i \in 1 .. Len(Todo) - n : Todo'[i] = Todo[n + i]
  <2> DEFINE q == Todo'
             L == Len(left)
  <2>1. q = left \o Append(pending, next)
    BY <1>1 DEF Todo
  <2>5. left \in Seq(Nat) /\ pending \in Seq(Nat) /\ next \in Nat
    BY <1>2, <1>8
  <2> HIDE DEF q
  <2>2. /\ Len(q) = Len(left) + Len(pending) + 1
        /\ \A i \in 1..Len(left) : q[i] = left[i]
        /\ \A i \in 1..Len(pending) : q[Len(left) + i] = pending[i]
        /\ q[Len(q)] = next
    BY <2>1, <2>5, QueueFacts
  <2>3. L = Len(rest) - n /\ Len(q) = Len(Todo) - n
    BY <1>3, <1>4, <1>8, <2>2
  <2>4. ASSUME NEW i \in 1 .. Len(Todo) - n PROVE q[i] = Todo[n + i]
    <3>1. CASE i \in 1..L
      <4>1. n + i \in 1..Len(rest) /\ i \in 1 .. Len(rest) - n
        BY <1>3, <1>4, <2>3, <3>1
      <4>2. q[i] = left[i] /\ left[i] = rest[n + i] /\ Todo[n + i] = rest[n + i]
        BY <1>3, <1>8, <2>2, <3>1, <4>1
      <4> QED BY <4>2
    <3>2. CASE i \notin 1..L /\ i # Len(q)
      <4> DEFINE j == i - L
      <4>1. j \in 1..Len(pending) /\ L + j = i /\ Len(rest) + j = n + i
        <5>1. /\ Len(rest) \in Nat /\ Len(pending) \in Nat /\ n \in 1..Len(rest)
              /\ Len(Todo) = Len(rest) + Len(pending) + 1
          BY <1>3, <1>4
        <5>2. L = Len(rest) - n /\ Len(q) = Len(rest) + Len(pending) + 1 - n
          BY <2>3, <5>1
        <5>3. i \in 1 .. Len(rest) + Len(pending) + 1 - n
          BY <5>1
        <5> HIDE DEF L
        <5> QED BY <3>2, <5>1, <5>2, <5>3
      <4> HIDE DEF j
      <4>2. q[L + j] = pending[j] /\ Todo[Len(rest) + j] = pending[j]
        BY <1>3, <2>2, <4>1
      <4> QED BY <4>1, <4>2
    <3>3. CASE i = Len(q)
      <4>1. n + i = Len(Todo)
        BY <1>3, <1>4, <2>3, <3>3
      <4> QED BY <1>3, <2>2, <3>3, <4>1
    <3> QED BY <3>1, <3>2, <3>3
  <2> QED BY <2>3, <2>4 DEF q
<1>12. /\ Len(Todo) \in Nat /\ n \in Nat /\ n >= 1 /\ n <= Len(Todo) - 1
       /\ Todo[1] = rest[1] /\ Todo[n] = rest[n]
       /\ Todo'[1] = Todo[n + 1]
  BY <1>3, <1>4, <1>11
<1>13. Ahead' = Ahead /\ RunEnd' = Todo[n] /\ queries' # <<>>
  BY <1>1, <1>10, <1>12 DEF Ahead, RunEnd
<1>14. HoldsNext(Healing) /\ (redeliveries' = 0 => HoldsNext(Exact))
  BY <1>1, <1>13 DEF Flowing, Holds, HoldsNext
<1>15. Chain(Todo)'
  <2> SUFFICES ASSUME NEW i \in 1..Len(Todo') - 1 PROVE Follows(Todo[i], Todo[i + 1])'
    BY DEF Chain
  <2> DEFINE j == n + i
  <2>1. /\ i \in 1 .. Len(Todo) - n /\ i + 1 \in 1 .. Len(Todo) - n /\ j \in 1..Len(Todo) - 1
        /\ n + (i + 1) = j + 1
    BY <1>11, <1>12
  <2>2. Todo'[i] = Todo[j] /\ Todo'[i + 1] = Todo[j + 1]
    <3>1. Todo'[i] = Todo[n + i] /\ Todo'[i + 1] = Todo[n + (i + 1)]
      BY <1>11, <2>1
    <3> QED BY <2>1, <3>1
  <2> HIDE DEF j
  <2>3. Follows(Todo[j], Todo[j + 1])
    BY <2>1 DEF Flowing, Ordered, Chain
  <2> QED BY <1>1, <2>2, <2>3 DEF Follows
<1>16. QueriesOK(queries)'
  BY <1>1, <1>10 DEF QueriesOK, QueryOK, Chain, Follows, OpOf
<1>17. Follows(RunEnd, Todo[1])'
  <2>1. n \in 1..Len(Todo) - 1
    BY <1>12
  <2>2. Follows(Todo[n], Todo[n + 1])
    BY <2>1 DEF Flowing, Ordered, Chain
  <2> QED BY <1>1, <1>12, <1>13, <2>2 DEF Follows
<1>18. Ordered' /\ Quiet'
  BY <1>1, <1>15, <1>16, <1>17 DEF Ordered, Quiet, Flowing
<1> QED BY <1>1, <1>14, <1>18, HoldsPrimed DEF Flowing

\* What heals from a position heals from an earlier one.
LEMMA HealingBefore ==
  ASSUME Chosen, Accepting, NEW t, NEW p \in 0..Len(log), NEW n \in 0..p, <<t, p>> \in Healing
  PROVE  <<t, n>> \in Healing
<1>1. Len(log) \in Nat /\ n \in 0..Len(log)
  BY LogFacts DEF Chosen
<1>2. t \in Tables /\ \A k \in Key : t[k] \in Nat /\ Lands(k, t[k], p)
  BY DEF Healing, Tables
<1>3. \A k \in Key : Lands(k, t[k], n)
  BY <1>2, LandsFromBefore
<1> QED BY <1>1, <1>2, <1>3 DEF Healing

\* What is to be done yet lies in Left.
LEMMA AheadIsLeft ==
  ASSUME WriterInv, Flowing
  PROVE  /\ Ahead \in Left /\ Todo[1] \in Left
         /\ queries # <<>> => RunEnd \in Left
<1>1. Todo[1] \in Left
  <2>1. /\ Len(Todo) = Len(rest) + Len(pending) + 1 /\ Len(rest) \in Nat /\ Len(pending) \in Nat
        /\ \A i \in 1..Len(rest) : Todo[i] = rest[i]
        /\ \A i \in 1..Len(pending) : Todo[Len(rest) + i] = pending[i]
        /\ Todo[Len(Todo)] = next
    BY TodoFacts
  <2>2. DOMAIN rest = 1..Len(rest) /\ DOMAIN pending = 1..Len(pending)
    BY LenProperties DEF WriterInv, Positioned
  <2>3. CASE Len(rest) >= 1
    <3>1. 1 \in DOMAIN rest /\ Todo[1] = rest[1]
      BY <2>1, <2>2, <2>3
    <3> QED BY <3>1 DEF Left, Range
  <2>4. CASE Len(rest) = 0 /\ Len(pending) >= 1
    <3>1. 1 \in DOMAIN pending /\ 1 \in 1..Len(pending) /\ Len(rest) + 1 = 1
      BY <2>1, <2>2, <2>4
    <3>2. Todo[1] = pending[1]
      BY <2>1, <3>1
    <3> QED BY <3>1, <3>2 DEF Left, Range
  <2>5. CASE Len(rest) = 0 /\ Len(pending) = 0
    <3>1. Todo[1] = next
      BY <2>1, <2>5
    <3> QED BY <3>1 DEF Left
  <2> QED BY <2>1, <2>3, <2>4, <2>5
<1>2. ASSUME queries # <<>> PROVE queries[1][1] \in Left /\ RunEnd \in Left
  <2>1. queries \in Seq(Seq(Nat)) /\ Len(queries) \in Nat /\ Len(queries) >= 1
        /\ DOMAIN queries = 1..Len(queries)
    BY <1>2, LenProperties, EmptySeq DEF WriterInv, Inv, TypeInv
  <2>2. \A i \in DOMAIN queries : \A j \in DOMAIN queries[i] : queries[i][j] \in Left
    BY DEF Left, ChangesOf, Range
  <2>3. 1 \in DOMAIN queries /\ Len(queries) \in DOMAIN queries
    BY <2>1
  <2>4. \A i \in DOMAIN queries : 1 \in DOMAIN queries[i] /\ Len(queries[i]) \in DOMAIN queries[i]
    <3> SUFFICES ASSUME NEW i \in DOMAIN queries
                 PROVE  1 \in DOMAIN queries[i] /\ Len(queries[i]) \in DOMAIN queries[i]
      OBVIOUS
    <3>1. queries[i] # <<>> /\ queries[i] \in Seq(1..Len(log))
      BY DEF Flowing, Ordered, QueriesOK, QueryOK
    <3> QED BY <3>1, LenProperties, EmptySeq
  <2> QED BY <2>2, <2>3, <2>4 DEF RunEnd, Last
<1> QED BY <1>1, <1>2 DEF Ahead

\* Where the stream goes back to, when nothing is skipped.
LEMMA AheadIsAPosition ==
  ASSUME WriterInv, Flowing
  PROVE  Ahead \in 1..Len(log) + 1
<1>1. CASE queries = <<>>
  BY <1>1, TodoFacts DEF Ahead
<1>2. CASE queries # <<>>
  <2>1. queries \in Seq(Seq(Nat)) /\ 1 \in DOMAIN queries
    BY <1>2, LenProperties, EmptySeq DEF Flowing, Ordered, QueriesOK
  <2>2. QueryOK(queries[1])
    BY <2>1 DEF Flowing, Ordered, QueriesOK
  <2>3. queries[1] \in Seq(1..Len(log)) /\ 1 \in 1..Len(queries[1])
    BY <2>2, LenProperties, EmptySeq DEF QueryOK
  <2>4. queries[1][1] \in 1..Len(log) /\ Len(log) \in Nat
    BY <2>3, ElementOfSeq, TodoFacts
  <2> QED BY <1>2, <2>4 DEF Ahead
<1> QED BY <1>1, <1>2

\* The stream goes back behind what was collected; nothing is skipped.
LEMMA ResetFlows ==
  ASSUME WriterInv, Accepting, Flowing, ConnectionResets, ~skipped'
  PROVE  Flowing'
<1> DEFINE c == confirmed + 1
           L == Len(Todo)
<1>1. /\ next' = c /\ redeliveries' = redeliveries + 1
      /\ UNCHANGED <<setting, log, target, queries, rest, pending, retry, lastErr>>
      /\ ~(next <= confirmed)
  BY DEF ConnectionResets, flush
<1>2. /\ Chosen /\ confirmed \in Nat /\ next \in Nat /\ redeliveries \in Nat
      /\ rest \in Seq(Nat) /\ pending \in Seq(Nat)
  BY DEF WriterInv, Inv, TypeInv
<1>3. c \in Nat /\ c >= 1 /\ c <= next /\ redeliveries' # 0
  BY <1>1, <1>2
<1>4. /\ L = Len(rest) + Len(pending) + 1 /\ Len(rest) \in Nat /\ Len(pending) \in Nat
      /\ \A i \in 1..Len(rest) : Todo[i] = rest[i]
      /\ \A i \in 1..Len(pending) : Todo[Len(rest) + i] = pending[i]
      /\ Todo[L] = next /\ Len(log) \in Nat
  BY TodoFacts
<1> HIDE DEF L, c
<1>5. /\ Len(Todo') = L
      /\ \A i \in 1..Len(rest) : Todo'[i] = rest[i]
      /\ \A i \in 1..Len(pending) : Todo'[Len(rest) + i] = pending[i]
      /\ Todo'[L] = c
  <2> DEFINE q == Todo'
  <2>1. q = rest \o Append(pending, c)
    BY <1>1 DEF Todo
  <2> HIDE DEF q
  <2>2. /\ Len(q) = Len(rest) + Len(pending) + 1
        /\ \A i \in 1..Len(rest) : q[i] = rest[i]
        /\ \A i \in 1..Len(pending) : q[Len(rest) + i] = pending[i]
        /\ q[Len(q)] = c
    BY <1>2, <1>3, <2>1, QueueFacts
  <2>3. Len(q) = L
    BY <1>4, <2>2
  <2> QED BY <2>2, <2>3 DEF q
<1>6. \A i \in 1 .. L - 1 : Todo'[i] = Todo[i]
  <2> SUFFICES ASSUME NEW i \in 1 .. L - 1 PROVE Todo'[i] = Todo[i]
    OBVIOUS
  <2>1. CASE i \in 1..Len(rest)
    BY <1>4, <1>5, <2>1
  <2>2. CASE i \notin 1..Len(rest)
    <3> DEFINE j == i - Len(rest)
    <3>1. j \in 1..Len(pending) /\ Len(rest) + j = i
      BY <1>4, <2>2
    <3> HIDE DEF j
    <3> QED BY <1>4, <1>5, <3>1
  <2> QED BY <2>1, <2>2
<1>7. L \in Nat /\ L >= 1
  BY <1>4
<1>8. Chain(Todo)'
  <2> SUFFICES ASSUME NEW i \in 1..L - 1 PROVE Follows(Todo[i], Todo[i + 1])'
    BY <1>5 DEF Chain
  <2> DEFINE j == i + 1
             p == Todo[i]
             q == Todo[j]
  <2>1. i \in 1..L /\ j \in 1..L
    BY <1>7
  <2>2. Follows(p, q)
    BY DEF Flowing, Ordered, Chain, L
  <2>3. p \in Int /\ q \in Int
    <3>1. \A n \in 1..Len(Todo) : Todo[n] \in 1..Len(log) + 1
      BY TodoFacts
    <3> QED BY <1>4, <2>1, <3>1 DEF L
  <2>4. Todo'[i] = p
    BY <1>6
  <2>5. Todo'[j] <= q /\ Todo'[j] \in Int
    <3>1. CASE j = L
      BY <1>2, <1>3, <1>4, <1>5, <3>1
    <3>2. CASE j # L
      <4>1. j \in 1 .. L - 1
        BY <1>7, <2>1, <3>2
      <4>2. Todo'[j] = q
        BY <1>6, <4>1
      <4> HIDE DEF q
      <4> QED BY <2>3, <4>2
    <3> QED BY <3>1, <3>2
  <2> HIDE DEF p, q, j
  <2>7. Todo'[j] <= p + 1
    BY <2>2, <2>3, <2>5 DEF Follows
  <2>8. Follows(Todo[i], Todo[j])'
    BY <1>3, <2>4, <2>7 DEF Follows
  <2> QED BY <2>8 DEF j
<1>9. Todo'[1] <= Todo[1] /\ Todo'[1] \in 1..Len(log) + 1 /\ Todo[1] \in 1..Len(log) + 1
  <2>1. Todo[1] \in 1..Len(log) + 1
    BY <1>7, TodoFacts DEF L
  <2>2. CASE L = 1
    BY <1>2, <1>3, <1>4, <1>5, <2>1, <2>2
  <2>3. CASE L # 1
    <3>1. 1 \in 1 .. L - 1
      BY <1>7, <2>3
    <3>2. Todo'[1] = Todo[1]
      BY <1>6, <3>1
    <3> QED BY <1>4, <2>1, <3>2
  <2> QED BY <2>2, <2>3
<1>10. /\ RunEnd' = RunEnd
       /\ queries # <<>> => Ahead' = Ahead
       /\ queries = <<>> => Ahead = Todo[1] /\ Ahead' = Todo'[1]
  BY <1>1 DEF RunEnd, Ahead
<1>11. HoldsNext(Healing)
  <2>1. CASE <<target, Ahead - 1>> \in Healing
    <3>1. Ahead \in 1..Len(log) + 1 /\ Ahead' \in 1..Len(log) + 1 /\ Ahead' <= Ahead
      <4>1. Ahead \in 1..Len(log) + 1
        BY AheadIsAPosition
      <4>2. CASE queries # <<>>
        BY <1>4, <1>10, <4>1, <4>2
      <4>3. CASE queries = <<>>
        BY <1>9, <1>10, <4>3
      <4> QED BY <4>1, <4>2, <4>3
    <3> DEFINE p == Ahead - 1
               n == Ahead' - 1
    <3>2. p \in 0..Len(log) /\ n \in 0..p
      <4> DEFINE x == Ahead
                 y == Ahead'
                 N == Len(log)
      <4>1. N \in Nat /\ x \in 1..N + 1 /\ y \in 1..N + 1 /\ y <= x
        BY <1>4, <3>1
      <4> HIDE DEF x, y, N
      <4>2. x - 1 \in 0..N /\ y - 1 \in 0..x - 1
        BY <4>1
      <4> QED BY <4>2 DEF x, y, N
    <3> HIDE DEF p, n
    <3>3. <<target, p>> \in Healing
      BY <2>1 DEF p
    <3>4. <<target, n>> \in Healing
      BY <1>2, <3>2, <3>3, HealingBefore
    <3> QED BY <1>1, <3>4 DEF HoldsNext, n
  <2>2. CASE queries # <<>> /\ <<target, RunEnd>> \in Healing /\ Again
    <3>1. Again' = Again
      BY <1>1, SMT DEF Again, WithinFrom, Executed, Inserted, OpOf, KeysOf, Changed, Emptied
    <3> QED BY <1>1, <1>10, <2>2, <3>1 DEF HoldsNext
  <2> QED BY <2>1, <2>2 DEF Flowing, Holds
<1>12. QueriesOK(queries)'
  BY <1>1, <1>3 DEF Flowing, Ordered, QueriesOK, QueryOK, Chain, Follows, OpOf
<1>13. (queries # <<>> => Follows(RunEnd, Todo[1]))'
  <2> SUFFICES ASSUME queries # <<>> PROVE Follows(RunEnd, Todo[1])'
    BY <1>1
  <2>1. Follows(RunEnd, Todo[1]) /\ RunEnd \in Int
    <3>1. QueriesOK(queries) /\ Follows(RunEnd, Todo[1])
      BY DEF Flowing, Ordered
    <3>2. Len(queries) \in DOMAIN queries
      BY <3>1, LenProperties, EmptySeq DEF QueriesOK
    <3>3. QueryOK(queries[Len(queries)])
      BY <3>1, <3>2 DEF QueriesOK
    <3>4. RunEnd \in 1..Len(log)
      BY <3>3, QueryFacts, <1>2 DEF RunEnd, Last
    <3> QED BY <1>4, <3>1, <3>4
  <2>2. Todo'[1] <= RunEnd + 1
    BY <1>4, <1>9, <2>1 DEF Follows
  <2> QED BY <1>3, <1>10, <2>2 DEF Follows
<1>14. Ordered' /\ Quiet'
  BY <1>1, <1>8, <1>12, <1>13 DEF Ordered, Quiet, Flowing
<1>15. log' = log /\ setting' = setting /\ ~(redeliveries' = 0)
  BY <1>1, <1>3
<1>16. Holds(Healing)'
  BY <1>11, <1>15, HoldsPrimed
<1> QED BY <1>14, <1>15, <1>16 DEF Flowing

\* The process starts again from a position before everything that was left.
LEMMA StartsOverFlows ==
  ASSUME WriterInv, Accepting, Flowing, StartsOver, redeliveries' \in Nat \ {0}, ~skipped'
  PROVE  Flowing'
<1> DEFINE c == confirmed + 1
<1>1. /\ next' = c /\ pending' = <<>> /\ rest' = <<>> /\ queries' = <<>> /\ retry' = <<>> /\ lastErr' = None
      /\ UNCHANGED <<setting, log, target>>
      /\ \A p \in Left : ~(p <= confirmed)
  BY DEF StartsOver
<1>2. Chosen /\ confirmed \in 0..Len(log) /\ Len(log) \in Nat
  BY TodoFacts DEF WriterInv, Positioned
<1>3. c \in 1..Len(log) + 1
  BY <1>2
<1> HIDE DEF c
<1>4. Todo' = <<c>>
  BY <1>1 DEF Todo
<1>5. Ahead' = c /\ Ordered' /\ Quiet'
  <2>1. Ahead' = c
    BY <1>1, <1>4 DEF Ahead
  <2>2. Chain(Todo)'
    BY <1>4 DEF Chain
  <2>3. QueriesOK(queries)'
    BY <1>1 DEF QueriesOK
  <2> QED BY <1>1, <2>1, <2>2, <2>3 DEF Ordered, Quiet
<1>6. \E p \in Left : p \in 1..Len(log) + 1 /\ <<target, p - 1>> \in Healing
  <2>1. CASE <<target, Ahead - 1>> \in Healing
    BY <2>1, AheadIsLeft, AheadIsAPosition
  <2>2. CASE queries # <<>> /\ <<target, RunEnd>> \in Healing
    <3>1. <<target, Todo[1] - 1>> \in Healing
      BY <1>2, <2>2, AfterRun, TargetTyped, HealingKept
    <3>2. Todo[1] \in 1..Len(log) + 1 /\ Todo[1] \in Left
      BY TodoFacts, AheadIsLeft
    <3> QED BY <3>1, <3>2
  <2> QED BY <2>1, <2>2 DEF Flowing, Holds
<1>7. PICK p \in Left : p \in 1..Len(log) + 1 /\ <<target, p - 1>> \in Healing
  BY <1>6
<1>8. c <= p
  BY <1>1, <1>2, <1>7 DEF c
<1> DEFINE m == p - 1
           n == c - 1
<1>9. m \in 0..Len(log) /\ n \in 0..m /\ <<target, m>> \in Healing
  BY <1>2, <1>3, <1>7, <1>8
<1> HIDE DEF m, n
<1>10. <<target, n>> \in Healing
  BY <1>2, <1>9, HealingBefore
<1>11. HoldsNext(Healing)
  BY <1>1, <1>5, <1>10 DEF HoldsNext, n
<1>12. Holds(Healing)' /\ redeliveries' # 0
  BY <1>1, <1>11, HoldsPrimed
<1> QED BY <1>5, <1>12 DEF Flowing

Counted ==
  /\ redeliveries \in Nat
  /\ redeliveries = 0 => ~skipped

\* The positions stay positions of the source's history.
LEMMA PositionedKept ==
  ASSUME WriterInv, [Next]_vars
  PROVE  Positioned' /\ Counted' /\ (~skipped' => ~skipped)
<1> DEFINE T == 1..Len(log)
<1>1. Len(log) \in Nat /\ log' = log /\ Positioned /\ redeliveries \in Nat /\ (redeliveries = 0 => ~skipped)
  BY ChosenKept, TodoFacts DEF WriterInv
<1>2. /\ next \in 1..Len(log) + 1 /\ confirmed \in 0..Len(log)
      /\ pending \in Seq(T) /\ batch \in Seq(T) /\ rest \in Seq(T)
  BY <1>1 DEF Positioned
<1>3. <<>> \in Seq(T)
  OBVIOUS
<1>4. confirmed + 1 \in 1..Len(log) + 1
  BY <1>1, <1>2
<1>5. ASSUME NEW r \in Nat PROVE r + 1 \in Nat /\ r + 1 # 0
  OBVIOUS
<1> HIDE DEF T
<1> SUFFICES /\ next' \in 1..Len(log) + 1 /\ confirmed' \in 0..Len(log)
             /\ pending' \in Seq(T) /\ batch' \in Seq(T) /\ rest' \in Seq(T)
             /\ Counted' /\ (~skipped' => ~skipped)
  BY <1>1 DEF Positioned, T
<1>6. CASE Receives
  <2>1. next \in T /\ next + 1 \in 1..Len(log) + 1
    BY <1>1, <1>2, <1>6 DEF Receives, T
  <2>2. pending' \in Seq(T)
    BY <1>2, <1>6, <2>1, AppendProperties DEF Receives
  <2> QED BY <1>1, <1>2, <1>6, <2>1, <2>2 DEF Receives, Counted
<1>7. CASE ConnectionResets
  BY <1>1, <1>2, <1>4, <1>5, <1>7 DEF ConnectionResets, Counted
<1>8. ASSUME StartsOver, redeliveries' \in Nat, redeliveries' # 0
      PROVE  /\ next' \in 1..Len(log) + 1 /\ confirmed' \in 0..Len(log)
             /\ pending' \in Seq(T) /\ batch' \in Seq(T) /\ rest' \in Seq(T)
             /\ Counted' /\ (~skipped' => ~skipped)
  BY <1>2, <1>3, <1>4, <1>8 DEF StartsOver, Counted
<1>9. CASE Crashes
  BY <1>1, <1>5, <1>8, <1>9 DEF Crashes
<1>10. CASE Restarts
  <2>1. redeliveries' \in Nat /\ redeliveries' # 0
    <3> DEFINE a == redeliveries + 1
               b == MaxRedeliveries + 1
    <3>1. a \in Nat /\ b \in Nat /\ a # 0 /\ b # 0
      BY <1>1, ConstantsOK
    <3>2. redeliveries' = Min({a, b})
      BY <1>10 DEF Restarts
    <3> HIDE DEF a, b
    <3> QED BY <3>1, <3>2, MinOfTwo
  <2> QED BY <1>8, <1>10, <2>1 DEF Restarts
<1>11. CASE SendsBatch
  BY <1>1, <1>2, <1>3, <1>11 DEF SendsBatch, Counted
<1>12. CASE FlushesRun
  <2> DEFINE n == RunLength(rest)
  <2>1. n \in 1..Len(rest) /\ Len(rest) \in Nat
    <3>1. rest \in Seq(Nat) /\ rest # <<>>
      BY <1>12 DEF FlushesRun, WriterInv, Inv, TypeInv
    <3> QED BY <3>1, RunLengthRange, LenProperties
  <2>2. rest' = SubSeq(rest, n + 1, Len(rest))
    BY <1>12 DEF FlushesRun
  <2> HIDE DEF n
  <2>3. n + 1 \in Int /\ Len(rest) \in Int /\ \A i \in n + 1 .. Len(rest) : i \in 1..Len(rest)
    BY <2>1
  <2>4. \A i \in n + 1 .. Len(rest) : rest[i] \in T
    BY <1>2, <2>3, ElementOfSeq
  <2>5. rest' \in Seq(T)
    BY <2>2, <2>3, <2>4, SubSeqProperties
  <2> QED BY <1>1, <1>2, <1>12, <2>5 DEF FlushesRun, stream, Counted
<1>13. CASE Checkpoints
  <2>1. PICK p \in Range(batch) \union {confirmed} : confirmed' = p
    BY <1>13 DEF Checkpoints
  <2>2. Range(batch) \subseteq T
    BY <1>2, RangeOfSeq
  <2>3. p \in 0..Len(log)
    BY <1>1, <1>2, <2>2 DEF T
  <2> QED BY <1>1, <1>2, <1>3, <1>13, <2>1, <2>3 DEF Checkpoints, stream, Counted
<1>14. CASE AttemptStep
  <2>1. UNCHANGED <<next, confirmed, pending, batch, rest, redeliveries, skipped>>
    BY <1>14 DEF AttemptStep, TxCommits, GivesUp, QueryRejected, QueryErrs, stream
  <2> QED BY <1>1, <1>2, <2>1 DEF Counted
<1>15. CASE FaultStep
  <2>1. UNCHANGED <<next, confirmed, pending, batch, rest, redeliveries, skipped>>
    BY <1>15 DEF FaultStep, CommitLost, QueryLost, stream
  <2> QED BY <1>1, <1>2, <2>1 DEF Counted
<1>16. CASE Done \/ UNCHANGED vars
  <2>1. UNCHANGED <<next, confirmed, pending, batch, rest, redeliveries, skipped>>
    BY <1>16 DEF Done, vars, stream
  <2> QED BY <1>1, <1>2, <2>1 DEF Counted
<1> QED
  BY <1>6, <1>7, <1>9, <1>10, <1>11, <1>12, <1>13, <1>14, <1>15, <1>16 DEF Next, SenderStep

\* Every step keeps the invariant.
LEMMA NextFlows ==
  ASSUME WriterInv, [Next]_vars, Accepting, ~skipped'
  PROVE  Flowing'
<1>1. Flowing /\ Counted'
  BY PositionedKept DEF WriterInv
<1>2. CASE Receives
  BY <1>1, <1>2, ReceivesFlows
<1>3. CASE ConnectionResets
  BY <1>1, <1>3, ResetFlows
<1>4. ASSUME StartsOver, redeliveries' # 0 PROVE Flowing'
  BY <1>1, <1>4, StartsOverFlows DEF Counted
<1>5. CASE Crashes
  BY <1>4, <1>5 DEF Crashes, WriterInv
<1>6. CASE Restarts
  <2>1. redeliveries' # 0
    <3> DEFINE a == redeliveries + 1
               b == MaxRedeliveries + 1
    <3>1. a \in Nat /\ b \in Nat /\ a # 0 /\ b # 0
      BY ConstantsOK DEF WriterInv
    <3>2. redeliveries' = Min({a, b})
      BY <1>6 DEF Restarts
    <3> HIDE DEF a, b
    <3> QED BY <3>1, <3>2, MinOfTwo
  <2> QED BY <1>4, <1>6, <2>1 DEF Restarts
<1>7. CASE SenderStep
  BY <1>1, <1>7, SendsBatchFlows, FlushesRunFlows, CheckpointsFlows DEF SenderStep
<1>8. CASE AttemptStep
  BY <1>1, <1>8, TxCommitsFlows, GivesUpFlows, NothingFails DEF AttemptStep
<1>9. CASE FaultStep
  <2>1. CASE \E applied \in BOOLEAN : CommitLost(applied)
    <3>1. PICK applied \in BOOLEAN : CommitLost(applied)
      BY <2>1
    <3> QED BY <1>1, <3>1, CommitLostFlows
  <2>2. CASE \E i \in DOMAIN queries : QueryLost(i)
    BY <1>1, <2>2, NothingFails
  <2> QED BY <1>9, <2>1, <2>2 DEF FaultStep
<1>10. CASE Done \/ UNCHANGED vars
  <2>1. UNCHANGED <<setting, log, redeliveries, target, queries, rest, pending, next, retry, lastErr>>
    BY <1>10 DEF Done, vars, stream, flush
  <2>2. Quiet'
    BY <1>1, <2>1 DEF Flowing, Quiet
  <2> QED BY <1>1, <2>1, <2>2, SameQueueFlows
<1> QED BY <1>2, <1>3, <1>5, <1>6, <1>7, <1>8, <1>9, <1>10 DEF Next

\* The invariant is inductive.
LEMMA NextWriter == WriterInv /\ [Next]_vars => WriterInv'
<1> SUFFICES ASSUME WriterInv, [Next]_vars PROVE WriterInv'
  OBVIOUS
<1>1. Inv' /\ Chosen' /\ UNCHANGED <<setting, log, poison>>
  BY NextInv, ChosenKept DEF WriterInv
<1>2. Positioned' /\ Counted' /\ (~skipped' => ~skipped)
  BY PositionedKept
<1>3. Accepting' = Accepting
  BY <1>1 DEF Accepting
<1>4. (Accepting /\ ~skipped => Flowing)'
  BY <1>2, <1>3, NextFlows
<1> QED BY <1>1, <1>2, <1>4 DEF WriterInv, Counted

\* With nothing left to do, the target shows the source.
LEMMA WriterInvShows == WriterInv => ShowsSource
<1> SUFFICES ASSUME WriterInv, Drained, Accepting, ~skipped
             PROVE  target = History(log)[Len(log)]
  BY DEF ShowsSource
<1>1. Flowing /\ Chosen /\ Len(log) \in Nat /\ next \in 1..Len(log) + 1
  BY TodoFacts DEF WriterInv, Positioned
<1>2. rest = <<>> /\ queries = <<>> /\ pending = <<>> /\ next > Len(log)
  BY DEF Drained, WriterInv, Inv, Idle
<1>3. Ahead = next
  <2>1. Todo = <<next>>
    BY <1>2 DEF Todo
  <2> QED BY <1>2, <2>1 DEF Ahead
<1>4. Ahead - 1 = Len(log)
  BY <1>1, <1>2, <1>3
<1>5. <<target, Len(log)>> \in Healing
  BY <1>1, <1>2, <1>4 DEF Flowing, Holds
<1> QED BY <1>1, <1>5, HealedIsTheSource

\* When everything has been sent, the target shows what the source shows, in every run
\* whose target refuses nothing and whose stream does not go on without the end of
\* what it had begun to deliver again: sendBatch's runs, the multi-row INSERTs and
\* DELETEs, a transaction executed again because its commit was not acknowledged and
\* changes delivered again after a crash or a reset leave no row behind the source.
THEOREM WriterConverges == Spec => []ShowsSource
<1> QED
  BY InitWriter, NextWriter, WriterInvShows, PTL DEF Spec

\* The target changes by the execution of a run and by nothing else.
LEMMA TargetMoves ==
  ASSUME WriterInv, [Next]_vars
  PROVE  \/ redeliveries' # 0
         \/ /\ redeliveries' = redeliveries
            /\ \/ target' = target
               \/ queries # <<>> /\ target' = Within(queries)[Len(queries)]
<1>1. CASE Receives
  BY <1>1 DEF Receives
<1>2. CASE ConnectionResets \/ Crashes
  BY <1>2 DEF ConnectionResets, Crashes, WriterInv
<1>3. CASE Restarts
  <2> DEFINE a == redeliveries + 1
             b == MaxRedeliveries + 1
  <2>1. a \in Nat /\ b \in Nat /\ a # 0 /\ b # 0
    BY ConstantsOK DEF WriterInv
  <2>2. redeliveries' = Min({a, b})
    BY <1>3 DEF Restarts
  <2> HIDE DEF a, b
  <2> QED BY <2>1, <2>2, MinOfTwo
<1>4. CASE SenderStep
  BY <1>4 DEF SenderStep, SendsBatch, FlushesRun, Checkpoints, stream
<1>5. CASE AttemptStep
  BY <1>5 DEF AttemptStep, TxCommits, Executing, GivesUp, QueryRejected, QueryErrs, stream
<1>6. CASE FaultStep
  BY <1>6 DEF FaultStep, CommitLost, Executing, QueryLost, stream
<1>7. CASE Done \/ UNCHANGED vars
  BY <1>7 DEF Done, vars, stream
<1> QED BY <1>1, <1>2, <1>3, <1>4, <1>5, <1>6, <1>7 DEF Next

\* Until something is delivered twice, no change takes the target back.
LEMMA LaterKept ==
  ASSUME Chosen, Accepting, redeliveries = 0, NEW b \in Nat
  PROVE  Kept({x \in Exact : b <= x[2]})
<1> DEFINE P == {x \in Exact : b <= x[2]}
<1>1. Kept(Exact) /\ Len(log) \in Nat
  BY ExactKept, LogFacts DEF Chosen
<1>2. \A t, n : <<t, n>> \in P <=> <<t, n>> \in Exact /\ b <= n
  OBVIOUS
<1>3. P \subseteq Tables \X (0..Len(log))
  BY DEF Exact
<1> HIDE DEF P
<1>4. ASSUME NEW t \in Tables, NEW n \in 0..Len(log), NEW m \in 1..Len(log), n = m - 1, <<t, n>> \in P
      PROVE  <<Applied(t, m), m>> \in P
  <2>1. <<Applied(t, m), m>> \in Exact
    BY <1>1, <1>2, <1>4 DEF Kept
  <2>2. b <= m
    BY <1>1, <1>2, <1>4
  <2> QED BY <1>2, <2>1, <2>2
<1>5. ASSUME NEW t \in Tables, NEW p \in 0..Len(log), NEW n \in 0..Len(log),
             Follows(p, n + 1), <<t, p>> \in P
      PROVE  <<t, n>> \in P
  <2>1. n = p
    BY <1>1, <1>5 DEF Follows
  <2> QED BY <1>5, <2>1
<1>6. Kept(P)
  BY <1>3, <1>4, <1>5 DEF Kept
<1> QED BY <1>6 DEF P

\* What the target is said to show.
Shown ==
  IF ~Accepting THEN EmptyTables
  ELSE IF redeliveries = 0 THEN target ELSE History(log)[Len(log)]

\* A run takes the target from a state of the source to one that is not earlier.
LEMMA RunAdvances ==
  ASSUME WriterInv, Accepting, redeliveries = 0, queries # <<>>,
         NEW u, u = Within(queries)[Len(queries)]
  PROVE  \E m, n \in 0..Len(log) :
            m <= n /\ target = History(log)[m] /\ u = History(log)[n]
<1>1. /\ Flowing /\ Chosen /\ Holds(Exact) /\ target \in Tables /\ Len(log) \in Nat
  BY TargetTyped, TodoFacts DEF WriterInv, Flowing
<1>2. \A t, n : <<t, n>> \in Exact => n \in 0..Len(log) /\ t = History(log)[n]
  BY DEF Exact
<1>3. <<u, RunEnd>> \in Exact
  BY <1>1, ExactKept, RunExecuted
<1>4. CASE <<target, RunEnd>> \in Exact
  BY <1>1, <1>2, <1>3, <1>4
<1>5. CASE <<target, Ahead - 1>> \in Exact
  <2> DEFINE b == Ahead - 1
             e == RunEnd
             P == {x \in Exact : b <= x[2]}
  <2>1. b \in 0..Len(log) /\ b \in Nat
    BY <1>1, <1>2, <1>5
  <2> HIDE DEF b
  <2>2. Kept(P)
    BY <1>1, <2>1, LaterKept
  <2>3. <<target, b>> \in P
    BY <1>5, <2>1 DEF b
  <2> HIDE DEF P
  <2>4. Holds(P)
    BY <2>3 DEF Holds, b
  <2>5. <<u, RunEnd>> \in P
    BY <1>1, <2>2, <2>4, RunExecuted
  <2>6. b <= e
    BY <2>5 DEF P
  <2>7. b \in 0..Len(log) /\ e \in 0..Len(log) /\ target = History(log)[b] /\ u = History(log)[e]
    BY <1>2, <1>3, <1>5, <2>1 DEF b
  <2> HIDE DEF e
  <2> QED BY <2>6, <2>7
<1> QED BY <1>1, <1>4, <1>5 DEF Holds

\* The empty target shows the source before its first change.
LEMMA PrefixInit == Init => PrefixOf!Init
<1> SUFFICES ASSUME Init PROVE Shown = History(log)[0]
  BY DEF PrefixOf!Init, Shown
<1>1. Chosen /\ target = EmptyTables /\ redeliveries = 0
  BY InitWriter DEF Init, WriterInv
<1>2. History(log)[0] = EmptyTables
  BY <1>1, HistoryFacts DEF Chosen
<1> QED BY <1>1, <1>2 DEF Shown

\* Every step advances the replica or leaves it as it is.
LEMMA PrefixStep ==
  WriterInv /\ [Next]_vars => [PrefixOf!Advance]_<<History(log), Shown>>
<1> SUFFICES ASSUME WriterInv, [Next]_vars
             PROVE  \/ /\ \E m, n \in DOMAIN History(log) :
                            m <= n /\ Shown = History(log)[m] /\ Shown' = History(log)[n]
                       /\ History(log)' = History(log)
                    \/ History(log)' = History(log) /\ Shown' = Shown
  BY DEF PrefixOf!Advance, Shown
<1>1. Chosen /\ UNCHANGED <<setting, log>>
  BY ChosenKept DEF WriterInv
<1>2. History(log)' = History(log)
  BY <1>1, SMT DEF History, Changed, Emptied
<1>3. Accepting' = Accepting
  BY <1>1 DEF Accepting
<1>4. /\ DOMAIN History(log) = 0..Len(log) /\ Len(log) \in Nat
      /\ History(log)[Len(log)]' = History(log)[Len(log)]
  BY <1>1, <1>2, HistoryFacts, LogFacts DEF Chosen
<1>5. CASE ~Accepting
  BY <1>2, <1>3, <1>5 DEF Shown
<1>6. CASE Accepting /\ redeliveries # 0
  <2>1. redeliveries' # 0
    BY <1>6, TargetMoves
  <2> QED BY <1>2, <1>3, <1>4, <1>6, <2>1 DEF Shown
<1>7. CASE Accepting /\ redeliveries = 0 /\ redeliveries' # 0
  <2>1. Shown = target /\ Shown' = History(log)[Len(log)]
    BY <1>3, <1>4, <1>7 DEF Shown
  <2>2. \E m \in 0..Len(log) : target = History(log)[m]
    BY <1>7 DEF WriterInv, Flowing, Holds, Exact
  <2>3. PICK m \in 0..Len(log) : target = History(log)[m]
    BY <2>2
  <2>4. m <= Len(log) /\ Len(log) \in 0..Len(log)
    BY <1>4
  <2> QED BY <1>2, <1>4, <2>1, <2>3, <2>4
<1>8. CASE Accepting /\ redeliveries = 0 /\ redeliveries' = 0
  <2>1. Shown = target /\ Shown' = target'
    BY <1>3, <1>8 DEF Shown
  <2>2. CASE target' = target
    BY <1>2, <2>1, <2>2
  <2>3. CASE queries # <<>> /\ target' = Within(queries)[Len(queries)]
    BY <1>2, <1>4, <1>8, <2>1, <2>3, RunAdvances
  <2> QED BY <1>8, <2>2, <2>3, TargetMoves
<1> QED BY <1>5, <1>6, <1>7, <1>8

\* Until something is delivered twice, the target that refuses nothing shows nothing
\* but states the source went through, and never an earlier one after a later one:
\* the writer implements Replica, a run being one advance, and a run that execQueries
\* executes again after an unacknowledged commit being none.
THEOREM TargetIsAReplica == Spec => PrefixConsistent
<1>1. WriterInv /\ [Next]_vars => [PrefixOf!Advance]_<<History(log),
         IF ~Accepting THEN EmptyTables
         ELSE IF redeliveries = 0 THEN target ELSE History(log)[Len(log)]>>
  BY PrefixStep DEF Shown
<1> QED
  BY <1>1, PrefixInit, InitWriter, NextWriter, PTL DEF Spec, PrefixConsistent, PrefixOf!Spec
=============================================================================
