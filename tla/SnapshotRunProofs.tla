-------------------------- MODULE SnapshotRunProofs --------------------------
(***************************************************************************)
(* What DataSnapshotProofs shows of the copy of the rows holds where the   *)
(* copy is used: by the schema snapshot generator and the table finder,    *)
(* for every case that can be asked.  The steps of the whole that are not  *)
(* the copy's leave its variables alone, and the table finder starts it    *)
(* once, with tables that there are, or ends it with an error.             *)
(*                                                                         *)
(* And the schema snapshot is made as a whole, whatever the dump, as long  *)
(* as its statements look as parseDump takes them to and come after what   *)
(* they need.  No statement is cut in two on the way to psql, which is why *)
(* a clean restore succeeds; and sorted into sections, each statement is   *)
(* still executed after what it needs, which is why none of the errors     *)
(* that restoreDump ignores hides an object that is missing.               *)
(***************************************************************************)
EXTENDS SnapshotRun, SequenceTheorems, FiniteSetTheorems, TLAPS

\* The copy, with the theorems about it.
Copied == INSTANCE DataSnapshotProofs
            WITH snap <- data, source <- case.source, Snapshots <- {c.source : c \in Cases}

-----------------------------------------------------------------------------
(* Copied's definitions are Copy's.                                        *)

LEMMA SameTables ==
  /\ \A s : Copied!TablesOf(s) = Copy!TablesOf(s)
  /\ Copied!Missing = Copy!Missing /\ Copied!Nobody = Copy!Nobody
  /\ Copied!Rows = Copy!Rows /\ Copied!AskedRows = Copy!AskedRows
BY DEF Copied!TablesOf, Copy!TablesOf, Copied!Missing, Copy!Missing, Copied!Nobody, Copy!Nobody,
       Copied!Rows, Copy!Rows, Copied!AskedRows, Copy!AskedRows

LEMMA SameCardinality == \A S : Copied!Cardinality(S) = Copy!Cardinality(S)
BY DEF Copied!Cardinality, Copy!Cardinality

LEMMA SameRanges ==
  ASSUME NEW t, NEW n
  PROVE  /\ Copied!HasRange(t, n) = Copy!HasRange(t, n)
         /\ Copied!RangePages(t, n) = Copy!RangePages(t, n)
BY DEF Copied!HasRange, Copy!HasRange, Copied!RangePages, Copy!RangePages, Copied!RangeStart,
       Copy!RangeStart, Copied!BatchPageSize, Copy!BatchPageSize

LEMMA SameStates ==
  /\ Copied!Idle = Copy!Idle /\ Copied!NoSender = Copy!NoSender
  /\ Copied!Fault = Copy!Fault /\ Copied!Closed = Copy!Closed
  /\ \A t : Copied!Cancelled(t) = Copy!Cancelled(t)
BY DEF Copied!Idle, Copy!Idle, Copied!NoSender, Copy!NoSender, Copied!Fault, Copy!Fault,
       Copied!Closed, Copy!Closed, Copied!Cancelled, Copy!Cancelled

LEMMA SameSchemaSteps ==
  ASSUME NEW s
  PROVE  /\ Copy!TakeSchema(s) => Copied!TakeSchema(s)
         /\ Copy!EndSchema(s) => Copied!EndSchema(s)
         /\ Copy!StoreError(s) => Copied!StoreError(s)
<1> USE DEF Copied!copyVars, Copy!copyVars
<1>1. Copied!TablesOf(s) = Copy!TablesOf(s) /\ Copied!Fault = Copy!Fault
  BY SameTables, SameStates
<1>2. Copy!TakeSchema(s) => Copied!TakeSchema(s)
  BY <1>1, SameCardinality DEF Copied!TakeSchema, Copy!TakeSchema
<1>3. Copy!EndSchema(s) => Copied!EndSchema(s)
  BY <1>1 DEF Copied!EndSchema, Copy!EndSchema
<1>4. Copy!StoreError(s) => Copied!StoreError(s)
  BY DEF Copied!StoreError, Copy!StoreError
<1> QED BY <1>2, <1>3, <1>4

LEMMA SameTableSteps ==
  ASSUME NEW t
  PROVE  /\ Copy!TakeTable(t) => Copied!TakeTable(t)
         /\ Copy!PushRange(t) => Copied!PushRange(t)
         /\ Copy!EndTable(t) => Copied!EndTable(t)
<1> USE DEF Copied!copyVars, Copy!copyVars, Copied!schemaVars, Copy!schemaVars
<1>1. /\ \A s : Copied!TablesOf(s) = Copy!TablesOf(s)
      /\ Copied!Fault = Copy!Fault /\ Copied!Missing = Copy!Missing
  BY SameTables, SameStates
<1>2. Copy!TakeTable(t) => Copied!TakeTable(t)
  BY <1>1, SameCardinality DEF Copied!TakeTable, Copy!TakeTable
<1>3. Copy!PushRange(t) => Copied!PushRange(t)
  BY SameRanges DEF Copied!PushRange, Copy!PushRange
<1>4. Copy!EndTable(t) => Copied!EndTable(t)
  BY SameRanges DEF Copied!EndTable, Copy!EndTable
<1> QED BY <1>2, <1>3, <1>4

LEMMA SameWorkerSteps ==
  ASSUME NEW t, NEW w
  PROVE  /\ Copy!TakeRange(t, w) => Copied!TakeRange(t, w)
         /\ Copy!RangeFails(t, w) => Copied!RangeFails(t, w)
         /\ Copy!RangeEnds(t, w) => Copied!RangeEnds(t, w)
         /\ Copy!HandRow(t, w) => Copied!HandRow(t, w)
         /\ Copy!BuildSender(t, w) => Copied!BuildSender(t, w)
BY SameTables, SameStates, SameRanges, SMTT(30)
DEF Copied!TakeRange, Copy!TakeRange, Copied!RangeFails, Copy!RangeFails,
    Copied!RangeEnds, Copy!RangeEnds, Copied!HandRow, Copy!HandRow, Copied!BuildSender,
    Copy!BuildSender, Copied!Send, Copy!Send, Copied!schemaVars, Copy!schemaVars

LEMMA SameSenderSteps ==
  ASSUME NEW t, NEW w
  PROVE  /\ Copy!Drain(t, w) => Copied!Drain(t, w)
         /\ Copy!Write(t, w) => Copied!Write(t, w)
         /\ Copy!NoticeFailure(t, w) => Copied!NoticeFailure(t, w)
BY SameStates
DEF Copied!Drain, Copy!Drain, Copied!Write, Copy!Write, Copied!NoticeFailure,
    Copy!NoticeFailure, Copied!SenderStep, Copy!SenderStep, Copied!schemaVars, Copy!schemaVars

LEMMA SameNext == Copy!Next => Copied!Next
<1>1. Copy!CloseProcessor => Copied!CloseProcessor
  BY SameTables DEF Copied!CloseProcessor, Copy!CloseProcessor, Copied!copyVars, Copy!copyVars
<1>2. Copy!Finish => Copied!Finish
  BY SameTables, SameStates DEF Copied!Finish, Copy!Finish, Copied!copyVars, Copy!copyVars
<1> QED
  BY <1>1, <1>2, SameSchemaSteps, SameTableSteps, SameWorkerSteps, SameSenderSteps
  DEF Copied!Next, Copy!Next, Copied!Work, Copy!Work, Copied!Alive, Copy!Alive

LEMMA SameInit == Copy!SizesAssumption /\ Copy!Init => Copied!SizesAssumption /\ Copied!Init
BY SameTables, SameStates
DEF Copied!SizesAssumption, Copy!SizesAssumption, Copied!Init, Copy!Init

-----------------------------------------------------------------------------
(* The steps of the whole are steps of the copy.                           *)

LEMMA FoundTablesExist == case \in Cases /\ case.copyData => FoundTables \in SUBSET Table
BY TablesAssumption DEF FoundTables, AskedTables, AskedSchemas, TablesIn, Statements

LEMMA CaseStays == case \in Cases /\ [Next]_vars => case' = case
<1>1. SchemaSteps \/ TrackerTicks => UNCHANGED <<case, data>>
  BY DEF SchemaSteps, DumpSchema, DumpRoles, RestoreCleanup, RestoreRoles, RestoreSchema,
         DataReturns, RestoreIndices, RestoreViews, Again, TrackerTicks, RestoreDump, restoreVars
<1> QED BY <1>1 DEF Next, Steps, FindTables, CopySteps, vars, schemaVars

CopyMoves ==
  Copied!NotStarted \/ (\E tables \in SUBSET Table : Copied!Start(tables)) \/ Copied!Next

LEMMA RunStep ==
  case \in Cases /\ [Next]_vars => [CopyMoves]_(Copied!vars)
<1> SUFFICES ASSUME case \in Cases, [Next]_vars PROVE [CopyMoves]_(Copied!vars)
  OBVIOUS
<1>1. SchemaSteps \/ TrackerTicks => UNCHANGED <<case, data>>
  BY DEF SchemaSteps, DumpSchema, DumpRoles, RestoreCleanup, RestoreRoles, RestoreSchema,
         DataReturns, RestoreIndices, RestoreViews, Again, TrackerTicks, RestoreDump, restoreVars
<1>2. CASE FindTables
  <2>1. CASE Copy!Start(FoundTables)
    <3>1. Copied!Start(FoundTables)
      BY <2>1 DEF Copied!Start, Copy!Start, Copied!copyVars, Copy!copyVars
    <3>2. FoundTables \in SUBSET Table
      BY <1>2, FoundTablesExist DEF FindTables
    <3> QED BY <3>1, <3>2 DEF CopyMoves
  <2>2. CASE Copy!NotStarted
    BY <2>2 DEF Copied!NotStarted, Copy!NotStarted, Copied!copyVars, Copy!copyVars, CopyMoves
  <2> QED BY <1>2, <2>1, <2>2 DEF FindTables
<1>3. CASE CopySteps
  BY <1>3, SameNext DEF CopySteps, CopyMoves
<1>4. CASE (SchemaSteps \/ TrackerTicks) /\ UNCHANGED copyVars
  BY <1>1, <1>4 DEF copyVars, Copied!vars
<1>5. CASE UNCHANGED vars
  BY <1>5 DEF vars, schemaVars, copyVars, Copied!vars
<1> QED BY <1>2, <1>3, <1>4, <1>5 DEF Next, Steps

CaseGiven == case \in Cases

(* Every behaviour of the whole is, seen through the copy's variables, one  *)
(* of DataSnapshot: the rows are copied as they are when the data          *)
(* generator runs by itself, whatever its callers do.                      *)
THEOREM RunIsACopy == Spec => Copied!SizesAssumption /\ Copied!Spec
<1>1. Init => CaseGiven /\ Copied!SizesAssumption /\ Copied!Init
  BY SnapshotAssumption, SameInit DEF Init, SchemaInit, CaseGiven
<1>2. CaseGiven /\ [Next]_vars => CaseGiven'
  BY CaseStays DEF CaseGiven
<1>3. CaseGiven /\ [Next]_vars => [CopyMoves]_(Copied!vars)
  BY RunStep DEF CaseGiven
<1> QED BY <1>1, <1>2, <1>3, PTL DEF Spec, Copied!Spec, CopyMoves

-----------------------------------------------------------------------------
(* Whatever is asked and whatever fails, the copy hands every row of an    *)
(* accepted snapshot to a sender once, and reads it in the exported        *)
(* snapshot (CreateSnapshot of the schema generator, the table finder and  *)
(* the data generator).                                                    *)
THEOREM RunHandsRowsOnce == Spec => []RowsHandedOnce
<1>1. Copied!RowsHandedOnce /\ Copied!SnapshotStaysOpen => RowsHandedOnce
  BY SameTables
  DEF RowsHandedOnce, Copied!RowsHandedOnce, Copy!RowsHandedOnce,
      Copied!SnapshotStaysOpen, Copy!SnapshotStaysOpen
<1> QED BY <1>1, RunIsACopy, Copied!RowsAreHandedOnce, PTL

(* What an accepted snapshot lacks was lost by a writer that failed, or is *)
(* in a sender that was replaced in the map, in the whole as in the copy.  *)
THEOREM RunMissesRowsUnseen == Spec => []MissingRowsFailedUnseen
<1>1. Copied!MissingRowsFailedUnseen => MissingRowsFailedUnseen
  BY SameTables
  DEF MissingRowsFailedUnseen, Copied!MissingRowsFailedUnseen, Copy!MissingRowsFailedUnseen
<1> QED BY <1>1, RunIsACopy, Copied!MissingRowsHadAWriter, PTL

-----------------------------------------------------------------------------
(* parseDump and the restore of a section go over lines in a loop, which is *)
(* a fold here: what a loop has made of the first lines is a step from what *)
(* it had made of the ones before.                                          *)

\* Induction, for the numbers that have a property as a set.
LEMMA UpTo ==
  ASSUME NEW N \in Nat, NEW S, 0 \in S, \A n \in 0..N : n \in S /\ n < N => n + 1 \in S
  PROVE  \A n \in 0..N : n \in S
<1> DEFINE Other == {n \in 0..N : n \notin S}
<1> SUFFICES ASSUME Other # {} PROVE FALSE
  OBVIOUS
<1>1. PICK m \in Other : \A q \in Other : m <= q
  <2>1. Other \in SUBSET Nat
    OBVIOUS
  <2> HIDE DEF Other
  <2> QED BY <2>1, Copied!Least
<1>2. m # 0 /\ m - 1 \in 0..N /\ m - 1 \notin Other
  BY <1>1
<1> QED BY <1>1, <1>2

\* The loops over the lines of a dump, and the one over the roles.
Step(loop, t, line) ==
  CASE loop = "parse"   -> ParseLine(t, line)
    [] loop = "restore" -> RestoreLine(t, line)
    [] loop = "wal"     -> WALLine(t, line)
    [] loop = "roles"   -> AddDeps(t, line)

\* FoldLeft builds its result from those of all sets of positions: these are
\* the ones of the sets up to n.
Folds(loop, start, lines, n, f) ==
  f = [S \in SUBSET (1..n) |->
         IF S = {} THEN start ELSE Step(loop, f[S \ {Max(S)}], lines[Max(S)])]

\* The last of the first n positions is taken off first.
LEMMA MaxOfUpTo ==
  ASSUME NEW n \in Nat, NEW S \in SUBSET (1..n), n \in S
  PROVE  Max(S) = n
<1>1. \A x \in S : (\A y \in S : x >= y) <=> x = n
  OBVIOUS
<1>2. Max(S) = CHOOSE x \in S : \A y \in S : x >= y
  BY DEF Max
<1>3. Max(S) \in S /\ \A y \in S : Max(S) >= y
  BY <1>1, <1>2
<1> QED BY <1>1, <1>3

\* FoldLeft chooses such a function: there is one.
LEMMA FoldExists ==
  ASSUME NEW loop, NEW start, NEW lines, NEW N \in Nat
  PROVE  \E f : Folds(loop, start, lines, N, f)
<1> DEFINE Done == {n \in 0..N : \E f : Folds(loop, start, lines, n, f)}
<1>1. 0 \in Done
  <2> DEFINE f == [S \in SUBSET (1..0) |-> start]
  <2>1. f = [S \in SUBSET (1..0) |->
               IF S = {} THEN start ELSE Step(loop, f[S \ {Max(S)}], lines[Max(S)])]
    <3>1. \A S \in SUBSET (1..0) : S = {}
      OBVIOUS
    <3> QED BY <3>1
  <2> HIDE DEF f
  <2> QED BY <2>1 DEF Folds
<1>2. ASSUME NEW n \in 0..N, n \in Done, n < N PROVE n + 1 \in Done
  <2>1. PICK f : Folds(loop, start, lines, n, f)
    BY <1>2
  <2> DEFINE g == [S \in SUBSET (1..n + 1) |->
                     IF n + 1 \in S THEN Step(loop, f[S \ {n + 1}], lines[n + 1]) ELSE f[S]]
  <2>2. \A S \in SUBSET (1..n + 1) : S \ {n + 1} \in SUBSET (1..n)
    BY <1>2
  <2>3. \A S \in SUBSET (1..n) : S \in SUBSET (1..n + 1) /\ n + 1 \notin S /\ g[S] = f[S]
    BY <1>2
  <2>4. ASSUME NEW S \in SUBSET (1..n + 1)
        PROVE  g[S] = IF S = {} THEN start
                      ELSE Step(loop, g[S \ {Max(S)}], lines[Max(S)])
    <3>1. CASE n + 1 \in S
      <4>1. Max(S) = n + 1
        BY <1>2, <3>1, MaxOfUpTo
      <4>2. g[S] = Step(loop, f[S \ {n + 1}], lines[n + 1])
        BY <3>1
      <4>3. g[S \ {n + 1}] = f[S \ {n + 1}]
        BY <2>2, <2>3
      <4> HIDE DEF g
      <4> QED BY <3>1, <4>1, <4>2, <4>3
    <3>2. CASE n + 1 \notin S
      <4>1. S \in SUBSET (1..n) /\ g[S] = f[S]
        BY <2>2, <3>2
      <4> HIDE DEF g
      <4>2. f[S] = IF S = {} THEN start ELSE Step(loop, f[S \ {Max(S)}], lines[Max(S)])
        BY <2>1, <4>1 DEF Folds
      <4>3. g[S \ {Max(S)}] = f[S \ {Max(S)}]
        BY <2>3, <4>1
      <4> QED BY <4>1, <4>2, <4>3
    <3> QED BY <3>1, <3>2
  <2>5. g = [S \in SUBSET (1..n + 1) |-> g[S]]
    OBVIOUS
  <2> HIDE DEF g
  <2>6. Folds(loop, start, lines, n + 1, g)
    BY <2>4, <2>5, Zenon DEF Folds
  <2> QED BY <1>2, <2>6
<1>3. N \in Done
  <2> HIDE DEF Done
  <2>1. \A n \in 0..N : n \in Done /\ n < N => n + 1 \in Done
    BY <1>2
  <2>2. \A n \in 0..N : n \in Done
    BY <1>1, <2>1, UpTo
  <2> QED BY <2>2
<1> QED BY <1>3

\* What a loop has made of the first n lines, for every n.
Looped(loop, start, lines, t) ==
  /\ t[0] = start
  /\ \A n \in 1..Len(lines) : t[n] = Step(loop, t[n - 1], lines[n])

\* The sets that matter are those of the first positions.
LEMMA FoldLoops ==
  ASSUME NEW loop, NEW start, NEW lines, Len(lines) \in Nat, NEW f,
         Folds(loop, start, lines, Len(lines), f)
  PROVE  \E t : Looped(loop, start, lines, t) /\ t[Len(lines)] = f[1..Len(lines)]
<1> DEFINE N == Len(lines)
<1>1. Folds(loop, start, lines, N, f)
  OBVIOUS
<1> DEFINE t == [n \in 0..N |-> f[1..n]]
<1> HIDE DEF N
<1>0. N \in Nat
  BY DEF N
<1>2. t[0] = start
  <2>1. 1..0 = {} /\ {} \in SUBSET (1..N) /\ 0 \in 0..N
    BY <1>0
  <2>2. t[0] = f[{}]
    BY <2>1
  <2> HIDE DEF t
  <2> QED BY <1>1, <2>1, <2>2 DEF Folds
<1>3. ASSUME NEW n \in 1..N PROVE t[n] = Step(loop, t[n - 1], lines[n])
  <2>1. n \in Nat /\ n - 1 \in 0..N /\ n \in 0..N /\ n \in 1..n
    BY <1>0
  <2>5. 1..n \in SUBSET (1..N) /\ 1..n # {}
    <3>1. 1..n # {}
      BY <2>1
    <3>2. n <= N
      BY <1>0
    <3>3. \A x \in 1..n : x \in 1..N
      BY <1>0, <2>1, <3>2
    <3> QED BY <3>1, <3>3
  <2>6. (1..n) \ {n} = 1..(n - 1)
    BY <2>1
  <2>2. Max(1..n) = n
    BY <2>1, <2>5, MaxOfUpTo
  <2>3. t[n] = f[1..n] /\ t[n - 1] = f[1..(n - 1)]
    BY <2>1
  <2> HIDE DEF t
  <2>4. f[1..n] = IF 1..n = {} THEN start
                  ELSE Step(loop, f[(1..n) \ {Max(1..n)}], lines[Max(1..n)])
    BY <1>1, <2>5 DEF Folds
  <2> QED BY <2>2, <2>3, <2>4, <2>5, <2>6
<1>4. t[N] = f[1..N]
  <2>1. N \in 0..N
    BY <1>0
  <2> QED BY <2>1
<1> HIDE DEF t
<1> QED BY <1>2, <1>3, <1>4 DEF Looped, N

\* The loop of parseDump.
LEMMA ParseLoops ==
  ASSUME NEW T, NEW lines \in Seq(T)
  PROVE  \E t : /\ Looped("parse", NoSections, lines, t)
                /\ t[Len(lines)] = FoldLeft(ParseLine, NoSections, lines)
<1> DEFINE N == Len(lines)
           IsFold(g) == g = [S \in SUBSET (DOMAIN lines) |->
                IF S = {} THEN NoSections ELSE ParseLine(g[S \ {Max(S)}], lines[Max(S)])]
           f == CHOOSE g : IsFold(g)
<1>1. DOMAIN lines = 1..N /\ N \in Nat
  BY LenProperties
<1>2. FoldLeft(ParseLine, NoSections, lines) = f[1..N]
  BY <1>1 DEF FoldLeft, MapThenFoldSet
<1>3. \A g : IsFold(g) <=> Folds("parse", NoSections, lines, N, g)
  <2>1. \A x, y : Step("parse", x, y) = ParseLine(x, y)
    BY DEF Step
  <2> HIDE DEF N
  <2> QED BY <1>1, <2>1 DEF Folds
<1>4. \E g : IsFold(g)
  BY <1>1, <1>3, FoldExists
<1>5. IsFold(f)
  BY <1>4
<1> HIDE DEF f, IsFold
<1>6. \E t : Looped("parse", NoSections, lines, t) /\ t[N] = f[1..N]
  BY <1>1, <1>3, <1>5, FoldLoops
<1> QED BY <1>2, <1>6

\* The loop of psql over what it is given.
LEMMA RestoreLoops ==
  ASSUME NEW T, NEW lines \in Seq(T), NEW start
  PROVE  \E t : /\ Looped("restore", start, lines, t)
                /\ t[Len(lines)] = FoldLeft(RestoreLine, start, lines)
<1> DEFINE N == Len(lines)
           IsFold(g) == g = [S \in SUBSET (DOMAIN lines) |->
                IF S = {} THEN start ELSE RestoreLine(g[S \ {Max(S)}], lines[Max(S)])]
           f == CHOOSE g : IsFold(g)
<1>1. DOMAIN lines = 1..N /\ N \in Nat
  BY LenProperties
<1>2. FoldLeft(RestoreLine, start, lines) = f[1..N]
  BY <1>1 DEF FoldLeft, MapThenFoldSet
<1>3. \A g : IsFold(g) <=> Folds("restore", start, lines, N, g)
  <2>1. \A x, y : Step("restore", x, y) = RestoreLine(x, y)
    BY DEF Step
  <2> HIDE DEF N
  <2> QED BY <1>1, <2>1 DEF Folds
<1>4. \E g : IsFold(g)
  BY <1>1, <1>3, FoldExists
<1>5. IsFold(f)
  BY <1>4
<1> HIDE DEF f, IsFold
<1>6. \E t : Looped("restore", start, lines, t) /\ t[N] = f[1..N]
  BY <1>1, <1>3, <1>5, FoldLoops
<1> QED BY <1>2, <1>6

\* The loop that turns a dump into events.
LEMMA WALLoops ==
  ASSUME NEW T, NEW lines \in Seq(T), NEW start
  PROVE  \E t : /\ Looped("wal", start, lines, t)
                /\ t[Len(lines)] = FoldLeft(WALLine, start, lines)
<1> DEFINE N == Len(lines)
           IsFold(g) == g = [S \in SUBSET (DOMAIN lines) |->
                IF S = {} THEN start ELSE WALLine(g[S \ {Max(S)}], lines[Max(S)])]
           f == CHOOSE g : IsFold(g)
<1>1. DOMAIN lines = 1..N /\ N \in Nat
  BY LenProperties
<1>2. FoldLeft(WALLine, start, lines) = f[1..N]
  BY <1>1 DEF FoldLeft, MapThenFoldSet
<1>3. \A g : IsFold(g) <=> Folds("wal", start, lines, N, g)
  <2>1. \A x, y : Step("wal", x, y) = WALLine(x, y)
    BY DEF Step
  <2> HIDE DEF N
  <2> QED BY <1>1, <2>1 DEF Folds
<1>4. \E g : IsFold(g)
  BY <1>1, <1>3, FoldExists
<1>5. IsFold(f)
  BY <1>4
<1> HIDE DEF f, IsFold
<1>6. \E t : Looped("wal", start, lines, t) /\ t[N] = f[1..N]
  BY <1>1, <1>3, <1>5, FoldLoops
<1> QED BY <1>2, <1>6

\* The loop over the roles.
LEMMA RoleLoops ==
  ASSUME NEW T, NEW order \in Seq(T), NEW start
  PROVE  \E t : /\ Looped("roles", start, order, t)
                /\ t[Len(order)] = FoldLeft(AddDeps, start, order)
<1> DEFINE N == Len(order)
           IsFold(g) == g = [S \in SUBSET (DOMAIN order) |->
                IF S = {} THEN start ELSE AddDeps(g[S \ {Max(S)}], order[Max(S)])]
           f == CHOOSE g : IsFold(g)
<1>1. DOMAIN order = 1..N /\ N \in Nat
  BY LenProperties
<1>2. FoldLeft(AddDeps, start, order) = f[1..N]
  BY <1>1 DEF FoldLeft, MapThenFoldSet
<1>3. \A g : IsFold(g) <=> Folds("roles", start, order, N, g)
  <2>1. \A x, y : Step("roles", x, y) = AddDeps(x, y)
    BY DEF Step
  <2> HIDE DEF N
  <2> QED BY <1>1, <2>1 DEF Folds
<1>4. \E g : IsFold(g)
  BY <1>1, <1>3, FoldExists
<1>5. IsFold(f)
  BY <1>4
<1> HIDE DEF f, IsFold
<1>6. \E t : Looped("roles", start, order, t) /\ t[N] = f[1..N]
  BY <1>1, <1>3, <1>5, FoldLoops
<1> QED BY <1>2, <1>6

-----------------------------------------------------------------------------
(* Sequences of lines that are sequences of statements.                    *)

\* The lines of the statements, by number; the one after a line.
Line == {x \in [of : DOMAIN Text, n : Nat \ {0}] : x.n <= Len(Text[x.of].lines)}
NextLine(line) == [of |-> line.of, n |-> line.n + 1]

\* A line is the first of its statement, or follows the one before it.
Continues(lines, i) ==
  IF i = 1 \/ Ends(lines[i - 1]) THEN lines[i].n = 1 ELSE lines[i] = NextLine(lines[i - 1])

\* Of whole statements but for the last, which ends with the line x; of whole ones.
Woven(lines) == lines \in Seq(Line) /\ \A i \in 1..Len(lines) : Continues(lines, i)
Upto(lines, x) == Woven(lines) /\ Len(lines) > 0 /\ lines[Len(lines)] = x
Whole(lines) == Woven(lines) /\ (Len(lines) > 0 => Ends(lines[Len(lines)]))

LEMMA LineFacts ==
  ASSUME NEW x \in Line
  PROVE  /\ x.of \in DOMAIN Text /\ x.n \in Nat \ {0} /\ x = [of |-> x.of, n |-> x.n]
         /\ Len(Text[x.of].lines) \in Nat /\ x.n <= Len(Text[x.of].lines)
         /\ ~Ends(x) => NextLine(x) \in Line
<1>1. x.of \in DOMAIN Text /\ x.n \in Nat \ {0} /\ x = [of |-> x.of, n |-> x.n]
  BY DEF Line
<1>2. x.n <= Len(Text[x.of].lines)
  BY DEF Line
<1>3. Text[x.of].lines \in Seq(Range(Text[x.of].lines))
  BY <1>1, StatementsAssumption
<1>4. Len(Text[x.of].lines) \in Nat
  BY <1>3, LenProperties
<1>5. ~Ends(x) => NextLine(x) \in Line
  BY <1>1, <1>2, <1>4 DEF Ends, NextLine, Line
<1> QED BY <1>1, <1>2, <1>4, <1>5

LEMMA EmptyWhole == Whole(<<>>)
BY EmptySeq DEF Whole, Woven

\* A line that continues a sequence of lines keeps it one of statements.
LEMMA AppendLine ==
  ASSUME NEW lines, Woven(lines), NEW x \in Line,
         IF Len(lines) = 0 \/ Ends(lines[Len(lines)]) THEN x.n = 1
         ELSE x = NextLine(lines[Len(lines)])
  PROVE  Upto(Append(lines, x), x)
<1> DEFINE t == Append(lines, x)
           N == Len(lines)
<1>1. /\ t \in Seq(Line) /\ Len(t) = N + 1 /\ \A i \in 1..N : t[i] = lines[i]
      /\ t[N + 1] = x
  BY AppendProperties DEF Woven
<1>2. N \in Nat
  BY LenProperties DEF Woven
<1>3. ASSUME NEW i \in 1..N + 1 PROVE Continues(t, i)
  <2> HIDE DEF t, N
  <2>1. CASE i = N + 1
    <3>1. N # 0 => t[i - 1] = lines[N]
      BY <1>1, <1>2, <2>1
    <3>2. i = 1 <=> N = 0
      BY <1>2, <2>1
    <3> QED BY <1>1, <2>1, <3>1, <3>2 DEF Continues, N
  <2>2. CASE i # N + 1
    <3>1. i \in 1..N /\ t[i] = lines[i] /\ (i # 1 => t[i - 1] = lines[i - 1])
      BY <1>1, <1>2, <2>2
    <3>2. Continues(lines, i)
      BY <3>1 DEF Woven, N
    <3> QED BY <3>1, <3>2 DEF Continues
  <2> QED BY <2>1, <2>2
<1> HIDE DEF t, N
<1>4. Woven(t)
  BY <1>1, <1>3 DEF Woven
<1> QED BY <1>1, <1>2, <1>4 DEF Upto, t

LEMMA AppendStarts ==
  ASSUME NEW lines, Whole(lines), NEW x \in Line, x.n = 1
  PROVE  Upto(Append(lines, x), x)
<1>1. Len(lines) \in Nat
  BY LenProperties DEF Whole, Woven
<1> QED BY <1>1, AppendLine DEF Whole

LEMMA AppendFollows ==
  ASSUME NEW lines, NEW y \in Line, Upto(lines, y), ~Ends(y), NEW x \in Line, x = NextLine(y)
  PROVE  Upto(Append(lines, x), x)
<1>1. Len(lines) # 0
  BY DEF Upto
<1> QED BY <1>1, AppendLine DEF Upto

LEMMA UptoEnd ==
  ASSUME NEW lines, NEW x, Upto(lines, x)
  PROVE  Woven(lines) /\ (Ends(x) => Whole(lines))
BY DEF Upto, Whole

LEMMA ConcatWhole ==
  ASSUME NEW a, NEW b, Whole(a), Whole(b)
  PROVE  Whole(a \o b)
<1> DEFINE t == a \o b
           N == Len(a)
           M == Len(b)
<1>1. a \in Seq(Line) /\ b \in Seq(Line) /\ N \in Nat /\ M \in Nat
  BY LenProperties DEF Whole, Woven
<1>2. /\ t \in Seq(Line) /\ Len(t) = N + M
      /\ \A i \in 1..N + M : t[i] = IF i <= N THEN a[i] ELSE b[i - N]
  BY <1>1, ConcatProperties
<1> HIDE DEF t
<1>3. /\ N > 0 => Ends(a[N])
      /\ M > 0 => Ends(b[M])
      /\ \A i \in 1..N : Continues(a, i)
      /\ \A i \in 1..M : Continues(b, i)
  BY DEF Whole, Woven
<1> HIDE DEF N, M
<1>4. ASSUME NEW i \in 1..N + M PROVE Continues(t, i)
  <2>1. CASE i <= N
    <3>1. i \in 1..N /\ t[i] = a[i] /\ (i # 1 => t[i - 1] = a[i - 1])
      BY <1>1, <1>2, <2>1
    <3> QED BY <1>3, <3>1 DEF Continues
  <2>2. CASE i = N + 1
    <3>1. /\ t[i] = b[1] /\ (i # 1 => t[i - 1] = a[N]) /\ 1 \in 1..M
          /\ i # 1 <=> N > 0
      BY <1>1, <1>2, <2>2
    <3>2. b[1].n = 1
      BY <1>3, <3>1 DEF Continues
    <3>3. i = 1 \/ Ends(t[i - 1])
      BY <1>3, <3>1
    <3> QED BY <3>1, <3>2, <3>3 DEF Continues
  <2>3. CASE i > N + 1
    <3> DEFINE j == i - N
    <3>1. /\ j \in 1..M /\ j # 1 /\ i # 1 /\ t[i] = b[j] /\ t[i - 1] = b[j - 1]
      <4>1. i - 1 \in 1..N + M /\ ~(i - 1 <= N) /\ ~(i <= N) /\ (i - 1) - N = j - 1
        BY <1>1, <2>3
      <4>2. j \in 1..M /\ j # 1 /\ i # 1
        BY <1>1, <2>3
      <4>3. t[i] = b[j]
        BY <1>2, <4>1
      <4>4. t[i - 1] = b[(i - 1) - N]
        BY <1>2, <4>1
      <4> QED BY <4>1, <4>2, <4>3, <4>4
    <3> HIDE DEF j
    <3> QED BY <1>3, <3>1 DEF Continues
  <2> QED BY <1>1, <2>1, <2>2, <2>3
<1>5. Len(t) > 0 => Ends(t[Len(t)])
  <2> SUFFICES ASSUME N + M > 0 PROVE Ends(t[N + M])
    BY <1>2
  <2>1. N + M \in 1..N + M
    BY <1>1
  <2>2. CASE M = 0
    <3>1. N + M = N /\ N > 0 /\ N <= N
      BY <1>1, <2>2
    <3>2. t[N] = a[N]
      BY <1>2, <2>1, <3>1
    <3> QED BY <1>3, <3>1, <3>2
  <2>3. CASE M # 0
    <3>1. ~(N + M <= N) /\ (N + M) - N = M /\ M > 0
      BY <1>1, <2>3
    <3>2. t[N + M] = b[M]
      BY <1>2, <2>1, <3>1
    <3> QED BY <1>3, <3>1, <3>2
  <2> QED BY <2>2, <2>3
<1> QED BY <1>2, <1>4, <1>5 DEF Whole, Woven, t

\* A statement is whole.
LEMMA LinesOfWhole ==
  ASSUME NEW s \in DOMAIN Text
  PROVE  /\ Whole(LinesOf(s)) /\ Len(LinesOf(s)) = Len(Text[s].lines)
         /\ \A n \in 1..Len(LinesOf(s)) : LinesOf(s)[n] = [of |-> s, n |-> n]
<1> DEFINE N == Len(Text[s].lines)
           t == LinesOf(s)
<1>1. N \in Nat
  <2>1. Text[s].lines \in Seq(Range(Text[s].lines))
    BY StatementsAssumption
  <2> QED BY <2>1, LenProperties
<1>2. t = [n \in 1..N |-> [of |-> s, n |-> n]]
  BY DEF LinesOf
<1>3. \A n \in 1..N : [of |-> s, n |-> n] \in Line
  BY <1>1 DEF Line
<1>4. t \in Seq(Line) /\ Len(t) = N
  <2> HIDE DEF t, N
  <2> QED BY <1>1, <1>2, <1>3
<1>5. \A n \in 1..N : t[n] = [of |-> s, n |-> n]
  BY <1>2
<1> HIDE DEF t
<1>6. ASSUME NEW i \in 1..N PROVE Continues(t, i)
  <2>1. CASE i = 1
    <3>1. t[i] = [of |-> s, n |-> i]
      BY <1>5
    <3>2. t[i].n = i
      BY <3>1
    <3> QED BY <2>1, <3>2 DEF Continues
  <2>2. CASE i # 1
    <3>1. t[i] = [of |-> s, n |-> i] /\ t[i - 1] = [of |-> s, n |-> i - 1] /\ i - 1 # N
      BY <1>1, <1>5, <2>2
    <3>2. ~Ends(t[i - 1]) /\ i = (i - 1) + 1
      BY <3>1 DEF Ends
    <3> QED BY <2>2, <3>1, <3>2 DEF Continues, NextLine
  <2> QED BY <2>1, <2>2
<1>7. N > 0 => Ends(t[N])
  <2> SUFFICES ASSUME N > 0 PROVE Ends(t[N])
    OBVIOUS
  <2>1. t[N] = [of |-> s, n |-> N]
    BY <1>1, <1>5
  <2>2. t[N].n = N /\ t[N].of = s
    BY <2>1
  <2> QED BY <2>2 DEF Ends
<1>8. Whole(t)
  BY <1>4, <1>6, <1>7 DEF Whole, Woven
<1> QED BY <1>4, <1>5, <1>8 DEF t

-----------------------------------------------------------------------------
(* What is selected, and what a dump is put together from.                 *)

\* The steps of Selected.
SelectedUpTo(s, S, f, n) ==
  /\ f = [k \in 0..n |-> f[k]] /\ f[0] = <<>>
  /\ \A k \in 1..n : f[k] = IF s[k] \in S THEN Append(f[k - 1], s[k]) ELSE f[k - 1]

\* The function that Selected chooses.
IsSelection(s, S, f) ==
  f = [n \in 0..Len(s) |->
        IF n = 0 THEN <<>> ELSE IF s[n] \in S THEN Append(f[n - 1], s[n]) ELSE f[n - 1]]

LEMMA SelectionExists ==
  ASSUME NEW s, Len(s) \in Nat, NEW S
  PROVE  \E f : IsSelection(s, S, f)
<1> DEFINE Done == {n \in 0..Len(s) : \E f : SelectedUpTo(s, S, f, n)}
<1>1. 0 \in Done
  <2>1. SelectedUpTo(s, S, [k \in 0..0 |-> <<>>], 0)
    BY DEF SelectedUpTo
  <2> QED BY <2>1
<1>2. ASSUME NEW n \in 0..Len(s), n \in Done, n < Len(s) PROVE n + 1 \in Done
  <2>1. PICK f : SelectedUpTo(s, S, f, n)
    BY <1>2
  <2> DEFINE e == IF s[n + 1] \in S THEN Append(f[n], s[n + 1]) ELSE f[n]
             g == [k \in 0..n + 1 |-> IF k = n + 1 THEN e ELSE f[k]]
  <2>2. g = [k \in 0..n + 1 |-> g[k]] /\ g[0] = <<>>
    BY <2>1 DEF SelectedUpTo
  <2>3. ASSUME NEW k \in 1..n + 1
        PROVE  g[k] = IF s[k] \in S THEN Append(g[k - 1], s[k]) ELSE g[k - 1]
    <3>1. k - 1 \in 0..n /\ g[k - 1] = f[k - 1]
      OBVIOUS
    <3>2. CASE k = n + 1
      <4>1. g[k] = e /\ k - 1 = n
        BY <3>2
      <4> HIDE DEF g
      <4> QED BY <3>1, <3>2, <4>1
    <3>3. CASE k # n + 1
      <4>1. k \in 1..n /\ g[k] = f[k]
        BY <3>3
      <4> HIDE DEF g
      <4> QED BY <2>1, <3>1, <4>1 DEF SelectedUpTo
    <3> QED BY <3>2, <3>3
  <2>4. SelectedUpTo(s, S, g, n + 1)
    <3> HIDE DEF g
    <3> QED BY <2>2, <2>3 DEF SelectedUpTo
  <2>5. n + 1 \in 0..Len(s)
    BY <1>2
  <2> HIDE DEF g
  <2> QED BY <2>4, <2>5
<1>3. Len(s) \in Done
  <2> HIDE DEF Done
  <2>1. \A n \in 0..Len(s) : n \in Done /\ n < Len(s) => n + 1 \in Done
    BY <1>2
  <2>2. \A n \in 0..Len(s) : n \in Done
    BY <1>1, <2>1, UpTo
  <2> QED BY <2>2
<1>4. PICK f : SelectedUpTo(s, S, f, Len(s))
  BY <1>3
<1>5. ASSUME NEW n \in 0..Len(s)
      PROVE  f[n] = IF n = 0 THEN <<>>
                    ELSE IF s[n] \in S THEN Append(f[n - 1], s[n]) ELSE f[n - 1]
  <2>1. n = 0 \/ n \in 1..Len(s)
    OBVIOUS
  <2> QED BY <1>4, <2>1 DEF SelectedUpTo
<1>6. f = [n \in 0..Len(s) |-> f[n]]
  BY <1>4 DEF SelectedUpTo
<1>7. [n \in 0..Len(s) |-> f[n]] =
      [n \in 0..Len(s) |->
         IF n = 0 THEN <<>>
         ELSE IF s[n] \in S THEN Append(f[n - 1], s[n]) ELSE f[n - 1]]
  BY <1>5
<1> QED BY <1>6, <1>7 DEF IsSelection

\* What is selected of the first n elements, for every n.
Selects(s, S, f) ==
  /\ f[0] = <<>> /\ f[Len(s)] = Selected(s, S)
  /\ \A n \in 1..Len(s) : f[n] = IF s[n] \in S THEN Append(f[n - 1], s[n]) ELSE f[n - 1]

LEMMA SelectionSteps ==
  ASSUME NEW T, NEW s \in Seq(T), NEW S
  PROVE  \E f : Selects(s, S, f)
<1> DEFINE f == CHOOSE h : IsSelection(s, S, h)
<1>1. Len(s) \in Nat
  BY LenProperties
<1>2. IsSelection(s, S, f)
  BY <1>1, SelectionExists
<1>3. Selected(s, S) = f[Len(s)]
  BY DEF Selected, IsSelection
<1> HIDE DEF f
<1>4. 0 \in 0..Len(s) /\ \A n \in 1..Len(s) : n \in 0..Len(s) /\ n # 0
  BY <1>1
<1>5. Selects(s, S, f)
  BY <1>2, <1>3, <1>4 DEF IsSelection, Selects
<1> QED BY <1>5

LEMMA SelectedIn ==
  ASSUME NEW T, NEW s \in Seq(T), NEW S
  PROVE  Selected(s, S) \in Seq(T \cap S)
<1> DEFINE N == Len(s)
<1>1. N \in Nat /\ \A n \in 1..N : s[n] \in T
  BY LenProperties
<1>0. PICK f : Selects(s, S, f)
  BY SelectionSteps
<1>2. /\ f[0] = <<>> /\ f[N] = Selected(s, S)
      /\ \A n \in 1..N : f[n] = IF s[n] \in S THEN Append(f[n - 1], s[n]) ELSE f[n - 1]
  BY <1>0 DEF Selects
<1> DEFINE Good == {n \in 0..N : f[n] \in Seq(T \cap S)}
<1> HIDE DEF N
<1>3. 0 \in Good
  <2>1. <<>> \in Seq(T \cap S) /\ 0 \in 0..N
    BY <1>1, EmptySeq
  <2> QED BY <1>2, <2>1
<1>4. ASSUME NEW n \in 0..N, n \in Good, n < N PROVE n + 1 \in Good
  <2>1. n + 1 \in 1..N /\ (n + 1) - 1 = n /\ n + 1 \in 0..N
    BY <1>1, <1>4
  <2>2. f[n + 1] = IF s[n + 1] \in S THEN Append(f[n], s[n + 1]) ELSE f[n]
    BY <1>2, <2>1
  <2>3. f[n] \in Seq(T \cap S)
    BY <1>4
  <2>4. s[n + 1] \in S => Append(f[n], s[n + 1]) \in Seq(T \cap S)
    BY <1>1, <2>1, <2>3, AppendProperties
  <2> QED BY <2>1, <2>2, <2>3, <2>4
<1>5. N \in Good
  <2> HIDE DEF Good
  <2>1. \A n \in 0..N : n \in Good /\ n < N => n + 1 \in Good
    BY <1>4
  <2>2. \A n \in 0..N : n \in Good
    BY <1>1, <1>3, <2>1, UpTo
  <2> QED BY <1>1, <2>2
<1> QED BY <1>2, <1>5

\* With one line of a statement all of them are selected: whole statements are.
LEMMA SelectedWhole ==
  ASSUME NEW lines, Whole(lines), NEW S,
         \A i, j \in 1..Len(lines) :
           lines[i].of = lines[j].of => (lines[i] \in S <=> lines[j] \in S)
  PROVE  Whole(Selected(lines, S))
<1> DEFINE N == Len(lines)
<1>1. /\ lines \in Seq(Line) /\ N \in Nat
      /\ \A n \in 1..N : lines[n] \in Line /\ Continues(lines, n)
      /\ N > 0 => Ends(lines[N])
  BY LenProperties DEF Whole, Woven
<1>0. PICK f : Selects(lines, S, f)
  BY <1>1, SelectionSteps
<1>2. /\ f[0] = <<>> /\ f[N] = Selected(lines, S)
      /\ \A n \in 1..N : f[n] = IF lines[n] \in S THEN Append(f[n - 1], lines[n]) ELSE f[n - 1]
  BY <1>0 DEF Selects
<1>3. \A i, j \in 1..N : lines[i].of = lines[j].of => (lines[i] \in S <=> lines[j] \in S)
  OBVIOUS
<1> DEFINE Within(n) == n > 0 /\ lines[n] \in S /\ ~Ends(lines[n])
           Good == {n \in 0..N : IF Within(n) THEN Upto(f[n], lines[n]) ELSE Whole(f[n])}
<1> HIDE DEF N
<1>4. 0 \in Good
  BY <1>1, <1>2, EmptyWhole
<1>5. ASSUME NEW n \in 0..N, n \in Good, n < N PROVE n + 1 \in Good
  <2> DEFINE x == lines[n + 1]
  <2>1. n + 1 \in 1..N /\ (n + 1) - 1 = n /\ n + 1 \in 0..N /\ n + 1 > 0 /\ n \in Nat
    BY <1>1, <1>5
  <2>2. f[n + 1] = IF x \in S THEN Append(f[n], x) ELSE f[n]
    BY <1>2, <2>1
  <2>3. x \in Line
    BY <1>1, <2>1
  <2>4. IF n = 0 \/ Ends(lines[n]) THEN x.n = 1 ELSE x = NextLine(lines[n])
    <3>1. Continues(lines, n + 1)
      BY <1>1, <2>1
    <3>2. n + 1 = 1 <=> n = 0
      BY <2>1
    <3> QED BY <2>1, <3>1, <3>2 DEF Continues
  <2>5. IF Within(n) THEN Upto(f[n], lines[n]) ELSE Whole(f[n])
    BY <1>5
  <2>6. n > 0 /\ ~Ends(lines[n]) => (lines[n] \in S <=> x \in S) /\ lines[n] \in Line
    <3> SUFFICES ASSUME n > 0, ~Ends(lines[n])
                 PROVE  (lines[n] \in S <=> x \in S) /\ lines[n] \in Line
      OBVIOUS
    <3>1. n \in 1..N /\ n # 0
      BY <1>5
    <3>2. x.of = lines[n].of
      <4>1. x = NextLine(lines[n])
        BY <2>4, <3>1
      <4> HIDE DEF x
      <4> QED BY <4>1 DEF NextLine
    <3> QED BY <1>1, <1>3, <2>1, <3>1, <3>2
  <2> HIDE DEF x
  <2>7. CASE x \notin S
    <3>1. ~Within(n) /\ Whole(f[n])
      BY <2>5, <2>6, <2>7
    <3>2. f[n + 1] = f[n] /\ ~Within(n + 1)
      BY <2>2, <2>7 DEF x
    <3> HIDE DEF Within
    <3> QED BY <2>1, <3>1, <3>2
  <2>8. CASE x \in S
    <3>1. Upto(f[n + 1], x)
      <4>1. CASE Within(n)
        <5>1. x = NextLine(lines[n]) /\ lines[n] \in Line
          BY <2>4, <2>6, <4>1
        <5> QED BY <2>2, <2>3, <2>5, <2>8, <4>1, <5>1, AppendFollows
      <4>2. CASE ~Within(n)
        <5>1. x.n = 1
          BY <2>1, <2>4, <2>6, <2>8, <4>2
        <5> QED BY <2>2, <2>3, <2>5, <2>8, <4>2, <5>1, AppendStarts
      <4> QED BY <4>1, <4>2
    <3>2. Ends(x) => Whole(f[n + 1])
      BY <3>1, UptoEnd
    <3>3. Within(n + 1) <=> ~Ends(x)
      BY <2>1, <2>8 DEF x
    <3> HIDE DEF Within
    <3> QED BY <2>1, <3>1, <3>2, <3>3 DEF x
  <2> QED BY <2>7, <2>8
<1>6. N \in Good
  <2> HIDE DEF Good
  <2>1. \A n \in 0..N : n \in Good /\ n < N => n + 1 \in Good
    BY <1>5
  <2>2. \A n \in 0..N : n \in Good
    BY <1>1, <1>4, <2>1, UpTo
  <2> QED BY <1>1, <2>2
<1>7. ~Within(N)
  BY <1>1
<1> HIDE DEF Within
<1> QED BY <1>2, <1>6, <1>7

\* The function that FlattenSeq chooses, for the first n sequences.
IsFlat(seqs, n, f) ==
  f = [i \in 1..n |-> IF i = 1 THEN seqs[i] ELSE f[i - 1] \o seqs[i]]

LEMMA FlatExists ==
  ASSUME NEW seqs, NEW N \in Nat
  PROVE  \E f : IsFlat(seqs, N, f)
<1> DEFINE Done == {n \in 0..N : \E f : IsFlat(seqs, n, f)}
<1>1. 0 \in Done
  <2> DEFINE f == [i \in 1..0 |-> seqs[i]]
  <2>1. IsFlat(seqs, 0, f)
    <3>1. \A i \in 1..0 : FALSE
      OBVIOUS
    <3> QED BY <3>1 DEF IsFlat
  <2> HIDE DEF f
  <2> QED BY <2>1
<1>2. ASSUME NEW n \in 0..N, n \in Done, n < N PROVE n + 1 \in Done
  <2>1. PICK f : IsFlat(seqs, n, f)
    BY <1>2
  <2> DEFINE e == IF n = 0 THEN seqs[1] ELSE f[n] \o seqs[n + 1]
             g == [i \in 1..n + 1 |-> IF i = n + 1 THEN e ELSE f[i]]
  <2>2. ASSUME NEW i \in 1..n + 1
        PROVE  g[i] = IF i = 1 THEN seqs[i] ELSE g[i - 1] \o seqs[i]
    <3>1. CASE i = n + 1
      <4>1. g[i] = e /\ (i # 1 => g[i - 1] = f[n])
        BY <3>1
      <4>2. i = 1 <=> n = 0
        BY <3>1
      <4> HIDE DEF g
      <4> QED BY <3>1, <4>1, <4>2
    <3>2. CASE i # n + 1
      <4>1. i \in 1..n /\ g[i] = f[i] /\ (i # 1 => g[i - 1] = f[i - 1])
        BY <3>2
      <4> HIDE DEF g, e
      <4> QED BY <2>1, <4>1 DEF IsFlat
    <3> QED BY <3>1, <3>2
  <2>3. g = [i \in 1..n + 1 |-> g[i]]
    OBVIOUS
  <2> HIDE DEF g
  <2>4. IsFlat(seqs, n + 1, g)
    BY <2>2, <2>3, Zenon DEF IsFlat
  <2> QED BY <1>2, <2>4
<1>3. N \in Done
  <2> HIDE DEF Done
  <2>1. \A n \in 0..N : n \in Done /\ n < N => n + 1 \in Done
    BY <1>2
  <2>2. \A n \in 0..N : n \in Done
    BY <1>1, <2>1, UpTo
  <2> QED BY <2>2
<1> QED BY <1>3

\* The lines of statements are whole statements.
LEMMA LinesWhole ==
  ASSUME NEW D \in SUBSET DOMAIN Text, NEW statements \in Seq(D)
  PROVE  /\ Whole(Lines(statements))
         /\ \A i \in 1..Len(Lines(statements)) : Lines(statements)[i].of \in D
<1> DEFINE N == Len(statements)
           seqs == [i \in DOMAIN statements |-> LinesOf(statements[i])]
           Fine(lines) == Whole(lines) /\ \A i \in 1..Len(lines) : lines[i].of \in D
<1>1. N \in Nat /\ DOMAIN statements = 1..N /\ \A i \in 1..N : statements[i] \in D
  BY LenProperties
<1>2. \A i \in 1..N : seqs[i] = LinesOf(statements[i])
  BY <1>1
<1>3. \A i \in 1..N : Fine(seqs[i])
  <2> SUFFICES ASSUME NEW i \in 1..N PROVE Fine(seqs[i])
    OBVIOUS
  <2>1. statements[i] \in D
    BY <1>1
  <2>2. Fine(LinesOf(statements[i]))
    <3> DEFINE x == statements[i]
               t == LinesOf(x)
    <3>1. x \in DOMAIN Text /\ x \in D
      BY <2>1
    <3> HIDE DEF x
    <3>2. Whole(t) /\ \A n \in 1..Len(t) : t[n] = [of |-> x, n |-> n]
      BY <3>1, LinesOfWhole
    <3> HIDE DEF t
    <3>3. ASSUME NEW n \in 1..Len(t) PROVE t[n].of \in D
      <4>1. t[n] = [of |-> x, n |-> n]
        BY <3>2
      <4>2. [of |-> x, n |-> n].of = x
        OBVIOUS
      <4> QED BY <3>1, <4>1, <4>2
    <3>4. Fine(t)
      BY <3>2, <3>3
    <3> QED BY <3>4 DEF t, x
  <2> QED BY <1>2, <2>2
<1>4. Len(seqs) = N
  <2>1. seqs = [i \in 1..N |-> LinesOf(statements[i])]
    BY <1>1
  <2> HIDE DEF N
  <2> QED BY <1>1, <2>1
<1>5. Lines(statements) = FlattenSeq(seqs)
  BY DEF Lines
<1>6. Fine(<<>>)
  BY EmptyWhole
<1>7. CASE N = 0
  <2>1. FlattenSeq(seqs) = seqs
    BY <1>4, <1>7 DEF FlattenSeq
  <2>2. seqs = <<>>
    BY <1>1, <1>7
  <2> QED BY <1>5, <1>6, <2>1, <2>2
<1>8. CASE N # 0
  <2> DEFINE f == CHOOSE g : IsFlat(seqs, N, g)
  <2>1. FlattenSeq(seqs) = f[N]
    BY <1>4, <1>8 DEF FlattenSeq, IsFlat
  <2>2. IsFlat(seqs, N, f)
    BY <1>1, FlatExists
  <2> HIDE DEF f, seqs, N
  <2> DEFINE Good == {n \in 0..N : n # 0 => Fine(f[n])}
  <2>3. 0 \in Good
    BY <1>1
  <2>4. ASSUME NEW n \in 0..N, n \in Good, n < N PROVE n + 1 \in Good
    <3>1. n + 1 \in 1..N /\ (n + 1) - 1 = n /\ n + 1 \in 0..N /\ (n + 1 = 1 <=> n = 0)
      BY <1>1, <2>4
    <3>2. f[n + 1] = IF n = 0 THEN seqs[n + 1] ELSE f[n] \o seqs[n + 1]
      BY <2>2, <3>1 DEF IsFlat
    <3>3. CASE n = 0
      BY <1>3, <3>1, <3>2, <3>3
    <3>4. CASE n # 0
      <4>1. Fine(f[n]) /\ Fine(seqs[n + 1])
        BY <1>3, <2>4, <3>1, <3>4
      <4>2. Fine(f[n] \o seqs[n + 1])
        <5> DEFINE a == f[n]
                   b == seqs[n + 1]
        <5>1. Fine(a) /\ Fine(b)
          BY <4>1
        <5> HIDE DEF a, b
        <5>2. Whole(a \o b)
          BY <5>1, ConcatWhole
        <5>3. /\ a \in Seq(Line) /\ b \in Seq(Line) /\ Len(a) \in Nat /\ Len(b) \in Nat
          BY <5>1, LenProperties DEF Whole, Woven
        <5>4. /\ Len(a \o b) = Len(a) + Len(b)
              /\ \A i \in 1..Len(a) + Len(b) :
                   (a \o b)[i] = IF i <= Len(a) THEN a[i] ELSE b[i - Len(a)]
          BY <5>3, ConcatProperties
        <5>5. ASSUME NEW i \in 1..Len(a) + Len(b) PROVE (a \o b)[i].of \in D
          <6>1. CASE i <= Len(a)
            BY <5>1, <5>3, <5>4, <6>1
          <6>2. CASE ~(i <= Len(a))
            <7>1. i - Len(a) \in 1..Len(b)
              BY <5>3, <6>2
            <7> QED BY <5>1, <5>4, <6>2, <7>1
          <6> QED BY <6>1, <6>2
        <5>6. Fine(a \o b)
          BY <5>2, <5>4, <5>5
        <5> QED BY <5>6 DEF a, b
      <4> HIDE DEF Fine
      <4> QED BY <3>1, <3>2, <3>4, <4>2
    <3> QED BY <3>3, <3>4
  <2>5. N \in Good
    <3> HIDE DEF Good
    <3>1. \A n \in 0..N : n \in Good /\ n < N => n + 1 \in Good
      BY <2>4
    <3>2. \A n \in 0..N : n \in Good
      BY <1>1, <2>3, <3>1, UpTo
    <3> QED BY <1>1, <3>2
  <2> HIDE DEF Fine
  <2>6. Fine(f[N])
    BY <1>8, <2>5
  <2> QED BY <1>5, <2>1, <2>6 DEF Fine
<1> QED BY <1>7, <1>8

-----------------------------------------------------------------------------
(* psql is not given half a statement.                                     *)

\* What psql has executed, what it waits for the end of, and whether it failed.
Session(o, p, c) == [objects |-> o, pending |-> p, critical |-> c]
Restoring(o, p) == Session(o, p, FALSE)

LEMMA SessionFacts ==
  ASSUME NEW o, NEW p, NEW c, NEW v
  PROVE  /\ [Session(o, p, c) EXCEPT !.pending = v] = Session(o, v, c)
         /\ [Session(o, p, c) EXCEPT !.objects = v] = Session(v, p, c)
         /\ Session(o, p, c).objects = o /\ Session(o, p, c).pending = p
         /\ Session(o, p, c).critical = c
BY DEF Session

LEMMA RestoringFields ==
  ASSUME NEW o, NEW p
  PROVE  /\ Restoring(o, p).objects = o /\ Restoring(o, p).pending = p
BY DEF Restoring, Session

LEMMA RestoringCalm ==
  ASSUME NEW o, NEW p
  PROVE  ~Restoring(o, p).critical
BY DEF Restoring, Session

LEMMA RestoringPending ==
  ASSUME NEW o, NEW p, NEW v
  PROVE  [Restoring(o, p) EXCEPT !.pending = v] = Restoring(o, v)
<1> DEFINE c == FALSE
<1>1. \A x, y : Restoring(x, y) = Session(x, y, c)
  BY DEF Restoring
<1> HIDE DEF c
<1> QED BY <1>1, SessionFacts

LEMMA RestoringObjects ==
  ASSUME NEW o, NEW p, NEW v
  PROVE  [Restoring(o, p) EXCEPT !.objects = v] = Restoring(v, p)
<1> DEFINE c == FALSE
<1>1. \A x, y : Restoring(x, y) = Session(x, y, c)
  BY DEF Restoring
<1> HIDE DEF c
<1> QED BY <1>1, SessionFacts

\* The lines of a statement up to one of them.
Part(x) == [n \in 1..x.n |-> [of |-> x.of, n |-> n]]

LEMMA PartFacts ==
  ASSUME NEW x \in Line
  PROVE  /\ x.n = 1 => Part(x) = <<x>>
         /\ Ends(x) => Part(x) = LinesOf(x.of)
         /\ \A y \in Line : x = NextLine(y) => Part(x) = Part(y) \o <<x>>
<1>1. x.of \in DOMAIN Text /\ x.n \in Nat \ {0} /\ x = [of |-> x.of, n |-> x.n]
  BY LineFacts
<1>2. ASSUME x.n = 1 PROVE Part(x) = <<x>>
  <2>1. Part(x) = [n \in 1..1 |-> [of |-> x.of, n |-> n]]
    BY <1>2 DEF Part
  <2>2. x = [of |-> x.of, n |-> 1]
    BY <1>1, <1>2
  <2> QED BY <2>1, <2>2
<1>3. Ends(x) => Part(x) = LinesOf(x.of)
  BY DEF Ends, Part, LinesOf
<1>4. ASSUME NEW y \in Line, x = NextLine(y) PROVE Part(x) = Part(y) \o <<x>>
  <2>1. y.n \in Nat \ {0} /\ y.of \in DOMAIN Text
    BY LineFacts
  <2>2. x.n = y.n + 1 /\ x.of = y.of
    BY <1>4 DEF NextLine
  <2> DEFINE a == Part(y)
             N == y.n
  <2>3. \A n \in 1..N + 1 : [of |-> x.of, n |-> n] \in [of : DOMAIN Text, n : Nat]
    BY <1>1, <2>1
  <2>4. Part(y) = [n \in 1..N |-> [of |-> x.of, n |-> n]] /\ x = [of |-> x.of, n |-> N + 1]
    BY <1>1, <2>2 DEF Part
  <2>5. Part(x) = [n \in 1..N + 1 |-> [of |-> x.of, n |-> n]]
    BY <2>2 DEF Part
  <2> DEFINE T == [of : DOMAIN Text, n : Nat]
  <2>6. /\ a \in Seq(T) /\ Len(a) = N /\ \A n \in 1..N : a[n] = [of |-> x.of, n |-> n]
    <3> HIDE DEF N, T, a
    <3>1. a = [n \in 1..N |-> [of |-> x.of, n |-> n]]
      BY <2>4 DEF a
    <3>2. \A n \in 1..N : [of |-> x.of, n |-> n] \in T
      BY <1>1, <2>1 DEF N, T
    <3> QED BY <2>1, <3>1, <3>2 DEF N
  <2>7. <<x>> \in Seq(T) /\ Len(<<x>>) = 1 /\ <<x>>[1] = x
    BY <1>1
  <2> HIDE DEF T, a
  <2>8. /\ a \o <<x>> \in Seq(T) /\ Len(a \o <<x>>) = N + 1
        /\ \A n \in 1..N + 1 : (a \o <<x>>)[n] = IF n <= N THEN a[n] ELSE <<x>>[n - N]
    BY <2>6, <2>7, ConcatProperties
  <2>9. \A n \in 1..N + 1 : (a \o <<x>>)[n] = [of |-> x.of, n |-> n]
    <3> SUFFICES ASSUME NEW n \in 1..N + 1
                 PROVE  (a \o <<x>>)[n] = [of |-> x.of, n |-> n]
      OBVIOUS
    <3>1. CASE n <= N
      <4>1. n \in 1..N
        BY <2>1, <3>1
      <4> QED BY <2>6, <2>8, <3>1, <4>1
    <3>2. CASE ~(n <= N)
      <4>1. n = N + 1 /\ n - N = 1
        BY <2>1, <3>2
      <4> HIDE DEF N
      <4> QED BY <2>4, <2>7, <2>8, <3>2, <4>1
    <3> QED BY <3>1, <3>2
  <2>10. a \o <<x>> = [n \in 1..N + 1 |-> (a \o <<x>>)[n]]
    <3> DEFINE c == a \o <<x>>
    <3>1. c \in [1..Len(c) -> T]
      BY <2>8, LenProperties
    <3> HIDE DEF c
    <3>2. c = [n \in 1..Len(c) |-> c[n]]
      BY <3>1
    <3> QED BY <2>8, <3>2 DEF c
  <2> HIDE DEF N
  <2> QED BY <2>5, <2>9, <2>10 DEF a
<1> QED BY <1>2, <1>3, <1>4

\* One line: with the ones of its statement before it, it is executed or kept.
LEMMA RestoresLine ==
  ASSUME NEW o, NEW p, NEW x \in Line, case.superuser,
         (p = <<>> /\ x.n = 1) \/ (\E y \in Line : p = Part(y) /\ x = NextLine(y))
  PROVE  \E q : RestoreLine(Restoring(o, p), x) = Restoring(q, IF Ends(x) THEN <<>> ELSE Part(x))
<1>1. p \o <<x>> = Part(x)
  <2>1. CASE p = <<>> /\ x.n = 1
    <3>1. <<x>> \in Seq(Line)
      OBVIOUS
    <3> QED BY <2>1, <3>1, PartFacts, ConcatEmptySeq
  <2>2. CASE \E y \in Line : p = Part(y) /\ x = NextLine(y)
    BY <2>2, PartFacts
  <2> QED BY <2>1, <2>2
<1> DEFINE t == Restoring(o, p)
           next == [t EXCEPT !.pending = IF Ends(x) THEN <<>> ELSE Part(x)]
<1>2. next = Restoring(o, IF Ends(x) THEN <<>> ELSE Part(x))
  BY RestoringPending, Zenon
<1>3. t.pending = p
  BY RestoringFields, Zenon
<1>4. CASE ~Ends(x)
  <2>1. RestoreLine(t, x) = next
    BY <1>1, <1>3, <1>4 DEF RestoreLine
  <2> QED BY <1>2, <2>1
<1>5. CASE Ends(x)
  <2>1. Part(x) = LinesOf(x.of)
    BY <1>5, PartFacts
  <2>2. RestoreLine(t, x) = Execute(Restoring(o, <<>>), x.of)
    BY <1>1, <1>2, <1>3, <1>5, <2>1 DEF RestoreLine
  <2>3. \E q : Execute(Restoring(o, <<>>), x.of) = Restoring(q, <<>>)
    <3>1. \/ Execute(Restoring(o, <<>>), x.of) = Restoring(o, <<>>)
          \/ Execute(Restoring(o, <<>>), x.of) =
               [Restoring(o, <<>>) EXCEPT !.objects = @ \cup {x.of}]
      BY DEF Execute
    <3>2. [Restoring(o, <<>>) EXCEPT !.objects = @ \cup {x.of}] = Restoring(o \cup {x.of}, <<>>)
      <4>1. Restoring(o, <<>>).objects = o
        BY RestoringFields, Zenon
      <4>2. [Restoring(o, <<>>) EXCEPT !.objects = o \cup {x.of}] = Restoring(o \cup {x.of}, <<>>)
        BY RestoringObjects, Zenon
      <4> QED BY <4>1, <4>2
    <3> QED BY <3>1, <3>2
  <2> QED BY <1>5, <2>2, <2>3
<1> QED BY <1>4, <1>5

\* A superuser's restore of a section of statements finds no critical error.
LEMMA RestoresWoven ==
  ASSUME NEW lines, Woven(lines), case.superuser, NEW o
  PROVE  ~FoldLeft(RestoreLine, Restoring(o, <<>>), lines).critical
<1> DEFINE N == Len(lines)
           start == Restoring(o, <<>>)
<1>1. /\ lines \in Seq(Line) /\ N \in Nat
      /\ \A n \in 1..N : lines[n] \in Line /\ Continues(lines, n)
  BY LenProperties DEF Woven
<1>2. PICK t : /\ Looped("restore", start, lines, t)
               /\ t[N] = FoldLeft(RestoreLine, start, lines)
  BY <1>1, RestoreLoops
<1>3. t[0] = start /\ \A n \in 1..N : t[n] = RestoreLine(t[n - 1], lines[n])
  BY <1>2 DEF Looped, Step
<1> DEFINE Pending(n) == IF n = 0 \/ Ends(lines[n]) THEN <<>> ELSE Part(lines[n])
           Good == {n \in 0..N : \E q : t[n] = Restoring(q, Pending(n))}
<1> HIDE DEF N
<1>4. 0 \in Good
  BY <1>1, <1>3
<1>5. ASSUME NEW n \in 0..N, n \in Good, n < N PROVE n + 1 \in Good
  <2> DEFINE x == lines[n + 1]
  <2>1. n + 1 \in 1..N /\ (n + 1) - 1 = n /\ n + 1 \in 0..N /\ n + 1 # 0 /\ n \in Nat
    BY <1>1, <1>5
  <2>2. PICK q : t[n] = Restoring(q, Pending(n))
    BY <1>5
  <2>3. t[n + 1] = RestoreLine(t[n], x) /\ x \in Line
    BY <1>1, <1>3, <2>1
  <2>4. IF n = 0 \/ Ends(lines[n]) THEN x.n = 1 ELSE x = NextLine(lines[n])
    <3>1. Continues(lines, n + 1)
      BY <1>1, <2>1
    <3>2. n + 1 = 1 <=> n = 0
      BY <2>1
    <3> QED BY <2>1, <3>1, <3>2 DEF Continues
  <2>5. \/ Pending(n) = <<>> /\ x.n = 1
        \/ \E y \in Line : Pending(n) = Part(y) /\ x = NextLine(y)
    <3>1. n # 0 => lines[n] \in Line
      BY <1>1, <2>1
    <3> HIDE DEF x
    <3> QED BY <2>4, <3>1
  <2> DEFINE p == Pending(n)
  <2> HIDE DEF p, x
  <2>6. \E r : RestoreLine(Restoring(q, p), x) =
               Restoring(r, IF Ends(x) THEN <<>> ELSE Part(x))
    BY <2>3, <2>5, RestoresLine DEF p
  <2>7. Pending(n + 1) = IF Ends(x) THEN <<>> ELSE Part(x)
    BY <2>1 DEF x
  <2> HIDE DEF Pending
  <2> QED BY <2>1, <2>2, <2>3, <2>6, <2>7 DEF p
<1>6. N \in Good
  <2> HIDE DEF Good
  <2>1. \A n \in 0..N : n \in Good /\ n < N => n + 1 \in Good
    BY <1>5
  <2>2. \A n \in 0..N : n \in Good
    BY <1>1, <1>4, <2>1, UpTo
  <2> QED BY <1>1, <2>2
<1>7. PICK q : t[N] = Restoring(q, Pending(N))
  BY <1>6
<1> HIDE DEF Pending
<1> QED BY <1>2, <1>7, RestoringCalm, Zenon

\* What becomes events is never critical.
LEMMA RestoresToWAL ==
  ASSUME NEW T, NEW lines \in Seq(T), NEW o
  PROVE  ~FoldLeft(WALLine, Restoring(o, <<>>), lines).critical
<1> DEFINE N == Len(lines)
           start == Restoring(o, <<>>)
<1>1. N \in Nat
  BY LenProperties
<1>2. PICK t : /\ Looped("wal", start, lines, t)
               /\ t[N] = FoldLeft(WALLine, start, lines)
  BY WALLoops
<1>3. t[0] = start /\ \A n \in 1..N : t[n] = WALLine(t[n - 1], lines[n])
  BY <1>2 DEF Looped, Step
<1> DEFINE Good == {n \in 0..N : \E q, p : t[n] = Restoring(q, p)}
<1> HIDE DEF N
<1>4. 0 \in Good
  BY <1>1, <1>3
<1>5. ASSUME NEW n \in 0..N, n \in Good, n < N PROVE n + 1 \in Good
  <2>1. n + 1 \in 1..N /\ (n + 1) - 1 = n /\ n + 1 \in 0..N
    BY <1>1, <1>5
  <2>2. PICK q, p : t[n] = Restoring(q, p)
    BY <1>5
  <2> DEFINE x == lines[n + 1]
  <2>3. t[n + 1] = WALLine(Restoring(q, p), x)
    BY <1>3, <2>1, <2>2
  <2> HIDE DEF x
  <2>4. \E q1, p1 : WALLine(Restoring(q, p), x) = Restoring(q1, p1)
    <3> DEFINE text == p \o <<x>>
               made == IF IsDDL(text[1]) THEN q \cup {text[1].of} ELSE q
    <3>1. WALLine(Restoring(q, p), x) = IF ~Ends(x) THEN Restoring(q, text)
                                        ELSE Restoring(made, <<>>)
      <4> DEFINE t1 == Restoring(q, p)
      <4>1. t1.pending = p /\ t1.objects = q
        BY RestoringFields, Zenon
      <4> HIDE DEF t1
      <4>2. WALLine(t1, x) = IF ~Ends(x) THEN [t1 EXCEPT !.pending = text]
                             ELSE [[t1 EXCEPT !.pending = <<>>] EXCEPT !.objects = made]
        BY <4>1 DEF WALLine
      <4>3. /\ [t1 EXCEPT !.pending = text] = Restoring(q, text)
            /\ [t1 EXCEPT !.pending = <<>>] = Restoring(q, <<>>)
            /\ [Restoring(q, <<>>) EXCEPT !.objects = made] = Restoring(made, <<>>)
        <5>1. [t1 EXCEPT !.pending = text] = Restoring(q, text)
          BY RestoringPending, Zenon DEF t1
        <5>2. [t1 EXCEPT !.pending = <<>>] = Restoring(q, <<>>)
          BY RestoringPending, Zenon DEF t1
        <5>3. [Restoring(q, <<>>) EXCEPT !.objects = made] = Restoring(made, <<>>)
          BY RestoringObjects, Zenon
        <5> QED BY <5>1, <5>2, <5>3
      <4> QED BY <4>2, <4>3 DEF t1
    <3> HIDE DEF text, made
    <3> QED BY <3>1
  <2> QED BY <2>1, <2>3, <2>4
<1>6. N \in Good
  <2> HIDE DEF Good
  <2>1. \A n \in 0..N : n \in Good /\ n < N => n + 1 \in Good
    BY <1>5
  <2>2. \A n \in 0..N : n \in Good
    BY <1>1, <1>4, <2>1, UpTo
  <2> QED BY <1>1, <2>2
<1>7. PICK q, p : t[N] = Restoring(q, p)
  BY <1>6
<1> QED BY <1>2, <1>7, RestoringCalm, Zenon

LEMMA RestoredSafely ==
  ASSUME NEW lines, Woven(lines), case.superuser
  PROVE  ~Restored(lines).critical
<1>1. lines \in Seq(Line)
  BY DEF Woven
<1> DEFINE start == Restoring(objects, <<>>)
<1>2. Restored(lines) = IF case.toWAL THEN FoldLeft(WALLine, start, lines)
                        ELSE FoldLeft(RestoreLine, start, lines)
  BY DEF Restored, Restoring, Session
<1> HIDE DEF start
<1> QED BY <1>1, <1>2, RestoresWoven, RestoresToWAL DEF start

-----------------------------------------------------------------------------
(* parseDump cuts no statement in two.                                     *)

\* A record of all the sections.
IsSections(p) ==
  p = [filtered |-> p.filtered, indices |-> p.indices, views |-> p.views,
       triggers |-> p.triggers, alter |-> p.alter, inTrigger |-> p.inTrigger,
       inView |-> p.inView, sequences |-> p.sequences, roles |-> p.roles]

\* A line about a role, if it goes anywhere, goes to the filtered dump.
LEMMA RoleLineKeeps ==
  ASSUME NEW p, NEW line
  PROVE  \/ RoleLine(p, line) = p
         \/ \E r : RoleLine(p, line) = [p EXCEPT !.filtered = Append(p.filtered, line), !.roles = r]
<1> DEFINE r == Noted([x \in Text[line.of].roles |-> Text[line.of].owner], p.roles)
<1>1. CASE Text[line.of].roles \cap Managed = {}
  <2>1. RoleLine(p, line) = [p EXCEPT !.filtered = Append(p.filtered, line), !.roles = r]
    BY <1>1, Zenon DEF RoleLine
  <2> HIDE DEF r
  <2> QED BY <2>1, Zenon
<1>2. CASE Text[line.of].roles \cap Managed # {}
  BY <1>2, Zenon DEF RoleLine
<1> QED BY <1>1, <1>2

\* A held back ALTER TABLE goes to a section with the line after it.
LEMMA AppendBoth ==
  ASSUME NEW a, Whole(a), NEW y \in Line, y.n = 1, ~Ends(y), NEW x \in Line,
         x = NextLine(y), Ends(x)
  PROVE  Whole(a \o (<<y>> \o <<x>>))
<1>1. Upto(Append(a, y), y)
  BY AppendStarts
<1>2. Whole(Append(Append(a, y), x))
  BY <1>1, AppendFollows, UptoEnd
<1>3. a \in Seq(Line) /\ <<y>> \in Seq(Line) /\ <<x>> \in Seq(Line) /\ Append(a, y) \in Seq(Line)
  BY AppendProperties DEF Whole, Woven
<1>4. Append(a, y) = a \o <<y>> /\ Append(Append(a, y), x) = Append(a, y) \o <<x>>
  BY <1>3, AppendIsConcat
<1>5. (a \o <<y>>) \o <<x>> = a \o (<<y>> \o <<x>>)
  BY <1>3, ConcatAssociative
<1> QED BY <1>2, <1>4, <1>5

\* What the dump looks like, line by line.
LEMMA LineShape ==
  ASSUME NEW x \in Line
  PROVE  /\ x.n = 1 => Class(x) = Kind(x.of)
         /\ x.n = 1 /\ Ends(x) => Class(x) # "alterTable"
         /\ x.n # 1 => Class(x) \notin {"label", "eventTrigger", "connect"}
         /\ x.n = 1 /\ ~Ends(x) =>
              Class(x) \in {"alterTable", "view", "eventTrigger"} \/ Class(x) \notin Sought
         /\ x.n = 1 /\ ~Ends(x) /\ Class(x) = "alterTable" =>
              \A y \in Line : y = NextLine(x) => Ends(y)
         /\ x.n # 1 => \/ Kind(x.of) = "alterTable" /\ Ends(x)
                       \/ Kind(x.of) \in {"view", "eventTrigger"}
                       \/ Kind(x.of) \notin Sought /\ Class(x) \notin Sought
<1> DEFINE lines == Text[x.of].lines
           N == Len(lines)
<1>1. /\ x.of \in DOMAIN Text /\ x.n \in Nat \ {0} /\ N \in Nat /\ x.n <= N
  BY LineFacts
<1>2. /\ N = 1 => lines[1] # "alterTable"
      /\ N > 1 => \/ lines[1] = "alterTable" /\ N = 2
                  \/ lines[1] \in {"view", "eventTrigger"}
                  \/ \A n \in 1..N : lines[n] \notin Sought
      /\ \A n \in 2..N : lines[n] \notin {"label", "eventTrigger", "connect"}
  BY <1>1, StatementsAssumption
<1>3. Class(x) = lines[x.n] /\ Kind(x.of) = lines[1] /\ (Ends(x) <=> x.n = N)
  BY DEF Class, Kind, Ends
<1> HIDE DEF lines, N
<1>4. x.n # 1 => x.n \in 2..N /\ N > 1 /\ x.n \in 1..N /\ 1 \in 1..N
  BY <1>1
<1>5. x.n = 1 /\ ~Ends(x) => N > 1 /\ 1 \in 1..N
  BY <1>1, <1>3
<1>6. ASSUME NEW y \in Line, y = NextLine(x), x.n = 1, N = 2 PROVE Ends(y)
  <2>1. y.of = x.of /\ y.n = 2
    BY <1>6 DEF NextLine
  <2> QED BY <1>6, <2>1 DEF Ends, lines, N
<1>7. x.n = 1 /\ ~Ends(x) /\ Class(x) = "alterTable" => N = 2
  BY <1>2, <1>3, <1>5 DEF Sought
<1>8. x.n # 1 => \/ Kind(x.of) = "alterTable" /\ Ends(x)
                 \/ Kind(x.of) \in {"view", "eventTrigger"}
                 \/ Kind(x.of) \notin Sought /\ Class(x) \notin Sought
  BY <1>1, <1>2, <1>3, <1>4
<1>9. x.n = 1 /\ ~Ends(x) =>
        Class(x) \in {"alterTable", "view", "eventTrigger"} \/ Class(x) \notin Sought
  BY <1>2, <1>3, <1>5
<1> QED BY <1>2, <1>3, <1>4, <1>6, <1>7, <1>8, <1>9

\* What connects to a database is a line of its own.
LEMMA ConnectLine ==
  ASSUME NEW x \in Line
  PROVE  Class(x) = "connect" <=> Kind(x.of) = "connect"
BY LineShape DEF Sought

\* What parseDump holds after a line of whole statements: between two statements
\* every section is of whole ones; within one, the section that it goes to ends
\* with the line, or the line is the first of an ALTER TABLE, which is held back.
TriggerLine(D) == {x \in Line : x.of \in D /\ Kind(x.of) = "eventTrigger"}

Parsed(D, p) ==
  /\ IsSections(p) /\ p.triggers \in Seq(TriggerLine(D)) /\ Whole(p.indices)

ParsedBetween(D, p) ==
  /\ Parsed(D, p) /\ Whole(p.filtered) /\ Whole(p.views)
  /\ p.alter = <<>> /\ ~p.inTrigger /\ ~p.inView

ParsedWithin(D, p, x) ==
  /\ Parsed(D, p)
  /\ p.alter = IF Kind(x.of) = "alterTable" THEN <<x>> ELSE <<>>
  /\ p.inTrigger <=> Kind(x.of) = "eventTrigger"
  /\ p.inView <=> Kind(x.of) = "view"
  /\ IF Kind(x.of) = "view" THEN Upto(p.views, x) ELSE Whole(p.views)
  /\ IF Kind(x.of) \in {"view", "eventTrigger", "alterTable"} THEN Whole(p.filtered)
     ELSE Upto(p.filtered, x)

ParsedAfter(D, p, x) == IF Ends(x) THEN ParsedBetween(D, p) ELSE ParsedWithin(D, p, x)

\* A line that begins a statement.
LEMMA ParsesFirst ==
  ASSUME NEW D, NEW p, ParsedBetween(D, p), NEW x \in Line, x.of \in D, x.n = 1,
         NEW q, q = ParseLine(p, x)
  PROVE  ParsedAfter(D, q, x)
<1> DEFINE c == Class(x)
<1>0. /\ c = Kind(x.of) /\ (Ends(x) => c # "alterTable")
      /\ ~Ends(x) => c \in {"alterTable", "view", "eventTrigger"} \/ c \notin Sought
  BY LineShape
<1>1. /\ IsSections(p) /\ p.triggers \in Seq(TriggerLine(D)) /\ Whole(p.indices)
      /\ Whole(p.filtered) /\ Whole(p.views) /\ p.alter = <<>> /\ ~p.inTrigger /\ ~p.inView
  BY DEF ParsedBetween, Parsed
<1>2. /\ Upto(Append(p.filtered, x), x) /\ Upto(Append(p.views, x), x)
      /\ Upto(Append(p.indices, x), x)
  BY <1>1, AppendStarts
<1>3. ASSUME Ends(x)
      PROVE  Whole(Append(p.filtered, x)) /\ Whole(Append(p.views, x)) /\ Whole(Append(p.indices, x))
  BY <1>2, <1>3, UptoEnd
<1> HIDE DEF c
<1>4. CASE c = "label" /\ Text[x.of].provider \in case.labels
  <2>1. q = p
    BY <1>4 DEF ParseLine, c
  <2>2. Ends(x)
    BY <1>0, <1>4 DEF Sought
  <2> QED BY <2>1, <2>2 DEF ParsedAfter
<1>5. CASE c = "eventTrigger"
  <2>1. q = [p EXCEPT !.triggers = Append(p.triggers, x), !.inTrigger = ~Ends(x)]
    BY <1>1, <1>5 DEF ParseLine, c
  <2>2. /\ IsSections(q) /\ q.triggers = Append(p.triggers, x) /\ q.filtered = p.filtered
        /\ q.indices = p.indices /\ q.views = p.views /\ q.alter = p.alter
        /\ q.inView = p.inView /\ q.inTrigger = ~Ends(x)
    BY <1>1, <2>1 DEF IsSections
  <2>3. x \in TriggerLine(D)
    BY <1>0, <1>5 DEF TriggerLine
  <2>4. Parsed(D, q)
    BY <1>1, <2>2, <2>3, AppendProperties DEF Parsed
  <2> QED BY <1>0, <1>1, <1>5, <2>2, <2>4 DEF ParsedAfter, ParsedBetween, ParsedWithin
<1>6. CASE c = "view"
  <2>1. q = [p EXCEPT !.views = Append(p.views, x), !.inView = ~Ends(x)]
    BY <1>1, <1>6 DEF ParseLine, c
  <2>2. /\ IsSections(q) /\ q.views = Append(p.views, x) /\ q.filtered = p.filtered
        /\ q.indices = p.indices /\ q.triggers = p.triggers /\ q.alter = p.alter
        /\ q.inTrigger = p.inTrigger /\ q.inView = ~Ends(x)
    BY <1>1, <2>1 DEF IsSections
  <2>4. Parsed(D, q)
    BY <1>1, <2>2 DEF Parsed
  <2> QED BY <1>0, <1>1, <1>2, <1>3, <1>6, <2>2, <2>4 DEF ParsedAfter, ParsedBetween, ParsedWithin
<1>7. CASE c = "connect"
  <2>1. q = [p EXCEPT !.filtered = Append(p.filtered, x), !.indices = Append(p.indices, x),
                      !.views = Append(p.views, x)]
    BY <1>1, <1>7 DEF ParseLine, IndexClasses, c
  <2>2. /\ IsSections(q) /\ q.filtered = Append(p.filtered, x)
        /\ q.indices = Append(p.indices, x) /\ q.views = Append(p.views, x)
        /\ q.triggers = p.triggers /\ q.alter = p.alter /\ q.inTrigger = p.inTrigger
        /\ q.inView = p.inView
    BY <1>1, <2>1 DEF IsSections
  <2>3. Ends(x)
    BY <1>0, <1>7 DEF Sought
  <2> QED BY <1>1, <1>3, <2>2, <2>3 DEF ParsedAfter, ParsedBetween, Parsed
<1>8. CASE c \in IndexClasses
  <2>1. q = [p EXCEPT !.indices = Append(p.indices, x)]
    BY <1>1, <1>8 DEF ParseLine, IndexClasses, c
  <2>2. /\ IsSections(q) /\ q.indices = Append(p.indices, x) /\ q.filtered = p.filtered
        /\ q.views = p.views /\ q.triggers = p.triggers /\ q.alter = p.alter
        /\ q.inTrigger = p.inTrigger /\ q.inView = p.inView
    BY <1>1, <2>1 DEF IsSections
  <2>3. Ends(x)
    BY <1>0, <1>8 DEF Sought, IndexClasses
  <2> QED BY <1>1, <1>3, <2>2, <2>3 DEF ParsedAfter, ParsedBetween, Parsed
<1>9. CASE c = "alterTable"
  <2>1. q = [p EXCEPT !.alter = <<x>>]
    BY <1>1, <1>9 DEF ParseLine, IndexClasses, c
  <2>2. /\ IsSections(q) /\ q.alter = <<x>> /\ q.filtered = p.filtered
        /\ q.indices = p.indices /\ q.views = p.views /\ q.triggers = p.triggers
        /\ q.inTrigger = p.inTrigger /\ q.inView = p.inView
    BY <1>1, <2>1 DEF IsSections
  <2> QED BY <1>0, <1>1, <1>9, <2>2 DEF ParsedAfter, ParsedWithin, Parsed
<1>10. CASE /\ c \notin IndexClasses \cup {"eventTrigger", "view", "connect", "alterTable"}
            /\ ~(c = "label" /\ Text[x.of].provider \in case.labels)
  <2>1. \/ q = p /\ c = "role"
        \/ q = [p EXCEPT !.filtered = Append(p.filtered, x)]
        \/ \E w : q = [p EXCEPT !.filtered = Append(p.filtered, x), !.sequences = w]
        \/ \E w : q = [p EXCEPT !.filtered = Append(p.filtered, x), !.roles = w]
    <3>1. CASE c = "role"
      <4>1. q = RoleLine(p, x)
        BY <1>1, <1>10, <3>1 DEF ParseLine, IndexClasses, c
      <4>2. \/ RoleLine(p, x) = p
            \/ \E w : RoleLine(p, x) = [p EXCEPT !.filtered = Append(p.filtered, x), !.roles = w]
        BY RoleLineKeeps, Zenon
      <4> QED BY <3>1, <4>1, <4>2, Zenon
    <3>2. CASE c = "sequence"
      <4> DEFINE w == p.sequences \cup {x.of}
      <4>1. q = [p EXCEPT !.filtered = Append(p.filtered, x), !.sequences = w]
        BY <1>1, <1>10, <3>2 DEF ParseLine, IndexClasses, c
      <4> HIDE DEF w
      <4> QED BY <4>1
    <3>3. CASE c \notin {"role", "sequence"}
      BY <1>1, <1>10, <3>3 DEF ParseLine, IndexClasses, c
    <3> QED BY <3>1, <3>2, <3>3
  <2>2. CASE q = p /\ c = "role"
    <3>1. Ends(x)
      BY <1>0, <2>2 DEF Sought
    <3> QED BY <2>2, <3>1 DEF ParsedAfter
  <2>3. CASE ~(q = p /\ c = "role")
    <3>1. /\ IsSections(q) /\ q.filtered = Append(p.filtered, x) /\ q.indices = p.indices
          /\ q.views = p.views /\ q.triggers = p.triggers /\ q.alter = p.alter
          /\ q.inTrigger = p.inTrigger /\ q.inView = p.inView
      <4> DEFINE v == Append(p.filtered, x)
      <4> HIDE DEF v
      <4>1. \E w : \/ q = [p EXCEPT !.filtered = v]
                   \/ q = [p EXCEPT !.filtered = v, !.sequences = w]
                   \/ q = [p EXCEPT !.filtered = v, !.roles = w]
        BY <2>1, <2>3, Zenon DEF v
      <4>2. PICK w : \/ q = [p EXCEPT !.filtered = v]
                     \/ q = [p EXCEPT !.filtered = v, !.sequences = w]
                     \/ q = [p EXCEPT !.filtered = v, !.roles = w]
        BY <4>1
      <4> QED BY <1>1, <4>2 DEF IsSections, v
    <3>2. Kind(x.of) \notin {"view", "eventTrigger", "alterTable"}
      BY <1>0, <1>10
    <3>3. Parsed(D, q)
      BY <1>1, <3>1 DEF Parsed
    <3> QED BY <1>1, <1>2, <1>3, <3>1, <3>2, <3>3 DEF ParsedAfter, ParsedBetween, ParsedWithin
  <2> QED BY <2>2, <2>3
<1> QED BY <1>4, <1>5, <1>6, <1>7, <1>8, <1>9, <1>10

\* A line that goes on with one.
LEMMA ParsesNext ==
  ASSUME NEW D, NEW p, NEW y \in Line, ~Ends(y), ParsedWithin(D, p, y), NEW x \in Line,
         x.of \in D, x = NextLine(y), NEW q, q = ParseLine(p, x)
  PROVE  ParsedAfter(D, q, x)
<1> DEFINE k == Kind(x.of)
<1>0. y.n \in Nat \ {0} /\ x.n = y.n + 1 /\ x.of = y.of /\ x.n # 1
  BY LineFacts DEF NextLine
<1>1. /\ IsSections(p) /\ p.triggers \in Seq(TriggerLine(D)) /\ Whole(p.indices)
      /\ p.alter = IF k = "alterTable" THEN <<y>> ELSE <<>>
      /\ p.inTrigger <=> k = "eventTrigger"
      /\ p.inView <=> k = "view"
      /\ IF k = "view" THEN Upto(p.views, y) ELSE Whole(p.views)
      /\ IF k \in {"view", "eventTrigger", "alterTable"} THEN Whole(p.filtered)
         ELSE Upto(p.filtered, y)
  BY <1>0 DEF ParsedWithin, Parsed
<1>2. /\ Class(x) \notin {"label", "eventTrigger"}
      /\ \/ k = "alterTable" /\ Ends(x)
         \/ k \in {"view", "eventTrigger"}
         \/ k \notin Sought /\ Class(x) \notin Sought
  BY <1>0, LineShape
<1> HIDE DEF k
<1>3. CASE k = "alterTable"
  <2>1. y.n = 1
    <3>1. y.n # 1 => Ends(y) \/ k \in {"view", "eventTrigger"} \/ k \notin Sought
      BY <1>0, LineShape DEF k
    <3> QED BY <1>3, <3>1 DEF Sought
  <2>2. Ends(x) /\ p.alter = <<y>> /\ p.alter # <<>>
    BY <1>1, <1>2, <1>3 DEF Sought
  <2> DEFINE both == <<y>> \o <<x>>
  <2>3. Whole(p.filtered \o both) /\ Whole(p.indices \o both)
    BY <1>1, <1>3, <2>1, <2>2, AppendBoth
  <2>4. \/ q = [p EXCEPT !.filtered = p.filtered \o both, !.alter = <<>>]
        \/ q = [p EXCEPT !.indices = p.indices \o both, !.alter = <<>>]
    BY <1>2, <2>2 DEF ParseLine
  <2> HIDE DEF both
  <2>5. /\ IsSections(q) /\ q.alter = <<>> /\ q.views = p.views /\ q.triggers = p.triggers
        /\ q.inTrigger = p.inTrigger /\ q.inView = p.inView
        /\ Whole(q.filtered) /\ Whole(q.indices)
    <3>1. CASE q = [p EXCEPT !.filtered = p.filtered \o both, !.alter = <<>>]
      BY <1>1, <1>3, <2>3, <3>1 DEF IsSections
    <3>2. CASE q = [p EXCEPT !.indices = p.indices \o both, !.alter = <<>>]
      BY <1>1, <1>3, <2>3, <3>2 DEF IsSections
    <3> QED BY <2>4, <3>1, <3>2
  <2> QED BY <1>1, <1>3, <2>2, <2>5 DEF ParsedAfter, ParsedBetween, Parsed
<1>4. CASE k = "eventTrigger"
  <2>1. q = [p EXCEPT !.triggers = Append(p.triggers, x), !.inTrigger = ~Ends(x)]
    BY <1>1, <1>2, <1>4 DEF ParseLine
  <2>2. /\ IsSections(q) /\ q.triggers = Append(p.triggers, x) /\ q.filtered = p.filtered
        /\ q.indices = p.indices /\ q.views = p.views /\ q.alter = p.alter
        /\ q.inView = p.inView /\ q.inTrigger = ~Ends(x)
    BY <1>1, <2>1 DEF IsSections
  <2>3. x \in TriggerLine(D)
    BY <1>4 DEF TriggerLine, k
  <2>4. Parsed(D, q)
    BY <1>1, <2>2, <2>3, AppendProperties DEF Parsed
  <2> QED BY <1>1, <1>4, <2>2, <2>4 DEF ParsedAfter, ParsedBetween, ParsedWithin, k
<1>5. CASE k = "view"
  <2>1. q = [p EXCEPT !.views = Append(p.views, x), !.inView = ~Ends(x)]
    BY <1>1, <1>2, <1>5 DEF ParseLine
  <2>2. /\ IsSections(q) /\ q.views = Append(p.views, x) /\ q.filtered = p.filtered
        /\ q.indices = p.indices /\ q.triggers = p.triggers /\ q.alter = p.alter
        /\ q.inTrigger = p.inTrigger /\ q.inView = ~Ends(x)
    BY <1>1, <2>1 DEF IsSections
  <2>3. Upto(q.views, x) /\ (Ends(x) => Whole(q.views))
    <3>1. Upto(Append(p.views, x), x)
      BY <1>1, <1>5, AppendFollows
    <3> QED BY <2>2, <3>1, UptoEnd
  <2>4. Parsed(D, q)
    BY <1>1, <2>2 DEF Parsed
  <2> QED BY <1>1, <1>5, <2>2, <2>3, <2>4 DEF ParsedAfter, ParsedBetween, ParsedWithin, k
<1>6. CASE k \notin {"alterTable", "eventTrigger", "view"}
  <2>1. Class(x) \notin Sought /\ p.alter = <<>> /\ ~p.inTrigger /\ ~p.inView
    BY <1>1, <1>2, <1>6
  <2>2. q = [p EXCEPT !.filtered = Append(p.filtered, x)]
    BY <2>1 DEF ParseLine, Sought
  <2>3. /\ IsSections(q) /\ q.filtered = Append(p.filtered, x) /\ q.indices = p.indices
        /\ q.views = p.views /\ q.triggers = p.triggers /\ q.alter = p.alter
        /\ q.inTrigger = p.inTrigger /\ q.inView = p.inView
    BY <1>1, <2>2 DEF IsSections
  <2>4. Upto(q.filtered, x) /\ (Ends(x) => Whole(q.filtered))
    <3>1. Upto(Append(p.filtered, x), x)
      BY <1>1, <1>6, AppendFollows
    <3> QED BY <2>3, <3>1, UptoEnd
  <2>5. Parsed(D, q)
    BY <1>1, <2>3 DEF Parsed
  <2> QED BY <1>1, <1>6, <2>3, <2>4, <2>5 DEF ParsedAfter, ParsedBetween, ParsedWithin, k
<1> QED BY <1>3, <1>4, <1>5, <1>6

\* The loop of parseDump over whole statements, and what it holds after each line.
ParsesTo(D, lines, t) ==
  /\ t[0] = NoSections /\ ParsedBetween(D, t[0])
  /\ t[Len(lines)] = FoldLeft(ParseLine, NoSections, lines)
  /\ \A n \in 1..Len(lines) :
       t[n] = ParseLine(t[n - 1], lines[n]) /\ ParsedAfter(D, t[n], lines[n])

LEMMA ParsesEach ==
  ASSUME NEW D, NEW lines, Whole(lines), \A i \in 1..Len(lines) : lines[i].of \in D
  PROVE  \E t : ParsesTo(D, lines, t)
<1> DEFINE N == Len(lines)
<1>1. /\ lines \in Seq(Line) /\ N \in Nat
      /\ \A n \in 1..N : lines[n] \in Line /\ Continues(lines, n) /\ lines[n].of \in D
      /\ N > 0 => Ends(lines[N])
  BY LenProperties DEF Whole, Woven
<1>2. PICK t : /\ Looped("parse", NoSections, lines, t)
               /\ t[N] = FoldLeft(ParseLine, NoSections, lines)
  BY <1>1, ParseLoops
<1>3. t[0] = NoSections /\ \A n \in 1..N : t[n] = ParseLine(t[n - 1], lines[n])
  BY <1>2 DEF Looped, Step
<1> DEFINE Good == {n \in 0..N : IF n = 0 THEN ParsedBetween(D, t[n])
                                 ELSE ParsedAfter(D, t[n], lines[n])}
<1> HIDE DEF N
<1>4. 0 \in Good
  <2>1. /\ NoSections.filtered = <<>> /\ NoSections.indices = <<>> /\ NoSections.views = <<>>
        /\ NoSections.alter = <<>> /\ NoSections.triggers = <<>>
        /\ ~NoSections.inTrigger /\ ~NoSections.inView
    BY DEF NoSections
  <2>2. IsSections(NoSections)
    BY DEF NoSections, IsSections
  <2>3. <<>> \in Seq(TriggerLine(D))
    BY EmptySeq
  <2>4. ParsedBetween(D, NoSections)
    BY <2>1, <2>2, <2>3, EmptyWhole DEF ParsedBetween, Parsed
  <2> QED BY <1>1, <1>3, <2>4
<1>5. ASSUME NEW n \in 0..N, n \in Good, n < N PROVE n + 1 \in Good
  <2> DEFINE x == lines[n + 1]
             p == t[n]
             q == t[n + 1]
  <2>1. n + 1 \in 1..N /\ (n + 1) - 1 = n /\ n + 1 \in 0..N /\ n + 1 # 0 /\ n \in Nat
    BY <1>1, <1>5
  <2>2. q = ParseLine(p, x) /\ x \in Line /\ x.of \in D
    BY <1>1, <1>3, <2>1
  <2>3. IF n = 0 \/ Ends(lines[n]) THEN x.n = 1 ELSE x = NextLine(lines[n])
    <3>1. Continues(lines, n + 1)
      BY <1>1, <2>1
    <3>2. n + 1 = 1 <=> n = 0
      BY <2>1
    <3> QED BY <2>1, <3>1, <3>2 DEF Continues
  <2>4. IF n = 0 THEN ParsedBetween(D, p) ELSE ParsedAfter(D, p, lines[n])
    BY <1>5
  <2>5. n # 0 => lines[n] \in Line
    BY <1>1, <2>1
  <2> HIDE DEF x, p, q
  <2>6. ParsedAfter(D, q, x)
    <3>1. CASE n = 0 \/ Ends(lines[n])
      <4>1. ParsedBetween(D, p) /\ x.n = 1
        BY <2>3, <2>4, <3>1 DEF ParsedAfter
      <4> QED BY <2>2, <4>1, ParsesFirst
    <3>2. CASE ~(n = 0 \/ Ends(lines[n]))
      <4> DEFINE y == lines[n]
      <4>1. y \in Line /\ ~Ends(y) /\ ParsedWithin(D, p, y) /\ x = NextLine(y)
        BY <2>3, <2>4, <2>5, <3>2 DEF ParsedAfter
      <4> HIDE DEF y
      <4> QED BY <2>2, <4>1, ParsesNext
    <3> QED BY <3>1, <3>2
  <2> QED BY <2>1, <2>6 DEF q, x
<1>6. \A n \in 0..N : n \in Good
  <2> HIDE DEF Good
  <2>1. \A n \in 0..N : n \in Good /\ n < N => n + 1 \in Good
    BY <1>5
  <2> QED BY <1>1, <1>4, <2>1, UpTo
<1>7. ParsedBetween(D, t[0]) /\ \A n \in 1..N : ParsedAfter(D, t[n], lines[n])
  BY <1>1, <1>6
<1> QED BY <1>2, <1>3, <1>7 DEF ParsesTo, N

\* parseDump's sections of a dump of whole statements are of whole statements.
LEMMA ParsesWhole ==
  ASSUME NEW D, NEW lines, Whole(lines), \A i \in 1..Len(lines) : lines[i].of \in D
  PROVE  ParsedBetween(D, FoldLeft(ParseLine, NoSections, lines))
<1>1. Len(lines) \in Nat /\ (Len(lines) > 0 => Ends(lines[Len(lines)]))
  BY LenProperties DEF Whole, Woven
<1>2. PICK t : ParsesTo(D, lines, t)
  BY ParsesEach
<1>3. ParsedBetween(D, t[Len(lines)])
  <2>1. CASE Len(lines) = 0
    BY <1>2, <2>1 DEF ParsesTo
  <2>2. CASE Len(lines) # 0
    <3>1. Len(lines) \in 1..Len(lines) /\ Len(lines) > 0
      BY <1>1, <2>2
    <3>2. ParsedAfter(D, t[Len(lines)], lines[Len(lines)])
      BY <1>2, <3>1 DEF ParsesTo
    <3> QED BY <1>1, <3>1, <3>2 DEF ParsedAfter
  <2> QED BY <2>1, <2>2
<1> QED BY <1>2, <1>3 DEF ParsesTo

\* Without one, no event trigger is restored: filterTriggers keeps none.
AsksForTriggers == \E s \in Statements : Kind(s) = "eventTrigger" /\ Asked(s)

LEMMA DumpIsWhole ==
  ASSUME case \in Cases, NEW tables, ~AsksForTriggers
  PROVE  LET d == ParseDump(PgDump(tables))
         IN  Woven(d.filtered) /\ Whole(d.indices) /\ Woven(d.views)
<1> DEFINE S == {s \in Statements : IF Kind(s) = "eventTrigger" THEN case.global
                                    ELSE Text[s].schema \in AskedSchemas /\ Text[s].table \notin tables}
           D == DOMAIN Text \cap S
           lines == Lines(PgDump(tables))
           p == FoldLeft(ParseLine, NoSections, lines)
<1>1. PgDump(tables) = Selected(case.dump, S)
  BY DEF PgDump
<1>2. case.dump \in Seq(DOMAIN Text)
  BY StatementsAssumption
<1>3. PgDump(tables) \in Seq(D)
  BY <1>1, <1>2, SelectedIn
<1> HIDE DEF S
<1>4. Whole(lines) /\ \A i \in 1..Len(lines) : lines[i].of \in D
  <2>1. D \in SUBSET DOMAIN Text
    OBVIOUS
  <2> HIDE DEF D
  <2> QED BY <1>3, <2>1, LinesWhole
<1>5. ParseDump(PgDump(tables)) = [p EXCEPT !.filtered = p.filtered \o FilterTriggers(p.triggers)]
  BY DEF ParseDump
<1> HIDE DEF D, lines
<1>6. ParsedBetween(D, p)
  BY <1>4, ParsesWhole
<1> HIDE DEF p
<1>7. /\ IsSections(p) /\ p.triggers \in Seq(TriggerLine(D)) /\ Whole(p.indices)
      /\ Whole(p.filtered) /\ Whole(p.views)
  BY <1>6 DEF ParsedBetween, Parsed
<1>8. FilterTriggers(p.triggers) = <<>>
  <2> DEFINE K == {line \in Range(p.triggers) :
                     Ends(line) /\ Text[line.of].schema \in AskedSchemas}
  <2>1. FilterTriggers(p.triggers) = Selected(p.triggers, K)
    BY DEF FilterTriggers
  <2>2. ASSUME NEW x \in TriggerLine(D) PROVE x \notin K
    <3> DEFINE s == x.of
    <3>1. /\ s \in DOMAIN Text /\ s \in Statements /\ Kind(s) = "eventTrigger"
          /\ case.global
      BY DEF TriggerLine, D, S
    <3>2. Text[s].table = NoTable /\ Text[s].provider \notin case.labels
      BY <3>1, StatementsAssumption DEF Kind
    <3>3. Text[s].schema \in AskedSchemas => Asked(s)
      BY <3>1, <3>2 DEF Asked
    <3> QED BY <3>1, <3>3 DEF AsksForTriggers
  <2>3. Selected(p.triggers, K) \in Seq(TriggerLine(D) \cap K)
    BY <1>7, SelectedIn
  <2>4. TriggerLine(D) \cap K = {}
    BY <2>2
  <2> HIDE DEF K
  <2>5. Selected(p.triggers, K) \in Seq({})
    BY <2>3, <2>4
  <2>6. \A e \in Seq({}) : e = <<>>
    <3> SUFFICES ASSUME NEW e \in Seq({}), e # <<>> PROVE FALSE
      OBVIOUS
    <3>1. Len(e) \in Nat \ {0}
      BY EmptySeq
    <3>2. 1 \in 1..Len(e)
      BY <3>1
    <3>3. e[1] \in {}
      BY <3>2, ElementOfSeq
    <3> QED BY <3>3
  <2> QED BY <2>1, <2>5, <2>6
<1>9. p.filtered \o FilterTriggers(p.triggers) = p.filtered
  <2>1. p.filtered \in Seq(Line)
    BY <1>7 DEF Whole, Woven
  <2> QED BY <1>8, <2>1, ConcatEmptySeq
<1> DEFINE d == [p EXCEPT !.filtered = p.filtered \o FilterTriggers(p.triggers)]
<1>10. d.filtered = p.filtered /\ d.indices = p.indices /\ d.views = p.views
  BY <1>7, <1>9 DEF IsSections
<1> HIDE DEF d
<1>11. Woven(d.filtered) /\ Whole(d.indices) /\ Woven(d.views)
  BY <1>7, <1>10 DEF Whole
<1> QED BY <1>5, <1>11 DEF d

\* The constraints restored before the rows, and the indices after them.
LEMMA PartsAreWhole ==
  ASSUME Whole(dump.indices)
  PROVE  Woven(Targets) /\ Woven(Remaining)
<1> DEFINE lines == dump.indices
           N == Len(lines)
           S == {line \in Range(lines) : IsTarget(line)}
           R == {line \in Range(lines) : Class(line) = "connect" \/ ~Text[line.of].unique}
<1>1. DOMAIN lines = 1..N /\ \A i \in 1..N : lines[i] \in Line /\ lines[i] \in Range(lines)
  <2>1. DOMAIN lines = 1..N /\ \A i \in 1..N : lines[i] \in Line
    BY LenProperties DEF Whole, Woven
  <2> QED BY <2>1 DEF Range
<1>2. \A i, j \in 1..N : lines[i].of = lines[j].of => (lines[i] \in S <=> lines[j] \in S)
  BY <1>1 DEF IsTarget
<1>3. \A i, j \in 1..N : lines[i].of = lines[j].of => (lines[i] \in R <=> lines[j] \in R)
  BY <1>1, ConnectLine
<1>4. Targets = Selected(lines, S) /\ Remaining = Selected(lines, R)
  BY DEF Targets, Remaining
<1> HIDE DEF S, R
<1>5. Whole(Selected(lines, S)) /\ Whole(Selected(lines, R))
  BY <1>2, <1>3, SelectedWhole
<1> QED BY <1>4, <1>5 DEF Whole

-----------------------------------------------------------------------------
(* A clean restore by a superuser, with no command that fails.             *)

\* What CleanRestoreSucceeds asks for.
Undisturbed == failures = 0 /\ case.clean /\ case.superuser /\ ~AsksForTriggers

\* The sections are of whole statements, what is dropped first is gone before
\* the roles are made, and an error is one of the copy of the rows.
CleanInv ==
  /\ case \in Cases /\ failures \in Nat
  /\ Undisturbed =>
       /\ Woven(dump.filtered) /\ Whole(dump.indices) /\ Woven(dump.views)
       /\ stage = "restoreRoles" => objects \cap Statements = {}
       /\ stage = "error" => data = "error"

LEMMA FailsDisturbs == CleanInv /\ Fails => failures' \in Nat /\ ~Undisturbed'
BY DEF CleanInv, Fails, Undisturbed

LEMMA SameCase == UNCHANGED case => Statements' = Statements /\ (AsksForTriggers' <=> AsksForTriggers)
BY DEF Statements, AsksForTriggers, Asked, AskedSchemas, AskedTables, TablesIn, Kind, Statements

\* A restore of a section of statements ends with the next call, unless it fails.
LEMMA RestoreDumpClean ==
  ASSUME CleanInv, NEW lines, NEW next, Undisturbed => Woven(lines), RestoreDump(lines, next),
         next \notin {"error", "restoreRoles"}
  PROVE  CleanInv'
<1>1. UNCHANGED <<case, dump, keep, granted, data, attempt>>
  BY DEF RestoreDump
<1>2. CASE UNCHANGED failures /\ stage' = IF Restored(lines).critical THEN "error" ELSE next
  <2>1. Undisturbed' <=> Undisturbed
    BY <1>1, <1>2, SameCase DEF Undisturbed
  <2>2. ASSUME Undisturbed PROVE stage' = next
    <3>1. Woven(lines) /\ case.superuser
      BY <2>2 DEF Undisturbed
    <3>2. ~Restored(lines).critical
      BY <3>1, RestoredSafely
    <3> QED BY <1>2, <3>2
  <2> QED BY <1>1, <1>2, <2>1, <2>2 DEF CleanInv
<1>3. CASE Fails
  BY <1>1, <1>3, FailsDisturbs DEF CleanInv
<1> QED BY <1>2, <1>3 DEF RestoreDump

\* The copy of the rows that has returned an error does nothing more.
LEMMA CopyErrorStays == Copied!Safe /\ data = "error" /\ Copy!Next => data' = "error"
<1> SUFFICES ASSUME Copied!Safe, data = "error", Copied!Next PROVE data' = "error"
  BY SameNext
<1>1. \A s \in Schema : schema[s] \notin {"failing", "storing"}
  BY DEF Copied!Safe, Copied!Stages
<1>2. ~Copied!CloseProcessor /\ ~Copied!Finish
  BY DEF Copied!CloseProcessor, Copied!Finish
<1>3. ASSUME NEW s \in Schema, Copied!TakeSchema(s) \/ Copied!EndSchema(s) \/ Copied!StoreError(s)
      PROVE  data' = "error"
  BY <1>1, <1>3 DEF Copied!TakeSchema, Copied!EndSchema, Copied!StoreError
<1>4. ASSUME NEW t \in Table, Copied!TakeTable(t) \/ Copied!PushRange(t) \/ Copied!EndTable(t)
      PROVE  data' = "error"
  BY <1>4 DEF Copied!TakeTable, Copied!PushRange, Copied!EndTable, Copied!schemaVars
<1>5. ASSUME NEW t \in Table, NEW w \in TableWorker,
             \/ Copied!TakeRange(t, w) \/ Copied!RangeFails(t, w) \/ Copied!RangeEnds(t, w)
             \/ Copied!HandRow(t, w) \/ Copied!BuildSender(t, w)
             \/ Copied!Drain(t, w) \/ Copied!Write(t, w) \/ Copied!NoticeFailure(t, w)
      PROVE  data' = "error"
  BY <1>5
  DEF Copied!TakeRange, Copied!RangeFails, Copied!RangeEnds, Copied!HandRow,
      Copied!BuildSender, Copied!Drain, Copied!Write, Copied!NoticeFailure,
      Copied!SenderStep, Copied!Send, Copied!schemaVars
<1> QED BY <1>2, <1>3, <1>4, <1>5 DEF Copied!Next, Copied!Work

LEMMA CleanInit == Init => CleanInv
<1> SUFFICES ASSUME Init PROVE CleanInv
  OBVIOUS
<1>1. /\ case \in Cases /\ stage = "dump" /\ dump = NoSections /\ failures = 0
  BY DEF Init, SchemaInit
<1>2. NoSections.filtered = <<>> /\ NoSections.indices = <<>> /\ NoSections.views = <<>>
  BY DEF NoSections
<1> QED BY <1>1, <1>2, EmptyWhole DEF CleanInv, Whole

LEMMA CleanSchemaSteps == CleanInv /\ SchemaSteps => CleanInv'
<1> SUFFICES ASSUME CleanInv, SchemaSteps PROVE CleanInv'
  OBVIOUS
<1>0. /\ case \in Cases /\ failures \in Nat
      /\ Undisturbed => /\ Woven(dump.filtered) /\ Whole(dump.indices) /\ Woven(dump.views)
                        /\ stage = "restoreRoles" => objects \cap Statements = {}
                        /\ stage = "error" => data = "error"
  BY DEF CleanInv
<1>1. UNCHANGED <<case, failures>> => (Undisturbed' <=> Undisturbed)
  BY SameCase DEF Undisturbed
<1>2. UNCHANGED case /\ Fails => CleanInv'
  BY FailsDisturbs DEF CleanInv
<1>3. CASE DumpSchema
  <2>1. UNCHANGED <<case, data, objects>>
    BY <1>3 DEF DumpSchema, restoreVars
  <2>2. CASE stage' = "ok" /\ UNCHANGED <<dump, failures>>
    BY <1>0, <1>1, <2>1, <2>2 DEF CleanInv
  <2>3. CASE /\ \E tables \in ExcludeTables : dump' = ParseDump(PgDump(tables))
             /\ stage' = "roles" /\ UNCHANGED failures
    <3>1. PICK tables \in ExcludeTables : dump' = ParseDump(PgDump(tables))
      BY <2>3
    <3>2. ~AsksForTriggers => Woven(dump'.filtered) /\ Whole(dump'.indices) /\ Woven(dump'.views)
      BY <1>0, <3>1, DumpIsWhole
    <3>3. Undisturbed => ~AsksForTriggers
      BY DEF Undisturbed
    <3> QED BY <1>0, <1>1, <2>1, <2>3, <3>2, <3>3 DEF CleanInv
  <2> QED BY <1>2, <1>3, <2>1, <2>2, <2>3 DEF DumpSchema
<1>4. CASE DumpRoles
  <2>1. UNCHANGED <<case, dump, data, objects>>
    BY <1>4 DEF DumpRoles, restoreVars
  <2>2. CASE stage' = "cleanup" /\ UNCHANGED failures
    BY <1>0, <1>1, <2>1, <2>2 DEF CleanInv
  <2> QED BY <1>2, <1>4, <2>1, <2>2 DEF DumpRoles
<1>5. CASE RestoreCleanup
  <2>1. UNCHANGED <<case, dump, data>>
    BY <1>5 DEF RestoreCleanup
  <2>2. CASE /\ objects' = IF case.clean THEN objects \ Statements ELSE objects
             /\ stage' = "restoreRoles" /\ UNCHANGED failures
    <3>1. Undisturbed => objects' \cap Statements' = {}
      BY <2>1, <2>2, SameCase DEF Undisturbed
    <3> QED BY <1>0, <1>1, <2>1, <2>2, <3>1 DEF CleanInv
  <2> QED BY <1>2, <1>5, <2>1, <2>2 DEF RestoreCleanup
<1>6. CASE RestoreRoles
  <2>1. UNCHANGED <<case, dump, data>> /\ stage = "restoreRoles"
    BY <1>6 DEF RestoreRoles
  <2>2. CASE /\ stage' = IF case.clean /\ \E r \in CreatedRoles : OwnsObjects(r)
                         THEN "error" ELSE "schema"
             /\ UNCHANGED failures
    <3>1. Undisturbed => \A r : ~OwnsObjects(r)
      BY <1>0, <2>1 DEF OwnsObjects
    <3>2. Undisturbed => stage' = "schema"
      BY <2>2, <3>1
    <3> QED BY <1>0, <1>1, <2>1, <2>2, <3>2 DEF CleanInv
  <2> QED BY <1>2, <1>6, <2>1, <2>2 DEF RestoreRoles
<1>7. CASE RestoreSchema
  <2> DEFINE next == IF SplitsTargets THEN "targets" ELSE "data"
  <2>1. RestoreDump(dump.filtered, next) /\ next \notin {"error", "restoreRoles"}
    BY <1>7 DEF RestoreSchema
  <2> HIDE DEF next
  <2> QED BY <1>0, <2>1, RestoreDumpClean
<1>8. CASE DataReturns
  <2>1. UNCHANGED <<case, dump, data, objects>>
    BY <1>8 DEF DataReturns, restoreVars
  <2>2. CASE /\ stage' = IF data = "error" THEN "error" ELSE "indices"
             /\ UNCHANGED failures
    BY <1>0, <1>1, <2>1, <2>2 DEF CleanInv
  <2> QED BY <1>2, <1>8, <2>1, <2>2 DEF DataReturns
<1>9. CASE RestoreIndices
  <2>1. Undisturbed => Woven(dump.indices) /\ Woven(Targets) /\ Woven(Remaining)
    BY <1>0, PartsAreWhole DEF Whole
  <2>2. CASE RestoreDump(Targets, "data")
    BY <2>1, <2>2, RestoreDumpClean
  <2>3. CASE RestoreDump(IF SplitsTargets THEN Remaining ELSE dump.indices, "views")
    <3> DEFINE lines == IF SplitsTargets THEN Remaining ELSE dump.indices
    <3>1. RestoreDump(lines, "views") /\ (Undisturbed => Woven(lines))
      BY <2>1, <2>3
    <3> HIDE DEF lines
    <3> QED BY <3>1, RestoreDumpClean
  <2> QED BY <1>9, <2>2, <2>3 DEF RestoreIndices
<1>10. CASE RestoreViews
  <2>1. RestoreDump(dump.views, "ok")
    BY <1>10 DEF RestoreViews
  <2> QED BY <1>0, <2>1, RestoreDumpClean
<1>11. CASE Again
  <2>1. UNCHANGED <<case, failures>> /\ stage = "error" /\ data = "idle"
    BY <1>11 DEF Again
  <2>2. ~Undisturbed
    BY <1>0, <2>1
  <2> QED BY <1>0, <1>1, <2>1, <2>2 DEF CleanInv
<1> QED
  BY <1>3, <1>4, <1>5, <1>6, <1>7, <1>8, <1>9, <1>10, <1>11 DEF SchemaSteps

LEMMA CleanStep == CleanInv /\ Copied!Safe /\ [Next]_vars => CleanInv'
<1> SUFFICES ASSUME CleanInv, Copied!Safe, [Next]_vars PROVE CleanInv'
  OBVIOUS
<1>1. UNCHANGED <<case, stage, dump, objects, failures>> /\ (data = "error" => data' = "error")
        => CleanInv'
  <2>1. UNCHANGED <<case, failures>> => (Undisturbed' <=> Undisturbed)
    BY SameCase DEF Undisturbed
  <2> QED BY <2>1, SameCase DEF CleanInv
<1>2. CASE FindTables
  <2>1. UNCHANGED <<case, stage, dump, objects>> /\ data = "idle" /\ stage = "data"
    BY <1>2 DEF FindTables
  <2>2. CASE UNCHANGED failures
    BY <1>1, <2>1, <2>2
  <2>3. CASE Fails
    BY <2>1, <2>3, FailsDisturbs DEF CleanInv
  <2> QED BY <1>2, <2>2, <2>3 DEF FindTables
<1>3. CASE CopySteps
  <2>1. UNCHANGED <<case, stage, dump, objects, failures>> /\ Copy!Next
    BY <1>3 DEF CopySteps
  <2> QED BY <1>1, <2>1, CopyErrorStays
<1>4. CASE SchemaSteps
  BY <1>4, CleanSchemaSteps
<1>5. CASE TrackerTicks
  BY <1>1, <1>5 DEF TrackerTicks
<1>6. CASE UNCHANGED vars
  BY <1>1, <1>6 DEF vars, schemaVars
<1> QED BY <1>2, <1>3, <1>4, <1>5, <1>6 DEF Next, Steps

(* A snapshot with clean enabled, restored by a superuser and with no event *)
(* trigger asked for, does not fail by itself: parseDump hands psql only    *)
(* whole statements, the cleanup drops what the dump creates before the     *)
(* roles are dropped and made, and no other step of CreateSnapshot returns  *)
(* an error without a command that failed, or a copy of the rows that did.  *)
THEOREM CleanRestores == Spec => []CleanRestoreSucceeds
<1>1. Init => CleanInv
  BY CleanInit
<1>2. CleanInv /\ Copied!Safe /\ [Next]_vars => CleanInv'
  BY CleanStep
<1>3. CleanInv => CleanRestoreSucceeds
  BY DEF CleanInv, CleanRestoreSucceeds, Undisturbed, AsksForTriggers
<1>4. Spec => []Copied!Safe
  BY RunIsACopy, Copied!AlwaysSafe, PTL
<1> QED BY <1>1, <1>2, <1>3, <1>4, PTL DEF Spec

-----------------------------------------------------------------------------
(* What parseDump keeps of the order of the dump.                          *)

\* The elements come in the order of their ranks.
InOrder(rank, s) == \A i, j \in 1..Len(s) : i <= j => rank[s[i]] <= rank[s[j]]

LEMMA SeqRange ==
  ASSUME NEW T, NEW s \in Seq(T)
  PROVE  /\ Range(s) = {s[i] : i \in 1..Len(s)} /\ Len(s) \in Nat
         /\ \A i \in 1..Len(s) : s[i] \in T /\ s[i] \in Range(s)
         /\ \A x \in Range(s) : x \in T /\ \E i \in 1..Len(s) : s[i] = x
<1>1. DOMAIN s = 1..Len(s) /\ Len(s) \in Nat /\ \A i \in 1..Len(s) : s[i] \in T
  BY LenProperties
<1> QED BY <1>1 DEF Range

\* An element appended that ranks with or after those before it.
LEMMA AppendInOrder ==
  ASSUME NEW T, NEW rank \in [T -> Int], NEW s \in Seq(T), InOrder(rank, s), NEW e \in T,
         \A x \in Range(s) : rank[x] <= rank[e]
  PROVE  /\ Append(s, e) \in Seq(T) /\ InOrder(rank, Append(s, e))
         /\ Range(Append(s, e)) = Range(s) \cup {e}
<1> DEFINE t == Append(s, e)
<1>1. /\ t \in Seq(T) /\ Len(t) = Len(s) + 1 /\ \A i \in 1..Len(s) : t[i] = s[i]
      /\ t[Len(s) + 1] = e
  BY AppendProperties
<1>2. /\ Range(s) = {s[i] : i \in 1..Len(s)} /\ Len(s) \in Nat
      /\ \A i \in 1..Len(s) : s[i] \in T /\ s[i] \in Range(s)
  BY SeqRange
<1>3. Range(t) = {t[i] : i \in 1..Len(t)}
  BY <1>1, SeqRange
<1> HIDE DEF t
<1>4. \A i \in 1..Len(t) : i \in 1..Len(s) \/ i = Len(s) + 1
  BY <1>1, <1>2
<1>5. Range(t) = Range(s) \cup {e}
  <2>1. \A i \in 1..Len(s) : i \in 1..Len(t) /\ Len(s) + 1 \in 1..Len(t)
    BY <1>1, <1>2
  <2>2. Len(s) + 1 \in 1..Len(t)
    BY <1>1, <1>2
  <2> QED BY <1>1, <1>2, <1>3, <1>4, <2>1, <2>2
<1>6. ASSUME NEW i \in 1..Len(t), NEW j \in 1..Len(t), i <= j
      PROVE  rank[t[i]] <= rank[t[j]]
  <2>1. CASE j \in 1..Len(s)
    <3>1. i \in 1..Len(s)
      BY <1>2, <1>6, <2>1
    <3> QED BY <1>1, <1>6, <2>1, <3>1 DEF InOrder
  <2>2. CASE j = Len(s) + 1 /\ i \in 1..Len(s)
    BY <1>1, <1>2, <2>2
  <2>3. CASE i = Len(s) + 1 /\ j = Len(s) + 1
    BY <1>1, <2>3
  <2> QED BY <1>2, <1>4, <1>6, <2>1, <2>2, <2>3
<1> QED BY <1>1, <1>5, <1>6 DEF InOrder, t

LEMMA EmptyInOrder ==
  ASSUME NEW T, NEW rank
  PROVE  <<>> \in Seq(T) /\ InOrder(rank, <<>>) /\ Range(<<>>) = {}
<1>1. <<>> \in Seq(T) /\ Len(<<>>) = 0
  BY EmptySeq
<1>2. Range(<<>>) = {<<>>[i] : i \in 1..Len(<<>>)}
  BY <1>1, SeqRange
<1>3. \A i \in 1..0 : FALSE
  OBVIOUS
<1> QED BY <1>1, <1>2, <1>3 DEF InOrder

\* What is selected is in the order of what it is selected from.
LEMMA SelectedInOrder ==
  ASSUME NEW T, NEW rank \in [T -> Int], NEW s \in Seq(T), InOrder(rank, s), NEW S
  PROVE  /\ Selected(s, S) \in Seq(T) /\ InOrder(rank, Selected(s, S))
         /\ Range(Selected(s, S)) = Range(s) \cap S
<1>0. PICK f : Selects(s, S, f)
  BY SelectionSteps
<1> DEFINE N == Len(s)
<1>1. /\ Range(s) = {s[i] : i \in 1..N} /\ N \in Nat /\ \A i \in 1..N : s[i] \in T
  BY SeqRange
<1>2. /\ f[0] = <<>> /\ f[N] = Selected(s, S)
      /\ \A n \in 1..N : f[n] = IF s[n] \in S THEN Append(f[n - 1], s[n]) ELSE f[n - 1]
  BY <1>0 DEF Selects
<1> DEFINE Taken(n) == {s[k] : k \in 1..n} \cap S
           Good == {n \in 0..N : f[n] \in Seq(T) /\ InOrder(rank, f[n]) /\ Range(f[n]) = Taken(n)}
<1>3. 0 \in Good
  <2>1. Taken(0) = {} /\ 0 \in 0..N
    BY <1>1
  <2> QED BY <1>2, <2>1, EmptyInOrder
<1>4. ASSUME NEW n \in 0..N, n \in Good, n < N PROVE n + 1 \in Good
  <2>1. n + 1 \in 1..N /\ (n + 1) - 1 = n /\ n + 1 \in 0..N
    BY <1>1, <1>4
  <2>2. f[n + 1] = IF s[n + 1] \in S THEN Append(f[n], s[n + 1]) ELSE f[n]
    BY <1>2, <2>1
  <2>3. f[n] \in Seq(T) /\ InOrder(rank, f[n]) /\ Range(f[n]) = Taken(n)
    BY <1>4
  <2>4. Taken(n + 1) = IF s[n + 1] \in S THEN Taken(n) \cup {s[n + 1]} ELSE Taken(n)
    <3>1. \A k : k \in 1..(n + 1) <=> k \in 1..n \/ k = n + 1
      BY <1>4
    <3> QED BY <3>1
  <2>5. s[n + 1] \in T
    BY <1>1, <2>1
  <2>6. \A x \in Taken(n) : rank[x] <= rank[s[n + 1]]
    <3>1. \A k \in 1..n : k \in 1..N /\ k <= n + 1
      BY <1>1, <1>4
    <3>2. \A k \in 1..n : rank[s[k]] <= rank[s[n + 1]]
      BY <2>1, <3>1 DEF InOrder
    <3> QED BY <3>2
  <2> HIDE DEF Taken
  <2>7. CASE s[n + 1] \in S
    <3> DEFINE a == f[n]
               e == s[n + 1]
    <3>1. /\ a \in Seq(T) /\ InOrder(rank, a) /\ e \in T
          /\ \A x \in Range(a) : rank[x] <= rank[e]
      BY <2>3, <2>5, <2>6
    <3> HIDE DEF a, e
    <3>2. /\ Append(a, e) \in Seq(T) /\ InOrder(rank, Append(a, e))
          /\ Range(Append(a, e)) = Range(a) \cup {e}
      BY <3>1, AppendInOrder
    <3>3. f[n + 1] = Append(a, e) /\ Taken(n + 1) = Range(a) \cup {e}
      BY <2>2, <2>3, <2>4, <2>7 DEF a, e
    <3> QED BY <2>1, <3>2, <3>3
  <2>8. CASE s[n + 1] \notin S
    BY <2>1, <2>2, <2>3, <2>4, <2>8
  <2> QED BY <2>7, <2>8
<1>5. N \in Good
  <2> HIDE DEF Good, N
  <2>1. \A n \in 0..N : n \in Good /\ n < N => n + 1 \in Good
    BY <1>4
  <2>2. \A n \in 0..N : n \in Good
    BY <1>1, <1>3, <2>1, UpTo
  <2> QED BY <1>1, <2>2
<1> QED BY <1>1, <1>2, <1>5

\* Two sequences in order, every element of the first before those of the second.
LEMMA ConcatInOrder ==
  ASSUME NEW T, NEW rank \in [T -> Int], NEW s \in Seq(T), NEW t \in Seq(T),
         InOrder(rank, s), InOrder(rank, t),
         \A x \in Range(s), y \in Range(t) : rank[x] <= rank[y]
  PROVE  s \o t \in Seq(T) /\ InOrder(rank, s \o t) /\ Range(s \o t) = Range(s) \cup Range(t)
<1> DEFINE u == s \o t
           m == Len(s)
<1>1. /\ u \in Seq(T) /\ Len(u) = m + Len(t)
      /\ \A i \in 1..Len(u) : u[i] = IF i <= m THEN s[i] ELSE t[i - m]
  BY ConcatProperties
<1>2. /\ m \in Nat /\ \A i \in 1..m : s[i] \in Range(s) /\ s[i] \in T
      /\ Len(t) \in Nat /\ \A i \in 1..Len(t) : t[i] \in Range(t) /\ t[i] \in T
  BY SeqRange
<1>3. Range(u) = Range(s) \cup Range(t)
  BY RangeConcatenation
<1> HIDE DEF u, m
<1>4. \A i \in 1..Len(u) : IF i <= m THEN i \in 1..m ELSE i - m \in 1..Len(t)
  BY <1>1, <1>2
<1>5. ASSUME NEW i \in 1..Len(u), NEW j \in 1..Len(u), i <= j
      PROVE  rank[u[i]] <= rank[u[j]]
  <2>1. CASE j <= m
    <3>1. i <= m /\ i \in 1..m /\ j \in 1..m
      BY <1>2, <1>4, <1>5, <2>1
    <3> QED BY <1>1, <1>5, <2>1, <3>1 DEF InOrder, m
  <2>2. CASE i <= m /\ ~(j <= m)
    BY <1>1, <1>2, <1>4, <2>2
  <2>3. CASE ~(i <= m)
    <3>1. ~(j <= m)
      BY <1>2, <1>5, <2>3
    <3>2. i - m \in 1..Len(t) /\ j - m \in 1..Len(t) /\ i - m <= j - m
      BY <1>2, <1>4, <1>5, <2>3, <3>1
    <3> QED BY <1>1, <2>3, <3>1, <3>2 DEF InOrder
  <2> QED BY <2>1, <2>2, <2>3
<1> QED BY <1>1, <1>3, <1>5 DEF InOrder, u

\* The sequences that FlattenSeq puts together, one after another.
LEMMA FlattenSteps ==
  ASSUME NEW seqs, NEW N \in Nat \ {0}, Len(seqs) = N
  PROVE  \E f : /\ f[1] = seqs[1] /\ f[N] = FlattenSeq(seqs)
                /\ \A n \in 2..N : f[n] = f[n - 1] \o seqs[n]
<1> DEFINE f == CHOOSE g : IsFlat(seqs, N, g)
<1>1. FlattenSeq(seqs) = f[N]
  BY DEF FlattenSeq, IsFlat
<1>2. IsFlat(seqs, N, f)
  BY FlatExists
<1> HIDE DEF f
<1>3. 1 \in 1..N /\ \A n \in 2..N : n \in 1..N /\ n # 1
  OBVIOUS
<1>4. f[1] = seqs[1] /\ \A n \in 2..N : f[n] = f[n - 1] \o seqs[n]
  BY <1>2, <1>3 DEF IsFlat
<1> QED BY <1>1, <1>4

-----------------------------------------------------------------------------
(* The place of a statement in the dump of the source, and of its lines.   *)

At == [s \in Statements |-> CHOOSE i \in DOMAIN case.dump : case.dump[i] = s]
DumpLine == {x \in Line : x.of \in Statements}
Place == [x \in DumpLine |-> At[x.of]]

LEMMA DumpPlaces ==
  ASSUME case \in Cases
  PROVE  /\ case.dump \in Seq(Statements) /\ At \in [Statements -> Int]
         /\ Statements \subseteq DOMAIN Text
         /\ InOrder(At, case.dump)
         /\ \A s \in Statements : \A n \in Text[s].needs : n \in Statements /\ At[n] < At[s]
         /\ \A s \in Statements : Text[s].roles \subseteq case.roles \cup Predefined
         /\ \A s, n \in Statements :
              Text[s].table = Text[n].table /\ Text[s].table # NoTable =>
                Text[s].schema = Text[n].schema
<1> DEFINE d == case.dump
           N == Len(d)
<1>1. d \in Seq(DOMAIN Text)
  BY StatementsAssumption
<1>2. /\ Statements = {d[i] : i \in 1..N} /\ N \in Nat /\ DOMAIN d = 1..N
      /\ \A i \in 1..N : d[i] \in DOMAIN Text /\ d[i] \in Statements
      /\ \A s \in Statements : s \in DOMAIN Text /\ \E i \in 1..N : d[i] = s
  BY <1>1, SeqRange, LenProperties DEF Statements
<1>3. \A i \in 1..N :
        /\ \A n \in Text[d[i]].needs : \E j \in 1..i - 1 : d[j] = n
        /\ Text[d[i]].roles \subseteq case.roles \cup Predefined
        /\ \A j \in 1..i - 1 :
             /\ d[j] # d[i]
             /\ Text[d[i]].table = Text[d[j]].table =>
                  Text[d[i]].table = NoTable \/ Text[d[i]].schema = Text[d[j]].schema
  BY <1>2, DumpAssumption
<1>4. At = [s \in Statements |-> CHOOSE i \in 1..N : d[i] = s]
  BY <1>2 DEF At
<1> HIDE DEF d, N
<1>5. \A i, j \in 1..N : i < j => i \in 1..j - 1
  BY <1>2
<1>6. \A i, j \in 1..N : d[i] = d[j] => i = j
  <2>1. \A i, j \in 1..N : i < j => d[i] # d[j]
    BY <1>3, <1>5
  <2>2. \A i, j \in 1..N : i < j \/ j < i \/ i = j
    BY <1>2
  <2> QED BY <2>1, <2>2
<1>7. \A s \in Statements : At[s] \in 1..N /\ d[At[s]] = s
  BY <1>2, <1>4
<1>8. \A i \in 1..N : At[d[i]] = i
  BY <1>2, <1>6, <1>7
<1>9. At \in [Statements -> Int]
  <2>1. \A s \in Statements : At[s] \in Int
    BY <1>2, <1>7
  <2> DEFINE c(s) == CHOOSE i \in 1..N : d[i] = s
  <2>2. At = [s \in Statements |-> c(s)]
    BY <1>4
  <2> HIDE DEF c
  <2>3. At = [s \in Statements |-> At[s]]
    BY <2>2
  <2> QED BY <2>1, <2>3
<1>10. d \in Seq(Statements)
  <2>1. d = [i \in 1..N |-> d[i]]
    BY <1>1, <1>2 DEF N
  <2>2. [i \in 1..N |-> d[i]] \in Seq(Statements)
    BY <1>2
  <2> QED BY <2>1, <2>2
<1>11. InOrder(At, d)
  BY <1>8 DEF InOrder, N
<1>12. ASSUME NEW s \in Statements, NEW n \in Text[s].needs PROVE n \in Statements /\ At[n] < At[s]
  <2> DEFINE i == At[s]
  <2>1. i \in 1..N /\ d[i] = s
    BY <1>7
  <2> HIDE DEF i
  <2>2. PICK j \in 1..i - 1 : d[j] = n
    BY <1>3, <2>1
  <2>3. j \in 1..N /\ j < i
    BY <1>2, <2>1
  <2> QED BY <1>2, <1>8, <2>1, <2>2, <2>3 DEF i
<1>13. ASSUME NEW s \in Statements, NEW n \in Statements, Text[s].table = Text[n].table,
              Text[s].table # NoTable
       PROVE  Text[s].schema = Text[n].schema
  <2> DEFINE i == At[s]
             j == At[n]
  <2>1. i \in 1..N /\ d[i] = s /\ j \in 1..N /\ d[j] = n
    BY <1>7
  <2> HIDE DEF i, j
  <2>2. i < j \/ j < i \/ i = j
    BY <1>2, <2>1
  <2> QED BY <1>3, <1>5, <1>13, <2>1, <2>2
<1>14. \A s \in Statements : Text[s].roles \subseteq case.roles \cup Predefined
  BY <1>2, <1>3
<1> QED BY <1>2, <1>9, <1>10, <1>11, <1>12, <1>13, <1>14 DEF d

LEMMA AtNat == ASSUME case \in Cases, NEW s \in Statements PROVE At[s] \in Nat
<1>1. case.dump \in Seq(DOMAIN Text)
  BY StatementsAssumption
<1>2. DOMAIN case.dump = 1..Len(case.dump) /\ Len(case.dump) \in Nat
  BY <1>1, LenProperties
<1>3. \E i \in DOMAIN case.dump : case.dump[i] = s
  BY DEF Statements, Range
<1>4. At[s] \in DOMAIN case.dump
  BY <1>3 DEF At
<1> QED BY <1>2, <1>4

LEMMA PlaceFacts ==
  ASSUME case \in Cases
  PROVE  /\ Place \in [DumpLine -> Int]
         /\ \A x \in DumpLine : Place[x] = At[x.of] /\ x \in Line /\ x.of \in Statements
<1>1. \A x \in DumpLine : Place[x] = At[x.of] /\ x \in Line /\ x.of \in Statements
  BY DEF Place, DumpLine
<1>2. At \in [Statements -> Int]
  BY DumpPlaces
<1>3. Place = [x \in DumpLine |-> At[x.of]]
  BY DEF Place
<1>4. \A x \in DumpLine : At[x.of] \in Int
  BY <1>1, <1>2
<1> QED BY <1>1, <1>3, <1>4

LEMMA ConcatPlaces ==
  ASSUME case \in Cases, NEW a \in Seq(DumpLine), NEW b \in Seq(DumpLine),
         InOrder(Place, a), InOrder(Place, b),
         \A x \in Range(a), y \in Range(b) : Place[x] <= Place[y]
  PROVE  a \o b \in Seq(DumpLine) /\ InOrder(Place, a \o b) /\ Range(a \o b) = Range(a) \cup Range(b)
<1> DEFINE T == DumpLine
           rank == Place
<1>1. rank \in [T -> Int]
  BY PlaceFacts
<1>2. /\ a \in Seq(T) /\ b \in Seq(T) /\ InOrder(rank, a) /\ InOrder(rank, b)
      /\ \A x \in Range(a), y \in Range(b) : rank[x] <= rank[y]
  OBVIOUS
<1> HIDE DEF T, rank
<1>3. a \o b \in Seq(T) /\ InOrder(rank, a \o b) /\ Range(a \o b) = Range(a) \cup Range(b)
  BY <1>1, <1>2, ConcatInOrder
<1> QED BY <1>3 DEF T, rank

\* The lines of statements in order are in order, and all their lines.
LEMMA LinesInOrder ==
  ASSUME case \in Cases, NEW statements \in Seq(Statements), InOrder(At, statements)
  PROVE  /\ Lines(statements) \in Seq(DumpLine) /\ InOrder(Place, Lines(statements))
         /\ Range(Lines(statements)) = {x \in DumpLine : x.of \in Range(statements)}
<1> DEFINE N == Len(statements)
           seqs == [i \in DOMAIN statements |-> LinesOf(statements[i])]
           Of(S) == {x \in DumpLine : x.of \in S}
           Fine(lines, S) == /\ lines \in Seq(DumpLine) /\ InOrder(Place, lines)
                             /\ Range(lines) = Of(S)
           First(n) == {statements[i] : i \in 1..n}
<1>1. /\ N \in Nat /\ DOMAIN statements = 1..N /\ \A i \in 1..N : statements[i] \in Statements
      /\ Range(statements) = First(N)
  BY LenProperties, SeqRange
<1>2. Statements \subseteq DOMAIN Text /\ At \in [Statements -> Int]
  BY DumpPlaces
<1>3. /\ Place \in [DumpLine -> Int]
      /\ \A x \in DumpLine : Place[x] = At[x.of] /\ x \in Line /\ x.of \in Statements
  BY PlaceFacts
<1>4. ASSUME NEW s \in Statements PROVE Fine(LinesOf(s), {s})
  <2> DEFINE t == LinesOf(s)
             M == Len(t)
  <2>1. /\ Whole(t) /\ M = Len(Text[s].lines)
        /\ \A n \in 1..M : t[n] = [of |-> s, n |-> n]
    BY <1>2, LinesOfWhole
  <2>2. t \in Seq(Line) /\ M \in Nat
    BY <2>1, LenProperties DEF Whole, Woven
  <2>3. t = [n \in 1..M |-> [of |-> s, n |-> n]]
    BY <2>1 DEF LinesOf
  <2> HIDE DEF t, M
  <2>4. \A n \in 1..M : t[n] \in DumpLine /\ t[n].of = s /\ t[n].n = n
    <3> SUFFICES ASSUME NEW n \in 1..M PROVE t[n] \in DumpLine /\ t[n].of = s /\ t[n].n = n
      OBVIOUS
    <3>1. t[n] \in Line
      BY <2>2, LenProperties DEF M
    <3>2. t[n] = [of |-> s, n |-> n]
      BY <2>1 DEF M
    <3>3. [of |-> s, n |-> n].of = s /\ [of |-> s, n |-> n].n = n
      OBVIOUS
    <3> QED BY <3>1, <3>2, <3>3 DEF DumpLine
  <2>5. t \in [1..M -> DumpLine]
    BY <2>3, <2>4
  <2>6. t \in Seq(DumpLine)
    BY <2>2, <2>5, IsASeq
  <2>7. InOrder(Place, t)
    <3> SUFFICES ASSUME NEW i \in 1..M, NEW j \in 1..M PROVE Place[t[i]] <= Place[t[j]]
      BY DEF InOrder, M
    <3>1. Place[t[i]] = At[s] /\ Place[t[j]] = At[s] /\ At[s] \in Int
      BY <1>2, <1>3, <2>4
    <3> QED BY <3>1
  <2>8. Range(t) = {t[i] : i \in 1..M}
    BY <2>6, SeqRange DEF M
  <2>9. \A x \in DumpLine : x.of = s => x \in Range(t)
    <3> SUFFICES ASSUME NEW x \in DumpLine, x.of = s PROVE x \in Range(t)
      OBVIOUS
    <3>1. /\ x.n \in Nat \ {0} /\ x = [of |-> x.of, n |-> x.n] /\ x.n <= Len(Text[s].lines)
      BY <1>3, LineFacts
    <3>2. x.n \in 1..M
      BY <2>1, <2>2, <3>1 DEF M
    <3>3. t[x.n] = x
      BY <2>1, <3>1, <3>2
    <3> QED BY <2>8, <3>2, <3>3
  <2> QED BY <2>4, <2>6, <2>7, <2>8, <2>9 DEF t
<1>5. \A i \in 1..N : seqs[i] = LinesOf(statements[i])
  BY <1>1
<1>6. Lines(statements) = FlattenSeq(seqs)
  BY DEF Lines
<1>7. Len(seqs) = N
  <2>1. seqs = [i \in 1..N |-> LinesOf(statements[i])]
    BY <1>1
  <2> HIDE DEF N
  <2> QED BY <1>1, <2>1
<1>8. CASE N = 0
  <2>1. FlattenSeq(seqs) = seqs
    BY <1>7, <1>8 DEF FlattenSeq
  <2>2. seqs = <<>>
    BY <1>1, <1>8
  <2>3. First(N) = {}
    BY <1>8
  <2>4. <<>> \in Seq(DumpLine) /\ InOrder(Place, <<>>) /\ Range(<<>>) = {}
    BY EmptyInOrder
  <2> HIDE DEF First, seqs
  <2> QED BY <1>1, <1>6, <2>1, <2>2, <2>3, <2>4
<1>9. CASE N # 0
  <2>1. N \in Nat \ {0}
    BY <1>1, <1>9
  <2> HIDE DEF seqs, N
  <2>2. PICK f : /\ f[1] = seqs[1] /\ f[N] = FlattenSeq(seqs)
                 /\ \A n \in 2..N : f[n] = f[n - 1] \o seqs[n]
    BY <1>7, <2>1, FlattenSteps
  <2> HIDE DEF Fine
  <2> DEFINE Good == {n \in 0..N : n # 0 => Fine(f[n], First(n))}
  <2>3. 0 \in Good
    BY <1>1
  <2>4. ASSUME NEW n \in 0..N, n \in Good, n < N PROVE n + 1 \in Good
    <3>1. n + 1 \in 1..N /\ (n + 1) - 1 = n /\ n + 1 \in 0..N
      BY <1>1, <2>4
    <3> DEFINE s == statements[n + 1]
    <3>2. s \in Statements /\ seqs[n + 1] = LinesOf(s)
      BY <1>1, <1>5, <3>1
    <3> HIDE DEF s
    <3>3. Fine(seqs[n + 1], {s})
      BY <1>4, <3>2
    <3>4. First(n + 1) = First(n) \cup {s}
      <4>1. \A i : i \in 1..(n + 1) <=> i \in 1..n \/ i = n + 1
        BY <2>4
      <4> QED BY <4>1 DEF s
    <3>5. CASE n = 0
      <4>1. First(n + 1) = {s} /\ f[n + 1] = seqs[n + 1]
        BY <2>2, <3>4, <3>5
      <4> HIDE DEF First
      <4> QED BY <3>1, <3>3, <4>1
    <3>6. CASE n # 0
      <4>0. n + 1 \in 2..N
        BY <1>1, <3>1, <3>6
      <4>1. f[n + 1] = f[n] \o seqs[n + 1]
        BY <2>2, <3>1, <4>0
      <4> DEFINE a == f[n]
                 b == seqs[n + 1]
      <4>2. Fine(a, First(n)) /\ Fine(b, {s})
        BY <2>4, <3>3, <3>6
      <4>3. \A k \in 1..n : statements[k] \in Statements /\ At[statements[k]] <= At[s]
        <5>1. \A k \in 1..n : k \in 1..N /\ k <= n + 1
          BY <1>1, <2>4
        <5> QED BY <1>1, <3>1, <5>1 DEF InOrder, s, N
      <4>4. \A x \in Of(First(n)), y \in Of({s}) : Place[x] <= Place[y]
        BY <1>3, <4>3
      <4>5. Of(First(n)) \cup Of({s}) = Of(First(n + 1))
        BY <3>4
      <4> HIDE DEF a, b, First, Of
      <4>6. Fine(a \o b, First(n + 1))
        <5>1. /\ a \in Seq(DumpLine) /\ b \in Seq(DumpLine)
              /\ InOrder(Place, a) /\ InOrder(Place, b)
              /\ Range(a) = Of(First(n)) /\ Range(b) = Of({s})
          BY <4>2 DEF Fine
        <5>2. /\ a \o b \in Seq(DumpLine) /\ InOrder(Place, a \o b)
              /\ Range(a \o b) = Range(a) \cup Range(b)
          <6>1. \A x \in Range(a), y \in Range(b) : Place[x] <= Place[y]
            BY <4>4, <5>1
          <6> QED BY <5>1, <6>1, ConcatPlaces
        <5> QED BY <4>5, <5>1, <5>2 DEF Fine
      <4> QED BY <3>1, <4>1, <4>6 DEF a, b
    <3> QED BY <3>5, <3>6
  <2>5. N \in Good
    <3> HIDE DEF Good
    <3>1. \A n \in 0..N : n \in Good /\ n < N => n + 1 \in Good
      BY <2>4
    <3>2. \A n \in 0..N : n \in Good
      BY <1>1, <2>3, <3>1, UpTo
    <3> QED BY <1>1, <3>2
  <2>6. Fine(f[N], Range(statements))
    <3> HIDE DEF First
    <3> QED BY <1>1, <1>9, <2>5
  <2> QED BY <1>6, <2>2, <2>6 DEF Fine
<1> QED BY <1>8, <1>9

-----------------------------------------------------------------------------
(* Where parseDump puts a statement.                                       *)

\* What is dropped: labels of some providers, and what names a managed role.
LeftOut(s) == Text[s].provider \in case.labels \/ Text[s].roles \cap Managed # {}

\* What ParseLine does with a line, with the one that is held back before it.
LineGoes(p, q, x) ==
  LET s == x.of
      k == Kind(s)
      lines == p.alter \o <<x>>
      Out == LeftOut(s) \/ (k = "alterTable" /\ ~Ends(x))
  IN  /\ q.indices = IF ~Out /\ (WithIndices(s) \/ k = "connect") THEN p.indices \o lines
                     ELSE p.indices
      /\ q.views = IF ~Out /\ k \in {"view", "connect"} THEN p.views \o lines ELSE p.views
      /\ q.triggers = IF ~Out /\ k = "eventTrigger" THEN p.triggers \o lines ELSE p.triggers
      /\ q.filtered = IF ~Out /\ ~WithIndices(s) /\ k \notin {"view", "eventTrigger"}
                      THEN p.filtered \o lines ELSE p.filtered
      /\ DOMAIN q.roles = IF ~Out /\ k = "role" THEN Text[s].roles \cup DOMAIN p.roles
                          ELSE DOMAIN p.roles

LEMMA LeftOutKinds ==
  ASSUME case \in Cases, NEW s \in DOMAIN Text
  PROVE  /\ LeftOut(s) => Kind(s) \in {"label", "role"}
         /\ Text[s].provider \in case.labels => Kind(s) = "label"
         /\ Text[s].roles # {} => Kind(s) = "role"
BY StatementsAssumption, DumpAssumption DEF LeftOut, Kind

LEMMA ConcatLine ==
  ASSUME NEW T, NEW a \in Seq(T), NEW x \in T
  PROVE  Append(a, x) = a \o (<<>> \o <<x>>)
<1>1. <<x>> \in Seq(T)
  OBVIOUS
<1>2. <<>> \o <<x>> = <<x>>
  BY <1>1, ConcatEmptySeq
<1> QED BY <1>2, AppendIsConcat

\* A line that begins a statement.
LEMMA GoesFirst ==
  ASSUME case \in Cases, NEW D, NEW p, ParsedBetween(D, p), NEW x \in Line, x.n = 1,
         NEW q, q = ParseLine(p, x)
  PROVE  LineGoes(p, q, x)
<1> DEFINE c == Class(x)
           s == x.of
           v(a) == a \o (<<>> \o <<x>>)
<1>0. /\ c = Kind(s) /\ (Ends(x) => c # "alterTable")
      /\ ~Ends(x) => c \in {"alterTable", "view", "eventTrigger"} \/ c \notin Sought
  BY LineShape
<1>1. /\ IsSections(p) /\ p.alter = <<>> /\ ~p.inTrigger /\ ~p.inView
      /\ p.filtered \in Seq(Line) /\ p.indices \in Seq(Line) /\ p.views \in Seq(Line)
      /\ p.triggers \in Seq(TriggerLine(D))
  BY DEF ParsedBetween, Parsed, Whole, Woven
<1>2. p.triggers \in Seq(Line)
  BY <1>1, SeqMonotonic DEF TriggerLine
<1>3. /\ Append(p.filtered, x) = v(p.filtered) /\ Append(p.indices, x) = v(p.indices)
      /\ Append(p.views, x) = v(p.views) /\ Append(p.triggers, x) = v(p.triggers)
  BY <1>1, <1>2, ConcatLine
<1>4. s \in DOMAIN Text
  BY LineFacts
<1>5. /\ LeftOut(s) <=> \/ c = "label" /\ Text[s].provider \in case.labels
                        \/ c = "role" /\ Text[s].roles \cap Managed # {}
      /\ LeftOut(s) => c \in {"label", "role"}
  BY <1>0, <1>4, LeftOutKinds DEF LeftOut
<1>6. c # "alterTable" => (WithIndices(s) <=> c \in IndexClasses)
  BY <1>0 DEF WithIndices
<1> HIDE DEF c, v, s
<1>7. LineGoes(p, q, x) <=>
        LET Out == LeftOut(s) \/ (c = "alterTable" /\ ~Ends(x))
        IN  /\ q.indices = IF ~Out /\ (WithIndices(s) \/ c = "connect") THEN v(p.indices)
                           ELSE p.indices
            /\ q.views = IF ~Out /\ c \in {"view", "connect"} THEN v(p.views) ELSE p.views
            /\ q.triggers = IF ~Out /\ c = "eventTrigger" THEN v(p.triggers) ELSE p.triggers
            /\ q.filtered = IF ~Out /\ ~WithIndices(s) /\ c \notin {"view", "eventTrigger"}
                            THEN v(p.filtered) ELSE p.filtered
            /\ DOMAIN q.roles = IF ~Out /\ c = "role" THEN Text[s].roles \cup DOMAIN p.roles
                                ELSE DOMAIN p.roles
  BY <1>0, <1>1, Zenon DEF LineGoes, v, s
<1>8. CASE c = "label" /\ Text[s].provider \in case.labels
  <2>1. q = p
    BY <1>8 DEF ParseLine, c, s
  <2>2. LeftOut(s)
    BY <1>5, <1>8
  <2>3. /\ q.filtered = p.filtered /\ q.roles = p.roles /\ q.indices = p.indices
        /\ q.views = p.views /\ q.triggers = p.triggers
    BY <2>1
  <2> QED BY <1>7, <2>2, <2>3
<1>9. CASE c = "eventTrigger"
  <2>1. q = [p EXCEPT !.triggers = Append(p.triggers, x), !.inTrigger = ~Ends(x)]
    BY <1>1, <1>9 DEF ParseLine, c
  <2>2. /\ q.triggers = Append(p.triggers, x) /\ q.filtered = p.filtered
        /\ q.indices = p.indices /\ q.views = p.views /\ q.roles = p.roles
    BY <1>1, <2>1 DEF IsSections
  <2>3. ~LeftOut(s) /\ ~WithIndices(s)
    BY <1>5, <1>6, <1>9 DEF IndexClasses
  <2> QED BY <1>3, <1>7, <1>9, <2>2, <2>3
<1>10. CASE c = "view"
  <2>1. q = [p EXCEPT !.views = Append(p.views, x), !.inView = ~Ends(x)]
    BY <1>1, <1>10 DEF ParseLine, c
  <2>2. /\ q.triggers = p.triggers /\ q.filtered = p.filtered
        /\ q.indices = p.indices /\ q.views = Append(p.views, x) /\ q.roles = p.roles
    BY <1>1, <2>1 DEF IsSections
  <2>3. ~LeftOut(s) /\ ~WithIndices(s)
    BY <1>5, <1>6, <1>10 DEF IndexClasses
  <2> QED BY <1>3, <1>7, <1>10, <2>2, <2>3
<1>11. CASE c = "connect"
  <2>1. q = [p EXCEPT !.filtered = Append(p.filtered, x), !.indices = Append(p.indices, x),
                      !.views = Append(p.views, x)]
    BY <1>1, <1>11 DEF ParseLine, IndexClasses, c
  <2>2. /\ q.filtered = Append(p.filtered, x) /\ q.roles = p.roles
        /\ q.indices = Append(p.indices, x) /\ q.views = Append(p.views, x)
        /\ q.triggers = p.triggers
    BY <1>1, <2>1 DEF IsSections
  <2>3. ~LeftOut(s) /\ ~WithIndices(s)
    BY <1>5, <1>6, <1>11 DEF IndexClasses
  <2> QED BY <1>3, <1>7, <1>11, <2>2, <2>3
<1>12. CASE c \in IndexClasses
  <2>1. q = [p EXCEPT !.indices = Append(p.indices, x)]
    BY <1>1, <1>12 DEF ParseLine, IndexClasses, c
  <2>2. /\ q.filtered = p.filtered /\ q.roles = p.roles
        /\ q.indices = Append(p.indices, x) /\ q.views = p.views
        /\ q.triggers = p.triggers
    BY <1>1, <2>1 DEF IsSections
  <2>3. c \notin {"view", "connect", "eventTrigger", "role", "label", "alterTable"}
    BY <1>12 DEF IndexClasses
  <2>4. ~LeftOut(s) /\ WithIndices(s)
    BY <1>5, <1>6, <1>12, <2>3
  <2> QED BY <1>3, <1>7, <2>2, <2>3, <2>4
<1>13. CASE c = "alterTable"
  <2>1. q = [p EXCEPT !.alter = <<x>>]
    BY <1>1, <1>13 DEF ParseLine, IndexClasses, c
  <2>2. /\ q.filtered = p.filtered /\ q.roles = p.roles /\ q.indices = p.indices
        /\ q.views = p.views /\ q.triggers = p.triggers
    BY <1>1, <2>1 DEF IsSections
  <2>3. ~Ends(x)
    BY <1>0, <1>13
  <2> QED BY <1>7, <1>13, <2>2, <2>3
<1>14. CASE c = "role"
  <2>1. q = RoleLine(p, x)
    BY <1>1, <1>14 DEF ParseLine, IndexClasses, c
  <2>2. ~WithIndices(s)
    BY <1>6, <1>14 DEF IndexClasses
  <2>3. CASE Text[s].roles \cap Managed # {}
    <3>1. q = p
      BY <2>1, <2>3 DEF RoleLine, s
    <3>2. LeftOut(s)
      BY <1>5, <1>14, <2>3
    <3>3. /\ q.filtered = p.filtered /\ q.roles = p.roles /\ q.indices = p.indices
          /\ q.views = p.views /\ q.triggers = p.triggers
      BY <3>1
    <3> QED BY <1>7, <3>2, <3>3
  <2>4. CASE Text[s].roles \cap Managed = {}
    <3> DEFINE r == [y \in Text[s].roles |-> Text[s].owner]
               w == Noted(r, p.roles)
               f == Append(p.filtered, x)
    <3>1. q = [p EXCEPT !.filtered = f, !.roles = w]
      BY <2>1, <2>4, Zenon DEF RoleLine, s
    <3>2. DOMAIN w = Text[s].roles \cup DOMAIN p.roles
      BY DEF Noted
    <3> HIDE DEF w, f
    <3>3. /\ q.filtered = f /\ q.roles = w /\ q.indices = p.indices
          /\ q.views = p.views /\ q.triggers = p.triggers
      BY <1>1, <3>1 DEF IsSections
    <3>4. ~LeftOut(s)
      BY <1>5, <1>14, <2>4
    <3> QED BY <1>3, <1>7, <1>14, <2>2, <3>2, <3>3, <3>4 DEF f
  <2> QED BY <2>3, <2>4
<1>15. CASE /\ c \notin IndexClasses \cup {"eventTrigger", "view", "connect", "alterTable", "role"}
            /\ ~(c = "label" /\ Text[s].provider \in case.labels)
  <2>1. ~LeftOut(s) /\ ~WithIndices(s)
    BY <1>5, <1>6, <1>15
  <2> DEFINE f == Append(p.filtered, x)
             w == p.sequences \cup {x.of}
  <2>2. \/ q = [p EXCEPT !.filtered = f]
        \/ q = [p EXCEPT !.filtered = f, !.sequences = w]
    BY <1>1, <1>15 DEF ParseLine, IndexClasses, c, s
  <2> HIDE DEF f, w
  <2>3. /\ q.filtered = f /\ q.roles = p.roles /\ q.indices = p.indices
        /\ q.views = p.views /\ q.triggers = p.triggers
    BY <1>1, <2>2 DEF IsSections
  <2>4. c \notin {"view", "connect", "eventTrigger", "role", "alterTable"}
    BY <1>15
  <2> QED BY <1>3, <1>7, <2>1, <2>3, <2>4 DEF f
<1> QED BY <1>8, <1>9, <1>10, <1>11, <1>12, <1>13, <1>14, <1>15

\* A line that goes on with one.
LEMMA GoesNext ==
  ASSUME case \in Cases, NEW D, NEW p, NEW y \in Line, ~Ends(y), ParsedWithin(D, p, y),
         NEW x \in Line, x = NextLine(y), NEW q, q = ParseLine(p, x)
  PROVE  LineGoes(p, q, x)
<1> DEFINE k == Kind(x.of)
           s == x.of
           v(a) == a \o (<<>> \o <<x>>)
<1>0. y.n \in Nat \ {0} /\ x.n = y.n + 1 /\ x.of = y.of /\ x.n # 1 /\ s \in DOMAIN Text
  BY LineFacts DEF NextLine
<1>1. /\ IsSections(p) /\ p.triggers \in Seq(TriggerLine(D)) /\ p.indices \in Seq(Line)
      /\ p.alter = IF k = "alterTable" THEN <<y>> ELSE <<>>
      /\ p.inTrigger <=> k = "eventTrigger"
      /\ p.inView <=> k = "view"
      /\ p.views \in Seq(Line) /\ p.filtered \in Seq(Line)
  BY <1>0 DEF ParsedWithin, Parsed, Upto, Whole, Woven
<1>2. /\ Class(x) \notin {"label", "eventTrigger"}
      /\ \/ k = "alterTable" /\ Ends(x)
         \/ k \in {"view", "eventTrigger"}
         \/ k \notin Sought /\ Class(x) \notin Sought
  BY <1>0, LineShape
<1>3. ~LeftOut(s)
  BY <1>0, <1>2, LeftOutKinds DEF Sought
<1>4. p.triggers \in Seq(Line)
  BY <1>1, SeqMonotonic DEF TriggerLine
<1>5. /\ Append(p.filtered, x) = v(p.filtered)
      /\ Append(p.views, x) = v(p.views) /\ Append(p.triggers, x) = v(p.triggers)
  BY <1>1, <1>4, ConcatLine
<1>6. k # "alterTable" => (WithIndices(s) <=> k \in IndexClasses)
  BY DEF WithIndices
<1> HIDE DEF k, v, s
<1>7. k # "alterTable" => (LineGoes(p, q, x) <=>
        /\ q.indices = IF WithIndices(s) \/ k = "connect" THEN v(p.indices) ELSE p.indices
        /\ q.views = IF k \in {"view", "connect"} THEN v(p.views) ELSE p.views
        /\ q.triggers = IF k = "eventTrigger" THEN v(p.triggers) ELSE p.triggers
        /\ q.filtered = IF ~WithIndices(s) /\ k \notin {"view", "eventTrigger"}
                        THEN v(p.filtered) ELSE p.filtered
        /\ DOMAIN q.roles = IF k = "role" THEN Text[s].roles \cup DOMAIN p.roles
                            ELSE DOMAIN p.roles)
  BY <1>1, <1>3, Zenon DEF LineGoes, v, k, s
<1>8. CASE k = "alterTable"
  <2>1. Ends(x) /\ p.alter = <<y>> /\ p.alter # <<>>
    BY <1>1, <1>2, <1>8 DEF Sought
  <2> DEFINE both == <<y>> \o <<x>>
  <2>2. WithIndices(s) <=> Class(x) = "addConstraint"
    <3>1. Len(Text[s].lines) = 2
      <4>1. x.n <= Len(Text[s].lines) /\ Len(Text[s].lines) \in Nat
        BY LineFacts DEF s
      <4>2. Len(Text[s].lines) > 1
        BY <1>0, <4>1
      <4> QED BY <1>0, <1>8, <4>2, StatementsAssumption DEF Kind, k, s, Sought
    <3>2. x.n = 2
      BY <2>1, <3>1 DEF Ends, s
    <3> QED BY <1>8, <3>2 DEF WithIndices, Class, k, s, IndexClasses
  <2>3. q = IF Class(x) = "addConstraint"
            THEN [p EXCEPT !.indices = p.indices \o both, !.alter = <<>>]
            ELSE [p EXCEPT !.filtered = p.filtered \o both, !.alter = <<>>]
    BY <1>2, <2>1 DEF ParseLine
  <2>4. LineGoes(p, q, x) <=>
          /\ q.indices = IF WithIndices(s) THEN p.indices \o both ELSE p.indices
          /\ q.views = p.views /\ q.triggers = p.triggers
          /\ q.filtered = IF ~WithIndices(s) THEN p.filtered \o both ELSE p.filtered
          /\ DOMAIN q.roles = DOMAIN p.roles
    BY <1>3, <1>8, <2>1 DEF LineGoes, k, s
  <2> HIDE DEF both
  <2>5. CASE Class(x) = "addConstraint"
    <3>1. q = [p EXCEPT !.indices = p.indices \o both, !.alter = <<>>]
      BY <2>3, <2>5
    <3>2. /\ q.filtered = p.filtered /\ q.roles = p.roles /\ q.indices = p.indices \o both
          /\ q.views = p.views /\ q.triggers = p.triggers
      BY <1>1, <3>1 DEF IsSections
    <3> QED BY <2>2, <2>4, <2>5, <3>2
  <2>6. CASE Class(x) # "addConstraint"
    <3>1. q = [p EXCEPT !.filtered = p.filtered \o both, !.alter = <<>>]
      BY <2>3, <2>6
    <3>2. /\ q.filtered = p.filtered \o both /\ q.roles = p.roles /\ q.indices = p.indices
          /\ q.views = p.views /\ q.triggers = p.triggers
      BY <1>1, <3>1 DEF IsSections
    <3> QED BY <2>2, <2>4, <2>6, <3>2
  <2> QED BY <2>5, <2>6
<1>9. CASE k = "eventTrigger"
  <2>1. q = [p EXCEPT !.triggers = Append(p.triggers, x), !.inTrigger = ~Ends(x)]
    BY <1>1, <1>2, <1>9 DEF ParseLine
  <2>2. /\ q.triggers = Append(p.triggers, x) /\ q.filtered = p.filtered
        /\ q.indices = p.indices /\ q.views = p.views /\ q.roles = p.roles
    BY <1>1, <2>1 DEF IsSections
  <2>3. ~WithIndices(s)
    BY <1>6, <1>9 DEF IndexClasses
  <2> QED BY <1>5, <1>7, <1>9, <2>2, <2>3
<1>10. CASE k = "view"
  <2>1. q = [p EXCEPT !.views = Append(p.views, x), !.inView = ~Ends(x)]
    BY <1>1, <1>2, <1>10 DEF ParseLine
  <2>2. /\ q.triggers = p.triggers /\ q.filtered = p.filtered
        /\ q.indices = p.indices /\ q.views = Append(p.views, x) /\ q.roles = p.roles
    BY <1>1, <2>1 DEF IsSections
  <2>3. ~WithIndices(s)
    BY <1>6, <1>10 DEF IndexClasses
  <2> QED BY <1>5, <1>7, <1>10, <2>2, <2>3
<1>11. CASE k \notin {"alterTable", "eventTrigger", "view"}
  <2>1. Class(x) \notin Sought /\ k \notin Sought /\ p.alter = <<>> /\ ~p.inTrigger /\ ~p.inView
    BY <1>1, <1>2, <1>11
  <2>2. q = [p EXCEPT !.filtered = Append(p.filtered, x)]
    BY <2>1 DEF ParseLine, Sought
  <2>3. /\ q.triggers = p.triggers /\ q.filtered = Append(p.filtered, x)
        /\ q.indices = p.indices /\ q.views = p.views /\ q.roles = p.roles
    BY <1>1, <2>2 DEF IsSections
  <2>4. ~WithIndices(s) /\ k \notin {"connect", "role"}
    BY <1>6, <1>11, <2>1 DEF Sought
  <2> QED BY <1>5, <1>7, <1>11, <2>3, <2>4
<1> QED BY <1>8, <1>9, <1>10, <1>11

\* A section that is in the order of the dump, up to a place in it.
Placed(lines, m) ==
  /\ lines \in Seq(DumpLine) /\ InOrder(Place, lines)
  /\ m \in Int /\ \A x \in Range(lines) : Place[x] <= m

LEMMA PlacedGrows ==
  ASSUME case \in Cases, NEW a, NEW m, Placed(a, m), NEW b, NEW n, Placed(b, n), m <= n,
         \A x \in Range(b) : Place[x] = n
  PROVE  Placed(a \o b, n) /\ Range(a \o b) = Range(a) \cup Range(b) /\ Placed(a, n)
<1>1. /\ a \in Seq(DumpLine) /\ InOrder(Place, a) /\ \A x \in Range(a) : Place[x] <= m
      /\ b \in Seq(DumpLine) /\ InOrder(Place, b) /\ m \in Int /\ n \in Int
  BY DEF Placed
<1>2. \A x \in Range(a) : Place[x] \in Int
  BY <1>1, SeqRange, PlaceFacts
<1>3. \A x \in Range(a) : Place[x] <= n
  BY <1>1, <1>2
<1>4. \A x \in Range(a), y \in Range(b) : Place[x] <= Place[y]
  BY <1>3
<1>5. /\ a \o b \in Seq(DumpLine) /\ InOrder(Place, a \o b)
      /\ Range(a \o b) = Range(a) \cup Range(b)
  BY <1>1, <1>4, ConcatPlaces
<1>6. \A x \in Range(b) : Place[x] <= n
  BY <1>1
<1> QED BY <1>1, <1>3, <1>5, <1>6 DEF Placed

\* The lines that a step of parseDump puts into a section.
LEMMA PlacedStep ==
  ASSUME case \in Cases, NEW x \in DumpLine, NEW e,
         e = <<>> \o <<x>> \/ \E y \in DumpLine : y.of = x.of /\ e = <<y>> \o <<x>>
  PROVE  /\ Placed(e, Place[x]) /\ x \in Range(e)
         /\ \A y \in Range(e) : y.of = x.of /\ Place[y] = Place[x]
<1> DEFINE T == DumpLine
           rank == Place
<1>1. rank \in [T -> Int] /\ \A y \in T : rank[y] = At[y.of]
  BY PlaceFacts
<1> HIDE DEF T, rank
<1>2. x \in T
  BY DEF T
<1>3. \A y \in T : <<y>> \in Seq(T) /\ InOrder(rank, <<y>>) /\ Range(<<y>>) = {y}
  <2> SUFFICES ASSUME NEW y \in T
               PROVE  <<y>> \in Seq(T) /\ InOrder(rank, <<y>>) /\ Range(<<y>>) = {y}
    OBVIOUS
  <2>1. <<y>> \in Seq(T) /\ Len(<<y>>) = 1 /\ <<y>>[1] = y
    OBVIOUS
  <2>2. Range(<<y>>) = {<<y>>[i] : i \in 1..Len(<<y>>)}
    BY <2>1, SeqRange
  <2>3. \A i \in 1..1 : i = 1
    OBVIOUS
  <2>4. rank[y] <= rank[y]
    BY <1>1
  <2> QED BY <2>1, <2>2, <2>3, <2>4 DEF InOrder
<1>4. CASE e = <<>> \o <<x>>
  <2>1. e = <<x>>
    BY <1>2, <1>3, <1>4, ConcatEmptySeq
  <2>2. rank[x] \in Int /\ rank[x] <= rank[x]
    BY <1>1, <1>2
  <2> QED BY <1>2, <1>3, <2>1, <2>2 DEF Placed, T, rank
<1>5. ASSUME NEW y \in T, y.of = x.of, e = <<y>> \o <<x>>
      PROVE  /\ Placed(e, Place[x]) /\ x \in Range(e)
             /\ \A z \in Range(e) : z.of = x.of /\ Place[z] = Place[x]
  <2>1. rank[y] = rank[x] /\ rank[x] \in Int /\ rank[x] <= rank[x]
    BY <1>1, <1>2, <1>5
  <2> DEFINE a == <<y>>
             b == <<x>>
  <2>2. /\ a \in Seq(T) /\ InOrder(rank, a) /\ Range(a) = {y}
        /\ b \in Seq(T) /\ InOrder(rank, b) /\ Range(b) = {x}
    BY <1>2, <1>3
  <2> HIDE DEF a, b
  <2>3. \A u \in Range(a), w \in Range(b) : Place[u] <= Place[w]
    BY <2>1, <2>2 DEF rank
  <2>4. a \o b \in Seq(T) /\ InOrder(rank, a \o b) /\ Range(a \o b) = Range(a) \cup Range(b)
    BY <2>2, <2>3, ConcatPlaces DEF T, rank
  <2>5. e = a \o b
    BY <1>5 DEF a, b
  <2> QED BY <1>5, <2>1, <2>2, <2>4, <2>5 DEF Placed, T, rank
<1> QED BY <1>4, <1>5 DEF T

\* Every section is in the order of the dump, of what goes there, and has all
\* of it that ended.
SortedTo(p, L, m) ==
  /\ Placed(p.filtered, m) /\ Placed(p.indices, m) /\ Placed(p.views, m) /\ Placed(p.triggers, m)
  /\ \A x \in Range(p.filtered) : ~WithIndices(x.of) /\ Kind(x.of) # "eventTrigger"
  /\ \A x \in Range(p.indices) : WithIndices(x.of) \/ Kind(x.of) = "connect"
  /\ \A x \in Range(p.triggers) : Kind(x.of) = "eventTrigger"
  /\ \A x \in L : Ends(x) /\ ~LeftOut(x.of) =>
       /\ WithIndices(x.of) => x \in Range(p.indices)
       /\ Kind(x.of) = "view" => x \in Range(p.views)
       /\ Kind(x.of) = "eventTrigger" => x \in Range(p.triggers)
       /\ ~WithIndices(x.of) /\ Kind(x.of) \notin {"view", "eventTrigger"} =>
            x \in Range(p.filtered)
       /\ Kind(x.of) = "role" => Text[x.of].roles \subseteq DOMAIN p.roles

LEMMA SortsLine ==
  ASSUME case \in Cases, NEW p, NEW q, NEW L, NEW m, SortedTo(p, L, m), NEW x \in DumpLine,
         m <= Place[x], LineGoes(p, q, x),
         p.alter = <<>> \/ \E y \in DumpLine : y.of = x.of /\ p.alter = <<y>>
  PROVE  SortedTo(q, L \cup {x}, Place[x])
<1> DEFINE n == Place[x]
           e == p.alter \o <<x>>
           k == Kind(x.of)
           w == WithIndices(x.of)
           out == LeftOut(x.of) \/ (k = "alterTable" /\ ~Ends(x))
           toIndices == ~out /\ (w \/ k = "connect")
           toViews == ~out /\ k \in {"view", "connect"}
           toTriggers == ~out /\ k = "eventTrigger"
           toFiltered == ~out /\ ~w /\ k \notin {"view", "eventTrigger"}
<1>1. e = <<>> \o <<x>> \/ \E y \in DumpLine : y.of = x.of /\ e = <<y>> \o <<x>>
  OBVIOUS
<1>2. /\ q.indices = IF toIndices THEN p.indices \o e ELSE p.indices
      /\ q.views = IF toViews THEN p.views \o e ELSE p.views
      /\ q.triggers = IF toTriggers THEN p.triggers \o e ELSE p.triggers
      /\ q.filtered = IF toFiltered THEN p.filtered \o e ELSE p.filtered
      /\ DOMAIN q.roles = IF ~out /\ k = "role" THEN Text[x.of].roles \cup DOMAIN p.roles
                          ELSE DOMAIN p.roles
  BY Zenon DEF LineGoes
<1> HIDE DEF e
<1>3. /\ Placed(e, n) /\ x \in Range(e) /\ \A y \in Range(e) : y.of = x.of /\ Place[y] = n
  BY <1>1, PlacedStep
<1>4. /\ Placed(p.filtered, m) /\ Placed(p.indices, m) /\ Placed(p.views, m)
      /\ Placed(p.triggers, m)
  BY DEF SortedTo
<1>5. ASSUME NEW a, Placed(a, m)
      PROVE  Placed(a, n) /\ Placed(a \o e, n) /\ Range(a \o e) = Range(a) \cup Range(e)
  BY <1>3, <1>5, PlacedGrows
<1> HIDE DEF n
<1>6. /\ Placed(q.indices, n)
      /\ Range(q.indices) = IF toIndices THEN Range(p.indices) \cup Range(e) ELSE Range(p.indices)
  BY <1>2, <1>4, <1>5
<1>7. /\ Placed(q.views, n)
      /\ Range(q.views) = IF toViews THEN Range(p.views) \cup Range(e) ELSE Range(p.views)
  BY <1>2, <1>4, <1>5
<1>8. /\ Placed(q.triggers, n)
      /\ Range(q.triggers) = IF toTriggers THEN Range(p.triggers) \cup Range(e)
                             ELSE Range(p.triggers)
  BY <1>2, <1>4, <1>5
<1>9. /\ Placed(q.filtered, n)
      /\ Range(q.filtered) = IF toFiltered THEN Range(p.filtered) \cup Range(e)
                             ELSE Range(p.filtered)
  BY <1>2, <1>4, <1>5
<1>10. \A y \in Range(q.filtered) : ~WithIndices(y.of) /\ Kind(y.of) # "eventTrigger"
  BY <1>3, <1>9 DEF SortedTo
<1>11. \A y \in Range(q.indices) : WithIndices(y.of) \/ Kind(y.of) = "connect"
  BY <1>3, <1>6 DEF SortedTo
<1>12. \A y \in Range(q.triggers) : Kind(y.of) = "eventTrigger"
  BY <1>3, <1>8 DEF SortedTo
<1>13. ASSUME NEW y \in L \cup {x}, Ends(y), ~LeftOut(y.of)
       PROVE  /\ WithIndices(y.of) => y \in Range(q.indices)
              /\ Kind(y.of) = "view" => y \in Range(q.views)
              /\ Kind(y.of) = "eventTrigger" => y \in Range(q.triggers)
              /\ ~WithIndices(y.of) /\ Kind(y.of) \notin {"view", "eventTrigger"} =>
                   y \in Range(q.filtered)
              /\ Kind(y.of) = "role" => Text[y.of].roles \subseteq DOMAIN q.roles
  <2>1. CASE y = x
    <3>1. ~out
      BY <1>13, <2>1
    <3> QED BY <1>2, <1>3, <1>6, <1>7, <1>8, <1>9, <2>1, <3>1
  <2>2. CASE y \in L
    <3>1. /\ WithIndices(y.of) => y \in Range(p.indices)
          /\ Kind(y.of) = "view" => y \in Range(p.views)
          /\ Kind(y.of) = "eventTrigger" => y \in Range(p.triggers)
          /\ ~WithIndices(y.of) /\ Kind(y.of) \notin {"view", "eventTrigger"} =>
               y \in Range(p.filtered)
          /\ Kind(y.of) = "role" => Text[y.of].roles \subseteq DOMAIN p.roles
      BY <1>13, <2>2 DEF SortedTo
    <3>2. DOMAIN p.roles \subseteq DOMAIN q.roles
      BY <1>2
    <3> QED BY <1>6, <1>7, <1>8, <1>9, <3>1, <3>2
  <2> QED BY <2>1, <2>2
<1> QED BY <1>6, <1>7, <1>8, <1>9, <1>10, <1>11, <1>12, <1>13 DEF SortedTo, n

\* The sections of a dump in order are in order, and have all of it.
LEMMA ParsesInOrder ==
  ASSUME case \in Cases, NEW D, NEW lines, Whole(lines),
         \A i \in 1..Len(lines) : lines[i].of \in D,
         lines \in Seq(DumpLine), InOrder(Place, lines)
  PROVE  \E m : SortedTo(FoldLeft(ParseLine, NoSections, lines), Range(lines), m)
<1> DEFINE N == Len(lines)
           First(n) == {lines[i] : i \in 1..n}
           Reached(n) == IF n = 0 THEN 0 ELSE Place[lines[n]]
<1>1. /\ N \in Nat /\ Range(lines) = First(N)
      /\ \A n \in 1..N : lines[n] \in DumpLine /\ Continues(lines, n) /\ lines[n] \in Line
  BY SeqRange, PlaceFacts DEF Whole, Woven
<1>2. PICK t : ParsesTo(D, lines, t)
  BY ParsesEach
<1>3. /\ t[0] = NoSections /\ ParsedBetween(D, t[0])
      /\ t[N] = FoldLeft(ParseLine, NoSections, lines)
      /\ \A n \in 1..N : t[n] = ParseLine(t[n - 1], lines[n]) /\ ParsedAfter(D, t[n], lines[n])
  BY <1>2 DEF ParsesTo
<1>4. \A x \in DumpLine : Place[x] \in Nat
  BY PlaceFacts, AtNat
<1> HIDE DEF N
<1> DEFINE Good == {n \in 0..N : SortedTo(t[n], First(n), Reached(n))}
<1>5. 0 \in Good
  <2>1. /\ NoSections.filtered = <<>> /\ NoSections.indices = <<>> /\ NoSections.views = <<>>
        /\ NoSections.triggers = <<>>
    BY DEF NoSections
  <2>2. <<>> \in Seq(DumpLine) /\ InOrder(Place, <<>>) /\ Range(<<>>) = {}
    BY EmptyInOrder
  <2>3. First(0) = {} /\ Reached(0) = 0
    OBVIOUS
  <2>4. Placed(<<>>, 0)
    BY <2>2 DEF Placed
  <2>5. SortedTo(NoSections, {}, 0)
    BY <2>1, <2>2, <2>4 DEF SortedTo
  <2>6. 0 \in 0..N
    BY <1>1
  <2> HIDE DEF First, Reached
  <2> QED BY <1>3, <2>3, <2>5, <2>6
<1>6. ASSUME NEW n \in 0..N, n \in Good, n < N PROVE n + 1 \in Good
  <2> DEFINE x == lines[n + 1]
             p == t[n]
             q == t[n + 1]
  <2>1. n + 1 \in 1..N /\ (n + 1) - 1 = n /\ n + 1 \in 0..N /\ n + 1 # 0 /\ n \in Nat
    BY <1>1, <1>6
  <2>2. q = ParseLine(p, x) /\ x \in Line /\ x \in DumpLine
    BY <1>1, <1>3, <2>1
  <2>3. IF n = 0 \/ Ends(lines[n]) THEN x.n = 1 ELSE x = NextLine(lines[n])
    <3>1. Continues(lines, n + 1)
      BY <1>1, <2>1
    <3>2. n + 1 = 1 <=> n = 0
      BY <2>1
    <3> QED BY <2>1, <3>1, <3>2 DEF Continues
  <2>4. n # 0 => n \in 1..N /\ lines[n] \in DumpLine /\ lines[n] \in Line
    BY <1>1, <2>1
  <2>5. IF n = 0 THEN ParsedBetween(D, p) ELSE ParsedAfter(D, p, lines[n])
    BY <1>3, <2>4
  <2>6. Reached(n) <= Place[x]
    <3>1. n # 0 => Place[lines[n]] <= Place[lines[n + 1]]
      <4>1. n # 0 => n \in 1..Len(lines) /\ n + 1 \in 1..Len(lines) /\ n <= n + 1
        BY <2>1, <2>4 DEF N
      <4> QED BY <4>1 DEF InOrder
    <3> QED BY <1>4, <2>2, <3>1
  <2>7. First(n + 1) = First(n) \cup {x}
    <3>1. \A i : i \in 1..(n + 1) <=> i \in 1..n \/ i = n + 1
      BY <2>1
    <3> QED BY <3>1
  <2>8. Reached(n + 1) = Place[x]
    BY <2>1
  <2>9. SortedTo(p, First(n), Reached(n))
    BY <1>6
  <2> HIDE DEF x, p, q, First, Reached
  <2>10. /\ LineGoes(p, q, x)
         /\ p.alter = <<>> \/ \E y \in DumpLine : y.of = x.of /\ p.alter = <<y>>
    <3>1. CASE n = 0 \/ Ends(lines[n])
      <4>1. ParsedBetween(D, p) /\ x.n = 1
        BY <2>3, <2>5, <3>1 DEF ParsedAfter
      <4> QED BY <2>2, <4>1, GoesFirst DEF ParsedBetween
    <3>2. CASE ~(n = 0 \/ Ends(lines[n]))
      <4> DEFINE y == lines[n]
      <4>1. /\ y \in Line /\ y \in DumpLine /\ ~Ends(y) /\ ParsedWithin(D, p, y)
            /\ x = NextLine(y)
        BY <2>3, <2>4, <2>5, <3>2 DEF ParsedAfter
      <4> HIDE DEF y
      <4>2. LineGoes(p, q, x)
        BY <2>2, <4>1, GoesNext
      <4>3. y.of = x.of
        BY <4>1 DEF NextLine
      <4>4. p.alter = <<y>> \/ p.alter = <<>>
        BY <4>1 DEF ParsedWithin
      <4> QED BY <4>1, <4>2, <4>3, <4>4
    <3> QED BY <3>1, <3>2
  <2>11. SortedTo(q, First(n) \cup {x}, Place[x])
    BY <2>2, <2>6, <2>9, <2>10, SortsLine
  <2> QED BY <2>1, <2>7, <2>8, <2>11 DEF q
<1>7. N \in Good
  <2> HIDE DEF Good
  <2>1. \A n \in 0..N : n \in Good /\ n < N => n + 1 \in Good
    BY <1>6
  <2>2. \A n \in 0..N : n \in Good
    BY <1>1, <1>5, <2>1, UpTo
  <2> QED BY <1>1, <2>2
<1> HIDE DEF First, Reached
<1> QED BY <1>1, <1>3, <1>7

-----------------------------------------------------------------------------
(* What a restore makes, that ends without a critical error.               *)

IsSession(t) == t = [objects |-> t.objects, pending |-> t.pending, critical |-> t.critical]

\* A line that ends a statement makes it, if what it needs is there.
LEMMA RestoresAny ==
  ASSUME NEW t, IsSession(t), NEW x, NEW q, q = RestoreLine(t, x), ~q.critical
  PROVE  /\ ~t.critical
         /\ q.objects = IF Ends(x) /\ Text[x.of].needs \cup Text[x.of].roles
                                        \subseteq t.objects \cup Predefined
                        THEN t.objects \cup {x.of} ELSE t.objects
<1> DEFINE text == t.pending \o <<x>>
           next == [t EXCEPT !.pending = IF Ends(x) THEN <<>> ELSE text]
           s == x.of
<1>1. q = IF ~Ends(x) THEN next
          ELSE IF text = LinesOf(s) THEN Execute(next, s)
          ELSE [next EXCEPT !.critical = TRUE]
  BY Zenon DEF RestoreLine
<1> HIDE DEF text
<1>2. IsSession(next) /\ next.objects = t.objects /\ next.critical = t.critical
  BY DEF IsSession
<1> HIDE DEF next, s
<1>3. [next EXCEPT !.critical = TRUE].critical
  BY <1>2 DEF IsSession
<1>4. CASE ~Ends(x)
  <2>1. q = next
    BY <1>1, <1>4
  <2> QED BY <1>2, <1>4, <2>1
<1>5. CASE Ends(x)
  <2>1. text = LinesOf(s) /\ q = Execute(next, s)
    BY <1>1, <1>3, <1>5
  <2>2. q = IF Text[s].needs \cup Text[s].roles \subseteq next.objects \cup Predefined
            THEN [next EXCEPT !.objects = next.objects \cup {s}] ELSE next
    BY <1>3, <2>1 DEF Execute
  <2>3. /\ [next EXCEPT !.objects = next.objects \cup {s}].objects = next.objects \cup {s}
        /\ [next EXCEPT !.objects = next.objects \cup {s}].critical = next.critical
    BY <1>2 DEF IsSession
  <2>4. CASE Text[s].needs \cup Text[s].roles \subseteq next.objects \cup Predefined
    <3>1. q.objects = next.objects \cup {s} /\ q.critical = next.critical
      BY <2>2, <2>3, <2>4
    <3> QED BY <1>2, <1>5, <2>4, <3>1 DEF s
  <2>5. CASE ~(Text[s].needs \cup Text[s].roles \subseteq next.objects \cup Predefined)
    <3>1. q = next
      BY <2>2, <2>5
    <3> QED BY <1>2, <2>5, <3>1 DEF s
  <2> QED BY <2>4, <2>5
<1> QED BY <1>4, <1>5

LEMMA RestoresSession ==
  ASSUME NEW t, IsSession(t), NEW x
  PROVE  IsSession(RestoreLine(t, x))
<1> DEFINE text == t.pending \o <<x>>
           next == [t EXCEPT !.pending = IF Ends(x) THEN <<>> ELSE text]
           q == RestoreLine(t, x)
<1>1. q = IF ~Ends(x) THEN next
          ELSE IF text = LinesOf(x.of) THEN Execute(next, x.of)
          ELSE [next EXCEPT !.critical = TRUE]
  BY Zenon DEF RestoreLine
<1> HIDE DEF text, q
<1>2. IsSession(next)
  <2>1. t = [objects |-> t.objects, pending |-> t.pending, critical |-> t.critical]
    BY DEF IsSession
  <2> DEFINE v == IF Ends(x) THEN <<>> ELSE text
  <2> HIDE DEF v
  <2>2. [t EXCEPT !.pending = v] = [objects |-> t.objects, pending |-> v, critical |-> t.critical]
    BY <2>1
  <2>3. next = [objects |-> next.objects, pending |-> next.pending, critical |-> next.critical]
    BY <2>2 DEF v
  <2> QED BY <2>3 DEF IsSession
<1> HIDE DEF next
<1>3. IsSession([next EXCEPT !.critical = TRUE])
  <2> DEFINE v == TRUE
  <2> HIDE DEF v
  <2>1. IsSession([next EXCEPT !.critical = v])
    BY <1>2 DEF IsSession
  <2> QED BY <2>1 DEF v
<1>4. ASSUME NEW o PROVE IsSession([next EXCEPT !.objects = o])
  <2> DEFINE r == [next EXCEPT !.objects = o]
  <2>1. next = [objects |-> next.objects, pending |-> next.pending, critical |-> next.critical]
    BY <1>2 DEF IsSession
  <2>2. r = [objects |-> o, pending |-> next.pending, critical |-> next.critical]
    BY <2>1
  <2> QED BY <2>2 DEF IsSession
<1>5. IsSession(Execute(next, x.of))
  <2>1. \/ Execute(next, x.of) = [next EXCEPT !.critical = TRUE]
        \/ Execute(next, x.of) = [next EXCEPT !.objects = next.objects \cup {x.of}]
        \/ Execute(next, x.of) = next
    BY DEF Execute
  <2> QED BY <1>2, <1>3, <1>4, <2>1
<1> QED BY <1>1, <1>2, <1>3, <1>5 DEF q

\* Statements that need what is there, or comes before them in the section.
LEMMA RestoreMakes ==
  ASSUME NEW lines \in Seq(DumpLine), NEW rank \in [DumpLine -> Int], InOrder(rank, lines),
         NEW start, IsSession(start), ~FoldLeft(RestoreLine, start, lines).critical,
         NEW D,
         \A s \in D : /\ Text[s].roles \subseteq start.objects \cup Predefined
                      /\ \E x \in Range(lines) : Ends(x) /\ x.of = s,
         \A s \in D : \A n \in Text[s].needs :
           n \in start.objects \/
           (n \in D /\ \A x, y \in DumpLine : x.of = n /\ y.of = s => rank[x] < rank[y])
  PROVE  LET made == FoldLeft(RestoreLine, start, lines).objects
         IN  /\ start.objects \subseteq made /\ D \subseteq made
             /\ made \subseteq start.objects \cup {x.of : x \in Range(lines)}
<1> DEFINE N == Len(lines)
           o == start.objects
           Of(n) == {lines[i].of : i \in 1..n}
           Done(n) == {lines[i].of : i \in {j \in 1..n : Ends(lines[j])}} \cap D
<1>1. /\ N \in Nat /\ Range(lines) = {lines[i] : i \in 1..N}
      /\ \A i \in 1..N : lines[i] \in DumpLine
  BY SeqRange
<1>2. PICK t : /\ Looped("restore", start, lines, t)
               /\ t[N] = FoldLeft(RestoreLine, start, lines)
  BY RestoreLoops
<1>3. t[0] = start /\ \A n \in 1..N : t[n] = RestoreLine(t[n - 1], lines[n])
  BY <1>2 DEF Looped, Step
<1> HIDE DEF N
<1> DEFINE Good == {n \in 0..N : /\ IsSession(t[n])
                                 /\ ~t[n].critical => /\ o \subseteq t[n].objects
                                                      /\ Done(n) \subseteq t[n].objects
                                                      /\ t[n].objects \subseteq o \cup Of(n)}
<1>4. 0 \in Good
  <2>1. Done(0) = {} /\ 0 \in 0..N
    BY <1>1
  <2> HIDE DEF Done
  <2> QED BY <1>3, <2>1
<1>5. ASSUME NEW n \in 0..N, n \in Good, n < N PROVE n + 1 \in Good
  <2> DEFINE x == lines[n + 1]
             s == x.of
             p == t[n]
             q == t[n + 1]
  <2> HIDE DEF Good
  <2>1. n + 1 \in 1..N /\ (n + 1) - 1 = n /\ n + 1 \in 0..N /\ n \in Nat
    BY <1>1, <1>5
  <2>2. q = RestoreLine(p, x) /\ x \in DumpLine
    BY <1>1, <1>3, <2>1
  <2>3. /\ IsSession(p)
        /\ ~p.critical => o \subseteq p.objects /\ Done(n) \subseteq p.objects
                            /\ p.objects \subseteq o \cup Of(n)
    BY <1>5 DEF Good
  <2>4. \A i : i \in 1..(n + 1) <=> i \in 1..n \/ i = n + 1
    BY <2>1
  <2>5. Of(n + 1) = Of(n) \cup {s}
    BY <2>4
  <2>6. Done(n + 1) \subseteq Done(n) \cup (IF Ends(x) /\ s \in D THEN {s} ELSE {})
    BY <2>4
  <2>7. ASSUME ~q.critical, Ends(x), s \in D
        PROVE  Text[s].needs \cup Text[s].roles \subseteq p.objects \cup Predefined
    <3> HIDE DEF s, x, p, q
    <3>1. ~p.critical
      BY <2>2, <2>3, <2>7, RestoresAny
    <3>2. o \subseteq p.objects /\ Done(n) \subseteq p.objects
      BY <2>3, <3>1
    <3>3. Text[s].roles \subseteq p.objects \cup Predefined
      BY <2>7, <3>2
    <3>4. ASSUME NEW m \in Text[s].needs PROVE m \in p.objects
      <4>1. CASE m \in o
        BY <3>2, <4>1
      <4>2. CASE m \notin o
        <5>1. m \in D /\ \A u, v \in DumpLine : u.of = m /\ v.of = s => rank[u] < rank[v]
          BY <2>7, <4>2
        <5>2. PICK y \in Range(lines) : Ends(y) /\ y.of = m
          BY <5>1
        <5>3. PICK j \in 1..N : lines[j] = y
          BY <1>1
        <5>4. rank[y] < rank[x] /\ rank[y] \in Int /\ rank[x] \in Int
          <6>1. y \in DumpLine /\ x.of = s
            BY <1>1, <5>3 DEF s
          <6> QED BY <2>2, <5>1, <5>2, <6>1
        <5>5. ~(n + 1 <= j)
          <6>1. n + 1 <= j => rank[x] <= rank[y]
            BY <2>1, <5>3 DEF InOrder, N, x
          <6> QED BY <5>4, <6>1
        <5>6. j \in 1..n
          BY <1>1, <2>1, <5>5
        <5>7. m \in Done(n)
          BY <5>1, <5>2, <5>3, <5>6
        <5> QED BY <3>2, <5>7
      <4> QED BY <4>1, <4>2
    <3> QED BY <3>3, <3>4
  <2> HIDE DEF s, x, p, q, Done, Of
  <2>8. IsSession(q)
    BY <2>2, <2>3, RestoresSession
  <2>9. ASSUME ~q.critical
        PROVE  /\ o \subseteq q.objects /\ Done(n + 1) \subseteq q.objects
               /\ q.objects \subseteq o \cup Of(n + 1)
    <3>1. /\ ~p.critical
          /\ q.objects = IF Ends(x) /\ Text[s].needs \cup Text[s].roles
                                         \subseteq p.objects \cup Predefined
                         THEN p.objects \cup {s} ELSE p.objects
      BY <2>2, <2>3, <2>9, RestoresAny DEF s
    <3>2. /\ o \subseteq p.objects /\ Done(n) \subseteq p.objects
          /\ p.objects \subseteq o \cup Of(n)
      BY <2>3, <3>1
    <3>3. p.objects \subseteq q.objects /\ q.objects \subseteq p.objects \cup {s}
      BY <3>1
    <3>4. Ends(x) /\ s \in D => s \in q.objects
      BY <2>7, <2>9, <3>1
    <3> QED BY <2>5, <2>6, <3>2, <3>3, <3>4
  <2> QED BY <2>1, <2>8, <2>9 DEF q, Good
<1>6. N \in Good
  <2> HIDE DEF Good
  <2>1. \A n \in 0..N : n \in Good /\ n < N => n + 1 \in Good
    BY <1>5
  <2>2. \A n \in 0..N : n \in Good
    BY <1>1, <1>4, <2>1, UpTo
  <2> QED BY <1>1, <2>2
<1>7. D \subseteq Done(N)
  BY <1>1
<1>8. Of(N) = {x.of : x \in Range(lines)}
  BY <1>1
<1> DEFINE made == FoldLeft(RestoreLine, start, lines)
<1>9. t[N] = made /\ ~made.critical
  BY <1>2 DEF N
<1> HIDE DEF Done, Of, made
<1>10. /\ o \subseteq made.objects /\ Done(N) \subseteq made.objects
       /\ made.objects \subseteq o \cup Of(N)
  BY <1>6, <1>9
<1> QED BY <1>7, <1>8, <1>10 DEF made

-----------------------------------------------------------------------------
(* What is due: what AcceptedSchemaComplete asks for, but for what is made *)
(* of a view.                                                              *)

Due == {s \in Statements :
          /\ Asked(s) /\ Kind(s) # "connect" /\ ~OnView(s)
          /\ Text[s].roles \cap Managed = {} /\ (Text[s].roles = {} \/ case.copyRoles)
          /\ \A n \in Text[s].needs : n \in Statements /\ Asked(n)}

DueFirst == {s \in Due : ~WithIndices(s) /\ Kind(s) # "view"}
DueIndices == {s \in Due : WithIndices(s)}
DueKeys == {s \in Due : WithIndices(s) /\ Text[s].unique}
DueViews == {s \in Due : Kind(s) = "view"}

\* With a statement, what it needs is due, and made in the same section or before.
LEMMA DueCloses ==
  ASSUME case \in Cases, NEW s \in Due, NEW n \in Text[s].needs
  PROVE  /\ n \in Due /\ Kind(n) \notin {"view", "eventTrigger"} /\ At[n] < At[s]
         /\ WithIndices(n) => WithIndices(s) \/ Kind(s) = "view"
         /\ Text[s].unique => ~WithIndices(n)
<1>1. /\ s \in Statements /\ Asked(s) /\ ~OnView(s) /\ s \in DOMAIN Text
      /\ n \in Statements /\ Asked(n) /\ At[n] < At[s] /\ n \in DOMAIN Text
      /\ \A m \in Text[s].needs : m \in Statements /\ Asked(m)
  BY DumpPlaces DEF Due
<1>2. /\ Text[n].roles # {} => Kind(n) = "role"
      /\ Kind(n) \notin {"connect", "role", "eventTrigger"}
      /\ Kind(n) # "view" => Text[n].needs \subseteq Text[s].needs
      /\ WithIndices(n) => \/ WithIndices(s) \/ Kind(s) = "view"
                           \/ \E v \in Text[s].needs : Kind(v) = "view"
      /\ Text[s].unique => ~WithIndices(n)
  BY <1>1, DumpAssumption
<1>3. \A v \in Text[s].needs : Kind(v) # "view"
  BY <1>1 DEF OnView
<1>4. Text[n].roles = {} /\ Text[n].needs \subseteq Text[s].needs /\ Kind(n) # "view"
  BY <1>2, <1>3
<1>5. ~OnView(n)
  BY <1>3, <1>4 DEF OnView
<1>6. n \in Due
  BY <1>1, <1>2, <1>4, <1>5 DEF Due
<1> QED BY <1>1, <1>2, <1>3, <1>6

\* pg_dump's statements in their order.
LEMMA DumpedInOrder ==
  ASSUME case \in Cases, NEW tables
  PROVE  /\ PgDump(tables) \in Seq(Statements) /\ InOrder(At, PgDump(tables))
         /\ tables \in ExcludeTables => Due \subseteq Range(PgDump(tables))
<1> DEFINE S == {s \in Statements : IF Kind(s) = "eventTrigger" THEN case.global
                                    ELSE Text[s].schema \in AskedSchemas /\ Text[s].table \notin tables}
           T == Statements
           rank == At
           d == case.dump
<1>1. PgDump(tables) = Selected(d, S)
  BY DEF PgDump
<1>2. d \in Seq(T) /\ rank \in [T -> Int] /\ InOrder(rank, d) /\ Range(d) = T
  BY DumpPlaces DEF Statements
<1>3. ASSUME tables \in ExcludeTables, NEW s \in Due PROVE s \in S
  <2>1. s \in Statements /\ Asked(s)
    BY DEF Due
  <2>2. /\ Text[s].schema \in AskedSchemas
        /\ Text[s].table = NoTable
             \/ Text[s].table \in AskedTables(Text[s].schema) \ case.without
        /\ Kind(s) = "eventTrigger" => case.global
    BY <2>1 DEF Asked
  <2>3. PICK t : /\ tables = case.without \cup t
                 /\ t = {} \/ \E x \in AskedSchemas : t = TablesIn(x) \ AskedTables(x)
    BY <1>3 DEF ExcludeTables
  <2>4. NoTable \notin case.without
    BY DumpAssumption
  <2>5. ASSUME NEW x \in AskedSchemas, Text[s].table \in TablesIn(x)
        PROVE  x = Text[s].schema /\ Text[s].table # NoTable
    <3>1. PICK r \in Statements : Text[r].schema = x /\ Text[s].table = Text[r].table
      BY <2>5 DEF TablesIn
    <3>2. Text[s].table # NoTable
      BY <2>5 DEF TablesIn
    <3> QED BY <2>1, <3>1, <3>2, DumpPlaces
  <2>6. Text[s].table \notin t
    BY <2>2, <2>3, <2>5
  <2>7. Text[s].table \notin tables
    BY <2>2, <2>3, <2>4, <2>6
  <2> QED BY <2>1, <2>2, <2>7
<1> HIDE DEF S, T, rank, d
<1>4. /\ Selected(d, S) \in Seq(T) /\ InOrder(rank, Selected(d, S))
      /\ Range(Selected(d, S)) = Range(d) \cap S
  BY <1>2, SelectedInOrder
<1>5. Due \subseteq T
  BY DEF Due, T
<1> QED BY <1>1, <1>2, <1>3, <1>4, <1>5 DEF T, rank

\* The order of the filtered dump: filterTriggers puts event triggers at its end.
Later == [x \in DumpLine |-> IF Kind(x.of) = "eventTrigger" THEN Place[x] + Len(case.dump)
                             ELSE Place[x]]

LEMMA LaterFacts ==
  ASSUME case \in Cases
  PROVE  /\ Later \in [DumpLine -> Int] /\ Len(case.dump) \in Nat
         /\ \A x \in DumpLine : /\ Place[x] \in Nat /\ Place[x] <= Len(case.dump)
                                /\ Later[x] = IF Kind(x.of) = "eventTrigger"
                                              THEN Place[x] + Len(case.dump) ELSE Place[x]
<1>1. case.dump \in Seq(DOMAIN Text)
  BY StatementsAssumption
<1>2. DOMAIN case.dump = 1..Len(case.dump) /\ Len(case.dump) \in Nat
  BY <1>1, LenProperties
<1>3. ASSUME NEW x \in DumpLine PROVE Place[x] \in 1..Len(case.dump)
  <2>1. x.of \in Statements /\ Place[x] = At[x.of]
    BY PlaceFacts
  <2>2. \E i \in DOMAIN case.dump : case.dump[i] = x.of
    BY <2>1 DEF Statements, Range
  <2>3. At[x.of] \in DOMAIN case.dump
    BY <2>1, <2>2 DEF At
  <2> QED BY <1>2, <2>1, <2>3
<1>4. \A x \in DumpLine : Place[x] \in Nat /\ Place[x] <= Len(case.dump)
  BY <1>2, <1>3
<1> DEFINE later(x) == IF Kind(x.of) = "eventTrigger" THEN Place[x] + Len(case.dump) ELSE Place[x]
<1>5. \A x \in DumpLine : later(x) \in Int
  BY <1>2, <1>4
<1>6. Later = [x \in DumpLine |-> later(x)]
  BY DEF Later
<1>7. \A x \in DumpLine : Later[x] = later(x)
  BY <1>6
<1>8. Later \in [DumpLine -> Int]
  <2> HIDE DEF later
  <2> QED BY <1>5, <1>6
<1> QED BY <1>2, <1>4, <1>7, <1>8

\* A section has the line with which a statement is executed.
Has(lines, s) == \E x \in Range(lines) : Ends(x) /\ x.of = s

LEMMA LastLine ==
  ASSUME NEW s \in Statements, case \in Cases
  PROVE  \E x \in DumpLine : Ends(x) /\ x.of = s
<1> DEFINE N == Len(Text[s].lines)
           x == [of |-> s, n |-> N]
<1>1. s \in DOMAIN Text
  BY DumpPlaces
<1>2. Text[s].lines \in Seq(Range(Text[s].lines)) /\ Text[s].lines # <<>>
  BY <1>1, StatementsAssumption
<1>3. N \in Nat \ {0}
  BY <1>2, EmptySeq
<1>4. x \in Line /\ x.of = s /\ x.n = N
  BY <1>1, <1>3 DEF Line
<1>5. Ends(x)
  BY <1>4 DEF Ends
<1> QED BY <1>4, <1>5 DEF DumpLine

\* A sequence in that order, and one that is not before it.
LEMMA ConcatLater ==
  ASSUME case \in Cases, NEW a \in Seq(DumpLine), NEW b \in Seq(DumpLine),
         InOrder(Later, a), InOrder(Later, b),
         \A x \in Range(a), y \in Range(b) : Later[x] <= Later[y]
  PROVE  /\ a \o b \in Seq(DumpLine) /\ InOrder(Later, a \o b)
         /\ Range(a \o b) = Range(a) \cup Range(b)
<1> DEFINE T == DumpLine
           rank == Later
<1>1. /\ rank \in [T -> Int] /\ a \in Seq(T) /\ b \in Seq(T)
      /\ InOrder(rank, a) /\ InOrder(rank, b)
      /\ \A x \in Range(a), y \in Range(b) : rank[x] <= rank[y]
  BY LaterFacts
<1> HIDE DEF T, rank
<1>2. a \o b \in Seq(T) /\ InOrder(rank, a \o b) /\ Range(a \o b) = Range(a) \cup Range(b)
  BY <1>1, ConcatInOrder
<1> QED BY <1>2 DEF T, rank

\* What the schema dump is sorted into.
LEMMA DumpSorted ==
  ASSUME case \in Cases, NEW tables, NEW d, d = ParseDump(PgDump(tables))
  PROVE  /\ d.filtered \in Seq(DumpLine) /\ InOrder(Later, d.filtered)
         /\ d.indices \in Seq(DumpLine) /\ InOrder(Place, d.indices)
         /\ d.views \in Seq(DumpLine) /\ InOrder(Place, d.views)
         /\ \A x \in Range(d.filtered) : ~WithIndices(x.of)
         /\ \A x \in Range(d.indices) : WithIndices(x.of) \/ Kind(x.of) = "connect"
         /\ tables \in ExcludeTables => \A s \in Due :
              /\ s \in DueFirst => Has(d.filtered, s)
              /\ s \in DueIndices => Has(d.indices, s)
              /\ s \in DueViews => Has(d.views, s)
              /\ Kind(s) = "role" => Text[s].roles \subseteq DOMAIN d.roles
<1> DEFINE statements == PgDump(tables)
           lines == Lines(statements)
           p == FoldLeft(ParseLine, NoSections, lines)
           last == FilterTriggers(p.triggers)
<1>1. statements \in Seq(Statements) /\ InOrder(At, statements)
  BY DumpedInOrder
<1>2. Whole(lines) /\ \A i \in 1..Len(lines) : lines[i].of \in Statements
  <2>1. Statements \in SUBSET DOMAIN Text
    BY DumpPlaces
  <2> HIDE DEF statements
  <2> QED BY <1>1, <2>1, LinesWhole
<1>3. /\ lines \in Seq(DumpLine) /\ InOrder(Place, lines)
      /\ Range(lines) = {x \in DumpLine : x.of \in Range(statements)}
  BY <1>1, LinesInOrder
<1>4. d = [p EXCEPT !.filtered = p.filtered \o last]
  BY DEF ParseDump
<1>5. IsSections(p)
  <2> HIDE DEF lines
  <2> QED BY <1>2, ParsesWhole DEF ParsedBetween, Parsed
<1>6. \E m : SortedTo(p, Range(lines), m)
  <2> HIDE DEF lines
  <2> QED BY <1>2, <1>3, ParsesInOrder
<1> HIDE DEF p, last
<1>7. /\ d.filtered = p.filtered \o last /\ d.indices = p.indices /\ d.views = p.views
      /\ d.roles = p.roles
  BY <1>4, <1>5 DEF IsSections
<1>8. PICK m : SortedTo(p, Range(lines), m)
  BY <1>6
<1>9. /\ p.filtered \in Seq(DumpLine) /\ InOrder(Place, p.filtered)
      /\ p.indices \in Seq(DumpLine) /\ InOrder(Place, p.indices)
      /\ p.views \in Seq(DumpLine) /\ InOrder(Place, p.views)
      /\ p.triggers \in Seq(DumpLine) /\ InOrder(Place, p.triggers)
      /\ \A x \in Range(p.filtered) : ~WithIndices(x.of) /\ Kind(x.of) # "eventTrigger"
      /\ \A x \in Range(p.indices) : WithIndices(x.of) \/ Kind(x.of) = "connect"
      /\ \A x \in Range(p.triggers) : Kind(x.of) = "eventTrigger"
  BY <1>8 DEF SortedTo, Placed
<1>10. \A x \in Range(lines) : Ends(x) /\ ~LeftOut(x.of) =>
         /\ WithIndices(x.of) => x \in Range(p.indices)
         /\ Kind(x.of) = "view" => x \in Range(p.views)
         /\ Kind(x.of) = "eventTrigger" => x \in Range(p.triggers)
         /\ ~WithIndices(x.of) /\ Kind(x.of) \notin {"view", "eventTrigger"} =>
              x \in Range(p.filtered)
         /\ Kind(x.of) = "role" => Text[x.of].roles \subseteq DOMAIN p.roles
  BY <1>8 DEF SortedTo
<1> DEFINE K == {line \in Range(p.triggers) :
                   Ends(line) /\ Text[line.of].schema \in AskedSchemas}
<1>11. /\ last \in Seq(DumpLine) /\ InOrder(Place, last) /\ Range(last) = Range(p.triggers) \cap K
  <2> DEFINE T == DumpLine
             rank == Place
             e == p.triggers
  <2>1. last = Selected(e, K)
    BY DEF FilterTriggers, last
  <2>2. rank \in [T -> Int] /\ e \in Seq(T) /\ InOrder(rank, e)
    BY <1>9, PlaceFacts
  <2> HIDE DEF T, rank, e, K
  <2>3. /\ Selected(e, K) \in Seq(T) /\ InOrder(rank, Selected(e, K))
        /\ Range(Selected(e, K)) = Range(e) \cap K
    BY <2>2, SelectedInOrder
  <2> QED BY <2>1, <2>3 DEF T, rank, e
<1>12. /\ p.filtered \o last \in Seq(DumpLine) /\ InOrder(Later, p.filtered \o last)
       /\ Range(p.filtered \o last) = Range(p.filtered) \cup Range(last)
  <2> DEFINE a == p.filtered
             b == last
  <2>1. /\ \A i \in 1..Len(a) : a[i] \in DumpLine /\ a[i] \in Range(a)
        /\ \A x \in Range(a) : x \in DumpLine
        /\ \A i \in 1..Len(b) : b[i] \in DumpLine /\ b[i] \in Range(b)
        /\ \A x \in Range(b) : x \in DumpLine
    BY <1>9, <1>11, SeqRange
  <2>2. \A x \in Range(a) : Later[x] = Place[x] /\ Place[x] \in Nat /\ Place[x] <= Len(case.dump)
    BY <1>9, <2>1, LaterFacts
  <2>3. \A x \in Range(b) : /\ Later[x] = Place[x] + Len(case.dump) /\ Place[x] \in Nat
                            /\ Len(case.dump) \in Nat
    BY <1>9, <1>11, <2>1, LaterFacts
  <2>4. InOrder(Later, a)
    BY <1>9, <2>1, <2>2 DEF InOrder
  <2>5. InOrder(Later, b)
    <3> SUFFICES ASSUME NEW i \in 1..Len(b), NEW j \in 1..Len(b), i <= j
                 PROVE  Later[b[i]] <= Later[b[j]]
      BY DEF InOrder
    <3>1. Place[b[i]] <= Place[b[j]]
      BY <1>11 DEF InOrder
    <3> QED BY <2>1, <2>3, <3>1
  <2>6. \A x \in Range(a), y \in Range(b) : Later[x] <= Later[y]
    BY <2>2, <2>3
  <2>7. a \in Seq(DumpLine) /\ b \in Seq(DumpLine)
    BY <1>9, <1>11
  <2> QED BY <2>4, <2>5, <2>6, <2>7, ConcatLater
<1>13. \A x \in Range(d.filtered) : ~WithIndices(x.of)
  <2>1. \A x \in DumpLine : Kind(x.of) = "eventTrigger" => ~WithIndices(x.of)
    BY DEF WithIndices, IndexClasses
  <2>2. \A x \in Range(p.triggers) : x \in DumpLine
    BY <1>9, SeqRange
  <2> QED BY <1>7, <1>9, <1>11, <1>12, <2>1, <2>2
<1>14. ASSUME tables \in ExcludeTables, NEW s \in Due
       PROVE  /\ s \in DueFirst => Has(d.filtered, s)
              /\ s \in DueIndices => Has(d.indices, s)
              /\ s \in DueViews => Has(d.views, s)
              /\ Kind(s) = "role" => Text[s].roles \subseteq DOMAIN d.roles
  <2>1. s \in Statements /\ s \in DOMAIN Text /\ Asked(s) /\ Text[s].roles \cap Managed = {}
    BY DumpPlaces DEF Due
  <2>2. PICK x \in DumpLine : Ends(x) /\ x.of = s
    BY <2>1, LastLine
  <2>3. x \in Range(lines)
    BY <1>3, <1>14, <2>2, DumpedInOrder
  <2>4. ~LeftOut(s) /\ Text[s].schema \in AskedSchemas
    BY <2>1 DEF LeftOut, Asked
  <2>5. /\ WithIndices(s) => x \in Range(p.indices)
        /\ Kind(s) = "view" => x \in Range(p.views)
        /\ Kind(s) = "eventTrigger" => x \in Range(p.triggers)
        /\ ~WithIndices(s) /\ Kind(s) \notin {"view", "eventTrigger"} => x \in Range(p.filtered)
        /\ Kind(s) = "role" => Text[s].roles \subseteq DOMAIN p.roles
    BY <1>10, <2>2, <2>3, <2>4
  <2>6. Kind(s) = "eventTrigger" => x \in Range(last)
    BY <1>11, <2>2, <2>4, <2>5
  <2>7. s \in DueFirst => x \in Range(d.filtered)
    BY <1>7, <1>12, <2>5, <2>6 DEF DueFirst
  <2> QED BY <1>7, <2>2, <2>5, <2>7 DEF Has, DueIndices, DueViews
<1> QED BY <1>7, <1>9, <1>12, <1>13, <1>14

-----------------------------------------------------------------------------
(* What is due is made, section by section.                                *)

RolesThere == \A s \in Due : Text[s].roles \subseteq objects \cup Predefined

LEMMA SectionMakes ==
  ASSUME case \in Cases, ~case.toWAL, RolesThere, NEW lines \in Seq(DumpLine),
         NEW rank \in {Place, Later}, InOrder(rank, lines), ~Restored(lines).critical,
         NEW D \in SUBSET Due, \A s \in D : Has(lines, s),
         \A s \in D : \A n \in Text[s].needs : n \in objects \/ n \in D
  PROVE  /\ objects \subseteq Restored(lines).objects /\ D \subseteq Restored(lines).objects
         /\ Restored(lines).objects \subseteq objects \cup {x.of : x \in Range(lines)}
<1> DEFINE start == [objects |-> objects, pending |-> <<>>, critical |-> FALSE]
<1>1. Restored(lines) = FoldLeft(RestoreLine, start, lines)
  BY DEF Restored
<1>2. IsSession(start) /\ start.objects = objects
  BY DEF IsSession
<1>3. rank \in [DumpLine -> Int]
  BY PlaceFacts, LaterFacts
<1>4. ASSUME NEW s \in D, NEW n \in Text[s].needs, n \notin objects
      PROVE  n \in D /\ \A x, y \in DumpLine : x.of = n /\ y.of = s => rank[x] < rank[y]
  <2>1. n \in D /\ Kind(n) # "eventTrigger" /\ At[n] < At[s]
    BY <1>4, DueCloses
  <2>2. ASSUME NEW x \in DumpLine, NEW y \in DumpLine, x.of = n, y.of = s
        PROVE  rank[x] < rank[y]
    <3>1. Place[x] = At[n] /\ Place[y] = At[s]
      BY <2>2, PlaceFacts
    <3>2. Place[x] < Place[y]
      BY <2>1, <3>1
    <3>3. /\ Later[x] = Place[x] /\ Place[x] \in Nat /\ Place[y] \in Nat /\ Len(case.dump) \in Nat
          /\ Later[y] = Place[y] \/ Later[y] = Place[y] + Len(case.dump)
      BY <2>1, <2>2, LaterFacts
    <3>4. Later[x] < Later[y]
      BY <3>2, <3>3
    <3> QED BY <3>2, <3>4
  <2> QED BY <2>1, <2>2
<1>5. \A s \in D : /\ Text[s].roles \subseteq start.objects \cup Predefined
                   /\ \E x \in Range(lines) : Ends(x) /\ x.of = s
  BY <1>2 DEF RolesThere, Has
<1> HIDE DEF start
<1>6. \A s \in D : \A n \in Text[s].needs :
        n \in start.objects \/
        (n \in D /\ \A x, y \in DumpLine : x.of = n /\ y.of = s => rank[x] < rank[y])
  BY <1>2, <1>4
<1> DEFINE made == FoldLeft(RestoreLine, start, lines)
<1>7. ~made.critical
  BY <1>1
<1>8. /\ start.objects \subseteq made.objects /\ D \subseteq made.objects
      /\ made.objects \subseteq start.objects \cup {x.of : x \in Range(lines)}
  BY <1>2, <1>3, <1>5, <1>6, <1>7, RestoreMakes
<1> QED BY <1>1, <1>2, <1>8

-----------------------------------------------------------------------------
(* The roles that are restored.                                            *)

\* A role of the dump is not lost while what it is granted is added.
LEMMA KeepGrows ==
  ASSUME case \in Cases, NEW k \in KeptRoles
  PROVE  DOMAIN dump.roles \subseteq DOMAIN k
<1>1. PICK order \in SetToSeqs(case.roles) : k = FoldLeft(AddDeps, dump.roles, order)
  BY DEF KeptRoles
<1>2. order \in Seq(case.roles)
  <2> DEFINE n == Cardinality(case.roles)
  <2>1. n \in Nat
    BY DumpAssumption, FS_CardinalityType
  <2>2. order \in [1..n -> case.roles]
    BY <1>1 DEF SetToSeqs
  <2> HIDE DEF n
  <2> QED BY <2>1, <2>2, SeqDef
<1> DEFINE N == Len(order)
<1>3. N \in Nat
  BY <1>2, LenProperties
<1>4. PICK t : Looped("roles", dump.roles, order, t) /\ t[N] = FoldLeft(AddDeps, dump.roles, order)
  BY <1>2, RoleLoops
<1>5. t[0] = dump.roles /\ \A n \in 1..N : t[n] = AddDeps(t[n - 1], order[n])
  BY <1>4 DEF Looped, Step
<1>6. ASSUME NEW m, NEW role PROVE DOMAIN m \subseteq DOMAIN AddDeps(m, role)
  <2> DEFINE new == [d \in Deps(role) |-> FALSE]
             grown == [x \in DOMAIN new \cup DOMAIN m |-> IF x \in DOMAIN new THEN new[x] ELSE m[x]]
  <2>1. AddDeps(m, role) = m \/ AddDeps(m, role) = grown
    BY DEF AddDeps, Noted
  <2>2. DOMAIN grown = DOMAIN new \cup DOMAIN m
    OBVIOUS
  <2> HIDE DEF grown, new
  <2> QED BY <2>1, <2>2
<1> DEFINE Good == {n \in 0..N : DOMAIN dump.roles \subseteq DOMAIN t[n]}
<1> HIDE DEF N
<1>7. 0 \in Good
  BY <1>3, <1>5
<1>8. ASSUME NEW n \in 0..N, n \in Good, n < N PROVE n + 1 \in Good
  <2>1. n + 1 \in 1..N /\ (n + 1) - 1 = n /\ n + 1 \in 0..N
    BY <1>3, <1>8
  <2>2. t[n + 1] = AddDeps(t[n], order[n + 1])
    BY <1>5, <2>1
  <2>3. DOMAIN t[n] \subseteq DOMAIN t[n + 1]
    BY <1>6, <2>2
  <2> QED BY <1>8, <2>1, <2>3
<1>9. \A n \in 0..N : n \in Good
  <2> HIDE DEF Good
  <2>1. \A n \in 0..N : n \in Good /\ n < N => n + 1 \in Good
    BY <1>8
  <2> QED BY <1>3, <1>7, <2>1, UpTo
<1>10. N \in Good
  BY <1>3, <1>9
<1> QED BY <1>1, <1>4, <1>10

\* The roles that are due are there once the roles are restored.
LEMMA RolesMade ==
  ASSUME case \in Cases, case.copyRoles => DOMAIN dump.roles \subseteq DOMAIN keep,
         \A s \in Due : Kind(s) = "role" => Text[s].roles \subseteq DOMAIN dump.roles,
         NEW s \in Due
  PROVE  Text[s].roles \subseteq CreatedRoles \cup Predefined
<1>1. /\ s \in Statements /\ s \in DOMAIN Text /\ Text[s].roles \cap Managed = {}
      /\ Text[s].roles = {} \/ case.copyRoles
  BY DumpPlaces DEF Due
<1>2. Text[s].roles # {} => Text[s].roles \subseteq DOMAIN keep
  BY <1>1, DumpAssumption
<1>3. Text[s].roles \subseteq case.roles \cup Predefined
  BY <1>1, DumpPlaces
<1> QED BY <1>1, <1>2, <1>3 DEF CreatedRoles, Restorable

-----------------------------------------------------------------------------
(* What is restored, call by call.                                         *)

\* Indexes, keys and triggers that are made after the rows.
Late == {s \in Statements : WithIndices(s) /\ ~Text[s].unique}

\* What DumpSorted says of a dump, of the one that was taken.
Sorted ==
  /\ dump.filtered \in Seq(DumpLine) /\ InOrder(Later, dump.filtered)
  /\ dump.indices \in Seq(DumpLine) /\ InOrder(Place, dump.indices)
  /\ dump.views \in Seq(DumpLine) /\ InOrder(Place, dump.views)
  /\ \A x \in Range(dump.filtered) : ~WithIndices(x.of)
  /\ \A x \in Range(dump.indices) : WithIndices(x.of) \/ Kind(x.of) = "connect"
  /\ \A s \in Due :
       /\ s \in DueFirst => Has(dump.filtered, s)
       /\ s \in DueIndices => Has(dump.indices, s)
       /\ s \in DueViews => Has(dump.views, s)
       /\ Kind(s) = "role" => Text[s].roles \subseteq DOMAIN dump.roles

\* What each call has left when the next is made.
Made ==
  /\ stage \notin {"dump", "error"} => Sorted
  /\ stage \notin {"dump", "roles", "error"} /\ case.copyRoles =>
       DOMAIN dump.roles \subseteq DOMAIN keep
  /\ stage \in {"schema", "targets", "data", "indices", "views", "ok"} => RolesThere
  /\ stage \in {"targets", "data", "indices", "views", "ok"} => DueFirst \subseteq objects
  /\ SplitsTargets /\ stage \in {"data", "indices", "views", "ok"} => DueKeys \subseteq objects
  /\ stage \in {"views", "ok"} => DueIndices \subseteq objects
  /\ stage = "ok" => DueViews \subseteq objects
  /\ attempt = 1 /\ ~case.full /\ stage \notin {"indices", "views", "ok", "error"} =>
       objects \cap Late = {}

MadeInv ==
  /\ case \in Cases /\ attempt \in Nat \ {0}
  /\ ~case.toWAL /\ AskedSchemas # {} => Made

LEMMA SameDue ==
  ASSUME UNCHANGED case
  PROVE  /\ Statements' = Statements /\ AskedSchemas' = AskedSchemas /\ DumpLine' = DumpLine
         /\ Due' = Due /\ DueFirst' = DueFirst /\ DueIndices' = DueIndices
         /\ DueKeys' = DueKeys /\ DueViews' = DueViews /\ Late' = Late
         /\ At' = At /\ Place' = Place /\ Later' = Later
         /\ (SplitsTargets' <=> SplitsTargets)
<1>1. Statements' = Statements
  BY DEF Statements
<1>2. AskedSchemas' = AskedSchemas
  BY <1>1 DEF AskedSchemas
<1>3. \A x : TablesIn(x)' = TablesIn(x)
  BY <1>1 DEF TablesIn
<1>4. \A x : AskedTables(x)' = AskedTables(x)
  BY <1>3 DEF AskedTables
<1>5. \A s : (Asked(s))' <=> Asked(s)
  BY <1>2, <1>4 DEF Asked
<1>6. \A s : (OnView(s))' <=> OnView(s)
  BY <1>1 DEF OnView
<1>7. Due' = Due
  BY <1>1, <1>5, <1>6 DEF Due
<1>8. /\ DueFirst' = DueFirst /\ DueIndices' = DueIndices /\ DueKeys' = DueKeys
      /\ DueViews' = DueViews
  BY <1>7 DEF DueFirst, DueIndices, DueKeys, DueViews
<1>9. Late' = Late /\ DumpLine' = DumpLine /\ (SplitsTargets' <=> SplitsTargets)
  BY <1>1 DEF Late, DumpLine, SplitsTargets
<1>10. At' = At
  BY <1>1 DEF At
<1>11. Place' = Place
  BY <1>9, <1>10 DEF Place
<1>12. Later' = Later
  BY <1>9, <1>11 DEF Later
<1> QED BY <1>1, <1>2, <1>7, <1>8, <1>9, <1>10, <1>11, <1>12

\* A call that only goes on.
LEMMA SameSorted == UNCHANGED <<case, dump>> => (Sorted' <=> Sorted)
<1> SUFFICES ASSUME UNCHANGED <<case, dump>> PROVE Sorted' <=> Sorted
  OBVIOUS
<1>1. dump' = dump
  OBVIOUS
<1>2. /\ DumpLine' = DumpLine /\ Place' = Place /\ Later' = Later /\ Due' = Due
      /\ DueFirst' = DueFirst /\ DueIndices' = DueIndices /\ DueViews' = DueViews
  BY SameDue
<1> QED BY <1>1, <1>2 DEF Sorted

LEMMA MadeError == MadeInv /\ UNCHANGED <<case, attempt>> /\ stage' = "error" => MadeInv'
BY SameDue DEF MadeInv, Made

\* What was made and is not lost.
LEMMA MadeGoesOn ==
  ASSUME MadeInv, UNCHANGED <<case, stage, dump, keep, objects, attempt>>
  PROVE  MadeInv'
<1>1. (Sorted' <=> Sorted) /\ (RolesThere' <=> RolesThere)
  BY SameSorted, SameDue DEF RolesThere
<1> QED BY <1>1, SameDue DEF MadeInv, Made

LEMMA MadeSuffices ==
  MadeInv /\ UNCHANGED <<case, attempt>>
    /\ (~case.toWAL /\ AskedSchemas # {} /\ stage' # "error" => Made') => MadeInv'
BY SameDue, MadeError DEF MadeInv

\* A restore of a section ends with what it makes, or the snapshot does.
LEMMA RestoreDumpEnds ==
  ASSUME NEW lines, NEW next, RestoreDump(lines, next)
  PROVE  /\ UNCHANGED <<case, dump, keep, attempt>>
         /\ \/ stage' = "error"
            \/ /\ stage' = next /\ objects' = Restored(lines).objects
               /\ ~Restored(lines).critical
BY DEF RestoreDump

\* The two parts of the indices.
LEMMA PartsInOrder ==
  ASSUME case \in Cases, Sorted
  PROVE  /\ Targets \in Seq(DumpLine) /\ InOrder(Place, Targets)
         /\ Remaining \in Seq(DumpLine) /\ InOrder(Place, Remaining)
         /\ \A s \in DueKeys : Has(Targets, s)
         /\ \A s \in DueIndices \ DueKeys : Has(Remaining, s)
         /\ \A x \in Range(Targets) : x.of \notin Late
<1> DEFINE T == DumpLine
           rank == Place
           e == dump.indices
           S == {line \in Range(e) : IsTarget(line)}
           R == {line \in Range(e) : Class(line) = "connect" \/ ~Text[line.of].unique}
<1>1. Targets = Selected(e, S) /\ Remaining = Selected(e, R)
  BY DEF Targets, Remaining
<1>2. rank \in [T -> Int] /\ e \in Seq(T) /\ InOrder(rank, e)
  BY PlaceFacts DEF Sorted
<1> HIDE DEF T, rank, e, S, R
<1>3. /\ Selected(e, S) \in Seq(T) /\ InOrder(rank, Selected(e, S))
      /\ Range(Selected(e, S)) = Range(e) \cap S
  BY <1>2, SelectedInOrder
<1>4. /\ Selected(e, R) \in Seq(T) /\ InOrder(rank, Selected(e, R))
      /\ Range(Selected(e, R)) = Range(e) \cap R
  BY <1>2, SelectedInOrder
<1>5. ASSUME NEW s \in DueKeys PROVE Has(Targets, s)
  <2>1. PICK x \in Range(e) : Ends(x) /\ x.of = s
    BY DEF DueKeys, DueIndices, Sorted, Has, e
  <2>2. x \in S
    BY <2>1 DEF S, IsTarget, DueKeys
  <2> QED BY <1>1, <1>3, <2>1, <2>2 DEF Has
<1>6. ASSUME NEW s \in DueIndices \ DueKeys PROVE Has(Remaining, s)
  <2>1. PICK x \in Range(e) : Ends(x) /\ x.of = s
    BY DEF DueIndices, Sorted, Has, e
  <2>2. x \in R
    BY <2>1 DEF R, DueKeys, DueIndices
  <2> QED BY <1>1, <1>4, <2>1, <2>2 DEF Has
<1>7. ASSUME NEW x \in Range(Targets) PROVE x.of \notin Late
  <2>1. Kind(x.of) = "connect" \/ Text[x.of].unique
    BY <1>1, <1>3 DEF S, IsTarget
  <2>2. Kind(x.of) = "connect" => ~WithIndices(x.of)
    BY DEF WithIndices, IndexClasses
  <2> QED BY <2>1, <2>2 DEF Late
<1> QED BY <1>1, <1>3, <1>4, <1>5, <1>6, <1>7 DEF T, rank

LEMMA RanksAreTwo == Place \in {Place, Later} /\ Later \in {Place, Later}
OBVIOUS

LEMMA MadeSchema == MadeInv /\ RestoreSchema => MadeInv'
<1> SUFFICES ASSUME MadeInv, RestoreSchema PROVE MadeInv'
  OBVIOUS
<1> SUFFICES ASSUME ~case.toWAL, AskedSchemas # {}, stage' # "error" PROVE Made'
  <2>1. UNCHANGED <<case, attempt>>
    BY DEF RestoreSchema, RestoreDump
  <2> QED BY <2>1, MadeSuffices
<1> DEFINE next == IF SplitsTargets THEN "targets" ELSE "data"
           lines == dump.filtered
<1>1. stage = "schema" /\ RestoreDump(lines, next)
  BY DEF RestoreSchema
<1>2. case \in Cases /\ attempt \in Nat \ {0} /\ Sorted /\ RolesThere /\ Made
  BY <1>1 DEF MadeInv, Made
<1> HIDE DEF next
<1>3. /\ UNCHANGED <<case, dump, keep, attempt>> /\ stage' = next
      /\ objects' = Restored(lines).objects /\ ~Restored(lines).critical
  BY <1>1, RestoreDumpEnds
<1>4. lines \in Seq(DumpLine) /\ InOrder(Later, lines) /\ \A s \in DueFirst : Has(lines, s)
  BY <1>2 DEF Sorted, DueFirst
<1>5. \A s \in DueFirst : \A n \in Text[s].needs : n \in objects \/ n \in DueFirst
  BY <1>2, DueCloses DEF DueFirst
<1>6. DueFirst \in SUBSET Due
  BY DEF DueFirst
<1>7. /\ objects \subseteq objects' /\ DueFirst \subseteq objects'
      /\ objects' \subseteq objects \cup {x.of : x \in Range(lines)}
  <2> DEFINE rank == Later
             D == DueFirst
  <2>1. /\ rank \in {Place, Later} /\ InOrder(rank, lines) /\ D \in SUBSET Due
        /\ \A s \in D : Has(lines, s)
        /\ \A s \in D : \A n \in Text[s].needs : n \in objects \/ n \in D
    BY <1>4, <1>5, <1>6
  <2> HIDE DEF rank, D, lines
  <2>2. /\ objects \subseteq Restored(lines).objects /\ D \subseteq Restored(lines).objects
        /\ Restored(lines).objects \subseteq objects \cup {x.of : x \in Range(lines)}
    BY <1>2, <1>3, <1>4, <2>1, SectionMakes
  <2> QED BY <1>3, <2>2 DEF D
<1>8. \A x \in Range(lines) : x.of \notin Late
  BY <1>2 DEF Sorted, Late
<1>9. /\ Sorted' /\ RolesThere' /\ DueFirst' \subseteq objects'
      /\ (attempt' = 1 /\ ~case'.full => objects' \cap Late' = {})
      /\ (case'.copyRoles => DOMAIN dump'.roles \subseteq DOMAIN keep')
  <2>1. Sorted'
    BY <1>2, <1>3, SameSorted
  <2>2. RolesThere'
    BY <1>2, <1>3, <1>7, SameDue DEF RolesThere
  <2>3. attempt = 1 /\ ~case.full => objects \cap Late = {}
    BY <1>1, <1>2 DEF Made
  <2>4. case.copyRoles => DOMAIN dump.roles \subseteq DOMAIN keep
    BY <1>1, <1>2 DEF Made
  <2> QED BY <1>3, <1>7, <1>8, <2>1, <2>2, <2>3, <2>4, SameDue
<1>10. stage' \in {"targets", "data"} /\ (SplitsTargets' => stage' = "targets")
  BY <1>3, SameDue DEF next
<1> QED BY <1>9, <1>10 DEF Made

\* Restoring a section in the order of the dump: SectionMakes, of one call.
LEMMA SectionRestored ==
  ASSUME case \in Cases, ~case.toWAL, RolesThere, NEW lines \in Seq(DumpLine),
         InOrder(Place, lines), NEW next, RestoreDump(lines, next), stage' # "error",
         NEW D \in SUBSET Due, \A s \in D : Has(lines, s),
         \A s \in D : \A n \in Text[s].needs : n \in objects \/ n \in D
  PROVE  /\ UNCHANGED <<case, dump, keep, attempt>> /\ stage' = next
         /\ objects \subseteq objects' /\ D \subseteq objects'
         /\ objects' \subseteq objects \cup {x.of : x \in Range(lines)}
         /\ RolesThere'
<1>1. /\ UNCHANGED <<case, dump, keep, attempt>> /\ stage' = next
      /\ objects' = Restored(lines).objects /\ ~Restored(lines).critical
  BY RestoreDumpEnds
<1> DEFINE rank == Place
<1>2. rank \in {Place, Later} /\ InOrder(rank, lines)
  OBVIOUS
<1> HIDE DEF rank
<1>3. /\ objects \subseteq Restored(lines).objects /\ D \subseteq Restored(lines).objects
      /\ Restored(lines).objects \subseteq objects \cup {x.of : x \in Range(lines)}
  BY <1>1, <1>2, SectionMakes
<1>4. RolesThere'
  BY <1>1, <1>3, SameDue DEF RolesThere
<1> QED BY <1>1, <1>3, <1>4

LEMMA MadeTargets == MadeInv /\ stage = "targets" /\ RestoreDump(Targets, "data") => MadeInv'
<1> SUFFICES ASSUME MadeInv, stage = "targets", RestoreDump(Targets, "data") PROVE MadeInv'
  OBVIOUS
<1> SUFFICES ASSUME ~case.toWAL, AskedSchemas # {}, stage' # "error" PROVE Made'
  <2>1. UNCHANGED <<case, attempt>>
    BY DEF RestoreDump
  <2> QED BY <2>1, MadeSuffices
<1>1. /\ case \in Cases /\ Sorted /\ RolesThere /\ DueFirst \subseteq objects
      /\ attempt = 1 /\ ~case.full => objects \cap Late = {}
      /\ case.copyRoles => DOMAIN dump.roles \subseteq DOMAIN keep
  BY DEF MadeInv, Made
<1>2. /\ Targets \in Seq(DumpLine) /\ InOrder(Place, Targets)
      /\ \A s \in DueKeys : Has(Targets, s)
      /\ \A x \in Range(Targets) : x.of \notin Late
  BY <1>1, PartsInOrder
<1>3. DueKeys \in SUBSET Due
  BY DEF DueKeys
<1>4. ASSUME NEW s \in DueKeys, NEW n \in Text[s].needs PROVE n \in objects
  <2>1. n \in Due /\ Kind(n) # "view" /\ ~WithIndices(n)
    BY <1>1, <1>4, DueCloses DEF DueKeys
  <2> QED BY <1>1, <2>1 DEF DueFirst
<1>5. /\ UNCHANGED <<case, dump, keep, attempt>> /\ stage' = "data"
      /\ objects \subseteq objects' /\ DueKeys \subseteq objects'
      /\ objects' \subseteq objects \cup {x.of : x \in Range(Targets)}
      /\ RolesThere'
  <2> DEFINE lines == Targets
             D == DueKeys
             next == "data"
  <2>1. /\ lines \in Seq(DumpLine) /\ InOrder(Place, lines) /\ RestoreDump(lines, next)
        /\ D \in SUBSET Due /\ \A s \in D : Has(lines, s)
        /\ \A s \in D : \A n \in Text[s].needs : n \in objects \/ n \in D
    BY <1>2, <1>3, <1>4
  <2> HIDE DEF lines, D, next
  <2>2. /\ UNCHANGED <<case, dump, keep, attempt>> /\ stage' = next
        /\ objects \subseteq objects' /\ D \subseteq objects'
        /\ objects' \subseteq objects \cup {x.of : x \in Range(lines)}
        /\ RolesThere'
    BY <1>1, <2>1, SectionRestored
  <2> QED BY <2>2 DEF lines, D, next
<1>6. Sorted'
  BY <1>1, <1>5, SameSorted
<1>7. /\ DueFirst' \subseteq objects' /\ DueKeys' \subseteq objects'
      /\ attempt' = 1 /\ ~case'.full => objects' \cap Late' = {}
      /\ case'.copyRoles => DOMAIN dump'.roles \subseteq DOMAIN keep'
  BY <1>1, <1>2, <1>5, SameDue
<1> QED BY <1>5, <1>6, <1>7 DEF Made

LEMMA MadeIndices ==
  MadeInv /\ stage = "indices"
    /\ RestoreDump(IF SplitsTargets THEN Remaining ELSE dump.indices, "views") => MadeInv'
<1> DEFINE lines == IF SplitsTargets THEN Remaining ELSE dump.indices
           D == IF SplitsTargets THEN DueIndices \ DueKeys ELSE DueIndices
           next == "views"
<1> SUFFICES ASSUME MadeInv, stage = "indices", RestoreDump(lines, next) PROVE MadeInv'
  OBVIOUS
<1> SUFFICES ASSUME ~case.toWAL, AskedSchemas # {}, stage' # "error" PROVE Made'
  <2>1. UNCHANGED <<case, attempt>>
    BY DEF RestoreDump
  <2> QED BY <2>1, MadeSuffices
<1>1. /\ case \in Cases /\ Sorted /\ RolesThere /\ DueFirst \subseteq objects
      /\ SplitsTargets => DueKeys \subseteq objects
      /\ case.copyRoles => DOMAIN dump.roles \subseteq DOMAIN keep
  BY DEF MadeInv, Made
<1>2. lines \in Seq(DumpLine) /\ InOrder(Place, lines) /\ \A s \in D : Has(lines, s)
  <2>1. /\ dump.indices \in Seq(DumpLine) /\ InOrder(Place, dump.indices)
        /\ \A s \in DueIndices : Has(dump.indices, s)
    BY <1>1 DEF Sorted, DueIndices
  <2>2. /\ Remaining \in Seq(DumpLine) /\ InOrder(Place, Remaining)
        /\ \A s \in DueIndices \ DueKeys : Has(Remaining, s)
    BY <1>1, PartsInOrder
  <2>3. CASE SplitsTargets
    BY <2>2, <2>3
  <2>4. CASE ~SplitsTargets
    BY <2>1, <2>4
  <2> QED BY <2>3, <2>4
<1>3. D \in SUBSET Due
  BY DEF DueIndices
<1>4. ASSUME NEW s \in D, NEW n \in Text[s].needs PROVE n \in objects \/ n \in D
  <2>1. n \in Due /\ Kind(n) # "view"
    BY <1>1, <1>3, <1>4, DueCloses
  <2>2. CASE ~WithIndices(n)
    BY <1>1, <2>1, <2>2 DEF DueFirst
  <2>3. CASE WithIndices(n)
    BY <1>1, <2>1, <2>3 DEF DueIndices
  <2> QED BY <2>2, <2>3
<1> HIDE DEF lines, D, next
<1>5. /\ UNCHANGED <<case, dump, keep, attempt>> /\ stage' = next
      /\ objects \subseteq objects' /\ D \subseteq objects' /\ RolesThere'
  BY <1>1, <1>2, <1>3, <1>4, SectionRestored
<1>6. DueIndices \subseteq objects' /\ DueKeys \subseteq DueIndices
  BY <1>1, <1>5 DEF D, DueKeys, DueIndices
<1>7. Sorted'
  BY <1>1, <1>5, SameSorted
<1>8. /\ DueFirst' \subseteq objects' /\ DueKeys' \subseteq objects' /\ DueIndices' \subseteq objects'
      /\ case'.copyRoles => DOMAIN dump'.roles \subseteq DOMAIN keep'
  BY <1>1, <1>5, <1>6, SameDue
<1> QED BY <1>5, <1>7, <1>8 DEF Made, next

LEMMA MadeViews == MadeInv /\ RestoreViews => MadeInv'
<1> DEFINE lines == dump.views
           D == DueViews
           next == "ok"
<1> SUFFICES ASSUME MadeInv, stage = "views", RestoreDump(lines, next) PROVE MadeInv'
  BY DEF RestoreViews
<1> SUFFICES ASSUME ~case.toWAL, AskedSchemas # {}, stage' # "error" PROVE Made'
  <2>1. UNCHANGED <<case, attempt>>
    BY DEF RestoreDump
  <2> QED BY <2>1, MadeSuffices
<1>1. /\ case \in Cases /\ Sorted /\ RolesThere /\ DueFirst \subseteq objects
      /\ DueIndices \subseteq objects
      /\ case.copyRoles => DOMAIN dump.roles \subseteq DOMAIN keep
  BY DEF MadeInv, Made
<1>2. lines \in Seq(DumpLine) /\ InOrder(Place, lines) /\ \A s \in D : Has(lines, s)
  BY <1>1 DEF Sorted, DueViews
<1>3. D \in SUBSET Due
  BY DEF DueViews
<1>4. ASSUME NEW s \in D, NEW n \in Text[s].needs PROVE n \in objects \/ n \in D
  <2>1. n \in Due /\ Kind(n) # "view"
    BY <1>1, <1>3, <1>4, DueCloses
  <2>2. n \in DueFirst \/ n \in DueIndices
    BY <2>1 DEF DueFirst, DueIndices
  <2> QED BY <1>1, <2>2
<1> HIDE DEF lines, D, next
<1>5. /\ UNCHANGED <<case, dump, keep, attempt>> /\ stage' = next
      /\ objects \subseteq objects' /\ D \subseteq objects' /\ RolesThere'
  BY <1>1, <1>2, <1>3, <1>4, SectionRestored
<1>6. Sorted'
  BY <1>1, <1>5, SameSorted
<1>7. /\ DueFirst' \subseteq objects' /\ DueIndices' \subseteq objects' /\ DueViews' \subseteq objects'
      /\ SplitsTargets' => DueKeys' \subseteq objects'
      /\ case'.copyRoles => DOMAIN dump'.roles \subseteq DOMAIN keep'
  <2>1. DueKeys \subseteq DueIndices
    BY DEF DueKeys, DueIndices
  <2> QED BY <1>1, <1>5, <2>1, SameDue DEF D
<1> QED BY <1>5, <1>6, <1>7 DEF Made, next

LEMMA MadeInit == Init => MadeInv
<1> SUFFICES ASSUME Init PROVE MadeInv
  OBVIOUS
<1>1. /\ case \in Cases /\ stage = "dump" /\ attempt = 1
      /\ ~case.full => objects = {}
  BY DEF Init, SchemaInit
<1> QED BY <1>1 DEF MadeInv, Made

LEMMA MadeDump == MadeInv /\ DumpSchema => MadeInv'
<1> SUFFICES ASSUME MadeInv, DumpSchema PROVE MadeInv'
  OBVIOUS
<1>1. UNCHANGED <<case, keep, attempt, objects>> /\ stage = "dump" /\ case \in Cases
  BY DEF DumpSchema, restoreVars, MadeInv
<1> SUFFICES ASSUME ~case.toWAL, AskedSchemas # {}, stage' # "error" PROVE Made'
  BY <1>1, MadeSuffices
<1>2. PICK tables \in ExcludeTables : dump' = ParseDump(PgDump(tables)) /\ stage' = "roles"
  BY DEF DumpSchema
<1> DEFINE d == ParseDump(PgDump(tables))
<1>3. /\ d.filtered \in Seq(DumpLine) /\ InOrder(Later, d.filtered)
      /\ d.indices \in Seq(DumpLine) /\ InOrder(Place, d.indices)
      /\ d.views \in Seq(DumpLine) /\ InOrder(Place, d.views)
      /\ \A x \in Range(d.filtered) : ~WithIndices(x.of)
      /\ \A x \in Range(d.indices) : WithIndices(x.of) \/ Kind(x.of) = "connect"
      /\ \A s \in Due :
           /\ s \in DueFirst => Has(d.filtered, s)
           /\ s \in DueIndices => Has(d.indices, s)
           /\ s \in DueViews => Has(d.views, s)
           /\ Kind(s) = "role" => Text[s].roles \subseteq DOMAIN d.roles
  BY <1>1, DumpSorted
<1> HIDE DEF d
<1>4. dump' = d
  BY <1>2 DEF d
<1>5. /\ DumpLine' = DumpLine /\ Place' = Place /\ Later' = Later /\ Due' = Due
      /\ DueFirst' = DueFirst /\ DueIndices' = DueIndices /\ DueViews' = DueViews
  BY <1>1, SameDue
<1>6. Sorted'
  BY <1>3, <1>4, <1>5 DEF Sorted
<1>7. attempt = 1 /\ ~case.full => objects \cap Late = {}
  BY <1>1 DEF MadeInv, Made
<1> QED BY <1>1, <1>2, <1>6, <1>7, SameDue DEF Made

LEMMA MadeRoles == MadeInv /\ DumpRoles => MadeInv'
<1> SUFFICES ASSUME MadeInv, DumpRoles PROVE MadeInv'
  OBVIOUS
<1>1. UNCHANGED <<case, dump, attempt, objects>> /\ stage = "roles" /\ case \in Cases
  BY DEF DumpRoles, restoreVars, MadeInv
<1> SUFFICES ASSUME ~case.toWAL, AskedSchemas # {}, stage' # "error" PROVE Made'
  BY <1>1, MadeSuffices
<1>2. keep' \in (IF case.copyRoles THEN KeptRoles ELSE {NoSections.roles}) /\ stage' = "cleanup"
  BY DEF DumpRoles
<1>3. case.copyRoles => DOMAIN dump.roles \subseteq DOMAIN keep'
  BY <1>1, <1>2, KeepGrows
<1>4. Sorted'
  BY <1>1, SameSorted DEF MadeInv, Made
<1>5. attempt = 1 /\ ~case.full => objects \cap Late = {}
  BY <1>1 DEF MadeInv, Made
<1> QED BY <1>1, <1>2, <1>3, <1>4, <1>5, SameDue DEF Made

LEMMA MadeCleanup == MadeInv /\ RestoreCleanup => MadeInv'
<1> SUFFICES ASSUME MadeInv, RestoreCleanup PROVE MadeInv'
  OBVIOUS
<1>1. UNCHANGED <<case, dump, keep, attempt>> /\ stage = "cleanup"
  BY DEF RestoreCleanup
<1> SUFFICES ASSUME ~case.toWAL, AskedSchemas # {}, stage' # "error" PROVE Made'
  BY <1>1, MadeSuffices
<1>2. objects' \subseteq objects /\ stage' = "restoreRoles"
  BY DEF RestoreCleanup
<1>3. Sorted'
  BY <1>1, SameSorted DEF MadeInv, Made
<1>4. /\ attempt = 1 /\ ~case.full => objects \cap Late = {}
      /\ case.copyRoles => DOMAIN dump.roles \subseteq DOMAIN keep
  BY <1>1 DEF MadeInv, Made
<1> QED BY <1>1, <1>2, <1>3, <1>4, SameDue DEF Made

LEMMA MadeRestoredRoles == MadeInv /\ RestoreRoles => MadeInv'
<1> SUFFICES ASSUME MadeInv, RestoreRoles PROVE MadeInv'
  OBVIOUS
<1>1. UNCHANGED <<case, dump, keep, attempt>> /\ stage = "restoreRoles" /\ case \in Cases
  BY DEF RestoreRoles, MadeInv
<1> SUFFICES ASSUME ~case.toWAL, AskedSchemas # {}, stage' # "error" PROVE Made'
  BY <1>1, MadeSuffices
<1>2. objects' = objects \cup CreatedRoles /\ stage' = "schema"
  BY DEF RestoreRoles
<1>3. /\ attempt = 1 /\ ~case.full => objects \cap Late = {}
      /\ case.copyRoles => DOMAIN dump.roles \subseteq DOMAIN keep
      /\ Sorted
  BY <1>1 DEF MadeInv, Made
<1>4. Sorted'
  BY <1>1, <1>3, SameSorted
<1>5. \A s \in Due : Kind(s) = "role" => Text[s].roles \subseteq DOMAIN dump.roles
  BY <1>3 DEF Sorted
<1>6. \A s \in Due : Text[s].roles \subseteq CreatedRoles \cup Predefined
  BY <1>1, <1>3, <1>5, RolesMade
<1>7. RolesThere'
  BY <1>1, <1>2, <1>6, SameDue DEF RolesThere
<1>8. CreatedRoles \cap Late = {}
  BY <1>1, DumpPlaces, DumpAssumption DEF CreatedRoles, Late
<1> QED BY <1>1, <1>2, <1>3, <1>4, <1>7, <1>8, SameDue DEF Made

LEMMA MadeReturns == MadeInv /\ DataReturns => MadeInv'
<1> SUFFICES ASSUME MadeInv, DataReturns PROVE MadeInv'
  OBVIOUS
<1>1. UNCHANGED <<case, dump, keep, attempt, objects>> /\ stage = "data"
  BY DEF DataReturns, restoreVars
<1> SUFFICES ASSUME ~case.toWAL, AskedSchemas # {}, stage' # "error" PROVE Made'
  BY <1>1, MadeSuffices
<1>2. stage' = "indices"
  BY DEF DataReturns
<1>3. Sorted' /\ (RolesThere' <=> RolesThere)
  BY <1>1, SameSorted, SameDue DEF MadeInv, Made, RolesThere
<1> QED BY <1>1, <1>2, <1>3, SameDue DEF MadeInv, Made

LEMMA MadeAgain == MadeInv /\ Again => MadeInv'
<1> SUFFICES ASSUME MadeInv, Again PROVE MadeInv'
  OBVIOUS
<1>1. stage' = "dump" /\ attempt' = attempt + 1 /\ UNCHANGED case
  BY DEF Again
<1>2. attempt' \in Nat \ {0} /\ attempt' # 1
  BY <1>1 DEF MadeInv
<1> QED BY <1>1, <1>2, SameDue DEF MadeInv, Made

LEMMA MadeStep == MadeInv /\ [Next]_vars => MadeInv'
<1> SUFFICES ASSUME MadeInv, [Next]_vars PROVE MadeInv'
  OBVIOUS
<1>1. CASE FindTables \/ CopySteps
  BY <1>1, MadeGoesOn DEF FindTables, CopySteps
<1>2. CASE TrackerTicks \/ UNCHANGED vars
  BY <1>2, MadeGoesOn DEF TrackerTicks, vars, schemaVars
<1>3. CASE SchemaSteps
  <2>1. CASE RestoreIndices
    <3>1. CASE stage = "targets" /\ RestoreDump(Targets, "data")
      BY <3>1, MadeTargets
    <3>2. CASE /\ stage = "indices"
               /\ RestoreDump(IF SplitsTargets THEN Remaining ELSE dump.indices, "views")
      BY <3>2, MadeIndices
    <3> QED BY <2>1, <3>1, <3>2 DEF RestoreIndices
  <2> QED
    BY <1>3, <2>1, MadeDump, MadeRoles, MadeCleanup, MadeRestoredRoles, MadeSchema,
       MadeReturns, MadeViews, MadeAgain
    DEF SchemaSteps
<1> QED BY <1>1, <1>2, <1>3 DEF Next, Steps

LEMMA AlwaysMade == Spec => []MadeInv
BY MadeInit, MadeStep, PTL DEF Spec

(* A snapshot that is accepted has made what was asked for, whatever the    *)
(* dump holds, as long as its statements look as parseDump takes them to    *)
(* and come after what they need: sorting their lines into sections keeps   *)
(* this order within each section, no section needs one that is restored    *)
(* later, and the roles that a statement names were noted when it was kept. *)
THEOREM AcceptedIsComplete == Spec => []AcceptedSchemaComplete
<1>1. MadeInv => AcceptedSchemaComplete
  <2> SUFFICES ASSUME MadeInv, stage = "ok", ~case.toWAL, NEW s \in Statements, Asked(s),
                      Text[s].roles \cap Managed = {}, Kind(s) # "connect",
                      Text[s].roles = {} \/ case.copyRoles,
                      NeedsAsked(s), ~OnView(s)
               PROVE  s \in objects
    BY DEF AcceptedSchemaComplete
  <2>1. AskedSchemas # {}
    BY DEF Asked
  <2>2. DueFirst \subseteq objects /\ DueIndices \subseteq objects /\ DueViews \subseteq objects
    BY <2>1 DEF MadeInv, Made
  <2>3. s \in Due
    BY DEF Due, NeedsAsked
  <2> QED BY <2>2, <2>3 DEF DueFirst, DueIndices, DueViews
<1> QED BY <1>1, AlwaysMade, PTL

(* When the copy of the rows starts, the tables that were asked for are     *)
(* there, with their keys and unique indexes if those are restored first,   *)
(* and a new target has none of the indexes, foreign keys and triggers that *)
(* RestoreIndices makes after the rows.                                     *)
THEOREM RowsComeBetween == Spec => []DataBetweenSections
<1>1. MadeInv => DataBetweenSections
  <2> SUFFICES ASSUME MadeInv, stage = "data", case.copyData, ~case.toWAL,
                      NEW s \in Statements, Asked(s)
               PROVE  /\ NeedsAsked(s) /\ ~OnView(s)
                           /\ (Kind(s) = "table" \/ (case.targetsFirst /\ Text[s].unique))
                         => s \in objects
                      /\ ~case.full /\ attempt = 1 /\ ~Text[s].unique /\ InIndices(s) =>
                           s \notin objects
    BY DEF DataBetweenSections
  <2>1. AskedSchemas # {} /\ case \in Cases
    BY DEF Asked, MadeInv
  <2>2. /\ Sorted /\ DueFirst \subseteq objects
        /\ SplitsTargets => DueKeys \subseteq objects
        /\ attempt = 1 /\ ~case.full => objects \cap Late = {}
    BY <2>1 DEF MadeInv, Made
  <2>3. /\ Text[s].roles # {} => Kind(s) = "role"
        /\ Text[s].unique => WithIndices(s)
    BY <2>1, DumpPlaces, DumpAssumption
  <2>4. WithIndices(s) => Kind(s) \notin {"connect", "table", "role", "view"}
    BY DEF WithIndices, IndexClasses
  <2>5. ASSUME NeedsAsked(s), ~OnView(s), Kind(s) = "table" PROVE s \in objects
    <3>1. s \in Due /\ ~WithIndices(s)
      BY <2>3, <2>4, <2>5 DEF Due, NeedsAsked
    <3> QED BY <2>2, <2>5, <3>1 DEF DueFirst
  <2>6. ASSUME NeedsAsked(s), ~OnView(s), case.targetsFirst, Text[s].unique PROVE s \in objects
    <3>1. s \in DueKeys
      BY <2>3, <2>4, <2>6 DEF Due, DueKeys, NeedsAsked
    <3>2. SplitsTargets
      BY <2>6 DEF SplitsTargets
    <3> QED BY <2>2, <3>1, <3>2
  <2>7. ASSUME ~case.full, attempt = 1, ~Text[s].unique, InIndices(s) PROVE s \notin objects
    <3>1. s \in Late
      BY <2>2, <2>7 DEF InIndices, Sorted, Late
    <3> QED BY <2>2, <2>7, <3>1
  <2> QED BY <2>5, <2>6, <2>7
<1> QED BY <1>1, AlwaysMade, PTL
=============================================================================
