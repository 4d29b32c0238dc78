------------------------ MODULE SnapshotRecorderProofs ------------------------
(***************************************************************************)
(* What the recorder records as completed without errors has been copied,  *)
(* no request is worked on twice at the same time, and what is left out is *)
(* copied or still asked for, for any tables, schemas, configurations and  *)
(* number of processes.                                                    *)
(*                                                                         *)
(* The first invariant follows the tables of a request: while the snapshot *)
(* is being taken, each is copied, or still to be copied, or an error is   *)
(* waiting to be returned; from then on each is copied, or there is an     *)
(* error.                                                                  *)
(***************************************************************************)
EXTENDS SnapshotRecorder, TLAPS

Wanted(r) == TablesOf(r) \ Excluded

Shape ==
    /\ store \in Seq(Row)
    /\ pc \in [Proc -> {"down", "filter", "request", "copy", "complete"}]
    /\ todo \in [Proc -> SUBSET Asked]
    /\ reqs \in [Proc -> SUBSET Request]
    /\ left \in [Proc -> SUBSET (Table \ Excluded)]
    /\ failed \in [Proc -> BOOLEAN]

CopyAccounted ==
    \A p \in Proc : pc[p] = "copy" /\ ~failed[p] =>
        \A r \in reqs[p] : Wanted(r) \subseteq copied \union left[p]

CompleteAccounted ==
    \A p \in Proc : pc[p] = "complete" /\ ~failed[p] =>
        \A r \in reqs[p] : Wanted(r) \subseteq copied

Inv == Shape /\ CopyAccounted /\ CompleteAccounted /\ CompletedIsCopied
-----------------------------------------------------------------------------
(* Lemmas about rows and requests.                                         *)

LEMMA SameTables ==
    ASSUME NEW a, NEW b, SameRequest(a, b)
    PROVE  TablesOf(a) = TablesOf(b)
BY DEF SameRequest, TablesOf

LEMMA RowsAreRows ==
    ASSUME NEW S, NEW rows \in Seq(S)
    PROVE  /\ DOMAIN rows = 1..Len(rows)
           /\ Len(rows) \in Nat
           /\ \A i \in DOMAIN rows : rows[i] \in S
OBVIOUS

LEMMA FunctionIsRows ==
    ASSUME NEW S, NEW n \in Nat, NEW f \in [1..n -> S]
    PROVE  f \in Seq(S)
OBVIOUS

LEMMA NewRowIsRow ==
    ASSUME NEW r \in Request
    PROVE  /\ NewRow(r) \in Row
           /\ NewRow(r).status = "requested"
BY DEF NewRow, Request, Row, NoErrors

\* An update keeps the rows, one by one, but for the status and the errors of
\* those of a request.
UpdatedStatus == {"in progress", "completed"}
IsUpdate(new, r, status, errors) ==
    /\ new \in Seq(Row)
    /\ DOMAIN new = DOMAIN store
    /\ \A i \in DOMAIN store :
        \/ new[i] = store[i]
        \/ /\ SameRequest(new[i], r)
           /\ new[i].status = status
           /\ new[i].errors = errors

LEMMA UpdatedIsUpdate ==
    ASSUME NEW r \in Request, store \in Seq(Row),
           NEW status \in UpdatedStatus, NEW errors \in {NoErrors, GlobalError}
    PROVE  IsUpdate(Updated(r, status, errors), r, status, errors)
<1>1. \A i \in DOMAIN store : store[i] \in Row
  BY RowsAreRows
<1> DEFINE new == Updated(r, status, errors)
<1>2. DOMAIN new = DOMAIN store
  BY DEF Updated
<1>3. ASSUME NEW i \in DOMAIN store
      PROVE  /\ new[i] \in Row
             /\ \/ new[i] = store[i]
                \/ /\ SameRequest(new[i], r)
                   /\ new[i].status = status
                   /\ new[i].errors = errors
  <2>1. CASE SameRequest(store[i], r) /\ store[i].status # "completed"
    <3>1. new[i] = [store[i] EXCEPT !.status = status, !.errors = errors]
      BY <2>1 DEF Updated
    <3> QED
      BY <3>1, <2>1, <1>1 DEF Row, SameRequest, UpdatedStatus
  <2>2. CASE ~(SameRequest(store[i], r) /\ store[i].status # "completed")
    BY <2>2, <1>1 DEF Updated
  <2> QED
    BY <2>1, <2>2
<1>4. new \in Seq(Row)
  <2>1. DOMAIN new = 1..Len(store) /\ Len(store) \in Nat
    BY <1>2, RowsAreRows
  <2>2. new = [i \in 1..Len(store) |-> new[i]]
    BY <2>1 DEF Updated
  <2> HIDE DEF new
  <2>3. new \in [1..Len(store) -> Row]
    BY <2>1, <2>2, <1>2, <1>3
  <2> QED
    BY <2>1, <2>3, FunctionIsRows
<1> QED
  BY <1>2, <1>3, <1>4 DEF IsUpdate

\* A store to which rows are appended that are not completed stays honest.
LEMMA AppendHonest ==
    ASSUME Inv, NEW r \in Request, store' = Append(store, NewRow(r)),
           UNCHANGED copied
    PROVE  store' \in Seq(Row) /\ CompletedIsCopied'
<1>1. NewRow(r) \in Row /\ NewRow(r).status = "requested"
  BY NewRowIsRow
<1>2. store \in Seq(Row)
  BY DEF Inv, Shape
<1>3. store' \in Seq(Row) /\ DOMAIN store' = 1..Len(store) + 1
  BY <1>1, <1>2
<1>4. ASSUME NEW i \in DOMAIN store', store'[i].status = "completed"
      PROVE  i \in DOMAIN store /\ store'[i] = store[i]
  BY <1>1, <1>2, <1>3, <1>4
<1> QED
  BY <1>3, <1>4 DEF Inv, CompletedIsCopied, TablesOf

LEMMA UpdateHonest ==
    ASSUME Inv, NEW r \in Request,
           NEW status \in UpdatedStatus, NEW errors \in {NoErrors, GlobalError},
           status = "completed" /\ errors = NoErrors => Wanted(r) \subseteq copied,
           store' = Updated(r, status, errors),
           UNCHANGED copied
    PROVE  store' \in Seq(Row) /\ CompletedIsCopied'
<1>1. store \in Seq(Row)
  BY DEF Inv, Shape
<1>2. IsUpdate(store', r, status, errors)
  BY <1>1, UpdatedIsUpdate
<1>3. SUFFICES ASSUME NEW i \in DOMAIN store, store'[i].status = "completed",
                      store'[i].errors = NoErrors
               PROVE  TablesOf(store'[i]) \ Excluded \subseteq copied
  BY <1>2 DEF CompletedIsCopied, TablesOf, IsUpdate
<1>4. CASE store'[i] = store[i]
  BY <1>3, <1>4 DEF Inv, CompletedIsCopied
<1>5. CASE SameRequest(store'[i], r) /\ store'[i].status = status /\ store'[i].errors = errors
  BY <1>3, <1>5, SameTables DEF Wanted
<1> QED
  BY <1>2, <1>4, <1>5 DEF IsUpdate
-----------------------------------------------------------------------------
(* The steps.                                                              *)

LEMMA InitInv == Init => Inv
BY DEF Init, Inv, Shape, CopyAccounted, CompleteAccounted, CompletedIsCopied

\* A process that is down accounts for nothing.
LEMMA DownInv ==
    ASSUME Inv, NEW p \in Proc, Down(p), UNCHANGED <<store, copied>>
    PROVE  Inv'
<1>1. Shape'
  BY DEF Inv, Shape, Down
<1>2. CopyAccounted'
  BY DEF Inv, Shape, Down, CopyAccounted, Wanted, TablesOf
<1>3. CompleteAccounted'
  BY DEF Inv, Shape, Down, CompleteAccounted, Wanted, TablesOf
<1>4. CompletedIsCopied'
  BY DEF Inv, CompletedIsCopied, TablesOf
<1> QED
  BY <1>1, <1>2, <1>3, <1>4 DEF Inv

LEMMA NewRequestIsRequest ==
    ASSUME NEW schema \in SchemaNames, NEW tables \in SUBSET (Table \union {Wildcard})
    PROVE  NewRequest(schema, tables) \in Request
BY DEF NewRequest, Request, Stages

\* Before the snapshot is taken a process accounts for nothing, either.
LEMMA EarlyInv ==
    ASSUME Inv, NEW p \in Proc,
           pc[p] \in {"down", "filter", "request"},
           pc' \in {pc, [pc EXCEPT ![p] = "filter"], [pc EXCEPT ![p] = "request"]},
           todo' \in [Proc -> SUBSET Asked],
           reqs' \in [Proc -> SUBSET Request],
           \A q \in Proc \ {p} : reqs'[q] = reqs[q],
           store' \in Seq(Row), CompletedIsCopied',
           UNCHANGED <<copied, left, failed>>
    PROVE  Inv'
<1>1. Shape'
  BY DEF Inv, Shape
<1>2. \A q \in Proc : pc'[q] \in {"copy", "complete"} =>
         pc'[q] = pc[q] /\ reqs'[q] = reqs[q]
  BY DEF Inv, Shape
<1>3. CopyAccounted'
  BY <1>2 DEF Inv, CopyAccounted, Wanted, TablesOf
<1>4. CompleteAccounted'
  BY <1>2 DEF Inv, CompleteAccounted, Wanted, TablesOf
<1> QED
  BY <1>1, <1>3, <1>4 DEF Inv

\* While the snapshot is taken the store does not change.
LEMMA SameStoreHonest ==
    ASSUME Inv, UNCHANGED store, copied \subseteq copied'
    PROVE  store' \in Seq(Row) /\ CompletedIsCopied'
BY DEF Inv, Shape, CompletedIsCopied, TablesOf

\* A goroutine that moves on keeps the schema and the tables of its request.
LEMMA MovesKeeps ==
    ASSUME Inv, NEW p \in Proc, NEW r \in reqs[p], NEW stage \in Stages,
           Moves(p, r, stage)
    PROVE  /\ r \in Request
           /\ reqs' \in [Proc -> SUBSET Request]
           /\ \A q \in Proc \ {p} : reqs'[q] = reqs[q]
           /\ \A s \in reqs'[p] : \E t \in reqs[p] : Wanted(s) = Wanted(t)
<1> DEFINE moved == [r EXCEPT !.stage = stage]
<1>1. reqs \in [Proc -> SUBSET Request]
  BY DEF Inv, Shape
<1>2. r \in Request
  BY <1>1
<1>3. moved \in Request /\ SameRequest(moved, r)
  BY <1>2 DEF Request, SameRequest
<1>4. Wanted(moved) = Wanted(r)
  BY <1>3, SameTables DEF Wanted
<1>5. reqs' = [reqs EXCEPT ![p] = (@ \ {r}) \union {moved}]
  BY DEF Moves
<1> HIDE DEF moved
<1>6. reqs'[p] = (reqs[p] \ {r}) \union {moved}
  BY <1>1, <1>5
<1>7. \A s \in reqs'[p] : \E t \in reqs[p] : Wanted(s) = Wanted(t)
  BY <1>4, <1>6
<1>8. reqs' \in [Proc -> SUBSET Request]
  BY <1>1, <1>3, <1>5
<1>9. \A q \in Proc \ {p} : reqs'[q] = reqs[q]
  BY <1>1, <1>5
<1> QED
  BY <1>2, <1>7, <1>8, <1>9
-----------------------------------------------------------------------------
LEMMA StartsInv ==
    ASSUME ConstantsOK, Inv, NEW p \in Proc, Starts(p)
    PROVE  Inv'
<1>1. PICK config \in ConfigsOf[p] :
        \/ /\ reqs' = [reqs EXCEPT ![p] =
                          {NewRequest(a.schema, a.tables) : a \in config}]
           /\ UNCHANGED todo
        \/ /\ todo' = [todo EXCEPT ![p] = config]
           /\ UNCHANGED reqs
  BY DEF Starts
<1>2. config \subseteq Asked
  BY DEF ConstantsOK
<1>3. {NewRequest(a.schema, a.tables) : a \in config} \subseteq Request
  BY <1>2, NewRequestIsRequest DEF Asked
<1>4. todo \in [Proc -> SUBSET Asked] /\ reqs \in [Proc -> SUBSET Request]
  BY DEF Inv, Shape
<1>5. /\ todo' \in [Proc -> SUBSET Asked]
      /\ reqs' \in [Proc -> SUBSET Request]
      /\ \A q \in Proc \ {p} : reqs'[q] = reqs[q]
  BY <1>1, <1>2, <1>3, <1>4
<1>6. /\ pc[p] = "down"
      /\ pc' \in {[pc EXCEPT ![p] = "filter"], [pc EXCEPT ![p] = "request"]}
      /\ UNCHANGED <<store, copied, left, failed>>
  BY DEF Starts
<1>7. store' \in Seq(Row) /\ CompletedIsCopied'
  BY <1>6, SameStoreHonest
<1> QED
  BY <1>5, <1>6, <1>7, EarlyInv

LEMMA FiltersSchemaInv ==
    ASSUME Inv, NEW p \in Proc, NEW a \in todo[p], FiltersSchema(p, a)
    PROVE  Inv'
<1> DEFINE kept == {t \in a.tables : Keeps(a.schema, t)}
<1>1. todo \in [Proc -> SUBSET Asked] /\ reqs \in [Proc -> SUBSET Request]
  BY DEF Inv, Shape
<1>2. /\ pc[p] = "filter"
      /\ todo' = [todo EXCEPT ![p] = @ \ {a}]
      /\ reqs' = IF kept = {} THEN reqs
                 ELSE [reqs EXCEPT ![p] = @ \union {NewRequest(a.schema, kept)}]
      /\ UNCHANGED <<store, copied, pc, left, failed>>
  BY DEF FiltersSchema
<1>3. NewRequest(a.schema, kept) \in Request
  <2>1. a.schema \in SchemaNames /\ kept \in SUBSET (Table \union {Wildcard})
    BY <1>1 DEF Asked
  <2> QED
    BY <2>1, NewRequestIsRequest
<1> HIDE DEF kept
<1>4. /\ todo' \in [Proc -> SUBSET Asked]
      /\ reqs' \in [Proc -> SUBSET Request]
      /\ \A q \in Proc \ {p} : reqs'[q] = reqs[q]
  BY <1>1, <1>2, <1>3
<1>5. store' \in Seq(Row) /\ CompletedIsCopied'
  BY <1>2, SameStoreHonest
<1> QED
  BY <1>2, <1>4, <1>5, EarlyInv

LEMMA FilteredInv ==
    ASSUME Inv, NEW p \in Proc, Filtered(p)
    PROVE  Inv'
<1>1. CASE reqs[p] = {}
  BY <1>1, DownInv DEF Filtered
<1>2. CASE reqs[p] # {}
  <2>1. /\ pc[p] = "filter"
        /\ pc' = [pc EXCEPT ![p] = "request"]
        /\ UNCHANGED <<store, copied, todo, reqs, left, failed>>
    BY <1>2 DEF Filtered
  <2>2. todo' \in [Proc -> SUBSET Asked] /\ reqs' \in [Proc -> SUBSET Request]
    BY <2>1 DEF Inv, Shape
  <2>3. store' \in Seq(Row) /\ CompletedIsCopied'
    BY <2>1, SameStoreHonest
  <2> QED
    BY <2>1, <2>2, <2>3, EarlyInv
<1> QED
  BY <1>1, <1>2

\* The goroutines of markSnapshotInProgress: the rows they write are unfinished.
RequestStep(p, r) ==
    \/ CreatesRequest(p, r)
    \/ MarksInProgress(p, r)
    \/ RequestRefused(p, r)
    \/ RequestLost(p, r)

LEMMA RequestStepInv ==
    ASSUME Inv, NEW p \in Proc, NEW r \in reqs[p], RequestStep(p, r)
    PROVE  Inv'
<1>1. /\ pc[p] = "request"
      /\ UNCHANGED <<copied, pc, todo, left, failed>>
      /\ \E stage \in Stages : Moves(p, r, stage)
  BY DEF RequestStep, CreatesRequest, MarksInProgress, RequestRefused, RequestLost, Stages
<1>2. /\ r \in Request
      /\ reqs' \in [Proc -> SUBSET Request]
      /\ \A q \in Proc \ {p} : reqs'[q] = reqs[q]
  BY <1>1, MovesKeeps
<1>3. store' \in Seq(Row) /\ CompletedIsCopied'
  <2>1. CASE store' = Append(store, NewRow(r))
    BY <1>1, <1>2, <2>1, AppendHonest
  <2>2. CASE store' = Updated(r, "in progress", NoErrors)
    BY <1>1, <1>2, <2>2, UpdateHonest DEF UpdatedStatus
  <2>3. CASE UNCHANGED store
    BY <1>1, <2>3, SameStoreHonest
  <2> QED
    BY <2>1, <2>2, <2>3
    DEF RequestStep, CreatesRequest, MarksInProgress, RequestRefused, RequestLost
<1>4. todo' \in [Proc -> SUBSET Asked]
  BY <1>1 DEF Inv, Shape
<1> QED
  BY <1>1, <1>2, <1>3, <1>4, EarlyInv

LEMMA RequestedInv ==
    ASSUME Inv, NEW p \in Proc, Requested(p)
    PROVE  Inv'
<1>1. CASE Down(p)
  BY <1>1, DownInv DEF Requested
<1>2. CASE ~Down(p)
  <2>1. /\ pc' = [pc EXCEPT ![p] = "copy"]
        /\ left' = [left EXCEPT ![p] = ToCopy(reqs[p])]
        /\ UNCHANGED <<store, copied, todo, reqs, failed>>
    BY <1>2 DEF Requested
  <2>2. ToCopy(reqs[p]) \subseteq Table \ Excluded
    BY DEF ToCopy, TablesOfAll, TablesOf
  <2>3. Shape'
    BY <2>1, <2>2 DEF Inv, Shape
  <2>4. \A r \in reqs[p] : Wanted(r) \subseteq ToCopy(reqs[p])
    BY DEF Wanted, ToCopy, TablesOfAll
  <2>5. ASSUME NEW q \in Proc, pc'[q] = "copy", ~failed[q], NEW r \in reqs[q]
        PROVE  Wanted(r) \subseteq copied \union left'[q]
    <3>1. CASE q = p
      BY <2>1, <2>4, <3>1 DEF Inv, Shape
    <3>2. CASE q # p
      BY <2>1, <2>5, <3>2 DEF Inv, Shape, CopyAccounted
    <3> QED
      BY <3>1, <3>2
  <2>6. CopyAccounted'
    BY <2>1, <2>5 DEF CopyAccounted, Wanted, TablesOf
  <2>7. CompleteAccounted'
    BY <2>1 DEF Inv, Shape, CompleteAccounted, Wanted, TablesOf
  <2>8. CompletedIsCopied'
    BY <2>1, SameStoreHonest
  <2> QED
    BY <2>3, <2>6, <2>7, <2>8 DEF Inv
<1> QED
  BY <1>1, <1>2
-----------------------------------------------------------------------------
\* A table that leaves the list has been copied, or there is an error.
CopyStep(p) ==
    \/ \E t \in left[p] : CopiesTable(p, t) \/ TableFails(p, t)
    \/ GeneratorFails(p)

LEMMA CopyStepInv ==
    ASSUME Inv, NEW p \in Proc, CopyStep(p)
    PROVE  Inv'
<1> USE DEF CopyStep, CopiesTable, TableFails, GeneratorFails
<1>1. /\ pc[p] = "copy"
      /\ UNCHANGED <<store, pc, todo, reqs>>
      /\ copied \subseteq copied'
  OBVIOUS
<1>2. Shape'
  BY <1>1 DEF Inv, Shape
<1>3. ASSUME NEW q \in Proc
      PROVE  /\ ~failed'[q] => ~failed[q]
             /\ ~failed'[q] => copied \union left[q] \subseteq copied' \union left'[q]
  BY DEF Inv, Shape
<1> USE DEF Wanted, TablesOf
<1>4. CopyAccounted'
  BY <1>1, <1>3 DEF Inv, CopyAccounted
<1>5. CompleteAccounted'
  BY <1>1, <1>3 DEF Inv, CompleteAccounted
<1>6. CompletedIsCopied'
  BY <1>1, SameStoreHonest
<1> QED
  BY <1>2, <1>4, <1>5, <1>6 DEF Inv

LEMMA GeneratorReturnsInv ==
    ASSUME Inv, NEW p \in Proc, GeneratorReturns(p)
    PROVE  Inv'
<1>1. /\ pc[p] = "copy"
      /\ left[p] = {}
      /\ pc' = [pc EXCEPT ![p] = "complete"]
      /\ UNCHANGED <<store, copied, todo, reqs, left, failed>>
  BY DEF GeneratorReturns
<1>2. Shape'
  BY <1>1 DEF Inv, Shape
<1>3. CopyAccounted'
  BY <1>1 DEF Inv, Shape, CopyAccounted, Wanted, TablesOf
<1>4. ~failed[p] => \A r \in reqs[p] : Wanted(r) \subseteq copied
  BY <1>1 DEF Inv, CopyAccounted
<1>5. CompleteAccounted'
  BY <1>1, <1>4 DEF Inv, Shape, CompleteAccounted, Wanted, TablesOf
<1>6. CompletedIsCopied'
  BY <1>1, SameStoreHonest
<1> QED
  BY <1>2, <1>3, <1>5, <1>6 DEF Inv
-----------------------------------------------------------------------------
CompleteStep(p, r) ==
    \/ CompletesRequest(p, r)
    \/ CompletionCancelled(p, r)
    \/ CompletionLost(p, r)

LEMMA CompleteStepInv ==
    ASSUME Inv, NEW p \in Proc, NEW r \in reqs[p], CompleteStep(p, r)
    PROVE  Inv'
<1>1. /\ pc[p] = "complete"
      /\ UNCHANGED <<copied, pc, todo, left, failed>>
      /\ store' \in {store, Updated(r, "completed", Errors(p))}
      /\ \E stage \in Stages : Moves(p, r, stage)
  BY DEF CompleteStep, CompletesRequest, CompletionCancelled, CompletionLost, Stages
<1>2. /\ r \in Request
      /\ reqs' \in [Proc -> SUBSET Request]
      /\ \A q \in Proc \ {p} : reqs'[q] = reqs[q]
      /\ \A s \in reqs'[p] : \E t \in reqs[p] : Wanted(s) = Wanted(t)
  BY <1>1, MovesKeeps
<1>3. store' \in Seq(Row) /\ CompletedIsCopied'
  <2>1. CASE store' = Updated(r, "completed", Errors(p))
    <3>1. Errors(p) \in {NoErrors, GlobalError}
      BY DEF Errors
    <3>2. Errors(p) = NoErrors => ~failed[p]
      BY DEF Errors, NoErrors, GlobalError
    <3>3. Errors(p) = NoErrors => Wanted(r) \subseteq copied
      BY <1>1, <3>2 DEF Inv, CompleteAccounted
    <3> QED
      BY <1>1, <1>2, <2>1, <3>1, <3>3, UpdateHonest DEF UpdatedStatus
  <2>2. CASE UNCHANGED store
    BY <1>1, <2>2, SameStoreHonest
  <2> QED
    BY <1>1, <2>1, <2>2
<1>4. Shape'
  BY <1>1, <1>2, <1>3 DEF Inv, Shape
<1>5. \A q \in Proc : pc[q] = "copy" => reqs'[q] = reqs[q]
  BY <1>1, <1>2
<1>6. CopyAccounted'
  BY <1>1, <1>5 DEF Inv, CopyAccounted, Wanted, TablesOf
<1>7. ASSUME NEW q \in Proc, pc[q] = "complete", ~failed[q], NEW s \in reqs'[q]
      PROVE  Wanted(s) \subseteq copied
  <2>1. \E t \in reqs[q] : Wanted(s) = Wanted(t)
    BY <1>2, <1>7
  <2>2. PICK t \in reqs[q] : Wanted(s) = Wanted(t)
    BY <2>1
  <2> QED
    BY <1>7, <2>2 DEF Inv, CompleteAccounted
<1>8. CompleteAccounted'
  BY <1>1, <1>7 DEF CompleteAccounted, Wanted, TablesOf
<1> QED
  BY <1>3, <1>4, <1>6, <1>8 DEF Inv
-----------------------------------------------------------------------------
LEMMA StepInv == ConstantsOK /\ Inv /\ [Next]_vars => Inv'
<1> SUFFICES ASSUME ConstantsOK, Inv, [Next]_vars PROVE Inv'
  OBVIOUS
<1>1. CASE UNCHANGED vars
  BY <1>1 DEF vars, Inv, Shape, CopyAccounted, CompleteAccounted, CompletedIsCopied,
              Wanted, TablesOf
<1>2. ASSUME NEW p \in Proc, Starts(p) \/ Runs(p) \/ Disturbed(p)
      PROVE  Inv'
  <2>1. CASE Starts(p)
    BY <2>1, StartsInv
  <2>2. CASE \E a \in todo[p] : FiltersSchema(p, a)
    BY <2>2, FiltersSchemaInv
  <2>3. CASE Filtered(p)
    BY <2>3, FilteredInv
  <2>4. CASE \E r \in reqs[p] : RequestStep(p, r)
    BY <2>4, RequestStepInv
  <2>5. CASE Requested(p)
    BY <2>5, RequestedInv
  <2>6. CASE CopyStep(p)
    BY <2>6, CopyStepInv
  <2>7. CASE GeneratorReturns(p)
    BY <2>7, GeneratorReturnsInv
  <2>8. CASE \E r \in reqs[p] : CompleteStep(p, r)
    BY <2>8, CompleteStepInv
  <2>9. CASE FilterFails(p) \/ Ends(p) \/ Crashes(p)
    BY <2>9, DownInv DEF FilterFails, Ends, Crashes
  <2> QED
    BY <1>2, <2>1, <2>2, <2>3, <2>4, <2>5, <2>6, <2>7, <2>8, <2>9
    DEF Runs, Disturbed, RequestStep, CopyStep, CompleteStep
<1> QED
  BY <1>1, <1>2 DEF Next

\* The recorder never records as completed what has not been copied: whatever
\* processes share the store, in whatever order their steps, crashes and failures
\* come (markSnapshotCompleted, snapshot_generator_recorder.go).
THEOREM RecorderHonest == Spec => []CompletedIsCopied
<1>1. Inv => CompletedIsCopied
  BY DEF Inv
<1> QED
  BY InitInv, StepInv, ConstantsOK, <1>1, PTL DEF Spec
-----------------------------------------------------------------------------
(* A request is worked on by one process at a time.                        *)

Works(r) == r.stage \in {"created", "running"}

\* Whoever works on a request has an unfinished row in the store, which keeps the
\* others out; and the requests of one process differ in what they ask for, so that
\* completing one does not complete the row of another.
Apart == \A p \in Proc : \A r, s \in reqs[p] : SameRequest(r, s) => r = s
Registered == \A p \in Proc : \A r \in reqs[p] : Works(r) => Conflicts(r)
Unstarted(p) == \A r \in reqs[p] : r.stage = "new"
Fresh == \A p \in Proc : pc[p] \in {"down", "filter"} => Unstarted(p)

OneInv == Apart /\ Registered /\ Fresh /\ NoRequestTwiceAtOnce

\* A process none of whose requests has been started works on nothing.
LEMMA UnstartedOne ==
    ASSUME Inv, OneInv, NEW p \in Proc, UNCHANGED store,
           \A q \in Proc \ {p} : pc'[q] = pc[q] /\ reqs'[q] = reqs[q],
           Unstarted(p)', \A r, s \in reqs'[p] : SameRequest(r, s) => r = s
    PROVE  OneInv'
<1>1. \A r \in reqs'[p] : ~Works(r)
  BY DEF Unstarted, Works
<1>2. Apart'
  BY DEF OneInv, Apart, SameRequest
<1>3. Registered'
  BY <1>1 DEF OneInv, Registered, Conflicts, SameRequest, Works
<1>4. Fresh'
  BY DEF OneInv, Fresh, Unstarted
<1>5. NoRequestTwiceAtOnce'
  <2> SUFFICES ASSUME NEW q \in Proc, NEW o \in Proc, q # o,
                      NEW r \in reqs'[q], NEW s \in reqs'[o],
                      {r.stage, s.stage} \subseteq {"created", "running"}
               PROVE  ~SameRequest(r, s)
    BY DEF NoRequestTwiceAtOnce, SameRequest
  <2>1. Works(r) /\ Works(s)
    BY DEF Works
  <2>2. q # p /\ o # p
    BY <1>1, <2>1
  <2> QED BY <2>2 DEF OneInv, NoRequestTwiceAtOnce
<1> QED BY <1>2, <1>3, <1>4, <1>5 DEF OneInv

\* A step that leaves rows and requests alone, but for where a process is.
LEMMA SameRequestsOne ==
    ASSUME Inv, OneInv, NEW p \in Proc, UNCHANGED <<store, reqs>>,
           \A q \in Proc \ {p} : pc'[q] = pc[q],
           pc'[p] \in {"down", "filter"} => Unstarted(p)
    PROVE  OneInv'
BY DEF OneInv, Apart, Registered, Fresh, Unstarted, NoRequestTwiceAtOnce, Conflicts, Works,
       SameRequest

\* What a goroutine may do to the rows when its request moves to a stage.
Permits(p, r, stage) ==
    /\ \A q \in Proc : \A s \in reqs[q] :
        Works(s) /\ (q # p \/ s # r) => Conflicts(s)'
    /\ stage \in {"created", "running"} =>
        /\ Conflicts(r)'
        /\ Works(r) \/ ~Conflicts(r)

LEMMA MoveOne ==
    ASSUME Inv, OneInv, NEW p \in Proc, NEW r \in reqs[p], NEW stage \in Stages,
           pc[p] \notin {"down", "filter"}, UNCHANGED pc,
           Moves(p, r, stage), Permits(p, r, stage)
    PROVE  OneInv'
<1> DEFINE moved == [r EXCEPT !.stage = stage]
<1>1. /\ reqs \in [Proc -> SUBSET Request] /\ r \in Request
      /\ reqs' = [reqs EXCEPT ![p] = (@ \ {r}) \union {moved}]
  BY DEF Inv, Shape, Moves
<1>2. moved.stage = stage /\ moved.schema = r.schema /\ moved.tables = r.tables
  BY <1>1 DEF Request
<1> HIDE DEF moved
<1>3. /\ reqs'[p] = (reqs[p] \ {r}) \union {moved}
      /\ \A q \in Proc \ {p} : reqs'[q] = reqs[q]
  BY <1>1
<1>4. /\ \A s : SameRequest(s, moved) <=> SameRequest(s, r)
      /\ \A s : SameRequest(moved, s) <=> SameRequest(r, s)
      /\ Conflicts(moved)' <=> Conflicts(r)'
  BY <1>2 DEF SameRequest, Conflicts
<1>5. Apart'
  <2> SUFFICES ASSUME NEW s \in reqs'[p], NEW t \in reqs'[p], SameRequest(s, t)
               PROVE  s = t
    BY <1>3 DEF OneInv, Apart, SameRequest
  <2>1. CASE s = moved /\ t # moved
    BY <1>3, <1>4, <2>1 DEF OneInv, Apart
  <2>2. CASE s # moved /\ t = moved
    BY <1>3, <1>4, <2>2 DEF OneInv, Apart
  <2>3. CASE s # moved /\ t # moved
    BY <1>3, <2>3 DEF OneInv, Apart
  <2> QED BY <2>1, <2>2, <2>3
<1>6. \A q \in Proc : \A s \in reqs'[q] :
         \/ s \in reqs[q] /\ (q # p \/ s # r)
         \/ q = p /\ s = moved
  BY <1>3
<1>7. Registered'
  <2> SUFFICES ASSUME NEW q \in Proc, NEW s \in reqs'[q], Works(s)
               PROVE  Conflicts(s)'
    BY DEF Registered, Works
  <2>1. CASE s \in reqs[q] /\ (q # p \/ s # r)
    BY <2>1 DEF Permits
  <2>2. CASE s = moved
    BY <1>2, <1>4, <2>2 DEF Permits, Works
  <2> QED BY <1>6, <2>1, <2>2
<1>8. Fresh'
  BY <1>3 DEF OneInv, Fresh, Unstarted
<1>9. ASSUME NEW q \in Proc, q # p, NEW s \in reqs[q], Works(s), Works(moved)
      PROVE  ~SameRequest(r, s)
  <2>1. Works(r) \/ ~Conflicts(r)
    BY <1>2, <1>9 DEF Permits, Works
  <2>2. CASE Works(r)
    BY <1>9, <2>2 DEF OneInv, NoRequestTwiceAtOnce, Works
  <2>3. CASE ~Conflicts(r)
    <3>1. Conflicts(s)
      BY <1>9 DEF OneInv, Registered
    <3> QED BY <2>3, <3>1 DEF Conflicts, SameRequest
  <2> QED BY <2>1, <2>2, <2>3
<1>10. NoRequestTwiceAtOnce'
  <2> SUFFICES ASSUME NEW q \in Proc, NEW o \in Proc, q # o,
                      NEW s \in reqs'[q], NEW t \in reqs'[o],
                      {s.stage, t.stage} \subseteq {"created", "running"}
               PROVE  ~SameRequest(s, t)
    BY DEF NoRequestTwiceAtOnce, SameRequest
  <2>1. Works(s) /\ Works(t)
    BY DEF Works
  <2>2. CASE s \in reqs[q] /\ t \in reqs[o]
    BY <2>2 DEF OneInv, NoRequestTwiceAtOnce
  <2>3. CASE q = p /\ s = moved
    <3>1. o # p /\ t \in reqs[o]
      BY <1>3, <2>3
    <3> QED BY <1>4, <1>9, <2>1, <2>3, <3>1
  <2>4. CASE o = p /\ t = moved
    <3>1. q # p /\ s \in reqs[q]
      BY <1>3, <2>4
    <3>2. ~SameRequest(r, s)
      BY <1>9, <2>1, <2>4, <3>1
    <3> QED BY <1>4, <2>4, <3>2 DEF SameRequest
  <2> QED BY <1>6, <2>2, <2>3, <2>4
<1> QED BY <1>5, <1>7, <1>8, <1>10 DEF OneInv

\* The row that is written keeps others out from now on, like those before it.
LEMMA AppendConflicts ==
    ASSUME Inv, NEW r \in Request, store' = Append(store, NewRow(r))
    PROVE  Conflicts(r)' /\ \A s : Conflicts(s) => Conflicts(s)'
<1>1. /\ store \in Seq(Row) /\ NewRow(r) \in Row
      /\ NewRow(r).status = "requested" /\ SameRequest(NewRow(r), r)
  BY NewRowIsRow DEF Inv, Shape, NewRow, SameRequest
<1> DEFINE new == NewRow(r)
<1> HIDE DEF new
<1>2. /\ DOMAIN store' = 1..(Len(store) + 1) /\ DOMAIN store = 1..Len(store)
      /\ Len(store) \in Nat
      /\ store'[Len(store) + 1] = new /\ \A i \in DOMAIN store : store'[i] = store[i]
  BY <1>1 DEF new
<1>3. Conflicts(r)'
  BY <1>1, <1>2 DEF Conflicts, SameRequest, new
<1>4. \A s : Conflicts(s) => Conflicts(s)'
  BY <1>2 DEF Conflicts, SameRequest
<1> QED BY <1>3, <1>4

\* An update only completes the rows of its own request.
LEMMA UpdateConflicts ==
    ASSUME Inv, NEW r \in Request, NEW status \in UpdatedStatus, NEW errors,
           store' = Updated(r, status, errors)
    PROVE  \A s : Conflicts(s) /\ (~SameRequest(r, s) \/ status # "completed") => Conflicts(s)'
<1> SUFFICES ASSUME NEW s, Conflicts(s), ~SameRequest(r, s) \/ status # "completed"
             PROVE  Conflicts(s)'
  OBVIOUS
<1>1. PICK i \in DOMAIN store : SameRequest(store[i], s) /\ store[i].status # "completed"
  BY DEF Conflicts
<1>2. DOMAIN store' = DOMAIN store /\ store[i] \in Row
  BY RowsAreRows DEF Updated, Inv, Shape
<1>3. CASE SameRequest(store[i], r)
  <2>1. status # "completed"
    BY <1>1, <1>3 DEF SameRequest
  <2>2. store'[i] = [store[i] EXCEPT !.status = status, !.errors = errors]
    BY <1>1, <1>3 DEF Updated
  <2>3. store'[i].status = status /\ SameRequest(store'[i], s)
    BY <1>1, <1>2, <2>2 DEF Row, SameRequest
  <2> QED BY <1>2, <2>1, <2>3 DEF Conflicts, SameRequest
<1>4. CASE ~SameRequest(store[i], r)
  <2>1. store'[i] = store[i]
    BY <1>4 DEF Updated
  <2> QED BY <1>1, <1>2, <2>1 DEF Conflicts, SameRequest
<1> QED BY <1>3, <1>4

\* Nobody else works on a request that a process works on.
LEMMA OthersDiffer ==
    ASSUME OneInv, NEW p \in Proc, NEW r \in reqs[p], Works(r),
           NEW q \in Proc, NEW s \in reqs[q], Works(s), q # p \/ s # r
    PROVE  ~SameRequest(r, s)
<1>1. CASE q # p
  BY <1>1 DEF OneInv, NoRequestTwiceAtOnce, Works
<1>2. CASE q = p /\ s # r
  BY <1>2 DEF OneInv, Apart
<1> QED BY <1>1, <1>2

\* markSnapshotInProgress: the unique index lets a row in only when no process has
\* an unfinished one.
LEMMA RequestStepOne ==
    ASSUME Inv, OneInv, NEW p \in Proc, NEW r \in reqs[p], RequestStep(p, r)
    PROVE  OneInv'
<1>0. /\ r \in Request /\ pc[p] \notin {"down", "filter"} /\ UNCHANGED pc
      /\ {"created", "running", "failed"} \subseteq Stages
  BY DEF Inv, Shape, RequestStep, CreatesRequest, MarksInProgress, RequestRefused, RequestLost,
         Stages
<1>1. \A q \in Proc : \A s \in reqs[q] : Works(s) => Conflicts(s)
  BY DEF OneInv, Registered
<1>2. CASE CreatesRequest(p, r)
  <2>1. Permits(p, r, "created")
    BY <1>0, <1>1, <1>2, AppendConflicts DEF Permits, CreatesRequest
  <2> QED BY <1>0, <1>2, <2>1, MoveOne DEF CreatesRequest
<1>3. CASE MarksInProgress(p, r)
  <2>1. Works(r)
    BY <1>3 DEF MarksInProgress, Works
  <2>2. \A s : Conflicts(s) => Conflicts(s)'
    BY <1>0, <1>3, UpdateConflicts DEF MarksInProgress, UpdatedStatus
  <2>3. Permits(p, r, "running")
    BY <1>1, <2>1, <2>2 DEF Permits
  <2> QED BY <1>0, <1>3, <2>3, MoveOne DEF MarksInProgress
<1>4. CASE RequestRefused(p, r) \/ RequestLost(p, r)
  <2>1. UNCHANGED store \/ store' = Append(store, NewRow(r))
    BY <1>4 DEF RequestRefused, RequestLost
  <2>2. \A s : Conflicts(s) => Conflicts(s)'
    <3>1. CASE UNCHANGED store
      BY <3>1 DEF Conflicts, SameRequest
    <3>2. CASE store' = Append(store, NewRow(r))
      BY <1>0, <3>2, AppendConflicts
    <3> QED BY <2>1, <3>1, <3>2
  <2>3. Permits(p, r, "failed")
    BY <1>1, <2>2 DEF Permits
  <2> QED BY <1>0, <1>4, <2>3, MoveOne DEF RequestRefused, RequestLost
<1> QED BY <1>2, <1>3, <1>4 DEF RequestStep

\* markSnapshotCompleted: what a process completes is its own.
LEMMA CompleteStepOne ==
    ASSUME Inv, OneInv, NEW p \in Proc, NEW r \in reqs[p], CompleteStep(p, r)
    PROVE  OneInv'
<1>0. /\ r \in Request /\ pc[p] \notin {"down", "filter"} /\ UNCHANGED pc /\ Works(r)
      /\ {"ended", "failed"} \subseteq Stages
  BY DEF Inv, Shape, CompleteStep, CompletesRequest, CompletionCancelled, CompletionLost,
         Stages, Works
<1>1. UNCHANGED store \/ store' = Updated(r, "completed", Errors(p))
  BY DEF CompleteStep, CompletesRequest, CompletionCancelled, CompletionLost
<1>2. \A s : Conflicts(s) /\ ~SameRequest(r, s) => Conflicts(s)'
  <2>1. CASE UNCHANGED store
    BY <2>1 DEF Conflicts, SameRequest
  <2>2. CASE store' = Updated(r, "completed", Errors(p))
    BY <1>0, <2>2, UpdateConflicts DEF UpdatedStatus
  <2> QED BY <1>1, <2>1, <2>2
<1>3. \A q \in Proc : \A s \in reqs[q] : Works(s) /\ (q # p \/ s # r) => Conflicts(s)'
  BY <1>0, <1>2, OthersDiffer DEF OneInv, Registered
<1>4. Permits(p, r, "ended") /\ Permits(p, r, "failed")
  BY <1>3 DEF Permits
<1>5. Moves(p, r, "ended") \/ Moves(p, r, "failed")
  BY DEF CompleteStep, CompletesRequest, CompletionCancelled, CompletionLost
<1> QED BY <1>0, <1>4, <1>5, MoveOne

LEMMA FilterStepOne ==
    ASSUME Inv, OneInv, NEW p \in Proc, NEW a \in todo[p], FiltersSchema(p, a)
    PROVE  OneInv'
<1> DEFINE kept == {t \in a.tables : Keeps(a.schema, t)}
           new == NewRequest(a.schema, kept)
<1>1. /\ pc[p] = "filter" /\ UNCHANGED <<store, pc>>
      /\ reqs \in [Proc -> SUBSET Request]
      /\ reqs' = reqs \/ reqs' = [reqs EXCEPT ![p] = @ \union {new}]
  BY DEF FiltersSchema, Inv, Shape
<1>2. new.stage = "new"
  BY DEF NewRequest
<1>3. \A s : s.stage = "new" /\ s \in Request /\ SameRequest(s, new) => s = new
  BY DEF SameRequest, NewRequest, Request
<1> HIDE DEF new
<1>4. /\ reqs'[p] \subseteq reqs[p] \union {new}
      /\ \A q \in Proc \ {p} : reqs'[q] = reqs[q]
  BY <1>1
<1>5. \A s \in reqs[p] : s.stage = "new" /\ s \in Request
  BY <1>1 DEF OneInv, Fresh, Unstarted
<1>6. Unstarted(p)'
  BY <1>2, <1>4, <1>5 DEF Unstarted
<1>7. \A r, s \in reqs'[p] : SameRequest(r, s) => r = s
  BY <1>3, <1>4, <1>5 DEF OneInv, Apart, SameRequest
<1> QED BY <1>1, <1>4, <1>6, <1>7, UnstartedOne

LEMMA StartsOne ==
    ASSUME Inv, OneInv, NEW p \in Proc, Starts(p)
    PROVE  OneInv'
<1>1. /\ pc[p] = "down" /\ UNCHANGED store
      /\ reqs \in [Proc -> SUBSET Request]
      /\ pc \in [Proc -> {"down", "filter", "request", "copy", "complete"}]
      /\ \/ UNCHANGED reqs /\ pc' = [pc EXCEPT ![p] = "filter"]
         \/ \E config \in ConfigsOf[p] :
              /\ reqs' = [reqs EXCEPT ![p] = {NewRequest(a.schema, a.tables) : a \in config}]
              /\ pc' = [pc EXCEPT ![p] = "request"]
  BY DEF Starts, Inv, Shape
<1>2. CASE UNCHANGED reqs /\ pc' = [pc EXCEPT ![p] = "filter"]
  BY <1>1, <1>2, SameRequestsOne DEF OneInv, Fresh
<1>3. ASSUME NEW config \in ConfigsOf[p],
             reqs' = [reqs EXCEPT ![p] = {NewRequest(a.schema, a.tables) : a \in config}],
             pc' = [pc EXCEPT ![p] = "request"]
      PROVE  OneInv'
  <2>1. reqs'[p] = {NewRequest(a.schema, a.tables) : a \in config}
    BY <1>1, <1>3
  <2>2. \A r \in reqs'[p] : \E schema, tables : r = NewRequest(schema, tables)
    BY <2>1
  <2>3. \A r \in reqs'[p] : r = NewRequest(r.schema, r.tables) /\ r.stage = "new"
    BY <2>2 DEF NewRequest
  <2>4. Unstarted(p)' /\ \A r, s \in reqs'[p] : SameRequest(r, s) => r = s
    BY <2>3 DEF Unstarted, SameRequest
  <2>5. \A q \in Proc \ {p} : pc'[q] = pc[q] /\ reqs'[q] = reqs[q]
    BY <1>1, <1>3
  <2> QED BY <1>1, <2>4, <2>5, UnstartedOne
<1> QED BY <1>1, <1>2, <1>3

\* A process that goes down gives its requests up.
LEMMA DownOne ==
    ASSUME Inv, OneInv, NEW p \in Proc, Down(p), UNCHANGED store
    PROVE  OneInv'
<1>1. /\ reqs'[p] = {}
      /\ \A q \in Proc \ {p} : pc'[q] = pc[q] /\ reqs'[q] = reqs[q]
  BY DEF Down, Inv, Shape
<1> QED BY <1>1, UnstartedOne DEF Unstarted

LEMMA OneStep == Inv /\ OneInv /\ [Next]_vars => OneInv'
<1> SUFFICES ASSUME Inv, OneInv, [Next]_vars PROVE OneInv'
  OBVIOUS
<1>1. CASE UNCHANGED vars
  BY <1>1 DEF vars, OneInv, Apart, Registered, Fresh, Unstarted, NoRequestTwiceAtOnce,
              Conflicts, Works, SameRequest
<1>2. ASSUME NEW p \in Proc, Starts(p) \/ Runs(p) \/ Disturbed(p)
      PROVE  OneInv'
  <2>0. pc \in [Proc -> {"down", "filter", "request", "copy", "complete"}]
    BY DEF Inv, Shape
  <2>1. CASE Starts(p)
    BY <2>1, StartsOne
  <2>2. CASE \E a \in todo[p] : FiltersSchema(p, a)
    BY <2>2, FilterStepOne
  <2>3. CASE Filtered(p) \/ Requested(p) \/ CopyStep(p) \/ GeneratorReturns(p)
    <3>1. CASE Down(p) /\ UNCHANGED store
      BY <3>1, DownOne
    <3>2. CASE /\ UNCHANGED <<store, reqs>>
               /\ \A q \in Proc \ {p} : pc'[q] = pc[q]
               /\ pc'[p] \notin {"down", "filter"}
      BY <3>2, SameRequestsOne
    <3> QED BY <2>0, <2>3, <3>1, <3>2 DEF Filtered, Requested, CopyStep, CopiesTable,
               TableFails, GeneratorFails, GeneratorReturns
  <2>4. CASE \E r \in reqs[p] : RequestStep(p, r)
    BY <2>4, RequestStepOne
  <2>5. CASE \E r \in reqs[p] : CompleteStep(p, r)
    BY <2>5, CompleteStepOne
  <2>6. CASE FilterFails(p) \/ Ends(p) \/ Crashes(p)
    BY <2>6, DownOne DEF FilterFails, Ends, Crashes
  <2> QED
    BY <1>2, <2>1, <2>2, <2>3, <2>4, <2>5, <2>6
    DEF Runs, Disturbed, RequestStep, CopyStep, CompleteStep
<1> QED
  BY <1>1, <1>2 DEF Next

\* The unique index on unfinished rows keeps two processes from taking the same
\* request at the same time, whatever fails on the way (CreateSnapshotRequest in
\* pg_snapshot_store.go): a process that works on a request has such a row, and
\* only that process completes it.
THEOREM OneAtATime == Spec => []NoRequestTwiceAtOnce
<1>1. Init => OneInv
  BY DEF Init, OneInv, Apart, Registered, Fresh, Unstarted, NoRequestTwiceAtOnce
<1>2. OneInv => NoRequestTwiceAtOnce
  BY DEF OneInv
<1> QED
  BY <1>1, <1>2, InitInv, StepInv, OneStep, ConstantsOK, PTL DEF Spec
-----------------------------------------------------------------------------
(* What the filter leaves out.                                             *)

Taken == copied \union TablesOfAll({store[i] : i \in Unfinished})

\* A row without a global error stands for tables that are copied or taken.
LEMMA RowTakes ==
    ASSUME Inv, NEW i \in DOMAIN store, NEW t \in TablesOf(store[i]) \ Excluded,
           ~HasFailed(store[i]) \/ store[i].errors # GlobalError
    PROVE  t \in Taken
<1>1. store[i] \in Row
  BY RowsAreRows DEF Inv, Shape
<1>2. CASE store[i].status # "completed"
  BY <1>2 DEF Taken, TablesOfAll, Unfinished
<1>3. CASE store[i].status = "completed"
  <2>1. store[i].errors = NoErrors
    BY <1>1, <1>3 DEF HasFailed, Row
  <2> QED BY <1>3, <2>1 DEF Inv, CompletedIsCopied, Taken
<1> QED BY <1>2, <1>3

\* A name that is left out has a row that speaks for it.
LEMMA NotKept ==
    ASSUME NEW schema, NEW t, ~Keeps(schema, t)
    PROVE  \E i \in DOMAIN store :
             /\ store[i].schema = schema /\ {t, Wildcard} \cap store[i].tables # {}
             /\ ~HasFailed(store[i]) \/ store[i].errors # GlobalError
<1>1. \A n : \A i \in Existing(schema, n) :
        i \in DOMAIN store /\ store[i].schema = schema /\ n \in store[i].tables
  BY DEF Existing, IsReturned
<1>2. CASE t = Wildcard
  BY <1>1, <1>2 DEF Keeps
<1>3. CASE t # Wildcard
  <2>1. PICK i \in Existing(schema, t) \union Existing(schema, Wildcard) : ~HasFailed(store[i])
    BY <1>3 DEF Keeps
  <2> QED BY <1>1, <2>1
<1> QED BY <1>2, <1>3

LEMMA LeavesOut ==
    ASSUME ConstantsOK, Inv, NEW p \in Proc, NEW a \in todo[p], FiltersSchema(p, a)
    PROVE  LeftOut(p) \subseteq Taken
<1> DEFINE kept == {t \in a.tables : Keeps(a.schema, t)}
<1>0. /\ todo \in [Proc -> SUBSET Asked] /\ reqs \in [Proc -> SUBSET Request]
      /\ a \in Asked
  BY DEF Inv, Shape
<1>1. todo[p] \ todo'[p] = {a}
  BY <1>0 DEF FiltersSchema
<1>2. kept # {} => NewRequest(a.schema, kept) \in reqs'[p]
  BY <1>0 DEF FiltersSchema
<1> SUFFICES ASSUME NEW x \in LeftOut(p) PROVE x \in Taken
  OBVIOUS
<1>3. x \in TablesOf(a) \ Excluded /\ x \in Table
  BY <1>1 DEF LeftOut, ToCopy, TablesOfAll, TablesOf
<1>4. kept # {} => x \notin TablesOf(NewRequest(a.schema, kept))
  BY <1>2 DEF LeftOut, TablesOfAll
<1>5. PICK t \in a.tables : /\ ~Keeps(a.schema, t)
                            /\ a.schema = Wildcard \/ t \in {x, Wildcard}
  <2>1. CASE a.schema = Wildcard
    <3>1. kept = {}
      BY <1>3, <1>4, <2>1 DEF TablesOf, NewRequest
    <3>2. a.tables # {}
      BY <1>0 DEF Asked
    <3> QED BY <2>1, <3>1, <3>2
  <2>2. CASE a.schema # Wildcard
    <3>1. SchemaOf[x] = a.schema /\ {x, Wildcard} \cap a.tables # {}
      BY <1>3, <2>2 DEF TablesOf
    <3>2. PICK t \in a.tables : t \in {x, Wildcard}
      BY <3>1
    <3>3. t \notin kept
      BY <1>3, <1>4, <2>2, <3>1, <3>2 DEF TablesOf, NewRequest
    <3> QED BY <3>2, <3>3
  <2> QED BY <2>1, <2>2
<1>6. PICK i \in DOMAIN store :
        /\ store[i].schema = a.schema /\ {t, Wildcard} \cap store[i].tables # {}
        /\ ~HasFailed(store[i]) \/ store[i].errors # GlobalError
  BY <1>5, NotKept
<1>7. x \in TablesOf(store[i])
  BY <1>3, <1>5, <1>6 DEF TablesOf
<1> QED BY <1>3, <1>6, <1>7, RowTakes

LEMMA OthersLeaveNothingOut ==
    ASSUME NEW p \in Proc, todo'[p] = todo[p]
    PROVE  LeftOut(p) = {}
BY DEF LeftOut, ToCopy, TablesOfAll

LEMMA SkipStep ==
    ConstantsOK /\ Inv /\ [Next]_vars =>
        [\A p \in Proc : FiltersNow(p) => LeftOut(p) \subseteq Taken]_vars
<1> SUFFICES ASSUME ConstantsOK, Inv, Next, NEW p \in Proc, FiltersNow(p)
             PROVE  LeftOut(p) \subseteq Taken
  OBVIOUS
<1>0. /\ todo \in [Proc -> SUBSET Asked]
      /\ pc \in [Proc -> {"down", "filter", "request", "copy", "complete"}]
  BY DEF Inv, Shape
<1>1. PICK q \in Proc : Starts(q) \/ Runs(q) \/ Disturbed(q)
  BY DEF Next
<1>2. CASE \E a \in todo[q] : q = p /\ FiltersSchema(q, a)
  BY <1>2, LeavesOut
<1>3. CASE todo'[p] = todo[p]
  BY <1>3, OthersLeaveNothingOut
<1>4. (\E a \in todo[q] : q = p /\ FiltersSchema(q, a)) \/ todo'[p] = todo[p]
  <2>1. CASE Starts(q)
    BY <1>0, <2>1 DEF Starts, FiltersNow
  <2>2. CASE \E a \in todo[q] : FiltersSchema(q, a)
    BY <1>0, <2>2 DEF FiltersSchema
  <2>3. CASE Down(q)
    BY <1>0, <2>3 DEF Down, FiltersNow
  <2>4. CASE todo' = todo
    BY <2>4
  <2> QED
    BY <1>1, <2>1, <2>2, <2>3, <2>4
    DEF Runs, Disturbed, Filtered, FilterFails, Requested, Ends, Crashes, CreatesRequest,
        MarksInProgress, RequestRefused, RequestLost, CopiesTable, TableFails, GeneratorFails,
        GeneratorReturns, CompletesRequest, CompletionCancelled, CompletionLost
<1> QED BY <1>2, <1>3, <1>4

\* A table the filter leaves out was copied or has an unfinished request
\* (filterOutExistingSchemaTables in snapshot_generator_recorder.go): a row that
\* is read as done is one of `completed without errors', which tells the truth,
\* whatever wildcard it stands for and however many rows the limit cuts off.
THEOREM SkipsHonestly == Spec => SkipsOnlyTakenOrUnfinished
<1>1. ConstantsOK /\ Inv /\ [Next]_vars =>
        [\A p \in Proc : FiltersNow(p) =>
           LeftOut(p) \subseteq copied \union TablesOfAll({store[i] : i \in Unfinished})]_vars
  BY SkipStep DEF Taken
<1> QED
  BY <1>1, InitInv, StepInv, ConstantsOK, PTL DEF Spec, SkipsOnlyTakenOrUnfinished
=============================================================================
