--------------------------- MODULE SnapshotRecorder ---------------------------
(***************************************************************************)
(* The snapshot recorder and its store: pkg/snapshot and                   *)
(* pkg/snapshot/generator, over the layers it wraps (schema generator,     *)
(* table finder, data generator).                                          *)
(*                                                                         *)
(* Before an initial snapshot the recorder asks the store which of the     *)
(* configured tables have been requested before and leaves those out; it   *)
(* writes a row for every schema that is left, has the snapshot taken, and *)
(* records in the rows how it ended.  Processes are the `run' command,     *)
(* started again by its supervisor after a failure, and `snapshot'         *)
(* commands started by hand; they share the store, and its unique index is *)
(* all that keeps them apart.                                              *)
(***************************************************************************)
EXTENDS Naturals, Sequences, FiniteSets

CONSTANTS
    Proc,           \* the processes that take snapshots
    Repeatable,     \* those with repeatable_snapshots
    Supervised,     \* those started again whenever they are down
    Table,          \* the source's tables
    SchemaOf,       \* the schema of each
    Excluded,       \* excluded_tables
    ConfigsOf,      \* the configurations a process may be started with
    SchemaWorkers,  \* requests written at the same time
    QueryLimit,     \* rows the store returns for a schema
    MaxRows,        \* bound: no process is started when the store has these
    MaxFailures,    \* bound: failures of the snapshot itself
    MaxFaults,      \* bound: failures of the store
    MaxCrashes      \* bound: crashes

Wildcard == "*"
SchemaNames == {SchemaOf[t] : t \in Table} \union {Wildcard}

\* What one schema of the configuration asks for.
Asked == [schema : SchemaNames, tables : (SUBSET (Table \union {Wildcard})) \ {{}}]

ASSUME ConstantsOK ==
    /\ Repeatable \subseteq Proc
    /\ Supervised \subseteq Proc
    /\ Wildcard \notin Table
    /\ SchemaOf \in [Table -> STRING \ {Wildcard}]
    /\ Excluded \subseteq Table
    /\ ConfigsOf \in [Proc -> SUBSET ((SUBSET Asked) \ {{}})]
    /\ SchemaWorkers \in Nat \ {0}
    /\ QueryLimit \in Nat \ {0}
    /\ {MaxRows, MaxFailures, MaxFaults, MaxCrashes} \subseteq Nat

VARIABLES
    store,      \* the rows of pgstream.snapshot_requests, by req_id
    copied,     \* ghost: tables whose rows a snapshot has handed on in full
    pc,         \* where each process is in CreateSnapshot
    todo,       \* schemas it has not compared with the store yet
    reqs,       \* its requests, each with the stage its goroutine has reached
    left,       \* tables its data generator has yet to copy
    failed,     \* whether the wrapped generator will return an error
    failures, faults, crashes

counters == <<failures, faults, crashes>>
vars == <<store, copied, pc, todo, reqs, left, failed, counters>>
-----------------------------------------------------------------------------
(* Rows, errors and requests.                                              *)

\* Errors of a row: the errors.As of markSnapshotCompleted looks for a
\* *snapshot.Errors and the data generator returns a snapshot.Errors, so whatever
\* table failed, the error becomes a global one of every request.
NoErrors == "none"
GlobalError == "global"
Row == [schema : SchemaNames, tables : SUBSET (Table \union {Wildcard}),
        status : {"requested", "in progress", "completed"},
        errors : {NoErrors, GlobalError}]

Stages == {"new", "created", "running", "ended", "failed"}
Request == [schema : SchemaNames, tables : SUBSET (Table \union {Wildcard}),
            stage : Stages]

NewRequest(schema, tables) == [schema |-> schema, tables |-> tables, stage |-> "new"]
NewRow(r) == [schema |-> r.schema, tables |-> r.tables,
              status |-> "requested", errors |-> NoErrors]
SameRequest(a, b) == a.schema = b.schema /\ a.tables = b.tables

\* The schema and table wildcards, as the table finder explodes them.
TablesOf(r) ==
    IF r.schema = Wildcard THEN Table
    ELSE {t \in Table : SchemaOf[t] = r.schema /\ {t, Wildcard} \cap r.tables # {}}

TablesOfAll(rs) == UNION {TablesOf(r) : r \in rs}
ToCopy(rs) == TablesOfAll(rs) \ Excluded

\* Request.HasFailedForTable.
HasFailed(row) == row.status = "completed" /\ row.errors = GlobalError

\* GetSnapshotRequestsBySchema: the oldest rows of a schema.
IsReturned(i, schema) ==
    /\ store[i].schema = schema
    /\ Cardinality({j \in 1..i : store[j].schema = schema}) <= QueryLimit

\* existingRequests[table]: the rows that name a table, all but the newest of
\* which are overwritten.
Existing(schema, t) ==
    {i \in DOMAIN store :
        /\ IsReturned(i, schema)
        /\ t \in store[i].tables
        /\ \A j \in DOMAIN store :
            j > i => ~(IsReturned(j, schema) /\ t \in store[j].tables)}

\* Mutant of Keeps: a table with a row is never asked for again.
KeepsOnlyNew(schema, t) ==
    Existing(schema, t) \union Existing(schema, Wildcard) = {}

\* filterOutExistingSchemaTables: whether a table stays in the snapshot.
Keeps(schema, t) ==
    LET named == Existing(schema, t)
        wild == Existing(schema, Wildcard)
    IN IF t = Wildcard
       THEN \A i \in wild : store[i].errors = GlobalError
       ELSE \/ \E i \in named \union wild : HasFailed(store[i])
            \/ named \union wild = {}
-----------------------------------------------------------------------------
(* CreateSnapshot: what is left out.                                       *)

Down(p) ==
    /\ pc' = [pc EXCEPT ![p] = "down"]
    /\ todo' = [todo EXCEPT ![p] = {}]
    /\ reqs' = [reqs EXCEPT ![p] = {}]
    /\ left' = [left EXCEPT ![p] = {}]
    /\ failed' = [failed EXCEPT ![p] = FALSE]

\* With repeatable snapshots nothing is filtered out.
Starts(p) ==
    /\ pc[p] = "down"
    /\ Len(store) < MaxRows
    /\ \E config \in ConfigsOf[p] :
        IF p \in Repeatable
        THEN /\ pc' = [pc EXCEPT ![p] = "request"]
             /\ reqs' = [reqs EXCEPT ![p] =
                            {NewRequest(a.schema, a.tables) : a \in config}]
             /\ UNCHANGED todo
        ELSE /\ pc' = [pc EXCEPT ![p] = "filter"]
             /\ todo' = [todo EXCEPT ![p] = config]
             /\ UNCHANGED reqs
    /\ UNCHANGED <<store, copied, left, failed, counters>>

FiltersSchema(p, a) ==
    /\ pc[p] = "filter"
    /\ a \in todo[p]
    /\ todo' = [todo EXCEPT ![p] = @ \ {a}]
    /\ LET kept == {t \in a.tables : Keeps(a.schema, t)}
       IN reqs' = IF kept = {} THEN reqs
                  ELSE [reqs EXCEPT ![p] = @ \union {NewRequest(a.schema, kept)}]
    /\ UNCHANGED <<store, copied, pc, left, failed, counters>>

\* Nothing to snapshot: CreateSnapshot returns without error.
Filtered(p) ==
    /\ pc[p] = "filter"
    /\ todo[p] = {}
    /\ IF reqs[p] = {}
       THEN Down(p)
       ELSE /\ pc' = [pc EXCEPT ![p] = "request"]
            /\ UNCHANGED <<todo, reqs, left, failed>>
    /\ UNCHANGED <<store, copied, counters>>

FilterFails(p) ==
    /\ pc[p] = "filter"
    /\ todo[p] # {}
    /\ faults < MaxFaults
    /\ faults' = faults + 1
    /\ Down(p)
    /\ UNCHANGED <<store, copied, failures, crashes>>
-----------------------------------------------------------------------------
(* markSnapshotInProgress: a goroutine per request, SchemaWorkers at once. *)

Moves(p, r, stage) ==
    reqs' = [reqs EXCEPT ![p] = (@ \ {r}) \union {[r EXCEPT !.stage = stage]}]

InFlight(p) == {r \in reqs[p] : r.stage = "created"}

\* The unique index on the rows that are not completed.
Conflicts(r) ==
    \E i \in DOMAIN store : SameRequest(store[i], r) /\ store[i].status # "completed"

\* Mutant of CreatesRequest: the index also lets unfinished requests repeat.
CreatesRequestAnyway(p, r) ==
    /\ pc[p] = "request"
    /\ r.stage = "new"
    /\ Cardinality(InFlight(p)) < SchemaWorkers
    /\ store' = Append(store, NewRow(r))
    /\ Moves(p, r, "created")
    /\ UNCHANGED <<copied, pc, todo, left, failed, counters>>

CreatesRequest(p, r) ==
    /\ pc[p] = "request"
    /\ r.stage = "new"
    /\ Cardinality(InFlight(p)) < SchemaWorkers
    /\ ~Conflicts(r)
    /\ store' = Append(store, NewRow(r))
    /\ Moves(p, r, "created")
    /\ UNCHANGED <<copied, pc, todo, left, failed, counters>>

\* UpdateSnapshotRequest: every row of the same schema and tables that is not
\* completed.
Updated(r, status, errors) ==
    [i \in DOMAIN store |->
        IF SameRequest(store[i], r) /\ store[i].status # "completed"
        THEN [store[i] EXCEPT !.status = status, !.errors = errors]
        ELSE store[i]]

MarksInProgress(p, r) ==
    /\ pc[p] = "request"
    /\ r.stage = "created"
    /\ store' = Updated(r, "in progress", NoErrors)
    /\ Moves(p, r, "running")
    /\ UNCHANGED <<copied, pc, todo, left, failed, counters>>

\* A request another process has not completed is refused; once a request has
\* failed, the group's context is cancelled and those under way may fail as well.
RequestRefused(p, r) ==
    /\ pc[p] = "request"
    /\ \/ r.stage = "new" /\ Conflicts(r)
       \/ /\ r.stage \in {"new", "created"}
          /\ \E other \in reqs[p] : other.stage = "failed"
    /\ Moves(p, r, "failed")
    /\ UNCHANGED <<store, copied, pc, todo, left, failed, counters>>

\* The store does not answer; it may have written the row all the same.
RequestLost(p, r) ==
    /\ pc[p] = "request"
    /\ faults < MaxFaults
    /\ faults' = faults + 1
    /\ \/ r.stage \in {"new", "created"} /\ UNCHANGED store
       \/ r.stage = "new" /\ ~Conflicts(r) /\ store' = Append(store, NewRow(r))
    /\ Moves(p, r, "failed")
    /\ UNCHANGED <<copied, pc, todo, left, failed, failures, crashes>>

\* eg.Wait: one failed request ends CreateSnapshot, and the rows the others have
\* written stay as they are.
Requested(p) ==
    /\ pc[p] = "request"
    /\ \A r \in reqs[p] : r.stage \in {"running", "failed"}
    /\ IF \E r \in reqs[p] : r.stage = "failed"
       THEN Down(p)
       ELSE /\ pc' = [pc EXCEPT ![p] = "copy"]
            /\ left' = [left EXCEPT ![p] = ToCopy(reqs[p])]
            /\ UNCHANGED <<todo, reqs, failed>>
    /\ UNCHANGED <<store, copied, counters>>
-----------------------------------------------------------------------------
(* The wrapped generator.                                                  *)

CopiesTable(p, t) ==
    /\ pc[p] = "copy"
    /\ t \in left[p]
    /\ copied' = copied \union {t}
    /\ left' = [left EXCEPT ![p] = @ \ {t}]
    /\ UNCHANGED <<store, pc, todo, reqs, failed, counters>>

\* One table fails, and the others go on.
TableFails(p, t) ==
    /\ pc[p] = "copy"
    /\ t \in left[p]
    /\ failures < MaxFailures
    /\ failures' = failures + 1
    /\ failed' = [failed EXCEPT ![p] = TRUE]
    /\ left' = [left EXCEPT ![p] = @ \ {t}]
    /\ UNCHANGED <<store, copied, pc, todo, reqs, faults, crashes>>

\* A dump or a restore fails, or the command is interrupted.
GeneratorFails(p) ==
    /\ pc[p] = "copy"
    /\ failures < MaxFailures
    /\ failures' = failures + 1
    /\ failed' = [failed EXCEPT ![p] = TRUE]
    /\ left' = [left EXCEPT ![p] = {}]
    /\ UNCHANGED <<store, copied, pc, todo, reqs, faults, crashes>>

GeneratorReturns(p) ==
    /\ pc[p] = "copy"
    /\ left[p] = {}
    /\ pc' = [pc EXCEPT ![p] = "complete"]
    /\ UNCHANGED <<store, copied, todo, reqs, left, failed, counters>>
-----------------------------------------------------------------------------
(* markSnapshotCompleted.                                                  *)

Errors(p) == IF failed[p] THEN GlobalError ELSE NoErrors

\* Mutant of CompletesRequest: the errors are looked up by the request's schema,
\* which for the wildcard names none of the schemas that failed.
CompletesRequestBySchema(p, r) ==
    /\ pc[p] = "complete"
    /\ r.stage = "running"
    /\ store' = Updated(r, "completed",
                        IF r.schema = Wildcard THEN NoErrors ELSE Errors(p))
    /\ Moves(p, r, "ended")
    /\ UNCHANGED <<copied, pc, todo, left, failed, counters>>

CompletesRequest(p, r) ==
    /\ pc[p] = "complete"
    /\ r.stage = "running"
    /\ store' = Updated(r, "completed", Errors(p))
    /\ Moves(p, r, "ended")
    /\ UNCHANGED <<copied, pc, todo, left, failed, counters>>

\* An update that fails is returned, and cancels the others, when the snapshot had
\* no error; otherwise it is added to an error that is not stored any more.
CompletionCancelled(p, r) ==
    /\ pc[p] = "complete"
    /\ r.stage = "running"
    /\ ~failed[p]
    /\ \E other \in reqs[p] : other.stage = "failed"
    /\ Moves(p, r, "failed")
    /\ UNCHANGED <<store, copied, pc, todo, left, failed, counters>>

CompletionLost(p, r) ==
    /\ pc[p] = "complete"
    /\ r.stage = "running"
    /\ faults < MaxFaults
    /\ faults' = faults + 1
    /\ store' \in {store, Updated(r, "completed", Errors(p))}
    /\ Moves(p, r, "failed")
    /\ UNCHANGED <<copied, pc, todo, left, failed, failures, crashes>>

Ends(p) ==
    /\ pc[p] = "complete"
    /\ \A r \in reqs[p] : r.stage \in {"ended", "failed"}
    /\ Down(p)
    /\ UNCHANGED <<store, copied, counters>>

Crashes(p) ==
    /\ pc[p] # "down"
    /\ crashes < MaxCrashes
    /\ crashes' = crashes + 1
    /\ Down(p)
    /\ UNCHANGED <<store, copied, failures, faults>>
-----------------------------------------------------------------------------
Init ==
    /\ store = <<>>
    /\ copied = {}
    /\ pc = [p \in Proc |-> "down"]
    /\ todo = [p \in Proc |-> {}]
    /\ reqs = [p \in Proc |-> {}]
    /\ left = [p \in Proc |-> {}]
    /\ failed = [p \in Proc |-> FALSE]
    /\ failures = 0
    /\ faults = 0
    /\ crashes = 0

\* The steps a process takes on its own.
Runs(p) ==
    \/ \E a \in todo[p] : FiltersSchema(p, a)
    \/ Filtered(p)
    \/ \E r \in reqs[p] : CreatesRequest(p, r) \/ MarksInProgress(p, r)
    \/ \E r \in reqs[p] : RequestRefused(p, r)
    \/ Requested(p)
    \/ \E t \in left[p] : CopiesTable(p, t)
    \/ GeneratorReturns(p)
    \/ \E r \in reqs[p] : CompletesRequest(p, r) \/ CompletionCancelled(p, r)
    \/ Ends(p)

Disturbed(p) ==
    \/ FilterFails(p)
    \/ \E t \in left[p] : TableFails(p, t)
    \/ GeneratorFails(p)
    \/ \E r \in reqs[p] : RequestLost(p, r) \/ CompletionLost(p, r)
    \/ Crashes(p)

Next == \E p \in Proc : Starts(p) \/ Runs(p) \/ Disturbed(p)

\* A process goes on until it returns, and a supervisor starts it again.
Fairness ==
    /\ \A p \in Proc : WF_vars(Runs(p))
    /\ \A p \in Supervised : WF_vars(Starts(p))

Spec == Init /\ [][Next]_vars
FairSpec == Spec /\ Fairness
-----------------------------------------------------------------------------
(* Properties.                                                             *)

TypeOK ==
    /\ store \in Seq(Row)
    /\ copied \subseteq Table \ Excluded
    /\ pc \in [Proc -> {"down", "filter", "request", "copy", "complete"}]
    /\ todo \in [Proc -> SUBSET Asked]
    /\ reqs \in [Proc -> SUBSET Request]
    /\ left \in [Proc -> SUBSET (Table \ Excluded)]
    /\ failed \in [Proc -> BOOLEAN]
    /\ \A p \in Proc : Cardinality(InFlight(p)) <= SchemaWorkers
    /\ failures \in 0..MaxFailures
    /\ faults \in 0..MaxFaults
    /\ crashes \in 0..MaxCrashes

\* A row that is completed without errors tells the truth: every table it stands
\* for has been copied in full, whichever process wrote the row and whatever the
\* wildcards in it stood for.
CompletedIsCopied ==
    \A i \in DOMAIN store :
        store[i].status = "completed" /\ store[i].errors = NoErrors =>
            TablesOf(store[i]) \ Excluded \subseteq copied

\* Two processes never work on the same request at the same time: the unique index
\* refuses the second.
NoRequestTwiceAtOnce ==
    \A p, q \in Proc : p # q =>
        \A r \in reqs[p], s \in reqs[q] :
            {r.stage, s.stage} \subseteq {"created", "running"} => ~SameRequest(r, s)

\* The tables process p leaves out when it compares a schema with the store.
LeftOut(p) ==
    ToCopy(todo[p] \ todo'[p]) \ TablesOfAll(reqs'[p])

Unfinished == {i \in DOMAIN store : store[i].status # "completed"}
FiltersNow(p) == pc[p] = "filter" /\ pc'[p] = "filter"

\* Without repeatable snapshots, a table is left out only when it was copied or
\* its request has been left unfinished, by a process still at it or one that is
\* gone: one that failed is asked for again, across wildcards, restarts and
\* changes of the configuration.
SkipsOnlyTakenOrUnfinished ==
    [][\A p \in Proc : FiltersNow(p) =>
        LeftOut(p) \subseteq copied \union TablesOfAll({store[i] : i \in Unfinished})]_vars

\* When neither the store fails nor the process crashes nor another one
\* interferes, every table that is asked for in every start is copied in the end,
\* however often the snapshot fails on the way.
Alone(p) == crashes = 0 /\ faults = 0 /\ \A q \in Proc \ {p} : pc[q] = "down"
EverythingCopied ==
    \A p \in Supervised \ Repeatable :
        [](Alone(p)) =>
            <>(\A config \in ConfigsOf[p] : ToCopy(config) \subseteq copied)
=============================================================================
