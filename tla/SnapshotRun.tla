----------------------------- MODULE SnapshotRun -----------------------------
(***************************************************************************)
(* A snapshot as pkg/snapshot/generator/postgres builds it: the schema     *)
(* snapshot generator wraps the table finder, which wraps the data         *)
(* snapshot generator.  Copy is the data generator, whose result the       *)
(* schema generator waits for.                                             *)
(***************************************************************************)
EXTENDS SchemaSnapshot

CONSTANTS Schema, Table, SnapshotWorkers, SchemaWorkers, TableWorker,
          BatchBytes, AvgPageBytes     \* of the copy; a case has its `source'

VARIABLES asked, schema, errors, table, pushed, taken, worker, handed, mapped,
          sender, target, faults

Copy == INSTANCE DataSnapshot WITH snap <- data, source <- case.source,
                                   Snapshots <- {c.source : c \in Cases}

ASSUME SnapshotAssumption == Copy!SizesAssumption

\* The tables of a dump, and those a request names, are tables of the source.
ASSUME TablesAssumption ==
  \A c \in Cases : c.copyData =>
    /\ \A x \in DOMAIN c.request : c.request[x] \subseteq Table \cup {Wildcard}
    /\ \A s \in Range(c.dump) : Text[s].table \in Table \cup {NoTable}

copyVars == <<asked, schema, errors, table, pushed, taken, worker, handed, mapped,
              sender, target, faults>>
vars == <<schemaVars, copyVars>>

Init == SchemaInit /\ Copy!Init

\* CreateSnapshot of the table finder: a wildcard becomes the tables of the
\* schema, or of all schemas; excluded tables are taken out.  The queries for
\* them may fail.
FoundTables == UNION {AskedTables(x) : x \in AskedSchemas} \ case.without
FindTables ==
  /\ stage = "data" /\ case.copyData /\ data = "idle"
  /\ UNCHANGED <<case, stage, dump, keep, objects, granted, bars, attempt>>
  /\ \/ Copy!Start(FoundTables) /\ UNCHANGED failures
     \/ Fails /\ Copy!NotStarted

CopySteps ==
  /\ UNCHANGED <<case, stage, dump, keep, objects, granted, bars, failures, attempt>>
  /\ Copy!Next

Steps == FindTables \/ CopySteps \/ (SchemaSteps /\ UNCHANGED copyVars)
Next == Steps \/ (TrackerTicks /\ UNCHANGED copyVars)

Spec == Init /\ [][Next]_vars

(* Every goroutine is scheduled, and a query, a write or a command that is *)
(* waited for returns.                                                     *)
Returns == stage \notin {"data", "ok", "error"} /\ stage' \in Stages \ {stage}
Fairness ==
  /\ WF_stage(Returns)
  /\ WF_vars(FindTables) /\ WF_vars(CopySteps)
  /\ WF_vars(DataReturns /\ UNCHANGED copyVars)
FairSpec == Spec /\ Fairness

-----------------------------------------------------------------------------
(* Properties *)

TypeOK == SchemaTypeOK /\ Copy!TypeOK

(* Every row is read in the exported snapshot and accepted by a batch      *)
(* sender once (DataSnapshot.tla).                                         *)
RowsHandedOnce == Copy!RowsHandedOnce /\ Copy!SnapshotStaysOpen

(* What an accepted snapshot lacks was lost by a sender's writer           *)
(* (DataSnapshot.tla).                                                     *)
MissingRowsFailedUnseen == Copy!MissingRowsFailedUnseen

(* A snapshot ends, whatever fails: no worker or producer of the copy      *)
(* waits for a channel that nobody serves, and the tracker is let go.      *)
SnapshotReturns ==
  stage = "dump" ~> stage \in {"ok", "error"} \/ data = "crashed"
=============================================================================
