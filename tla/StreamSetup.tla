----------------------------- MODULE StreamSetup -----------------------------
(***************************************************************************)
(* What pgstream keeps in the source database, and the commands that make, *)
(* check and remove it (pkg/stream/stream_init.go, stream_status_checker,  *)
(* internal/migrator): a schema, two tables of applied migrations, the     *)
(* function and the event triggers that write DDL into the log, and the    *)
(* replication slot.  An action is one statement; the commands of several  *)
(* processes interleave, and any of them may be cut off.                   *)
(*                                                                         *)
(* Migrations are run by golang-migrate: under an advisory lock of the     *)
(* migrations table, the version is set and marked dirty, the file is run, *)
(* and the mark is taken away.                                             *)
(***************************************************************************)
EXTENDS Integers, Sequences, FiniteSets, SequencesExt

CONSTANTS
  Proc,        \* pgstream processes
  Invocations,    \* the commands they are given: [kind, only (migrations), injector]
  Together,    \* the kinds of commands that may run at the same time
  Starts,      \* what is in the database at the start: "nothing" or "v0.9"
  Slots,       \* the slot of the configured name at the start
  InitOnOld,   \* TRUE: init without --upgrade is also run on a v0.9 database
  MaxCommands, MaxCutOffs  \* bounds: commands given, commands cut off

Migrations == [core |-> 3, injector |-> 5]
Triggers == {"emit_ddl_drop", "emit_ddl_command_end"}
\* What v0.9 leaves behind, in the order the clean up drops it.
OldObjects == <<"log_schema", "get_schema", "refresh_schema", "schema_log", "schema_migrations">>
OldTriggers == {"log_schema_create_alter_table", "log_schema_drop_schema_table"}
SlotKinds == {"none", "own", "otherPlugin", "otherDatabase"}
Free == "free"

\* What a command is run with: only the migrations, and with the injector's.
Invocation == [kind : {"init", "upgrade", "destroy", "status"}, only : BOOLEAN, injector : BOOLEAN]

ASSUME SetupAssumption ==
  /\ Invocations \subseteq Invocation /\ Invocations # {}
  /\ Together \subseteq {"init", "upgrade", "destroy", "status"}
  /\ Starts \subseteq {"nothing", "v0.9"} /\ Slots \subseteq SlotKinds
  /\ InitOnOld \in BOOLEAN
  /\ {MaxCommands, MaxCutOffs} \subseteq Nat
  /\ Free \notin Proc

VARIABLES
  schema,   \* the schema pgstream exists
  migrated, \* the tables of migrations: [exists, version, dirty]
  db,       \* [emit: the body of emit_ddl, triggers, helpers: what emit_ddl calls]
  old,      \* objects and triggers of v0.9
  slot,     \* the slot of the configured name
  active,   \* a stream reads from it
  locks,    \* golang-migrate's advisory locks
  pc, command, asset, listed, problems, struck, \* of each process
  outcome,  \* what its last command returned
  given, cutOffs

database == <<schema, migrated, db, old, slot>>
local == <<command, asset, listed, problems, struck>>
setupVars == <<database, active, locks, pc, local, outcome, given, cutOffs>>
-----------------------------------------------------------------------------
(* The migration files.                                                    *)

Assets(c) == IF c.injector THEN <<"core", "injector">> ELSE <<"core">>

CoreUp(v, d) ==
  CASE v = 1 -> [d EXCEPT !.helpers = @ \cup {"is_system_schema"}]
    [] v = 2 -> [d EXCEPT !.emit = "core", !.triggers = Triggers]
    [] v = 3 -> [d EXCEPT !.emit = "core"]
CoreDown(v, d) ==
  CASE v = 3 -> [d EXCEPT !.emit = "core"]
    [] v = 2 -> [d EXCEPT !.emit = "none", !.triggers = {}]
    [] v = 1 -> [d EXCEPT !.helpers = @ \ {"is_system_schema"}]

\* Mutant of InjectorUp: the function is replaced before its table is made.
InjectorUpEarly(v, d) ==
  CASE v = 1 -> [d EXCEPT !.helpers = @ \cup {"xid"}]
    [] v = 3 -> [d EXCEPT !.helpers = @ \cup {"table_ids"}]
    [] v \in {2, 4} -> [d EXCEPT !.emit = "injector"]
    [] v = 5 -> d

InjectorUp(v, d) ==
  CASE v = 1 -> [d EXCEPT !.helpers = @ \cup {"xid"}]
    [] v = 2 -> [d EXCEPT !.helpers = @ \cup {"table_ids"}]
    [] v \in {3, 4} -> [d EXCEPT !.emit = "injector"]
    [] v = 5 -> d

InjectorDown(v, d) ==
  CASE v = 5 -> d
    [] v = 4 -> [d EXCEPT !.emit = "injector"]
    [] v = 3 -> [d EXCEPT !.emit = "core"]
    [] v = 2 -> [d EXCEPT !.helpers = @ \ {"table_ids"}]
    [] v = 1 -> [d EXCEPT !.helpers = @ \ {"xid"}]

Up(m, v, d) == IF m = "core" THEN CoreUp(v, d) ELSE InjectorUp(v, d)
Down(m, v, d) == IF m = "core" THEN CoreDown(v, d) ELSE InjectorDown(v, d)

\* The triggers are created without OR REPLACE.
UpFails(m, v, d) == m = "core" /\ v = 2 /\ d.triggers \cap Triggers # {}
-----------------------------------------------------------------------------
Gone == [exists |-> FALSE, version |-> 0, dirty |-> FALSE]

SetupInit ==
  /\ \E s \in Starts :
       /\ schema = (s = "v0.9")
       /\ old = IF s = "v0.9" THEN OldTriggers \cup ToSet(OldObjects) ELSE {}
  /\ slot \in Slots
  /\ migrated = [m \in {"core", "injector"} |-> Gone]
  /\ db = [emit |-> "none", triggers |-> {}, helpers |-> {}]
  /\ active = FALSE /\ locks = [m \in {"core", "injector"} |-> Free]
  /\ pc = [p \in Proc |-> "idle"] /\ command = [p \in Proc |-> CHOOSE c \in Invocations : TRUE]
  /\ asset = [p \in Proc |-> 1] /\ listed = [p \in Proc |-> {}]
  /\ problems = [p \in Proc |-> FALSE] /\ struck = [p \in Proc |-> FALSE]
  /\ outcome = [p \in Proc |-> "none"]
  /\ given = 0 /\ cutOffs = 0

Is(p, kind) == command[p].kind = kind
Installs(p) == command[p].kind \in {"init", "upgrade"}
Running == {p \in Proc : pc[p] # "idle"}

Goto(p, label) == pc' = [pc EXCEPT ![p] = label]

Unlocked(p) == locks' = [m \in DOMAIN locks |-> IF locks[m] = p THEN Free ELSE locks[m]]

Returns(p, result) ==
  /\ Goto(p, "idle") /\ outcome' = [outcome EXCEPT ![p] = result]
  /\ Unlocked(p)
GoesTo(p, label) == Goto(p, label) /\ UNCHANGED <<locks, outcome>>

Begin(p, c) ==
  /\ pc[p] = "idle" /\ given < MaxCommands /\ given' = given + 1
  /\ Running # {} => {c.kind} \cup {command[q].kind : q \in Running} \subseteq Together
  /\ c.kind = "init" /\ old # {} => InitOnOld
  /\ command' = [command EXCEPT ![p] = c]
  /\ asset' = [asset EXCEPT ![p] = 1] /\ listed' = [listed EXCEPT ![p] = {}]
  /\ problems' = [problems EXCEPT ![p] = FALSE] /\ struck' = [struck EXCEPT ![p] = FALSE]
  /\ outcome' = [outcome EXCEPT ![p] = "none"]
  /\ Goto(p, CASE c.kind \in {"init", "upgrade"} -> "schema"
               [] c.kind = "destroy" -> "open"
               [] c.kind = "status" -> "validateSchema")
  /\ UNCHANGED <<database, active, locks, cutOffs>>

\* The process dies, or its connection does.
CutOff(p) ==
  /\ pc[p] # "idle" /\ cutOffs < MaxCutOffs /\ cutOffs' = cutOffs + 1
  /\ struck' = [struck EXCEPT ![p] = TRUE]
  /\ Returns(p, "error")
  /\ UNCHANGED <<database, active, command, asset, listed, problems, given>>
-----------------------------------------------------------------------------
(* Init: the schema, and with --upgrade the clean up of v0.9.              *)

CreatePGStreamSchema(p) ==
  /\ pc[p] = "schema"
  /\ schema' = TRUE
  /\ GoesTo(p, IF Is(p, "upgrade") THEN "cleanup" ELSE "open")
  /\ UNCHANGED <<migrated, db, old, slot, local>>

CheckV09(p) ==
  /\ pc[p] = "cleanup"
  /\ GoesTo(p, IF "schema_migrations" \in old THEN "list" ELSE "open")
  /\ UNCHANGED <<database, local>>

\* SELECT evtname ... LIKE 'pgstream_%'
ListTriggers(p) ==
  /\ pc[p] = "list"
  /\ listed' = [listed EXCEPT ![p] = (old \cap OldTriggers) \cup db.triggers]
  /\ GoesTo(p, "dropTriggers")
  /\ UNCHANGED <<database, command, asset, problems, struck>>

DropTrigger(p) ==
  /\ pc[p] = "dropTriggers"
  /\ \/ \E t \in listed[p] :
          /\ listed' = [listed EXCEPT ![p] = @ \ {t}]
          /\ old' = old \ {t} /\ db' = [db EXCEPT !.triggers = @ \ {t}]
          /\ GoesTo(p, "dropTriggers")
          /\ UNCHANGED <<schema, migrated, slot, command, asset, problems, struck>>
     \/ listed[p] = {} /\ GoesTo(p, "dropOld") /\ UNCHANGED <<database, local>>

\* Mutant of CleanupOrder: the table that shows that there is something to clean
\* up is dropped first.
CleanupOrderReversed == Reverse(OldObjects)

CleanupOrder == OldObjects

\* Each statement drops the first object that is left; a function that a trigger
\* needs is not dropped.
DropOldObject(p) ==
  /\ pc[p] = "dropOld"
  /\ LET left == {i \in DOMAIN CleanupOrder : CleanupOrder[i] \in old} IN
     \/ left = {} /\ GoesTo(p, "open") /\ UNCHANGED <<database, local>>
     \/ \E i \in left :
          /\ \A j \in left : i <= j
          /\ IF CleanupOrder[i] = "log_schema" /\ old \cap OldTriggers # {}
             THEN Returns(p, "error") /\ UNCHANGED <<database, local>>
             ELSE /\ old' = old \ {CleanupOrder[i]}
                  /\ GoesTo(p, "dropOld")
                  /\ UNCHANGED <<schema, migrated, db, slot, local>>
-----------------------------------------------------------------------------
(* The migrator.                                                           *)

NextAsset(p, label, after) ==
  IF asset[p] < Len(Assets(command[p]))
  THEN asset' = [asset EXCEPT ![p] = @ + 1] /\ Goto(p, label)
  ELSE asset' = [asset EXCEPT ![p] = 1] /\ Goto(p, after)

Table(p) == Assets(command[p])[asset[p]]

\* Opening a migrator makes its table, in a schema that must be there.
OpenMigrator(p) ==
  /\ pc[p] = "open" /\ locks[Table(p)] = Free
  /\ IF ~schema THEN Returns(p, "error") /\ UNCHANGED <<migrated, asset>>
     ELSE /\ migrated' = [migrated EXCEPT ![Table(p)].exists = TRUE]
          /\ NextAsset(p, "open", CASE Installs(p) -> "lock" [] Is(p, "destroy") -> "lock"
                                    [] Is(p, "status") -> "validateVersion")
          /\ UNCHANGED <<locks, outcome>>
  /\ UNCHANGED <<schema, db, old, slot, command, listed, problems, struck>>

\* Down takes the migrators in reverse order.
Current(p) ==
  LET assets == Assets(command[p]) IN
  IF Is(p, "destroy") THEN assets[Len(assets) + 1 - asset[p]] ELSE assets[asset[p]]

\* A dirty version is refused.
LockMigrations(p) ==
  /\ pc[p] = "lock" /\ locks[Current(p)] = Free
  /\ IF ~migrated[Current(p)].exists \/ migrated[Current(p)].dirty
     THEN Returns(p, "error")
     ELSE /\ locks' = [locks EXCEPT ![Current(p)] = p]
          /\ Goto(p, "next") /\ UNCHANGED outcome
  /\ UNCHANGED <<database, local>>

\* The version the next file leads to is set, and marked dirty, before it runs.
NextMigration(p) ==
  /\ pc[p] = "next"
  /\ LET m == Current(p)
         v == migrated[m].version IN
     IF v = (IF Is(p, "destroy") THEN 0 ELSE Migrations[m])
     THEN /\ NextAsset(p, "lock", IF Is(p, "destroy") THEN "remove"
                                  ELSE IF command[p].only THEN "succeed" ELSE "slot")
          /\ Unlocked(p)
          /\ UNCHANGED migrated
     ELSE /\ migrated' = [migrated EXCEPT ![m] =
               [exists |-> TRUE, dirty |-> TRUE, version |-> IF Is(p, "destroy") THEN v - 1 ELSE v + 1]]
          /\ Goto(p, "run") /\ UNCHANGED <<asset, locks>>
  /\ UNCHANGED <<schema, db, old, slot, command, listed, problems, struck, outcome>>

\* A file is run as a whole or not at all.
RunMigration(p) ==
  /\ pc[p] = "run"
  /\ LET m == Current(p)
         v == migrated[m].version IN
     IF Is(p, "destroy") THEN db' = Down(m, v + 1, db) /\ GoesTo(p, "clean")
     ELSE IF UpFails(m, v, db) THEN Returns(p, "error") /\ UNCHANGED db
     ELSE db' = Up(m, v, db) /\ GoesTo(p, "clean")
  /\ UNCHANGED <<schema, migrated, old, slot, local>>

CleanMigration(p) ==
  /\ pc[p] = "clean"
  /\ migrated' = [migrated EXCEPT ![Current(p)].dirty = FALSE]
  /\ GoesTo(p, "next")
  /\ UNCHANGED <<schema, db, old, slot, local>>
-----------------------------------------------------------------------------
(* Init: the slot, looked up by its name and created if it is not there.   *)

ReplicationSlotExists(p) ==
  /\ pc[p] = "slot"
  /\ GoesTo(p, IF slot = "none" THEN "createSlot" ELSE "succeed")
  /\ UNCHANGED <<database, local>>

\* That another init has made it meanwhile is no error.
CreateReplicationSlot(p) ==
  /\ pc[p] = "createSlot"
  /\ slot' = IF slot = "none" THEN "own" ELSE slot
  /\ GoesTo(p, "succeed")
  /\ UNCHANGED <<schema, migrated, db, old, local>>

Succeed(p) == pc[p] = "succeed" /\ Returns(p, "ok") /\ UNCHANGED <<database, local>>
-----------------------------------------------------------------------------
(* Destroy, after the migrations are reverted.                             *)

DropMigrationTables(p) ==
  /\ pc[p] = "remove" /\ command[p].only
  /\ migrated' = [migrated EXCEPT ![Table(p)] = Gone]
  /\ NextAsset(p, "remove", "succeed")
  /\ UNCHANGED <<schema, db, old, slot, command, listed, problems, struck, locks, outcome>>

\* CASCADE takes the event triggers with their function.
DropPGStreamSchema(p) ==
  /\ pc[p] = "remove" /\ ~command[p].only
  /\ schema' = FALSE /\ migrated' = [m \in DOMAIN migrated |-> Gone] /\ old' = {}
  /\ db' = [emit |-> "none", triggers |-> {}, helpers |-> {}]
  /\ GoesTo(p, "dropSlot")
  /\ UNCHANGED <<slot, local>>

\* A slot in use, or of another database, cannot be dropped.
DropReplicationSlot(p) ==
  /\ pc[p] = "dropSlot"
  /\ IF slot # "none" /\ (active \/ slot = "otherDatabase")
     THEN Returns(p, "error") /\ UNCHANGED slot
     ELSE slot' = "none" /\ GoesTo(p, "succeed")
  /\ UNCHANGED <<schema, migrated, db, old, local>>
-----------------------------------------------------------------------------
(* Status.                                                                 *)

Notes(p, problem) == problems' = [problems EXCEPT ![p] = @ \/ problem]

ValidateSchemaStatus(p) ==
  /\ pc[p] = "validateSchema"
  /\ Notes(p, ~schema) /\ GoesTo(p, IF schema THEN "open" ELSE "validateSlot")
  /\ UNCHANGED <<database, command, asset, listed, struck>>

\* Mutant of VersionProblem: a dirty version is no problem.
VersionProblemIfMissing(m) == migrated[m].version # Migrations[m]

VersionProblem(m) == migrated[m].version # Migrations[m] \/ migrated[m].dirty

ValidateMigrationStatus(p) ==
  /\ pc[p] = "validateVersion"
  /\ Notes(p, VersionProblem(Table(p)))
  /\ NextAsset(p, "validateVersion", "validateSlot")
  /\ UNCHANGED <<database, command, listed, struck, locks, outcome>>

ValidateReplicationSlotStatus(p) ==
  /\ pc[p] = "validateSlot"
  /\ Notes(p, slot # "own")
  /\ Returns(p, IF problems'[p] THEN "problems" ELSE "clean")
  /\ UNCHANGED <<database, command, asset, listed, struck>>
-----------------------------------------------------------------------------
\* Somebody starts to stream from the slot, or stops.
Stream == slot = "own" /\ active' = ~active /\ UNCHANGED <<database, locks, pc, local, outcome, given, cutOffs>>

InitStep(p) ==
  \/ CreatePGStreamSchema(p) \/ CheckV09(p) \/ ListTriggers(p) \/ DropTrigger(p) \/ DropOldObject(p)
  \/ ReplicationSlotExists(p) \/ CreateReplicationSlot(p) \/ Succeed(p)
MigratorStep(p) ==
  OpenMigrator(p) \/ LockMigrations(p) \/ NextMigration(p) \/ RunMigration(p) \/ CleanMigration(p)
DestroyStep(p) == DropMigrationTables(p) \/ DropPGStreamSchema(p) \/ DropReplicationSlot(p)
StatusStep(p) == ValidateSchemaStatus(p) \/ ValidateMigrationStatus(p) \/ ValidateReplicationSlotStatus(p)

Step(p) ==
  /\ InitStep(p) \/ MigratorStep(p) \/ DestroyStep(p) \/ StatusStep(p)
  /\ UNCHANGED <<active, given, cutOffs>>

SetupNext ==
  \/ \E p \in Proc : Step(p) \/ CutOff(p) \/ \E c \in Invocations : Begin(p, c)
  \/ Stream

SetupSpec == SetupInit /\ [][SetupNext]_setupVars
-----------------------------------------------------------------------------
(* Properties.                                                             *)

SetupTypeOK ==
  /\ schema \in BOOLEAN /\ active \in BOOLEAN /\ slot \in SlotKinds
  /\ \A m \in DOMAIN migrated : migrated[m].version \in 0..Migrations[m] /\ migrated[m].dirty \in BOOLEAN
  /\ db.emit \in {"none", "core", "injector"} /\ db.triggers \subseteq Triggers
  /\ db.helpers \subseteq {"is_system_schema", "xid", "table_ids"}
  /\ old \subseteq OldTriggers \cup ToSet(OldObjects)
  /\ \A m \in DOMAIN locks : locks[m] = Free \/ pc[locks[m]] \in {"next", "run", "clean"}
  /\ \A p \in Proc : command[p] \in Invocations /\ asset[p] \in 1..Len(Assets(command[p]))

\* Everything a command's stream relies on: both triggers, and the emit_ddl that
\* the configuration asks for.
Ready(c) ==
  /\ schema /\ db.triggers = Triggers
  /\ db.emit = IF c.injector THEN "injector" ELSE "core"
  /\ \A m \in ToSet(Assets(c)) : migrated[m].version = Migrations[m] /\ ~migrated[m].dirty

Finishes(p, result) == pc[p] # "idle" /\ pc'[p] = "idle" /\ outcome'[p] = result

\* An init that is not cut off succeeds, unless a migration was cut off before it;
\* and one that succeeds leaves everything in place, whatever other inits did
\* meanwhile, and after --upgrade nothing of v0.9 is left.
InitSucceeds ==
  [][\A p \in Proc : Installs(p) =>
       /\ Finishes(p, "error") /\ ~struck'[p] => \E m \in DOMAIN migrated : migrated[m].dirty
       /\ Finishes(p, "ok") =>
            /\ Ready(command[p])' /\ (~command[p].only => slot' # "none")
            /\ Is(p, "upgrade") => old' = {}]_setupVars

\* A status without problems means that DDL is being logged and that the slot is
\* the one the stream will read.
CleanStatusMeansReady ==
  [][\A p \in Proc : Finishes(p, "clean") => Ready(command[p])' /\ slot' = "own"]_setupVars

Calls == [none |-> {}, core |-> {"is_system_schema"}, injector |-> {"is_system_schema", "xid", "table_ids"}]

\* The event triggers never call something that is not there, which would make
\* every DDL statement of the source's users fail: not between two migrations, up
\* or down, and not when they are left unfinished.
DDLKeepsWorking ==
  /\ db.triggers # {} => db.emit # "none" /\ Calls[db.emit] \subseteq db.helpers
  /\ old \cap OldTriggers # {} => "log_schema" \in old

=============================================================================
