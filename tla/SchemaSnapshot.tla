--------------------------- MODULE SchemaSnapshot ---------------------------
(***************************************************************************)
(* The schema snapshot generator of pkg/snapshot/generator/postgres/schema *)
(* (pgdumprestore): it dumps the source with pg_dump and pg_dumpall, sorts *)
(* the lines of the dump into sections, restores them into the target in a *)
(* fixed order, and calls the data snapshot generator in between.          *)
(*                                                                         *)
(* A dump is a sequence of statements, each a sequence of lines.  The code *)
(* sorts LINES by what they begin with; psql executes STATEMENTS.  A line  *)
(* is its statement and number, and of its text only the class is kept     *)
(* that parseDump tells apart.                                             *)
(***************************************************************************)
EXTENDS Integers, Sequences, FiniteSets, SequencesExt, TLC, Selection

CONSTANTS
  Text,          \* the statements there are: a record for each name
  Cases,         \* what can be asked, of which source, how configured (below)
  Managed,       \* roles of the cloud provider, and "postgres"
  Predefined     \* the other roles that every Postgres has

NoTable == "-"
Wildcard == "*"

(***************************************************************************)
(* A statement: the name of what it makes, the classes of its lines, the   *)
(* names it needs in the target, its schema (of an event trigger that of   *)
(* its function), the table it belongs to, the roles on it, and whether it *)
(* gives an owner, or makes something unique; of a label the provider.     *)
(* A case:                                                                 *)
(*   dump      the statements of the whole source, in pg_dump's order      *)
(*   roles     the roles of the source, grants the pairs <<role, member>>  *)
(*   request   [schema -> tables], a schema's tables may be the Wildcard   *)
(*             and the only schema as well                                 *)
(*   without   tables that are excluded from the snapshot                  *)
(*   labels    providers whose security labels are excluded                *)
(*   global    with objects of the database, such as event triggers        *)
(*   clean     the target's objects are dropped first                      *)
(*   targetsFirst  keys are restored before the rows                       *)
(*   superuser the user that restores may do everything                    *)
(*   copyRoles, copyData, tracked   what is restored and shown             *)
(*   toWAL     the target is no Postgres                                   *)
(*   full      the target holds what an earlier snapshot left              *)
(*   maxFaults, attempts  bounds: failing calls, calls of CreateSnapshot   *)
(***************************************************************************)
\* Rows and statements for a target that is no Postgres pass through the same
\* processor, which the data generator closes: StreamRun models the two together.
ASSUME CasesAssumption == \A c \in Cases : c.toWAL => ~c.copyData

VARIABLES
  case,      \* the member of Cases that is run
  stage,     \* the next call of CreateSnapshot, or its result
  dump,      \* the sections of the parsed dump
  keep,      \* roles to restore, TRUE for those known to own something
  objects,   \* names in the target
  granted,   \* roles that the restoring user is a member of
  data,      \* the wrapped generator: "idle", "running", ..., "ok", "error"
  bars,      \* tables with a progress bar for their index
  failures,  \* calls that have failed
  attempt    \* calls of CreateSnapshot

schemaVars == <<case, stage, dump, keep, objects, granted, data, bars, failures,
                attempt>>

Kind(statement) == Text[statement].lines[1]
Class(line) == Text[line.of].lines[line.n]
Ends(line) == line.n = Len(Text[line.of].lines)
LinesOf(statement) == [n \in 1..Len(Text[statement].lines) |-> [of |-> statement, n |-> n]]
Lines(statements) == FlattenSeq([i \in DOMAIN statements |-> LinesOf(statements[i])])

-----------------------------------------------------------------------------
(* What pg_dump is asked for.                                              *)

Statements == Range(case.dump)
AskedSchemas == IF Wildcard \in DOMAIN case.request
                THEN {Text[s].schema : s \in Statements} \ {"pgstream"}
                ELSE {x \in DOMAIN case.request : case.request[x] # {}}
TablesIn(schema) ==
  {Text[s].table : s \in {x \in Statements : Text[x].schema = schema}} \ {NoTable}

AskedTables(schema) ==
  IF Wildcard \in DOMAIN case.request \/ Wildcard \in case.request[schema]
  THEN TablesIn(schema) ELSE case.request[schema]

\* pgdumpOptions overwrites ExcludeTables for each schema of a map that has
\* no order: what remains are the tables of one schema, and those excluded.
ExcludeTables ==
  LET listed == {x \in AskedSchemas : TablesIn(x) \ AskedTables(x) # {}}
  IN  {case.without \cup t : t \in IF listed = {} THEN {{}}
                                  ELSE {TablesIn(x) \ AskedTables(x) : x \in listed}}

\* pg_dump itself.  An event trigger is of no schema, and only in the dump
\* if no schemas are named for it to include.
PgDump(tables) ==
  LET Wanted(s) == IF Kind(s) = "eventTrigger" THEN case.global
                   ELSE Text[s].schema \in AskedSchemas /\ Text[s].table \notin tables
  IN  Selected(case.dump, {s \in Statements : Wanted(s)})

-----------------------------------------------------------------------------
(* parseDump: one pass over the lines.                                     *)

NoSections == [filtered |-> <<>>, indices |-> <<>>, views |-> <<>>, triggers |-> <<>>,
               alter |-> <<>>, inTrigger |-> FALSE, inView |-> FALSE,
               sequences |-> {}, roles |-> [r \in {} |-> FALSE]]

IndexClasses == {"index", "uniqueIndex", "trigger", "comment", "constraint", "identity"}

\* Mutant of Noted: the map is made anew each time.
NotedAnew(new, map) == new

\* What a map holds after more has been noted in it.
Noted(new, map) ==
  [x \in DOMAIN new \cup DOMAIN map |-> IF x \in DOMAIN new THEN new[x] ELSE map[x]]

\* A role statement is dropped if it names a managed role.  Its roles are
\* noted, and what was noted of them before is overwritten.
RoleLine(p, line) ==
  IF Text[line.of].roles \cap Managed # {} THEN p
  ELSE [p EXCEPT !.filtered = Append(@, line),
                 !.roles = Noted([r \in Text[line.of].roles |-> Text[line.of].owner], @)]

ParseLine(p, line) ==
  LET class == Class(line)
  IN  IF class = "label" /\ Text[line.of].provider \in case.labels THEN p
      ELSE IF p.alter # <<>> THEN
        LET both == p.alter \o <<line>>
        IN  IF class = "addConstraint"
            THEN [p EXCEPT !.indices = @ \o both, !.alter = <<>>]
            ELSE [p EXCEPT !.filtered = @ \o both, !.alter = <<>>]
      ELSE IF class = "eventTrigger" \/ p.inTrigger THEN
        [p EXCEPT !.triggers = Append(@, line), !.inTrigger = ~Ends(line)]
      ELSE IF class = "view" \/ p.inView THEN
        [p EXCEPT !.views = Append(@, line), !.inView = ~Ends(line)]
      ELSE CASE class = "connect" ->
                  [p EXCEPT !.filtered = Append(@, line), !.indices = Append(@, line),
                            !.views = Append(@, line)]
             [] class \in IndexClasses -> [p EXCEPT !.indices = Append(@, line)]
             [] class = "alterTable" -> [p EXCEPT !.alter = <<line>>]
             [] class = "sequence" ->
                  [p EXCEPT !.filtered = Append(@, line), !.sequences = @ \cup {line.of}]
             [] class = "role" -> RoleLine(p, line)
             [] OTHER -> [p EXCEPT !.filtered = Append(@, line)]

\* filterTriggers looks at each line for the function of an event trigger.
FilterTriggers(lines) ==
  LET Kept(line) == Ends(line) /\ Text[line.of].schema \in AskedSchemas
  IN  Selected(lines, {line \in Range(lines) : Kept(line)})

ParseDump(statements) ==
  LET p == FoldLeft(ParseLine, NoSections, Lines(statements))
  IN  [p EXCEPT !.filtered = @ \o FilterTriggers(p.triggers)]

\* What parseDump takes a dump to look like.  The lines of a statement stay
\* together because it is of one line, an ALTER TABLE of two, a view or an event
\* trigger, or because none of them begins like what is sought: a comment on an
\* index with a line break in it would be cut in two.  Event triggers are of no
\* table, and only security labels have a provider that can be left out.
Sought == IndexClasses \cup {"connect", "sequence", "role", "label", "alterTable", "view",
                             "eventTrigger"}
ASSUME StatementsAssumption ==
  /\ \A c \in Cases : c.dump \in Seq(DOMAIN Text)
  /\ \A s \in DOMAIN Text :
       LET lines == Text[s].lines
       IN  /\ lines \in Seq(Range(lines)) /\ lines # <<>>
           /\ Len(lines) = 1 => lines[1] # "alterTable"
           /\ Len(lines) > 1 =>
                \/ lines[1] = "alterTable" /\ Len(lines) = 2
                \/ lines[1] \in {"view", "eventTrigger"}
                \/ \A n \in 1..Len(lines) : lines[n] \notin Sought
           /\ \A n \in 2..Len(lines) : lines[n] \notin {"label", "eventTrigger", "connect"}
           /\ lines[1] = "eventTrigger" => Text[s].table = NoTable
           /\ \A c \in Cases : Text[s].provider \in c.labels => lines[1] = "label"

\* What is restored with the indices: its lines are all sorted there.
WithIndices(s) ==
  \/ Kind(s) \in IndexClasses
  \/ Kind(s) = "alterTable" /\ Text[s].lines[2] = "addConstraint"

\* What the order of the restore relies on.  pg_dump gives a statement once, and
\* after what it needs, directly or not.  What is restored with the tables, a key
\* and a unique index need nothing that is restored with the indices.  (Outside is
\* ALTER INDEX ... ATTACH PARTITION, which parseDump leaves with the tables.)  Only
\* statements about roles name roles, and nothing depends on one.
ASSUME DumpAssumption ==
  /\ \A c \in Cases :
       /\ IsFiniteSet(c.roles) /\ c.roles \cap DOMAIN Text = {} /\ NoTable \notin c.without
       /\ \A i \in DOMAIN c.dump :
            /\ \A n \in Text[c.dump[i]].needs : \E j \in 1..i - 1 : c.dump[j] = n
            /\ Text[c.dump[i]].roles \subseteq c.roles \cup Predefined
            /\ \A j \in 1..i - 1 :
                 /\ c.dump[j] # c.dump[i]
                 /\ Text[c.dump[i]].table = Text[c.dump[j]].table =>
                      \/ Text[c.dump[i]].table = NoTable
                      \/ Text[c.dump[i]].schema = Text[c.dump[j]].schema
  /\ \A s \in DOMAIN Text :
       /\ Text[s].roles # {} => Kind(s) = "role"
       /\ Text[s].unique => WithIndices(s) /\ \A n \in Text[s].needs : ~WithIndices(n)
       /\ \A n \in Text[s].needs :
            /\ n \in DOMAIN Text /\ Kind(n) \notin {"connect", "role", "eventTrigger"}
            /\ Kind(n) # "view" => Text[n].needs \subseteq Text[s].needs
            /\ WithIndices(n) =>
                 \/ WithIndices(s) \/ Kind(s) = "view"
                 \/ \E v \in Text[s].needs : Kind(v) = "view"

\* splitConflictTargetConstraints: the indices section in two.
IsTarget(line) == Kind(line.of) = "connect" \/ Text[line.of].unique
Targets == Selected(dump.indices, {line \in Range(dump.indices) : IsTarget(line)})
Remaining ==
  LET Rest(line) == Class(line) = "connect" \/ ~Text[line.of].unique
  IN  Selected(dump.indices, {line \in Range(dump.indices) : Rest(line)})

-----------------------------------------------------------------------------
(* The roles: those of the schema dump, and what they are granted or grant,*)
(* in the order in which a map without order is walked.                    *)

Deps(role) == {g[1] : g \in {h \in case.grants : h[2] = role}}
                \cup {g[2] : g \in {h \in case.grants : h[1] = role}}
AddDeps(k, role) ==
  IF role \notin DOMAIN k THEN k ELSE Noted([d \in Deps(role) |-> FALSE], k)
KeptRoles == {FoldLeft(AddDeps, dump.roles, order) : order \in SetToSeqs(case.roles)}

\* filterRolesDump: CREATE ROLE, and the grants between roles that are kept.
Restorable == DOMAIN keep \ (Managed \cup Predefined)
CreatedRoles == case.roles \cap Restorable
OwnersToGrant == {r \in Restorable : keep[r]}

-----------------------------------------------------------------------------
(* psql goes on after an error; restoreDump tells the errors that mean     *)
(* "already there", "not there" or "not allowed to grant" from the others. *)

Execute(t, statement) ==
  IF Text[statement].owner /\ ~case.superuser /\ ~(Text[statement].roles \subseteq granted)
  THEN [t EXCEPT !.critical = TRUE]
  ELSE IF Text[statement].needs \cup Text[statement].roles \subseteq t.objects \cup Predefined
  THEN [t EXCEPT !.objects = @ \cup {statement}]
  ELSE t                                   \* "does not exist": ignored

\* A line is kept until one ends with a semicolon.  What is then not a whole
\* statement is a syntax error.
RestoreLine(t, line) ==
  LET text == t.pending \o <<line>>
      next == [t EXCEPT !.pending = IF Ends(line) THEN <<>> ELSE text]
  IN  IF ~Ends(line) THEN next
      ELSE IF text = LinesOf(line.of) THEN Execute(next, line.of)
      ELSE [next EXCEPT !.critical = TRUE]

IsDDL(line) == Class(line) \notin {"label", "eventTrigger", "connect"}

\* restoreToWAL, for targets that are no Postgres: statements that are DDL
\* become events, the others are dropped.
WALLine(t, line) ==
  LET text == t.pending \o <<line>>
  IN  IF ~Ends(line) THEN [t EXCEPT !.pending = text]
      ELSE [t EXCEPT !.pending = <<>>,
                     !.objects = IF IsDDL(text[1]) THEN @ \cup {text[1].of} ELSE @]

Restored(lines) ==
  LET start == [objects |-> objects, pending |-> <<>>, critical |-> FALSE]
  IN  IF case.toWAL THEN FoldLeft(WALLine, start, lines)
      ELSE FoldLeft(RestoreLine, start, lines)

Fails == failures < case.maxFaults /\ failures' = failures + 1

\* One call of restoreDump: it may fail after any of the lines.
RestoreDump(lines, next) ==
  LET whole == Restored(lines)
  IN  /\ \/ /\ objects' = whole.objects
            /\ stage' = IF whole.critical THEN "error" ELSE next
            /\ UNCHANGED failures
         \/ /\ lines # <<>> /\ Fails
            /\ \E n \in 0..(Len(lines) - 1) : objects' = Restored(SubSeq(lines, 1, n)).objects
            /\ stage' = "error"
      /\ UNCHANGED <<case, dump, keep, granted, data, attempt>>

-----------------------------------------------------------------------------
(* CreateSnapshot, call by call.                                           *)

SchemaInit ==
  /\ case \in Cases
  /\ stage = "dump"
  /\ dump = NoSections
  /\ keep = NoSections.roles
  /\ objects = IF case.full
               THEN Statements \cup case.roles ELSE {}
  /\ granted = {}
  /\ data = "idle"
  /\ bars = {}
  /\ failures = 0
  /\ attempt = 1

restoreVars == <<objects, granted, data, bars>>

\* Schemas without tables are left out; with none left there is nothing to
\* do.  pg_dump runs a second time if the target is to be cleaned.
DumpSchema ==
  /\ stage = "dump"
  /\ \/ /\ AskedSchemas = {}
        /\ stage' = "ok" /\ UNCHANGED <<dump, failures>>
     \/ /\ AskedSchemas # {}
        /\ \E tables \in ExcludeTables : dump' = ParseDump(PgDump(tables))
        /\ stage' = "roles" /\ UNCHANGED failures
     \/ Fails /\ stage' = "error" /\ UNCHANGED dump
  /\ UNCHANGED <<case, keep, attempt, restoreVars>>

\* Mutant of DumpRoles: what may be in the way is not dropped first.
DumpRolesForRestore ==
  /\ stage = "roles"
  /\ \/ /\ keep' \in (IF case.copyRoles THEN KeptRoles ELSE {NoSections.roles})
        /\ stage' = "restoreRoles" /\ UNCHANGED failures
     \/ Fails /\ stage' = "error" /\ UNCHANGED keep
  /\ UNCHANGED <<case, dump, attempt, restoreVars>>

\* dumpSequenceValues and dumpRoles.
DumpRoles ==
  /\ stage = "roles"
  /\ \/ /\ keep' \in (IF case.copyRoles THEN KeptRoles ELSE {NoSections.roles})
        /\ stage' = "cleanup" /\ UNCHANGED failures
     \/ Fails /\ stage' = "error" /\ UNCHANGED keep
  /\ UNCHANGED <<case, dump, attempt, restoreVars>>

\* restoreSchemas, and what the dump would drop before it makes it.
RestoreCleanup ==
  /\ stage = "cleanup"
  /\ \/ /\ objects' = IF case.clean
                      THEN objects \ Statements ELSE objects
        /\ stage' = "restoreRoles" /\ UNCHANGED failures
     \/ Fails /\ stage' = "error" /\ UNCHANGED objects
  /\ UNCHANGED <<case, dump, keep, granted, data, bars, attempt>>

\* A role that is dropped may not own anything.
OwnsObjects(role) ==
  \E s \in Statements : Text[s].owner /\ role \in Text[s].roles /\ s \in objects
RestoreRoles ==
  /\ stage = "restoreRoles"
  /\ \/ /\ objects' = objects \cup CreatedRoles
        /\ granted' = granted \cup OwnersToGrant
        /\ stage' = IF case.clean /\ \E r \in CreatedRoles : OwnsObjects(r)
                    THEN "error" ELSE "schema"
        /\ UNCHANGED failures
     \/ Fails /\ stage' = "error" /\ UNCHANGED <<objects, granted>>
  /\ UNCHANGED <<case, dump, keep, data, bars, attempt>>

\* Mutant of SplitsTargets: the keys are restored after the rows.
SplitsNever == case.copyData /\ FALSE

SplitsTargets == case.copyData /\ case.targetsFirst

RestoreSchema ==
  /\ stage = "schema"
  /\ RestoreDump(dump.filtered, IF SplitsTargets THEN "targets" ELSE "data")
  /\ UNCHANGED bars

\* The wrapped generator, whose steps are another module's, returns; then the
\* values of the sequences are restored.
DataReturns ==
  /\ stage = "data" /\ (data \in {"ok", "error"} \/ ~case.copyData)
  /\ \/ /\ stage' = IF data = "error" THEN "error" ELSE "indices"
        /\ UNCHANGED failures
     \/ data # "error" /\ Fails /\ stage' = "error"
  /\ UNCHANGED <<case, dump, keep, attempt, restoreVars>>

\* Without tracking the section is restored in one go.
RestoreIndices ==
  /\ \/ stage = "targets" /\ RestoreDump(Targets, "data")
     \/ stage = "indices" /\ RestoreDump(IF SplitsTargets THEN Remaining ELSE dump.indices,
                                         "views")
  /\ bars' = {}      \* the tracker is cancelled, waited for, and closes its bars

\* A tick of the tracker while psql makes indexes: a bar for every table that
\* has one in the making.
TrackerTicks ==
  /\ case.tracked /\ stage \in {"targets", "indices"}
  /\ \E building \in SUBSET {Text[l.of].table : l \in Range(dump.indices)} :
        building # bars /\ bars' = building
  /\ UNCHANGED <<case, stage, dump, keep, objects, granted, data, failures, attempt>>

RestoreViews ==
  /\ stage = "views"
  /\ RestoreDump(dump.views, "ok")
  /\ UNCHANGED bars

\* Who asked tries again, over what is in the target, after an error that
\* came before the rows.
Again ==
  /\ stage = "error" /\ data = "idle" /\ attempt < case.attempts
  /\ stage' = "dump" /\ attempt' = attempt + 1
  /\ dump' = NoSections /\ keep' = NoSections.roles
  /\ UNCHANGED <<case, objects, granted, data, bars, failures>>

SchemaSteps ==
  \/ DumpSchema \/ DumpRoles \/ RestoreCleanup \/ RestoreRoles \/ RestoreSchema
  \/ DataReturns \/ RestoreIndices \/ RestoreViews \/ Again

-----------------------------------------------------------------------------
(* Properties *)

Stages == {"dump", "roles", "cleanup", "restoreRoles", "schema", "targets", "data",
           "indices", "views", "ok", "error"}

SchemaTypeOK ==
  /\ stage \in Stages
  /\ DOMAIN keep \subseteq case.roles \cup Predefined
  /\ objects \subseteq Statements \cup case.roles
  /\ granted \subseteq case.roles
  /\ failures \in 0..case.maxFaults /\ attempt \in 1..case.attempts

Asked(s) == /\ Text[s].schema \in AskedSchemas
            /\ Text[s].table = NoTable \/ Text[s].table \in AskedTables(Text[s].schema) \ case.without
            /\ Text[s].provider \notin case.labels
            /\ Kind(s) = "eventTrigger" => case.global
OnView(s) == \E v \in Statements : Kind(v) = "view" /\ v \in Text[s].needs

NeedsAsked(s) == \A n \in Text[s].needs : n \in Statements /\ Asked(n)

InIndices(s) == \E line \in Range(dump.indices) : line.of = s /\ Kind(s) # "connect"

(* A snapshot that is accepted has made every object that was asked for:  *)
(* no error that restoreDump ignores hides a statement that was executed   *)
(* too early, and parseDump puts every line of a statement into the same   *)
(* section.  The exceptions are statements about a view (an index on it, a *)
(* grant), which are executed before the views are made.                   *)
AcceptedSchemaComplete ==
  stage = "ok" /\ ~case.toWAL =>
    \A s \in Statements :
      Asked(s) /\ Text[s].roles \cap Managed = {} /\ Kind(s) # "connect"
        /\ (Text[s].roles = {} \/ case.copyRoles)
        /\ NeedsAsked(s)
      => s \in objects \/ OnView(s)

(* Rows are written where they can be: when the data generator starts, the *)
(* tables that were asked for, with what they need, are there, and so are  *)
(* the keys and unique indexes that INSERT ... ON CONFLICT needs if the    *)
(* writer uses it; the indexes, foreign keys and triggers of a new target  *)
(* are made after the rows.                                                *)
DataBetweenSections ==
  stage = "data" /\ data = "idle" /\ case.copyData /\ ~case.toWAL =>
    \A s \in Statements : Asked(s) =>
      /\ NeedsAsked(s) /\ ~OnView(s)
           /\ (Kind(s) = "table" \/ (case.targetsFirst /\ Text[s].unique))
         => s \in objects
      /\ ~case.full /\ attempt = 1 /\ ~Text[s].unique /\ InIndices(s) => s \notin objects

(* A clean restore does not depend on what the target holds: no failure of *)
(* its own stops it.  Objects go before the roles that own them.           *)
CleanRestoreSucceeds ==
  stage = "error" => failures > 0 \/ data = "error" \/ ~case.clean \/ ~case.superuser
                       \/ \E s \in Statements : Kind(s) = "eventTrigger" /\ Asked(s)
=============================================================================
