----------------------------- MODULE EventChain -----------------------------
(***************************************************************************)
(* What an event goes through between the listener and the batches of the  *)
(* Postgres writer, in the order addProcessorModifiers of pkg/stream wraps *)
(* the processors: filter, injector, transformer, sanitizer, and then the  *)
(* writer's adapter with its schema observer.                              *)
(*                                                                         *)
(* Every one of them keeps, or asks a database for, a picture of the       *)
(* tables: the filter has lists of names, the injector a cache of the      *)
(* tables the source described, the transformer rules by name, and the     *)
(* observer a cache of the target's columns.  The events are older than    *)
(* what the source says when it is asked, and newer than what the target   *)
(* says.  The DDL messages in the log (the trigger function emit_ddl) are  *)
(* what keeps the pictures in step.                                        *)
(*                                                                         *)
(* One schema is modelled; a row is the set of its columns.                *)
(***************************************************************************)
EXTENDS Integers, Sequences, FiniteSets, SequencesExt

CONSTANTS
  Name,        \* names of tables
  Quoted,      \* those among them that Postgres quotes (mixed case)
  Column,      \* names a column may be given
  Layouts,     \* what CREATE TABLE makes: sets of columns, with a key or not
  Tables,      \* the tables there are at the start
  DDLOps,      \* the kinds of DDL statements the source runs
  Rules,       \* transformation rules: for a table, "mask" or "noop" for its columns
  Configs,     \* filter, validation mode and sanitizer
  BatchSize,   \* bound: messages in a batch
  MaxDDL, MaxRows, MaxRestarts, \* bounds: statements, rows, restarts
  Redelivered  \* bound: events a restart delivers again

KeyColumn == "id"
Columns == {KeyColumn} \cup Column
ColumnKind == {"plain", "generated", "identity"}
AllDDL == {"create", "drop", "addColumn", "shortAdd", "dropColumn", "renameColumn",
           "renameGenerated", "renameTable", "addKey"}
TableColumn == [att : Nat, name : Columns, kind : ColumnKind]
Table == [id : Nat \ {0}, atts : Nat, cols : SUBSET TableColumn, key : BOOLEAN]
NoTable == [id |-> 0, atts |-> 0, cols |-> {}, key |-> FALSE]

\* A filter takes the tables to include or those to exclude, never both.
FilterAndMode ==
  [filter : {"none", "include", "exclude"}, tables : SUBSET Name,
   mode : {"none", "relaxed", "strict", "table_level"}, relaxed : SUBSET Name,
   sanitize : BOOLEAN]

ASSUME ChainAssumption ==
  /\ Quoted \subseteq Name
  /\ DDLOps \subseteq AllDDL
  /\ Tables \in [DOMAIN Tables -> Table] /\ DOMAIN Tables \subseteq Name
  /\ Layouts \subseteq [cols : SUBSET TableColumn, key : BOOLEAN]
  /\ DOMAIN Rules \subseteq Name
  /\ Configs \subseteq FilterAndMode
  /\ BatchSize \in Nat \ {0}
  /\ {MaxDDL, MaxRows, MaxRestarts, Redelivered} \subseteq Nat

VARIABLES
  settings,
  catalog,   \* the source's tables, by name
  wal,       \* the log
  status,    \* "running", "stopped" by an error, or "invalid": the rules do not fit the source
  at,        \* events the chain has processed
  described, \* the injector's cache, by the name it uses
  observed,  \* the observer's caches
  buffered,  \* messages of the batch being collected
  targetTables, \* the target's tables, by name
  flushed,   \* the position of the last message executed
  restarts,
  seen,      \* ghost: the names a DDL message described since the start
  given,     \* ghost: what the last event's row became, in a set
  refused    \* ghost: the rows the target refused

sourceVars == <<catalog, wal>>
chainVars == <<status, at, described, observed, seen, given>>
targetVars == <<buffered, targetTables, flushed, refused>>
allVars == <<settings, sourceVars, chainVars, targetVars, restarts>>
-----------------------------------------------------------------------------
(* The source: its catalog, and what the trigger writes into the log.      *)

NamesIn(t) == {c.name : c \in t.cols}
Exists(t) == t.id # 0
OfKind(t, kinds) == {c.name : c \in {d \in t.cols : d.kind \in kinds}}
ColumnId(t, c) == <<t.id, (CHOOSE d \in t.cols : d.name = c).att>>

Made(layout, id) ==
  [id |-> id, atts |-> Cardinality(layout.cols), cols |-> layout.cols, key |-> layout.key]
Renamed(t, c, d) ==
  [t EXCEPT !.cols = {IF x.name = c THEN [x EXCEPT !.name = d] ELSE x : x \in @}]

\* A DDL message: the statement and the objects it has an entry for, with the
\* table as it is after the statement.
DDLMessage(op, names, columnObject, from, col, kind, table) ==
  [op |-> op, names |-> names, columnObject |-> columnObject, from |-> from, col |-> col,
   kind |-> kind, table |-> table]
OnTable(op, n, col, kind, table) == DDLMessage(op, {n}, FALSE, n, col, kind, table)

IsDDL(e) == e.op \in AllDDL
DDLCount == Len(SelectSeq(wal, IsDDL))
Runs(op) == op \in DDLOps /\ DDLCount < MaxDDL

Logged(e, tables) ==
  /\ wal' = Append(wal, e) /\ catalog' = tables
  /\ UNCHANGED <<settings, chainVars, targetVars, restarts>>

CreateTable(n, layout) ==
  /\ Runs("create") /\ ~Exists(catalog[n])
  /\ LET t == Made(layout, 10 + Len(wal)) IN
     Logged(OnTable("create", n, "-", "-", t), [catalog EXCEPT ![n] = t])

\* One statement may drop several tables; their objects have no columns.
DropTables(S) ==
  /\ Runs("drop") /\ \A n \in S : Exists(catalog[n])
  /\ Logged(DDLMessage("drop", S, FALSE, "-", "-", "-", NoTable),
            [n \in Name |-> IF n \in S THEN NoTable ELSE catalog[n]])

\* "shortAdd" is the statement that leaves the word COLUMN out.
AddColumn(op, n, c, kind) ==
  /\ Runs(op) /\ op \in {"addColumn", "shortAdd"}
  /\ Exists(catalog[n]) /\ c \notin NamesIn(catalog[n])
  /\ LET t == [catalog[n] EXCEPT !.atts = @ + 1,
                 !.cols = @ \cup {[att |-> catalog[n].atts + 1, name |-> c, kind |-> kind]}] IN
     Logged(OnTable(op, n, c, kind, t), [catalog EXCEPT ![n] = t])

DropColumn(n, c) ==
  /\ Runs("dropColumn") /\ Exists(catalog[n]) /\ c \in NamesIn(catalog[n]) \ {KeyColumn}
  /\ LET t == [catalog[n] EXCEPT !.cols = {d \in @ : d.name # c}] IN
     Logged(OnTable("dropColumn", n, c, "-", t), [catalog EXCEPT ![n] = t])

\* The message of a renamed column is about the column: the object's name is
\* the column's, not the table's.
RenameColumn(op, n, c, d) ==
  /\ Runs(op)
  /\ op = IF c \in OfKind(catalog[n], {"generated"}) THEN "renameGenerated" ELSE "renameColumn"
  /\ Exists(catalog[n])
  /\ c \in NamesIn(catalog[n]) \ {KeyColumn} /\ d \notin NamesIn(catalog[n])
  /\ LET t == Renamed(catalog[n], c, d) IN
     Logged(DDLMessage(op, {n}, TRUE, c, d, "-", t), [catalog EXCEPT ![n] = t])

RenameTable(n, m) ==
  /\ Runs("renameTable") /\ Exists(catalog[n]) /\ ~Exists(catalog[m])
  /\ Logged(DDLMessage("renameTable", {m}, FALSE, n, "-", "-", catalog[n]),
            [catalog EXCEPT ![n] = NoTable, ![m] = catalog[n]])

AddPrimaryKey(n) ==
  /\ Runs("addKey") /\ Exists(catalog[n]) /\ ~catalog[n].key
  /\ LET t == [catalog[n] EXCEPT !.key = TRUE] IN
     Logged(OnTable("addKey", n, "-", "-", t), [catalog EXCEPT ![n] = t])

\* A row is written; `nul' says that a text in it has a null byte.
WriteRow(op, n, nul) ==
  /\ Len(wal) - DDLCount < MaxRows /\ Exists(catalog[n])
  /\ Logged([op |-> op, name |-> n, nul |-> nul, table |-> catalog[n]], catalog)

SourceStep ==
  \/ \E n \in Name, l \in Layouts : CreateTable(n, l)
  \/ \E S \in (SUBSET Name) \ {{}} : DropTables(S)
  \/ \E n \in Name, c \in Column, k \in {"plain", "generated"}, op \in {"addColumn", "shortAdd"} :
       AddColumn(op, n, c, k)
  \/ \E n \in Name, c \in Column : DropColumn(n, c)
  \/ \E n \in Name, c, d \in Column, op \in {"renameColumn", "renameGenerated"} : RenameColumn(op, n, c, d)
  \/ \E n, m \in Name : RenameTable(n, m)
  \/ \E n \in Name : AddPrimaryKey(n)
  \/ \E n \in Name, op \in {"I", "U"}, nul \in BOOLEAN : (nul => op = "I") /\ WriteRow(op, n, nul)
-----------------------------------------------------------------------------
(* The filter.                                                             *)

\* The name GetTable finds in an object's identity, with its quotes if it has any.
GetTable(n) == IF n \in Quoted THEN "\"" \o n \o "\"" ELSE n

\* A name with quotes in it is quoted itself.
ASSUME QuotingAssumption == \A n \in Quoted : GetTable(n) \notin Name \ Quoted

ContainsSchemaTable(n) == n \in settings.tables

SkipEvent(n) ==
  \/ settings.filter = "include" /\ ~ContainsSchemaTable(n)
  \/ settings.filter = "exclude" /\ ContainsSchemaTable(n)

\* Mutant of SkipDDLEvent: with an exclude list, a DDL statement is kept when it
\* is in the list.
SkipDDLEventListed(e) == \E n \in e.names : settings.filter # "none" /\ ~ContainsSchemaTable(GetTable(n))

SkipDDLEvent(e) == \E n \in e.names : SkipEvent(GetTable(n))

Filtered(e) == IF IsDDL(e) THEN SkipDDLEvent(e) ELSE SkipEvent(e.name)
-----------------------------------------------------------------------------
(* The injector.                                                           *)

\* Mutant of UpdateTableCache: the message of a renamed column is looked up by the
\* name of its object, as the observer does.
UpdateTableCacheByObject(e) ==
  [s \in DOMAIN described |->
     IF e.columnObject \/ s \notin {GetTable(n) : n \in e.names} THEN described[s]
     ELSE IF e.op = "drop" THEN NoTable ELSE e.table]

UpdateTableCache(e) ==
  [s \in DOMAIN described |->
     IF s \notin {GetTable(n) : n \in e.names} THEN described[s]
     ELSE IF e.op = "drop" THEN NoTable ELSE e.table]

\* The description of an event's table: the cached one, or what the source says
\* now.
TableObject(e) == IF Exists(described[e.name]) THEN described[e.name] ELSE catalog[e.name]

HasIdentity(t) == t.key

\* The row without its ids, as it goes on when the table is not found.
NoIds(e) == [c \in NamesIn(e.table) |-> <<>>]

\* A column the description does not have keeps no id; that is logged.
ColumnIds(e, t) == [c \in NamesIn(e.table) |-> IF c \in NamesIn(t) THEN ColumnId(t, c) ELSE <<>>]

Injected(e, t) == IF Exists(t) THEN ColumnIds(e, t) ELSE NoIds(e)

\* An event of a table without identity goes on as a keep alive.
Ignored(t) == Exists(t) /\ ~HasIdentity(t)

CacheAfter(e, t) == IF Exists(t) THEN [described EXCEPT ![e.name] = t] ELSE described
-----------------------------------------------------------------------------
(* The transformer.                                                        *)

Strict(n) ==
  \/ settings.mode = "strict"
  \/ settings.mode = "table_level" /\ n \notin settings.relaxed

HasRules(n) == n \in DOMAIN Rules
RuleColumns(n) == DOMAIN Rules[n]
Active(n) == IF HasRules(n) /\ settings.mode # "none" THEN {c \in RuleColumns(n) : Rules[n][c] = "mask"} ELSE {}

\* What ParseAndValidate holds the rules against: the source's tables of now.
RulesFit(tables) ==
  settings.mode # "none" =>
    \A n \in DOMAIN Rules :
      /\ Exists(tables[n])
      /\ Strict(n) => NamesIn(tables[n]) \subseteq RuleColumns(n)
      /\ Active(n) \subseteq NamesIn(tables[n])

\* The columns of the statement that the schema diff finds in its text, and the
\* table it finds them for; an ALTER TABLE it does not know has none.
DiffTables(e) == IF e.op \in {"create", "renameTable", "addColumn", "renameColumn", "renameGenerated"}
                 THEN e.names ELSE {}
DiffColumns(e) ==
  CASE e.op \in {"create", "renameTable"} -> NamesIn(e.table)
    [] e.op \in {"addColumn", "renameColumn", "renameGenerated"} -> {e.col}
    [] OTHER -> {}

\* Mutant of ValidTableDDL: a table that has rules is not looked at again.
ValidTableDDLByTable(n, cols) == Strict(n) => HasRules(n)

ValidTableDDL(n, cols) == Strict(n) => HasRules(n) /\ cols \subseteq RuleColumns(n)

Blocked(e) ==
  /\ settings.mode \in {"strict", "table_level"}
  /\ \E n \in DiffTables(e) : ~ValidTableDDL(n, DiffColumns(e))

\* The values of a row, as they were or masked.
Transformed(e) == [c \in NamesIn(e.table) |-> IF c \in Active(e.name) THEN "masked" ELSE "raw"]
-----------------------------------------------------------------------------
(* The adapter and its schema observer.                                    *)

Unobserved == [known |-> FALSE, generated |-> {}, always |-> {}]

\* From a DDL message, identity columns count as generated too.
FromMessage(t) ==
  [known |-> TRUE, generated |-> OfKind(t, {"generated", "identity"}), always |-> OfKind(t, {"identity"})]
FromTarget(n) ==
  [known |-> TRUE, generated |-> OfKind(targetTables[n], {"generated"}),
   always |-> OfKind(targetTables[n], {"identity"})]

\* Mutant of Update: an entry that is there is kept.
UpdateOnce(e) ==
  IF e.columnObject THEN observed
  ELSE [n \in Name |-> IF n \in e.names /\ ~observed[n].known THEN FromMessage(e.table) ELSE observed[n]]

\* The entry is named after the object: for a column, that is no table's entry.
Update(e) ==
  IF e.columnObject THEN observed
  ELSE [n \in Name |-> IF n \in e.names THEN FromMessage(e.table) ELSE observed[n]]

Observation(n) == IF observed[n].known THEN observed[n] ELSE FromTarget(n)
ObservedAfter(n) == [observed EXCEPT ![n] = Observation(n)]

\* The columns a query gives values to.
SetColumns(e) ==
  LET o == Observation(e.name) IN
  NamesIn(e.table) \ (o.generated \cup IF e.op = "U" THEN o.always ELSE {})

\* Every event that reaches the adapter makes one message of the batch; one
\* without columns left is no query.
MessageOf(e, p) ==
  IF IsDDL(e) THEN [pos |-> p, op |-> e.op, name |-> "-", sets |-> {}, nul |-> FALSE]
  ELSE [pos |-> p, op |-> e.op, name |-> e.name, sets |-> SetColumns(e), nul |-> e.nul /\ ~settings.sanitize]
KeepAlive(p) == [pos |-> p, op |-> "keepAlive", name |-> "-", sets |-> {}, nul |-> FALSE]

IsRowQuery(q) == q.op \in {"I", "U"} /\ q.sets # {}
-----------------------------------------------------------------------------
(* The chain.                                                              *)

Next1 == wal[at + 1]

Ready == status = "running" /\ at < Len(wal) /\ Len(buffered) < BatchSize

Passes(e) ==
  /\ at' = at + 1
  /\ UNCHANGED <<settings, sourceVars, status, targetTables, flushed, refused, restarts>>

Skip ==
  /\ Ready /\ Filtered(Next1) /\ Passes(Next1)
  /\ given' = {}
  /\ UNCHANGED <<described, observed, seen, buffered>>

\* A refused DDL message stops the stream; the injector has taken it in.
Block ==
  /\ Ready /\ ~Filtered(Next1) /\ IsDDL(Next1) /\ Blocked(Next1)
  /\ status' = "stopped" /\ described' = UpdateTableCache(Next1) /\ given' = {}
  /\ UNCHANGED <<settings, sourceVars, at, observed, seen, targetVars, restarts>>

PassDDL ==
  /\ Ready /\ ~Filtered(Next1) /\ IsDDL(Next1) /\ ~Blocked(Next1) /\ Passes(Next1)
  /\ described' = UpdateTableCache(Next1) /\ observed' = Update(Next1)
  /\ seen' = IF Next1.op = "drop" THEN seen \ Next1.names ELSE seen \cup Next1.names
  /\ given' = {}
  /\ buffered' = Append(buffered, MessageOf(Next1, at + 1))

PassRow ==
  /\ Ready /\ ~Filtered(Next1) /\ ~IsDDL(Next1) /\ Passes(Next1)
  /\ LET e == Next1
         t == TableObject(e) IN
     /\ described' = CacheAfter(e, t)
     /\ given' = {[row |-> e, ignored |-> Ignored(t), ids |-> Injected(e, t), values |-> Transformed(e)]}
     /\ IF Ignored(t)
        THEN buffered' = Append(buffered, KeepAlive(at + 1)) /\ UNCHANGED observed
        ELSE buffered' = Append(buffered, MessageOf(e, at + 1)) /\ observed' = ObservedAfter(e.name)
  /\ UNCHANGED seen

Crash ==
  /\ restarts < MaxRestarts
  /\ restarts' = restarts + 1
  /\ status' = IF RulesFit(catalog) THEN "running" ELSE "invalid"
  /\ at' \in {p \in 0..flushed : p + Redelivered >= flushed}
  /\ described' = [s \in DOMAIN described |-> NoTable]
  /\ observed' = [n \in Name |-> Unobserved]
  /\ seen' = {} /\ given' = {} /\ buffered' = <<>>
  /\ UNCHANGED <<settings, sourceVars, targetTables, flushed, refused>>
-----------------------------------------------------------------------------
(* The target: the batch's queries in order, each refused or executed.     *)

\* A DDL statement, executed on the target's tables as they are.
Altered(tables, e) ==
  LET n == CHOOSE m \in e.names : TRUE
      t == tables[n]
      Is(c) == c \in NamesIn(t) IN
  CASE e.op = "create" -> IF Exists(t) THEN tables ELSE [tables EXCEPT ![n] = e.table]
    [] e.op = "drop" -> IF \A m \in e.names : Exists(tables[m])
                        THEN [m \in Name |-> IF m \in e.names THEN NoTable ELSE tables[m]] ELSE tables
    [] e.op \in {"addColumn", "shortAdd"} ->
         IF ~Exists(t) \/ Is(e.col) THEN tables
         ELSE [tables EXCEPT ![n].cols = @ \cup {[att |-> t.atts + 1, name |-> e.col, kind |-> e.kind]},
                             ![n].atts = @ + 1]
    [] e.op = "dropColumn" -> [tables EXCEPT ![n].cols = {c \in @ : c.name # e.col}]
    [] e.op \in {"renameColumn", "renameGenerated"} ->
         IF Is(e.from) /\ ~Is(e.col) THEN [tables EXCEPT ![n] = Renamed(t, e.from, e.col)] ELSE tables
    [] e.op = "renameTable" ->
         IF Exists(tables[e.from]) /\ ~Exists(t)
         THEN [tables EXCEPT ![n] = tables[e.from], ![e.from] = NoTable] ELSE tables
    [] e.op = "addKey" -> [tables EXCEPT ![n].key = Exists(t)]

Refuses(tables, q) ==
  LET t == tables[q.name] IN
  \/ ~Exists(t) \/ ~(q.sets \subseteq NamesIn(t)) \/ q.nul
  \/ q.sets \cap OfKind(t, {"generated"}) # {}
  \/ q.op = "U" /\ q.sets \cap OfKind(t, {"identity"}) # {}

Executed(state, q) ==
  IF q.op \in AllDDL THEN [state EXCEPT !.tables = Altered(@, wal[q.pos])]
  ELSE IF IsRowQuery(q) /\ Refuses(state.tables, q)
  THEN [state EXCEPT !.refused = @ \cup {q}] ELSE state

Flush ==
  /\ buffered # <<>>
  /\ LET after == FoldLeft(Executed, [tables |-> targetTables, refused |-> refused], buffered) IN
     targetTables' = after.tables /\ refused' = after.refused
  /\ buffered' = <<>> /\ flushed' = Last(buffered).pos
  /\ UNCHANGED <<settings, sourceVars, chainVars, restarts>>
-----------------------------------------------------------------------------
StartingTables == [n \in Name |-> IF n \in DOMAIN Tables THEN Tables[n] ELSE NoTable]

ChainInit ==
  /\ settings \in Configs
  /\ catalog = StartingTables
  /\ wal = <<>>
  /\ status = IF RulesFit(catalog) THEN "running" ELSE "invalid"
  /\ at = 0
  /\ described = [s \in Name \cup {GetTable(n) : n \in Name} |-> NoTable]
  /\ observed = [n \in Name |-> Unobserved]
  /\ buffered = <<>>
  /\ targetTables = catalog
  /\ flushed = 0 /\ restarts = 0
  /\ seen = {} /\ given = {} /\ refused = {}

ChainStep == Skip \/ Block \/ PassDDL \/ PassRow \/ Flush

ChainNext == SourceStep \/ ChainStep \/ Crash

ChainSpec == ChainInit /\ [][ChainNext]_allVars
-----------------------------------------------------------------------------
(* Properties.                                                             *)

\* A statement that concerns names on both sides of the filter, or, under a
\* filter, a name that needs quotes.
Crossing(e) ==
  LET concerned == e.names \cup (IF e.op = "renameTable" THEN {e.from} ELSE {}) IN
  /\ IsDDL(e) /\ settings.filter # "none"
  /\ concerned \cap Quoted # {} \/ \E n, m \in concerned : SkipEvent(n) # SkipEvent(m)

NoneCrosses == \A i \in DOMAIN wal : ~Crossing(wal[i])

ChainTypeOK ==
  /\ settings \in Configs /\ status \in {"running", "stopped", "invalid"}
  /\ \A n \in Name : NamesIn(catalog[n]) \cup NamesIn(targetTables[n]) \subseteq Columns
  /\ 0 <= flushed /\ at \in 0..Len(wal) /\ flushed <= Len(wal)
  /\ Len(buffered) <= BatchSize /\ \A i \in DOMAIN buffered : buffered[i].pos \in 1..at
  /\ seen \subseteq Name /\ Cardinality(given) <= 1
  /\ \A n \in Name : observed[n].always \cup observed[n].generated \subseteq Columns

\* A row gets the ids its table and its columns had when it was written, and is
\* passed over only if its table had no identity: whatever the source has become
\* by then, once a DDL message has described the table to the injector.  Without
\* the message, after a start, the injector asks for the table as it is now.
InjectedIdsAreTheirs ==
  \A g \in given : g.row.name \in seen \ Quoted =>
    /\ g.ignored = ~HasIdentity(g.row.table)
    /\ ~g.ignored => g.ids = ColumnIds(g.row, g.row.table)

\* Strict validation: no row goes on with a column that has no rule, nor with the
\* value of a column whose rule masks it, if the rules fitted when the log began.
NothingPassesUnmasked ==
  \A g \in given :
    LET n == g.row.name IN
    /\ RulesFit(StartingTables) /\ settings.mode \in {"strict", "table_level"} /\ Strict(n)
    /\ n \notin Quoted /\ ~g.ignored /\ (HasRules(n) \/ n \notin DOMAIN Tables)
    => /\ HasRules(n) /\ NamesIn(g.row.table) \subseteq RuleColumns(n)
       /\ \A c \in Active(n) \cap NamesIn(g.row.table) : g.values[c] = "masked"

\* A row's query fits the target's table at the time it is executed, after the
\* DDL statements batched in front of it: it names no column the table does not
\* have and sets none that the target computes.
NothingRefused ==
  NoneCrosses => \A q \in refused : q.nul /\ ~settings.sanitize

\* With every message executed, the target has the source's tables.
TargetFollows ==
  /\ status = "running" /\ at = Len(wal) /\ buffered = <<>> /\ NoneCrosses
  => \A n \in Name : ~SkipEvent(n) =>
       /\ Exists(targetTables[n]) = Exists(catalog[n])
       /\ {<<c.name, c.kind>> : c \in targetTables[n].cols} = {<<c.name, c.kind>> : c \in catalog[n].cols}
       /\ targetTables[n].key = catalog[n].key
=============================================================================
