--------------------------- MODULE SearchIndexer ---------------------------
(***************************************************************************)
(* The search batch indexer (pkg/wal/processor/search), the store behind   *)
(* it and its retrier, and the requests of the OpenSearch and              *)
(* Elasticsearch clients (internal/searchstore), fed by a listener that    *)
(* starts again from the confirmed position.                               *)
(*                                                                         *)
(* A row's identity is its key; a document is abstracted to the position   *)
(* of the change that wrote it and of the one that set its large (TOAST)   *)
(* column.  There is one schema, hence one index.                          *)
(***************************************************************************)
EXTENDS Integers, Sequences, FiniteSets, SequencesExt, Selection

CONSTANTS
  Key,        \* rows of the source
  TableOf,    \* their table
  Histories,  \* the sequences of changes the source may make
  Setups,     \* the store's client, REPLICA IDENTITY FULL at the source, and
              \* whether the store has the index of the old schema log
  MaxTries,   \* bound: SendDocuments attempts of the retrier
  SFaults     \* bound: crashes and failing requests

Table == {TableOf[k] : k \in Key}
NoKey == "-"
RowOps == {"I", "U", "K", "D"}    \* K: an UPDATE that changes the key
DiffOps == {"create", "addColumn", "rename", "drop", "dropSchema", "none"}
Flaws == {"no", "long", "skip", "error"}

\* `to' is the key after the change, which only a K changes; `toast' tells
\* whether it sets the large column; a flaw is an identifier over 512 bytes, one
\* that is null (or no metadata), which the messages of DDL statements need
\* neither of, or a table without identity columns.
Change ==
  {c \in [op : RowOps \cup DiffOps \cup {"T", "keepAlive"}, table : Table,
          key : Key \cup {NoKey}, to : Key \cup {NoKey}, toast : BOOLEAN, flaw : Flaws] :
     /\ c.op \in RowOps => {c.key, c.to} \subseteq Key
     /\ c.op = "K" \/ c.to = c.key
     /\ c.op \in DiffOps => c.flaw # "skip"}

SearchAssumption ==
  /\ TableOf \in [Key -> STRING]
  /\ Histories \subseteq Seq(Change)
  /\ Setups \subseteq [client : {"opensearch", "elasticsearch"},
                      identityFull : BOOLEAN, schemaLog : BOOLEAN]
  /\ MaxTries \in Nat \ {0} /\ SFaults \in Nat

VARIABLES
  log, next, pending, confirmed, faults,  \* as in KafkaPipeline
  setup,
  indexer,    \* "running", or "stopped": the batch sender has failed
  batch,      \* the positions of the batch being sent
  rest,       \* its messages that are not reached yet
  todo,       \* its documents still to be sent
  tries,      \* how often they have been sent
  index,      \* [exists, alias, mapped]: mapped has the tables' column groups
  docs,       \* [version, live, body, toast] for each key
  fresh,      \* documents that no query sees until the index is refreshed
  deletes,    \* tables with a delete-by-query task that has not run yet
  written,    \* history: changes the store has taken, or knew a later one of
  lost,       \* history: changes logged as lost
  dropped     \* history: messages behind a schema diff that failed

inputVars  == <<log, setup>>
batchVars  == <<batch, rest, todo, tries>>
storeVars  == <<index, docs, fresh, deletes>>
doneVars   == <<written, lost, dropped>>

Fault == faults < SFaults /\ faults' = faults + 1
NoDoc == [version |-> 0, live |-> FALSE, body |-> 0, toast |-> 0]
NoIndex == [exists |-> FALSE, alias |-> FALSE, mapped |-> {}]
-----------------------------------------------------------------------------
(* Errors of the store's answers.                                          *)

\* ExtractResponseError, getRetryableError and mapError.
ErrorOf(status) ==
  CASE status \in {408, 423, 425, 429, 502, 503, 504} -> "retriable"
    [] status = 400 -> "invalid"
    [] OTHER        -> "other"

\* The statuses a failing request is tried with: one of each kind.
Failures == {400, 500, 503}

\* parseSeverity
Severity(status, delete) ==
  CASE status = 409                   -> "ignored"
    [] status = 404 /\ delete         -> "ignored"
    [] status = 429 \/ status >= 500  -> "retriable"
    [] OTHER                          -> "dataLoss"
-----------------------------------------------------------------------------
(* The rows and their documents.                                           *)

IsWrite(i) == log[i].op \in RowOps
IsDelete(i) == log[i].op = "D"

NoRow == [live |-> FALSE, body |-> 0, toast |-> 0]

\* The rows of the source, and what is left of them in its large column.
RowsAfter(rows, c, i) ==
  LET row == [live |-> TRUE, body |-> i,
              toast |-> IF c.toast THEN i ELSE rows[c.key].toast]
  IN  CASE c.op = "D"             -> [rows EXCEPT ![c.key] = NoRow]
        [] c.op \in {"I", "U"}    -> [rows EXCEPT ![c.key] = row]
        [] c.op = "K"             -> [rows EXCEPT ![c.key] = NoRow, ![c.to] = row]
        [] c.op \in {"T", "drop"} -> [k \in Key |-> IF TableOf[k] = c.table THEN NoRow ELSE rows[k]]
        [] c.op = "dropSchema"    -> [k \in Key |-> NoRow]
        [] OTHER                  -> rows

\* The source after each prefix of a history.
Source(changes) ==
  LET at[n \in 0..Len(changes)] ==
        IF n = 0 THEN [k \in Key |-> NoRow] ELSE RowsAfter(at[n - 1], changes[n], n)
  IN  at

\* Mutant of Version: every row has the LSN it would have in a snapshot.
VersionOfSnapshot(i) == IF IsDelete(i) THEN 4 * i + 1 ELSE 1

\* The LSN, one more for an update or a delete.
Version(i) == 4 * i + (IF log[i].op = "I" THEN 0 ELSE 1)

\* walDataToDocument: the columns of the event and, of the old row, those that
\* the event lacks, if the old row is there.
Document(i) ==
  IF IsDelete(i) THEN [NoDoc EXCEPT !.version = Version(i)]
  ELSE [version |-> Version(i), live |-> TRUE, body |-> i,
        toast |-> IF log[i].toast \/ setup.identityFull THEN Source(log)[i][log[i].to].toast ELSE 0]

\* A column added to the table is in the documents from then on.
ColumnsOf(i) ==
  {<<log[i].table, "create">>} \cup
  {<<log[j].table, "addColumn">> :
     j \in {n \in 1..i : log[n].op = "addColumn" /\ log[n].table = log[i].table}}

\* SearchDocToBulkItem: what an item of a bulk request meets in the store, with
\* external versions and a strict mapping.
ItemStatus(d, i) ==
  LET stored == d[log[i].to]
  IN  IF ~index.exists THEN 404
      ELSE IF ~IsDelete(i) /\ ~(ColumnsOf(i) \subseteq index.mapped) THEN 400
      ELSE IF Version(i) <= stored.version THEN 409
      ELSE IF IsDelete(i) /\ ~stored.live THEN 404
      ELSE 200

\* A delete leaves its version behind, whether the document was there or not.
Stored(d, i) ==
  IF ItemStatus(d, i) = 200 \/ (ItemStatus(d, i) = 404 /\ index.exists)
  THEN [d EXCEPT ![log[i].to] = Document(i)] ELSE d

\* The documents after each of the items of a request.
DocsAfter(items) ==
  LET after[n \in 0..Len(items)] ==
        IF n = 0 THEN docs ELSE Stored(after[n - 1], items[n])
  IN  after
-----------------------------------------------------------------------------
(* Collecting.                                                             *)

\* ProcessWALEvent: a row without an identifier's value is skipped, one of a
\* table without identity columns is an error, which ends the listener.
Process ==
  /\ indexer = "running" /\ next <= Len(log)
  /\ CASE log[next].flaw = "error" ->
            indexer' = "stopped" /\ UNCHANGED <<next, pending>>
       [] log[next].flaw = "skip" ->
            next' = next + 1 /\ UNCHANGED <<pending, indexer>>
       [] OTHER ->
            next' = next + 1 /\ pending' = Append(pending, next) /\ UNCHANGED indexer
  /\ UNCHANGED <<inputVars, confirmed, faults, batchVars, storeVars, doneVars>>

\* sendBatch up to the next message that is no write: the documents before it
\* are sent first.
Load(messages) ==
  LET n == CHOOSE m \in 0..Len(messages) :
             /\ \A j \in 1..m : IsWrite(messages[j])
             /\ m = Len(messages) \/ ~IsWrite(messages[m + 1])
  IN  /\ todo' = SubSeq(messages, 1, n)
      /\ rest' = SubSeq(messages, n + 1, Len(messages))
      /\ tries' = 0

\* Empty messages have a position only.
SendBatch(n) ==
  /\ indexer = "running" /\ batch = <<>>
  /\ batch' = SubSeq(pending, 1, n)
  /\ pending' = SubSeq(pending, n + 1, Len(pending))
  /\ Load(Selected(batch', {i \in DOMAIN log : log[i].op # "keepAlive"}))
  /\ UNCHANGED <<inputVars, next, confirmed, faults, indexer, storeVars, doneVars>>

Stop ==
  /\ indexer' = "stopped"
  /\ batch' = <<>> /\ rest' = <<>> /\ todo' = <<>> /\ tries' = 0

\* The process ends, of itself once a batch has failed, and starts again.
Restart ==
  /\ IF indexer = "stopped" THEN UNCHANGED faults ELSE Fault
  /\ indexer' = "running"
  /\ next' = confirmed + 1
  /\ pending' = <<>> /\ batch' = <<>> /\ rest' = <<>> /\ todo' = <<>> /\ tries' = 0
  /\ UNCHANGED <<inputVars, confirmed, storeVars, doneVars>>
-----------------------------------------------------------------------------
(* Sending.                                                                *)

\* getRetriableDocs
Retried(throttled) == Selected(todo, throttled)

LastTry == tries + 1 = MaxTries

\* The store answers a bulk request; it had no room for some of the documents.
\* Once the attempts are over these are only logged.
BulkAnswered(throttled) ==
  LET items == {i \in Range(todo) : log[i].flaw # "long"}
      taken == Selected(todo, items \ throttled)
      after == DocsAfter(taken)[Len(taken)]
      Status(n) == ItemStatus(DocsAfter(taken)[n - 1], taken[n])
      refused == {taken[n] : n \in {m \in DOMAIN taken :
                    Status(m) # 200 /\ Severity(Status(m), IsDelete(taken[m])) = "dataLoss"}}
  IN  /\ indexer = "running" /\ todo # <<>>
      /\ throttled \subseteq items
      /\ IF throttled = {} THEN UNCHANGED faults ELSE Fault
      /\ docs' = after
      /\ fresh' = {k \in Key : after[k].live /\ (k \in fresh \/ after[k] # docs[k])}
      /\ written' = written \cup (Range(taken) \ refused)
      /\ lost' = lost \cup refused \cup (Range(todo) \ items)
                      \cup (IF LastTry THEN throttled ELSE {})
      /\ IF LastTry \/ Retried(throttled) = <<>>
         THEN todo' = <<>> /\ tries' = 0
         ELSE todo' = Retried(throttled) /\ tries' = tries + 1
      /\ UNCHANGED <<inputVars, next, pending, confirmed, indexer, batch, rest, index, deletes, dropped>>

\* The whole request fails.  After the last attempt an invalid query is only
\* logged, with its documents; any other error ends the sender.
BulkFails(status) ==
  /\ indexer = "running" /\ todo # <<>>
  /\ Fault
  /\ CASE ~LastTry ->
            /\ tries' = tries + 1
            /\ UNCHANGED <<indexer, batch, rest, todo, lost>>
       [] LastTry /\ ErrorOf(status) = "invalid" ->
            /\ todo' = <<>> /\ tries' = 0
            /\ lost' = lost \cup Range(todo)
            /\ UNCHANGED <<indexer, batch, rest>>
       [] OTHER -> Stop /\ UNCHANGED lost
  /\ UNCHANGED <<inputVars, next, pending, confirmed, storeVars, written, dropped>>
-----------------------------------------------------------------------------
(* Schema changes and truncates.                                           *)

\* ensureSchema and updateMapping: the requests of a diff.
Requests(op) ==
  (IF index.exists THEN <<>> ELSE <<"index", "alias">>)
  \o CASE op \in {"create", "addColumn", "rename"} -> <<"mapping">>
       [] op = "drop"                              -> <<"deleteByQuery">>

\* Queries and mappings go through the alias.  A renamed table copies the
\* mapping of the old name, which the Elasticsearch client looks for under the
\* alias: it finds nothing, and puts a null.
Refused(i, ix, request) ==
  \/ request \in {"mapping", "deleteByQuery"} /\ ~ix.alias
  \/ /\ log[i].op = "rename" /\ request = "mapping"
     /\ setup.client = "elasticsearch" \/ <<log[i].table, "create">> \notin ix.mapped

\* The index after n of the requests.
IndexAfter(i, n) ==
  LET done == {Requests(log[i].op)[m] : m \in 1..n}
  IN  [exists |-> index.exists \/ "index" \in done,
       alias  |-> index.alias \/ "alias" \in done,
       mapped |-> IF "mapping" \in done /\ log[i].op # "rename"
                  THEN index.mapped \cup {<<log[i].table, log[i].op>>} ELSE index.mapped]

\* A diff that fails is logged, and the batch is given up as if it were done:
\* the messages behind it are not sent, and nothing is checkpointed.
GiveUp(i) ==
  /\ lost' = lost \cup {i}
  /\ dropped' = dropped \cup (Range(rest) \ {i})
  /\ batch' = <<>> /\ rest' = <<>> /\ todo' = <<>> /\ tries' = 0

Applied(i) ==
  /\ written' = written \cup {i}
  /\ Load(Tail(rest))
  /\ UNCHANGED batch

AtDiff(ops) ==
  /\ indexer = "running" /\ todo = <<>> /\ rest # <<>>
  /\ log[Head(rest)].op \in ops

\* ApplySchemaDiff, of which the first n requests succeed.
ApplySchemaDiff(n) ==
  LET i == Head(rest)
      requests == Requests(log[i].op)
  IN  /\ AtDiff({"create", "addColumn", "rename", "drop"})
      /\ n <= Len(requests)
      /\ \A m \in 1..n : ~Refused(i, IndexAfter(i, m - 1), requests[m])
      /\ index' = IndexAfter(i, n)
      /\ IF n = Len(requests)
         THEN /\ Applied(i)
              /\ deletes' = IF log[i].op = "drop" THEN deletes \cup {log[i].table} ELSE deletes
              /\ UNCHANGED <<faults, lost, dropped>>
         ELSE /\ IF Refused(i, IndexAfter(i, n), requests[n + 1]) THEN UNCHANGED faults ELSE Fault
              /\ GiveUp(i)
              /\ UNCHANGED <<deletes, written>>
      /\ UNCHANGED <<inputVars, next, pending, confirmed, indexer, docs, fresh>>

\* A diff that changes nothing.
IgnoreDiff ==
  /\ AtDiff({"none"})
  /\ Applied(Head(rest))
  /\ UNCHANGED <<inputVars, next, pending, confirmed, faults, indexer, storeVars, lost, dropped>>

\* DeleteSchema: the index goes first; an error that follows, of the schema log
\* of older versions, is retried, if it may be, and then finds no index.
DeleteSchema ==
  LET i == Head(rest)
  IN  /\ AtDiff({"dropSchema"})
      /\ \/ /\ index' = NoIndex /\ docs' = [k \in Key |-> NoDoc]
            /\ fresh' = {} /\ deletes' = {}
            /\ IF index.exists /\ ~setup.schemaLog
               THEN GiveUp(i) /\ UNCHANGED <<faults, written>>
               ELSE \/ Applied(i) /\ UNCHANGED <<faults, lost, dropped>>
                    \/ index.exists /\ Fault /\ GiveUp(i) /\ UNCHANGED written
         \/ Fault /\ GiveUp(i) /\ UNCHANGED <<storeVars, written>>
      /\ UNCHANGED <<inputVars, next, pending, confirmed, indexer>>

\* DeleteTableDocuments starts a task and does not wait for it.
TruncateTable ==
  /\ AtDiff({"T"})
  /\ \/ /\ index.alias
        /\ deletes' = deletes \cup {log[Head(rest)].table}
        /\ Applied(Head(rest))
        /\ UNCHANGED <<faults, indexer>>
     \/ /\ IF index.alias THEN Fault ELSE UNCHANGED faults
        /\ Stop
        /\ UNCHANGED <<deletes, written>>
  /\ UNCHANGED <<inputVars, next, pending, confirmed, index, docs, fresh, lost, dropped>>

\* The end of sendBatch.
Checkpoint ==
  /\ indexer = "running" /\ batch # <<>> /\ todo = <<>> /\ rest = <<>>
  /\ \/ /\ confirmed' = Last(batch) /\ batch' = <<>>
        /\ UNCHANGED <<faults, indexer, rest, todo, tries>>
     \/ Fault /\ Stop /\ UNCHANGED confirmed
  /\ UNCHANGED <<inputVars, next, pending, storeVars, doneVars>>
-----------------------------------------------------------------------------
(* The store.                                                              *)

Refresh ==
  /\ fresh # {}
  /\ fresh' = {}
  /\ UNCHANGED <<inputVars, next, pending, confirmed, faults, indexer, batchVars,
                 index, docs, deletes, doneVars>>

\* The documents of the table that queries see.
RunDelete(table) ==
  /\ table \in deletes
  /\ deletes' = deletes \ {table}
  /\ docs' = [k \in Key |->
       IF TableOf[k] = table /\ docs[k].live /\ k \notin fresh
       THEN [NoDoc EXCEPT !.version = docs[k].version + 1] ELSE docs[k]]
  /\ fresh' = {}
  /\ UNCHANGED <<inputVars, next, pending, confirmed, faults, indexer, batchVars, index, doneVars>>

\* What the store remembers of a deleted document (index.gc_deletes, a minute),
\* it forgets after a while: here, after the batch and its retries.
Forget(k) ==
  /\ batch = <<>>
  /\ ~docs[k].live /\ docs[k].version > 0
  /\ docs' = [docs EXCEPT ![k] = NoDoc]
  /\ UNCHANGED <<inputVars, next, pending, confirmed, faults, indexer, batchVars,
                 index, fresh, deletes, doneVars>>
-----------------------------------------------------------------------------
SearchInit ==
  /\ log \in Histories /\ setup \in Setups
  /\ next = 1 /\ pending = <<>> /\ confirmed = 0 /\ faults = 0
  /\ indexer = "running"
  /\ batch = <<>> /\ rest = <<>> /\ todo = <<>> /\ tries = 0
  /\ index = NoIndex /\ docs = [k \in Key |-> NoDoc] /\ fresh = {} /\ deletes = {}
  /\ written = {} /\ lost = {} /\ dropped = {}

SearchNext ==
  \/ Process \/ Restart \/ IgnoreDiff \/ DeleteSchema \/ TruncateTable \/ Checkpoint \/ Refresh
  \/ \E n \in DOMAIN pending : SendBatch(n)
  \/ \E throttled \in SUBSET Range(todo) : BulkAnswered(throttled)
  \/ \E status \in Failures : BulkFails(status)
  \/ \E n \in 0..3 : ApplySchemaDiff(n)
  \/ \E table \in Table : RunDelete(table)
  \/ \E k \in Key : Forget(k)
-----------------------------------------------------------------------------
(* Properties *)

SearchTypeOK ==
  /\ next \in 1..Len(log) + 1 /\ confirmed \in 0..Len(log) /\ faults \in 0..SFaults
  /\ indexer \in {"running", "stopped"} /\ tries \in 0..MaxTries - 1
  /\ \A q \in {pending, batch, rest, todo} : q \in Seq(DOMAIN log)
  /\ index.exists \in BOOLEAN /\ index.alias \in BOOLEAN
  /\ docs \in [Key -> [version : Nat, live : BOOLEAN, body : Nat, toast : Nat]]
  /\ fresh \subseteq Key /\ deletes \subseteq Table
  /\ UNION {written, lost, dropped} \subseteq DOMAIN log

Idle == indexer = "running" /\ next = Len(log) + 1 /\ pending = <<>> /\ batch = <<>> /\ deletes = {}

\* The rows that nothing is amiss with, as IndexShowsSource says below.
Comparable(k) ==
  /\ \A i \in DOMAIN log :
       /\ ~(log[i].op \in {"T", "drop"} /\ log[i].table = TableOf[k])
       /\ log[i].op = "dropSchema" => i \notin lost \cup dropped
  /\ \A i \in {j \in DOMAIN log : k \in {log[j].key, log[j].to}} :
       /\ i \notin lost \cup dropped /\ log[i].flaw \in {"no", "long"}
       /\ ~(log[i].op = "K" /\ log[i].key = k)

(* Whatever was sent twice, in part or out of order, over restarts,        *)
(* refused and throttled documents, the index ends with the source's row   *)
(* when none of the row's changes, and no DROP SCHEMA, was lost: the       *)
(* version decides.  The large column is only there when the source logs   *)
(* the old row.  Not for rows of a table whose documents were deleted by   *)
(* query, and rows whose key changed: the code leaves the document of the  *)
(* old key.                                                                *)
IndexShowsSource ==
  Idle => \A k \in {n \in Key : Comparable(n)} :
    LET row == Source(log)[Len(log)][k]
    IN  /\ docs[k].live = row.live /\ docs[k].body = row.body
        /\ setup.identityFull => docs[k].toast = row.toast

(* A position is confirmed when every change up to it was taken by the     *)
(* store, logged as lost, skipped for its missing identifier, or stood in  *)
(* its batch behind a schema diff that was logged as lost.                 *)
ConfirmedIsAccounted ==
  \A i \in 1..confirmed :
    \/ i \in written \cup lost \/ log[i].op = "keepAlive" \/ log[i].flaw = "skip"
    \/ i \in dropped /\ \E j \in lost : j < i /\ log[j].op \in DiffOps

=============================================================================
