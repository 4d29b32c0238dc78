----------------------------- MODULE PgBatchWriter -----------------------------
(***************************************************************************)
(* The Postgres batch writer: pkg/wal/processor/postgres (BatchWriter and  *)
(* the DML adapter), over the retrying querier of internal/postgres.       *)
(*                                                                         *)
(* The change stream delivers the changes of a source history in order,    *)
(* and again from the confirmed position after a restart or a connection   *)
(* reset.  The writer cuts a batch into runs of consecutive changes of one *)
(* table and one action, turns each run into as few queries as it can,     *)
(* executes a run's queries in one transaction, drops a query the target   *)
(* refuses and tries the others again, and confirms the batch's position.  *)
(*                                                                         *)
(* A row is abstracted to the position of the change that last wrote it,   *)
(* so that two versions of a row are always different; a row's identity is *)
(* its key.                                                                *)
(***************************************************************************)
EXTENDS Naturals, Sequences, FiniteSets, SequencesExt

CONSTANTS
    Key,            \* the rows' keys
    TableOf,        \* the table each key belongs to: a function on Key
    Ops,            \* the kinds of change the source makes, out of AllOps
    RowsPerChunk,   \* rows of a multi-row INSERT (maxParamsPerQuery / columns)
    Settings,       \* the settings of the run
    MaxLog,         \* bound: changes in the source's history
    MaxPending,     \* bound: changes the sender collects while one batch is sent
    MaxAttempts,    \* bound: executions of one transaction by the retrier
    MaxFaults,      \* bound: failures of the target's connection
    MaxRedeliveries \* bound: crashes and connection resets of the stream

Insert == "I"
Update == "U"
Rekey == "K"     \* an UPDATE that changes the row's key
Delete == "D"
Truncate == "T"
DDL == "X"       \* a DDL statement; the one modelled leaves the table empty
AllOps == {Insert, Update, Rekey, Delete, Truncate, DDL}

None == "none"
Reject == "reject"      \* constraint violation, no such relation, syntax, ...
Data == "data"          \* data exception: the retrier tries again, in vain
Lost == "lost"          \* connection, timeout, deadlock, unmapped errors

\* What an INSERT does when the row exists, how the target may refuse a change of
\* its own accord, whether a query of a transaction may fail to be answered, and the
\* changes the source makes.
Setting ==
    [onConflict : {"error", "update", "nothing"},
     poison : SUBSET {Reject, Data},
     lostQueries : BOOLEAN,
     ops : SUBSET Ops]

ASSUME ConstantsOK ==
    /\ TableOf \in [Key -> STRING]
    /\ Ops \subseteq AllOps
    /\ Settings \subseteq Setting
    /\ RowsPerChunk \in Nat \ {0}
    /\ MaxAttempts \in Nat \ {0, 1}
    /\ {MaxLog, MaxPending, MaxFaults, MaxRedeliveries} \subseteq Nat

VARIABLES
    setting,
    log,        \* the source's history: a sequence of changes
    poison,     \* the change the target refuses of its own accord, 0 if none
    poisonErr,  \* the error it refuses it with
    next,       \* the position of the next change the stream delivers
    confirmed,  \* the position the checkpointer reported last
    pending,    \* positions the sender has collected for the next batch
    batch,      \* positions of the batch being sent
    rest,       \* the part of the batch that is not in a flushed run yet
    queries,    \* the queries of the run being flushed
    retry,      \* execQueries' retryQueries
    attempts,   \* executions of the current ExecInTx
    lastErr,    \* the error of the last one
    phase,      \* "collecting", "flushing" or "failed"
    target,     \* the target's rows: for a key, the change that wrote it, 0 if none
    settled,    \* ghost: the changes committed or refused at least once
    skipped,    \* ghost: the stream has gone on without executing again what it had
                \* begun to deliver again
    faults, redeliveries

stream == <<next, pending, redeliveries, skipped>>
flush == <<queries, retry, attempts, lastErr>>
vars == <<setting, log, poison, poisonErr, stream, confirmed, batch, rest, flush,
          phase, target, settled, faults>>
-----------------------------------------------------------------------------
(* The target's tables.                                                    *)

NoRow == 0
EmptyTables == [k \in Key |-> NoRow]

\* `to' is the key a row moves to, and the key itself in any other change.  A
\* statement about a table is given one of its keys.
Change ==
    {c \in [op : Ops, key : Key, to : Key] :
        /\ c.op = Rekey \/ c.to = c.key
        /\ c.op \in {Truncate, DDL} => c.key = CHOOSE k \in Key : TableOf[k] = TableOf[c.key]}

Emptied(t, table) == [k \in Key |-> IF TableOf[k] = table THEN NoRow ELSE t[k]]

\* The table after the change at position p, whose row (if any) is there.
Changed(t, c, p) ==
    CASE c.op \in {Truncate, DDL} -> Emptied(t, TableOf[c.key])
      [] c.op = Delete            -> [t EXCEPT ![c.key] = NoRow]
      [] c.op = Rekey             -> [t EXCEPT ![c.key] = NoRow, ![c.to] = p]
      [] c.op = Insert            -> [t EXCEPT ![c.key] = p]
      [] c.op = Update            -> [t EXCEPT ![c.key] = p]

\* The source after each prefix of a history.
History(changes) ==
    LET at[n \in 0..Len(changes)] ==
            IF n = 0 THEN EmptyTables
            ELSE Changed(at[n - 1], changes[n], n)
    IN at

\* What the source's own tables allow.
Possible(t, c) ==
    /\ c.op = Insert => t[c.key] = NoRow
    /\ c.op \in {Update, Delete, Rekey} => t[c.key] # NoRow
    /\ c.op = Rekey => TableOf[c.to] = TableOf[c.key] /\ t[c.to] = NoRow

Histories ==
    {h \in UNION {[1..n -> Change] : n \in 0..MaxLog} :
        \A n \in DOMAIN h : Possible(History(h)[n - 1], h[n])}

\* A query is the sequence of the positions of the changes it stands for: many
\* for a multi-row INSERT or DELETE, one otherwise.
OpOf(q) == log[q[1]].op
KeysOf(q) == {log[q[i]].key : i \in DOMAIN q}

\* A multi-row INSERT, row by row: DO NOTHING keeps the row that is there.
Inserted(t, q) ==
    LET after[i \in 0..Len(q)] ==
            IF i = 0 THEN t
            ELSE IF setting.onConflict = "nothing" /\ after[i - 1][log[q[i]].key] # NoRow
                 THEN after[i - 1]
                 ELSE [after[i - 1] EXCEPT ![log[q[i]].key] = q[i]]
    IN after[Len(q)]

\* An UPDATE of a row that is not there changes nothing.
Executed(t, q) ==
    CASE OpOf(q) = Insert -> Inserted(t, q)
      [] OpOf(q) = Delete -> [k \in Key |-> IF k \in KeysOf(q) THEN NoRow ELSE t[k]]
      [] OpOf(q) \in {Truncate, DDL} -> Changed(t, log[q[1]], q[1])
      [] OpOf(q) \in {Update, Rekey} ->
            IF t[log[q[1]].key] = NoRow THEN t ELSE Changed(t, log[q[1]], q[1])

\* The error of a query on table t: an INSERT meets a row that is there, or one
\* key twice (which DO UPDATE cannot do in one statement, with an error MapError
\* leaves as it is); an UPDATE moves a row onto another.
ErrorOf(t, q) ==
    LET repeats == Cardinality(KeysOf(q)) < Len(q)
        exists == \E k \in KeysOf(q) : t[k] # NoRow
        change == log[q[1]]
    IN IF poison \in Range(q) /\ (OpOf(q) \in {Insert, DDL} \/ exists) THEN poisonErr
       ELSE IF OpOf(q) = Insert /\ setting.onConflict = "error" /\ (exists \/ repeats) THEN Reject
       ELSE IF OpOf(q) = Insert /\ setting.onConflict = "update" /\ repeats THEN Lost
       ELSE IF OpOf(q) = Rekey /\ exists /\ t[change.to] # NoRow THEN Reject
       ELSE None

ChangesOf(qs) == UNION {Range(q) : q \in Range(qs)}

\* The tables inside a transaction after the first i queries of qs.
Within(qs) ==
    LET after[i \in 0..Len(qs)] ==
            IF i = 0 THEN target ELSE Executed(after[i - 1], qs[i])
    IN after

Passes(qs, i) == \A j \in 1..i : ErrorOf(Within(qs)[j - 1], qs[j]) = None
-----------------------------------------------------------------------------
(* The runs of a batch and their queries.                                  *)

\* wal2json has one action for the UPDATEs that move a row and those that do not.
Action(p) == IF log[p].op = Rekey THEN Update ELSE log[p].op

\* Mutant of Continues: a run is cut at a new table only.
ContinuesAnyAction(p, q) ==
    /\ TableOf[log[p].key] = TableOf[log[q].key]
    /\ DDL \notin {log[p].op, log[q].op}

\* The change at q continues the run of the one at p; a DDL event is on its own.
Continues(p, q) ==
    /\ Action(p) = Action(q)
    /\ TableOf[log[p].key] = TableOf[log[q].key]
    /\ Action(p) # DDL

\* The number of changes in the run a sequence of positions starts with.
RunLength(ps) ==
    Cardinality({n \in 1..Len(ps) : \A i \in 2..n : Continues(ps[1], ps[i])})

Chunks(run, size) ==
    [i \in 1..((Len(run) + size - 1) \div size) |->
        SubSeq(run, (i - 1) * size + 1, Min({i * size, Len(run)}))]

buildCoalescedQueries(run) ==
    CASE log[run[1]].op = Delete -> <<run>>
      [] log[run[1]].op = Insert -> Chunks(run, RowsPerChunk)
      [] OTHER -> Chunks(run, 1)
-----------------------------------------------------------------------------
(* The stream and the batch sender.                                        *)

Receives ==
    /\ phase # "failed"
    /\ next <= Len(log)
    /\ Len(pending) < MaxPending
    /\ pending' = Append(pending, next)
    /\ next' = next + 1
    /\ UNCHANGED <<setting, log, poison, poisonErr, redeliveries, skipped, confirmed, batch, rest,
                   flush, phase, target, settled, faults>>

\* The replication connection is reset: the stream goes on from the position the
\* server has confirmed, and the sender keeps what it has collected.  That position
\* may lie ahead, when what was delivered before an earlier reset has been confirmed.
ConnectionResets ==
    /\ redeliveries < MaxRedeliveries
    /\ phase # "failed"
    /\ next # confirmed + 1
    /\ next' = confirmed + 1
    /\ redeliveries' = redeliveries + 1
    /\ skipped' = (skipped \/ next <= confirmed)
    /\ UNCHANGED <<setting, log, poison, poisonErr, pending, confirmed, batch, rest, flush,
                   phase, target, settled, faults>>

\* What is to be executed: of the run, of the batch, of the changes collected, and
\* what the stream delivers next.
Left == ChangesOf(queries) \union Range(rest) \union Range(pending) \union {next}

StartsOver ==
    /\ next' = confirmed + 1
    /\ skipped' = (skipped \/ \E p \in Left : p <= confirmed)
    /\ pending' = <<>>
    /\ batch' = <<>>
    /\ rest' = <<>>
    /\ queries' = <<>>
    /\ retry' = <<>>
    /\ attempts' = 0
    /\ lastErr' = None
    /\ phase' = "collecting"
    /\ UNCHANGED <<setting, log, poison, poisonErr, confirmed, target, settled, faults>>

Crashes ==
    /\ redeliveries < MaxRedeliveries
    /\ phase # "failed"
    /\ redeliveries' = redeliveries + 1
    /\ StartsOver

\* A batch that fails stops the sender and the process (ReplicationPipeline); the
\* failures that lead here are bounded, so the restarts need no bound.
Restarts ==
    /\ phase = "failed"
    /\ redeliveries' = Min({redeliveries + 1, MaxRedeliveries + 1})
    /\ StartsOver

SendsBatch ==
    /\ phase = "collecting"
    /\ pending # <<>>
    /\ batch' = pending
    /\ rest' = pending
    /\ pending' = <<>>
    /\ phase' = "flushing"
    /\ UNCHANGED <<setting, log, poison, poisonErr, next, redeliveries, skipped, confirmed,
                   flush, target, settled, faults>>
-----------------------------------------------------------------------------
(* sendBatch, a run at a time.                                             *)

FlushesRun ==
    /\ phase = "flushing"
    /\ queries = <<>>
    /\ rest # <<>>
    /\ LET n == RunLength(rest)
       IN /\ queries' = buildCoalescedQueries(SubSeq(rest, 1, n))
          /\ rest' = SubSeq(rest, n + 1, Len(rest))
    /\ UNCHANGED <<setting, log, poison, poisonErr, stream, confirmed, batch, retry,
                   attempts, lastErr, phase, target, settled, faults>>

Checkpoints ==
    /\ phase = "flushing"
    /\ queries = <<>>
    /\ rest = <<>>
    /\ \E p \in Range(batch) \union {confirmed} :
        /\ \A q \in Range(batch) \union {confirmed} : q <= p
        /\ confirmed' = p
    /\ batch' = <<>>
    /\ phase' = "collecting"
    /\ UNCHANGED <<setting, log, poison, poisonErr, stream, rest, flush, target, settled,
                   faults>>

Executing == phase = "flushing" /\ queries # <<>>

\* execQueries returns: flushQueries goes on with what it is given, in a new
\* call whose retryQueries is empty.
Returns(left) ==
    /\ queries' = left
    /\ retry' = <<>>
    /\ attempts' = 0
    /\ lastErr' = None

\* The transaction commits.  retryQueries is what an earlier attempt left there.
TxCommits ==
    /\ Executing
    /\ Passes(queries, Len(queries))
    /\ target' = Within(queries)[Len(queries)]
    /\ settled' = settled \union ChangesOf(queries)
    /\ Returns(retry)
    /\ UNCHANGED <<setting, log, poison, poisonErr, stream, confirmed, batch, rest, phase,
                   faults>>

\* A failed attempt: after the first, the retrier dials a new connection, and
\* when that fails the error is the dial's.
TriesAgain(err) ==
    /\ attempts < MaxAttempts
    /\ attempts' = attempts + 1
    /\ \/ lastErr' = err /\ UNCHANGED faults
       \/ /\ attempts > 0
          /\ faults < MaxFaults
          /\ faults' = faults + 1
          /\ lastErr' = Lost

\* Mutant of QueryRejected: removeIndex returns the queries before the refused one.
QueryRejectedDropsTail(i) ==
    /\ Executing
    /\ Passes(queries, i - 1)
    /\ ErrorOf(Within(queries)[i - 1], queries[i]) = Reject
    /\ Returns(SubSeq(queries, 1, i - 1))
    /\ settled' = settled \union Range(queries[i])
    /\ UNCHANGED <<setting, log, poison, poisonErr, stream, confirmed, batch, rest, phase,
                   target, faults>>

\* Mutant of QueryRejected: the refused query stays in the list.
QueryRejectedKept(i) ==
    /\ Executing
    /\ Passes(queries, i - 1)
    /\ ErrorOf(Within(queries)[i - 1], queries[i]) = Reject
    /\ Returns(queries)
    /\ settled' = settled \union Range(queries[i])
    /\ UNCHANGED <<setting, log, poison, poisonErr, stream, confirmed, batch, rest, phase,
                   target, faults>>

\* Query i fails with an error that is not worth retrying: the transaction is
\* rolled back and the query is dropped.
QueryRejected(i) ==
    /\ Executing
    /\ Passes(queries, i - 1)
    /\ ErrorOf(Within(queries)[i - 1], queries[i]) = Reject
    /\ Returns(RemoveAt(queries, i))
    /\ settled' = settled \union Range(queries[i])
    /\ UNCHANGED <<setting, log, poison, poisonErr, stream, confirmed, batch, rest, phase,
                   target, faults>>

\* Query i fails with an error the retrier tries again.
QueryErrs(i) ==
    /\ Executing
    /\ Passes(queries, i - 1)
    /\ LET err == ErrorOf(Within(queries)[i - 1], queries[i])
       IN /\ err \in {Data, Lost}
          /\ TriesAgain(err)
          /\ settled' = IF err = Data THEN settled \union Range(queries[i]) ELSE settled
    /\ retry' = RemoveAt(queries, i)
    /\ UNCHANGED <<setting, log, poison, poisonErr, stream, confirmed, batch, rest, queries,
                   phase, target>>

\* The connection fails while query i runs, deadlocks included.
QueryLost(i) ==
    /\ setting.lostQueries
    /\ Executing
    /\ faults < MaxFaults
    /\ attempts < MaxAttempts
    /\ Passes(queries, i - 1)
    /\ retry' = RemoveAt(queries, i)
    /\ attempts' = attempts + 1
    /\ lastErr' = Lost
    /\ faults' = faults + 1
    /\ UNCHANGED <<setting, log, poison, poisonErr, stream, confirmed, batch, rest, queries,
                   phase, target, settled>>

\* Mutant of CommitLost: the commit's error is not returned.
CommitLostSwallowed(applied) ==
    /\ Executing
    /\ faults < MaxFaults
    /\ attempts < MaxAttempts
    /\ applied => Passes(queries, Len(queries))
    /\ target' = IF applied THEN Within(queries)[Len(queries)] ELSE target
    /\ settled' = settled \union ChangesOf(queries)
    /\ Returns(retry)
    /\ faults' = faults + 1
    /\ UNCHANGED <<setting, log, poison, poisonErr, stream, confirmed, batch, rest, phase>>

\* The connection fails as the transaction begins or commits: the server may
\* have committed it.
CommitLost(applied) ==
    /\ Executing
    /\ faults < MaxFaults
    /\ attempts < MaxAttempts
    /\ applied => Passes(queries, Len(queries))
    /\ target' = IF applied THEN Within(queries)[Len(queries)] ELSE target
    /\ settled' = IF applied
                  THEN settled \union ChangesOf(queries)
                  ELSE settled
    /\ attempts' = attempts + 1
    /\ lastErr' = Lost
    /\ faults' = faults + 1
    /\ UNCHANGED <<setting, log, poison, poisonErr, stream, confirmed, batch, rest, queries,
                   retry, phase>>

\* The retrier gives up with the last error: execQueries drops the query when it
\* is one of the target's, and stops the sender when it is not.
GivesUp ==
    /\ Executing
    /\ attempts > 1
    /\ lastErr # None
    /\ IF lastErr = Lost
       THEN phase' = "failed" /\ UNCHANGED flush
       ELSE Returns(retry) /\ UNCHANGED phase
    /\ UNCHANGED <<setting, log, poison, poisonErr, stream, confirmed, batch, rest, target,
                   settled, faults>>

-----------------------------------------------------------------------------
Init ==
    /\ setting \in Settings
    /\ log \in {h \in Histories : \A n \in DOMAIN h : h[n].op \in setting.ops}
    /\ \/ poison = 0 /\ poisonErr = None
       \/ /\ poison \in DOMAIN log
          /\ log[poison].op \in {Insert, Update, DDL}
          /\ poisonErr \in setting.poison
    /\ next = 1
    /\ confirmed = 0
    /\ pending = <<>>
    /\ batch = <<>>
    /\ rest = <<>>
    /\ queries = <<>>
    /\ retry = <<>>
    /\ attempts = 0
    /\ lastErr = None
    /\ phase = "collecting"
    /\ target = EmptyTables
    /\ settled = {}
    /\ skipped = FALSE
    /\ faults = 0
    /\ redeliveries = 0

AttemptStep ==
    \/ TxCommits
    \/ GivesUp
    \/ \E i \in DOMAIN queries : QueryRejected(i) \/ QueryErrs(i)

FaultStep ==
    \/ \E applied \in BOOLEAN : CommitLost(applied)
    \/ \E i \in DOMAIN queries : QueryLost(i)

SenderStep == SendsBatch \/ FlushesRun \/ Checkpoints

\* The stream and the sender may end once the source's history is confirmed.
Done ==
    /\ confirmed = Len(log)
    /\ UNCHANGED vars

Next ==
    \/ Receives
    \/ ConnectionResets
    \/ Crashes
    \/ Restarts
    \/ SenderStep
    \/ AttemptStep
    \/ FaultStep
    \/ Done

\* The sender's goroutine and the retrier's loop go on until they return, the
\* listener goes on receiving, and a supervisor restarts the process.
Fairness ==
    /\ WF_vars(Receives)
    /\ WF_vars(Restarts)
    /\ WF_vars(SenderStep)
    /\ WF_vars(AttemptStep)

Spec == Init /\ [][Next]_vars
FairSpec == Spec /\ Fairness
-----------------------------------------------------------------------------
(* Properties.                                                             *)

Positions == Seq(1..Len(log))

TypeOK ==
    /\ setting \in Setting
    /\ log \in Seq(Change)
    /\ poison \in 0..Len(log)
    /\ poisonErr \in {Reject, Data, None}
    /\ confirmed \in 0..Len(log)
    /\ next \in 1..Len(log) + 1
    /\ {pending, batch, rest} \subseteq Positions
    /\ {queries, retry} \subseteq Seq(Positions)
    /\ attempts \in 0..MaxAttempts
    /\ lastErr \in {None, Data, Lost}
    /\ phase \in {"collecting", "flushing", "failed"}
    /\ target \in [Key -> 0..Len(log)]
    /\ settled \subseteq 1..Len(log)
    /\ skipped \in BOOLEAN
    /\ faults \in 0..MaxFaults
    /\ redeliveries \in 0..MaxRedeliveries + 1

\* A position is confirmed only when the target has committed every change up to
\* it, or has itself refused the query the change was in: no change is lost in
\* the retries of flushQueries, however runs, chunks, crashes and resets fall.
NothingLost == 1..confirmed \subseteq settled

\* The stream has nothing left to deliver and the writer nothing left to send.
Drained ==
    /\ phase = "collecting"
    /\ pending = <<>>
    /\ next > Len(log)

\* The target refuses nothing, and whatever fails, fails when a transaction begins or
\* commits: a query that is not answered leaves a retryQueries behind, and the code
\* executes it again after a later attempt has committed it.  A row that moves to
\* another key may meet the row it has been, when it is delivered again.
Accepting ==
    /\ Rekey \notin setting.ops
    /\ setting.onConflict = "nothing"
    /\ setting.poison = {}
    /\ ~setting.lostQueries

\* When everything has been sent, the target shows what the source shows, even
\* after changes were delivered and executed twice, in part, over any number of
\* crashes and resets.  Excepted is a stream that went on without the end of what
\* it had to deliver twice: a batch confirms the highest position it has, also when
\* changes before it, delivered again, were collected behind it.
ShowsSource == Drained /\ Accepting /\ ~skipped => target = History(log)[Len(log)]

\* Until something is delivered twice, the target never shows anything but a
\* state the source went through, and never goes back: a run is applied as a
\* whole, and a transaction whose commit was not acknowledged changes nothing
\* the second time.
PrefixOf == INSTANCE Replica WITH
    history <- History(log),
    replica <- IF ~Accepting THEN EmptyTables
               ELSE IF redeliveries = 0 THEN target ELSE History(log)[Len(log)]
PrefixConsistent == PrefixOf!Spec

\* Every change is confirmed in the end: no refused query keeps flushQueries
\* going round for ever, and no batch fails again and again.
EverythingConfirmed == <>(confirmed = Len(log))
=============================================================================
