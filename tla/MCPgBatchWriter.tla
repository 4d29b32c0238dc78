--------------------------- MODULE MCPgBatchWriter ---------------------------
(* PgBatchWriter on two small tables, with a target that accepts everything  *)
(* and with one that refuses what it may.                                    *)
EXTENDS PgBatchWriter

TwoTables == [k \in Key |-> IF k = 3 THEN "u" ELSE "t"]

Accepts(ops) ==
    [onConflict |-> "nothing", poison |-> {}, lostQueries |-> FALSE, ops |-> ops]

Refuses(err, lost, ops) ==
    [onConflict |-> "error", poison |-> {err}, lostQueries |-> lost, ops |-> ops]

MCSettings == {
    Accepts({Insert, Update, Delete}),
    Accepts({Insert, DDL}),
    Refuses(Reject, FALSE, {Insert, Update}),
    Refuses(Data, TRUE, {Insert})}
============================================================================
