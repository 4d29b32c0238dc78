-------------------------- MODULE MCSnapshotRecorder --------------------------
(* SnapshotRecorder with a `run' command and a `snapshot' command.           *)
EXTENDS SnapshotRecorder

CONSTANTS run, snapshot

Schemas == [t \in Table |-> IF t = "c" THEN "s2" ELSE "s1"]

Whole(schema) == [schema |-> schema, tables |-> {Wildcard}]
Only(schema, tables) == [schema |-> schema, tables |-> tables]

\* `run' is always started with the same tables; whoever starts `snapshot' may
\* ask for others, or everything.
Configs == [p \in Proc |->
    IF p = run
    THEN {{Only("s1", {"a", "b"}), Whole("s2")}}
    ELSE {{Only("s1", {"a", "b"})}, {Whole(Wildcard)}}]
=============================================================================
