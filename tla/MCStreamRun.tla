----------------------------- MODULE MCStreamRun -----------------------------
(* Commands with every target and every kind of snapshot.                    *)
EXTENDS StreamRun

Config(command, target, snapshot) ==
  [command |-> command, source |-> "postgres", target |-> target, snapshot |-> snapshot]

Copies == {{"schema"}, {"data"}, {"schema", "data"}}
Streams ==
  {Config("run", t, s) : t \in Targets, s \in Copies \cup {{}}} \cup
  {Config("snapshot", t, s) : t \in Targets, s \in Copies} \cup
  {[Config("run", t, {}) EXCEPT !.source = "kafka"] : t \in Targets}

\* Schema and data through a queue.
Full == {Config(c, "queue", {"schema", "data"}) : c \in Commands}
MCConfigs == Streams \ Full
=============================================================================
