---------------------------- MODULE MCEventChain ----------------------------
(* A table with a rule for one column; new ones have it as a generated one. *)
EXTENDS EventChain

Col(att, name, kind) == [att |-> att, name |-> name, kind |-> kind]
MCTables ==
  [n \in {"users"} |->
     [id |-> 1, atts |-> 2, key |-> TRUE, cols |-> {Col(1, "id", "identity"), Col(2, "email", "plain")}]]
MCLayouts == {[cols |-> {Col(1, "id", "plain"), Col(2, "email", "generated")}, key |-> FALSE]}
MCRules == [n \in {"users"} |-> [c \in {"id", "email"} |-> IF c = "email" THEN "mask" ELSE "noop"]]

Config(filter, tables, mode, sanitize) ==
  [filter |-> filter, tables |-> tables, mode |-> mode, relaxed |-> {"audit"}, sanitize |-> sanitize]
MCConfigs == {
  Config("include", {"users"}, "none", FALSE),
  Config("none", {}, "table_level", TRUE),
  Config("exclude", {"audit"}, "strict", TRUE),
  Config("include", {"users", "Team"}, "relaxed", TRUE)}
=============================================================================
