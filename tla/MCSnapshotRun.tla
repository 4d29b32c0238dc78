--------------------------- MODULE MCSnapshotRun ---------------------------
(* SnapshotRun on a small source: two schemas, three tables.               *)
EXTENDS SnapshotRun

Stmt(tab, lines, needs) ==
  [lines |-> lines, needs |-> needs, schema |-> "s1", table |-> tab,
   roles |-> {}, owner |-> FALSE, unique |-> FALSE, provider |-> "-"]
Role(roles, owner) == [Stmt("a", <<"role">>, {"a"}) EXCEPT !.roles = roles, !.owner = owner]
Unique(s) == [s EXCEPT !.unique = TRUE]
Constraint == <<"alterTable", "addConstraint">>
Trigger == Stmt("-", <<"eventTrigger", "execute">>, {})

Texts ==
  "connect" :> Stmt("-", <<"connect">>, {}) @@
  "a"       :> Stmt("a", <<"table">>, {}) @@
  "adef"    :> Stmt("a", <<"alterTable", "alterColumn">>, {"a"}) @@
  "aowner"  :> Role({"r1"}, TRUE) @@
  "b"       :> Stmt("b", <<"table">>, {}) @@
  "c"       :> [Stmt("c", <<"table">>, {}) EXCEPT !.schema = "s2"] @@
  "seq"     :> Stmt("-", <<"sequence">>, {}) @@
  "v"       :> Stmt("-", <<"view", "text">>, {"a"}) @@
  "akey"    :> Unique(Stmt("a", Constraint, {"a"})) @@
  "bunique" :> Unique(Stmt("b", <<"uniqueIndex">>, {"b"})) @@
  "aindex"  :> Stmt("a", <<"index">>, {"a"}) @@
  "vindex"  :> Stmt("-", <<"index">>, {"v"}) @@
  "bident"  :> Stmt("b", <<"identity">>, {"b", "bunique"}) @@
  "bfk"     :> Stmt("b", Constraint, {"a", "b", "akey"}) @@
  "evt"     :> Trigger @@
  "pgsevt"  :> [Trigger EXCEPT !.schema = "pgstream"] @@
  "agrant"  :> Role({"r2"}, FALSE) @@
  "mgrant"  :> Role({"m"}, FALSE) @@
  "alabel"  :> [Stmt("a", <<"label">>, {"a"}) EXCEPT !.provider = "anon"]

Dump(without) ==
  LET Kept(s) == s \notin without
  IN  SelectSeq(<<"connect", "a", "adef", "aowner", "b", "c", "seq", "v", "akey", "bunique",
                  "aindex", "vindex", "bident", "bfk", "evt", "pgsevt", "agrant", "mgrant",
                  "alabel">>, Kept)

Source(schemas, last, rows, bound) ==
  [schema |-> schemas, last |-> last, rows |-> rows, maxFaults |-> bound]
Tables(a, b, c) == "a" :> a @@ "b" :> b @@ "c" :> c
TwoSchemas == Tables("s1", "s1", "s2")

Base ==
  [dump |-> Dump({}), roles |-> {"r1", "r2", "r3", "m"},
   grants |-> {<<"r1", "r2">>, <<"r3", "r1">>}, request |-> "s1" :> {"*"},
   without |-> {}, labels |-> {}, global |-> FALSE, clean |-> FALSE, targetsFirst |-> FALSE,
   superuser |-> TRUE, copyRoles |-> TRUE, copyData |-> FALSE, tracked |-> FALSE,
   toWAL |-> FALSE, full |-> FALSE, maxFaults |-> 1, attempts |-> 2,
   source |-> Source(TwoSchemas, Tables(0, 0, 0), Tables({}, {}, {}), 0)]

\* Everything that is configured, without the rows.
SchemaCases ==
  {[Base EXCEPT !.dump = Dump(w), !.request = q, !.global = w = {}, !.clean = c,
                !.superuser = u, !.full = f] :
     w \in {{}, {"evt"}, {"evt", "agrant"}}, c \in BOOLEAN, u \in BOOLEAN, f \in BOOLEAN,
     q \in {"*" :> {"*"}, "s1" :> {"a"} @@ "s2" :> {"*"}, "s1" :> {}}}
  \cup {[Base EXCEPT !.tracked = TRUE, !.labels = {"anon"}, !.without = {"b"}],
        [Base EXCEPT !.toWAL = TRUE, !.copyRoles = FALSE]}

\* The rows, with keys before or after them: pages of one row, a gap, a table
\* that is gone, an empty one, and two schemas that fail at once.
WithData == [Base EXCEPT !.copyData = TRUE, !.attempts = 1]
Rest == [Base EXCEPT !.copyData = TRUE, !.attempts = 1, !.maxFaults = 0, !.full = TRUE,
                     !.copyRoles = FALSE]
DataCases ==
  {[WithData EXCEPT !.targetsFirst = TRUE, !.without = {"b"},
      !.source = Source(TwoSchemas, Tables(0, 0, 0), Tables({0}, {}, {}), 0)],
   [Rest EXCEPT !.without = {"c"},
      !.source = Source(TwoSchemas, Tables(1, 0, 0), Tables({0, 1}, {}, {}), 1)],
   [Rest EXCEPT !.without = {"c"},
      !.source = Source(TwoSchemas, Tables(0, 0, 0), Tables({0}, {0}, {}), 1)],
   [Rest EXCEPT !.request = "s1" :> {"a", "b"}, !.dump = Dump({"b", "bunique", "bident", "bfk"}),
      !.source = Source(TwoSchemas, Tables(2, -1, 0), Tables({0, 2}, {}, {}), 1)],
   [Rest EXCEPT !.request = "*" :> {"*"}, !.without = {"b"},
      !.source = Source(TwoSchemas, Tables(0, 0, 0), Tables({0}, {}, {0}), 2)]}

AllCases == SchemaCases \cup DataCases
=============================================================================
