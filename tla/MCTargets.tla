------------------------------ MODULE MCTargets ------------------------------
(* Logs, rows and subscriptions that bring the targets' cases together.    *)
EXTENDS Targets

KafkaChange(s, k) == [schema |-> s, kind |-> k]
MCChanges ==
  {KafkaChange("s1", "row"), KafkaChange("s2", "row"), KafkaChange("s1", "refused"),
   KafkaChange("s1", "ddl"), KafkaChange("s1", "big"), KafkaChange("s2", "keepAlive")}
MCPartitionOf == [s \in {"s1", "s2", ""} |-> IF s = "s1" THEN 0 ELSE 1]

MCTableOf == [k \in {"a", "b", "c"} |-> IF k = "c" THEN "u" ELSE "t"]
SearchChange(op, t, k, to, toast, flaw) ==
  [op |-> op, table |-> t, key |-> k, to |-> to, toast |-> toast, flaw |-> flaw]
Diff(op, t) == SearchChange(op, t, "-", "-", FALSE, "no")
Row(op, k, toast) == SearchChange(op, MCTableOf[k], k, k, toast, "no")
Flawed(op, k, f) == SearchChange(op, MCTableOf[k], k, k, TRUE, f)
CreateT == Diff("create", "t")
MCHistories == {
  <<CreateT, Row("I", "a", TRUE), Row("U", "a", FALSE), Row("D", "a", FALSE)>>,
  <<CreateT, Row("I", "a", TRUE), Diff("T", "t"), Row("I", "b", TRUE)>>,
  <<CreateT, Row("I", "a", TRUE), SearchChange("K", "t", "a", "b", FALSE, "no"), Row("U", "b", FALSE)>>,
  <<CreateT, Row("I", "a", TRUE), Diff("addColumn", "t"), Row("U", "a", FALSE)>>,
  <<CreateT, Row("I", "a", TRUE), Diff("rename", "t"), Row("U", "a", TRUE)>>,
  <<CreateT, Diff("create", "u"), Row("I", "c", TRUE), Diff("drop", "u"), Diff("none", "t")>>,
  <<CreateT, Row("I", "a", TRUE), Diff("dropSchema", "t"), CreateT, Row("I", "b", TRUE)>>,
  <<CreateT, Flawed("I", "a", "long"), Flawed("I", "b", "skip"), Diff("keepAlive", "t"), Row("I", "c", TRUE)>>,
  <<CreateT, Row("I", "b", TRUE), Flawed("I", "a", "error")>> }
SetupOf(client, full, schemaLog) ==
  [client |-> client, identityFull |-> full, schemaLog |-> schemaLog]
MCSetups == {SetupOf("opensearch", TRUE, TRUE), SetupOf("elasticsearch", FALSE, FALSE)}

Event(data, action, schema) == [data |-> data, action |-> action, schema |-> schema]
MCEvents == {<<Event(TRUE, "I", "x"), Event(FALSE, "", ""), Event(TRUE, "D", "x")>>}
MCOffers ==
  {[url |-> "u", schema |-> "", types |-> {"NULL"}],
   [url |-> "v", schema |-> "x", types |-> {"D"}], [url |-> "v", schema |-> "x", types |-> {}]}

MCLines == {<<TRUE, FALSE, TRUE, TRUE>>}
=============================================================================
