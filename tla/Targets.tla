------------------------------- MODULE Targets -------------------------------
(***************************************************************************)
(* The processor that the configuration selects (buildProcessor of         *)
(* pkg/stream): a Kafka topic with its consumers, a search store, webhooks *)
(* or the standard output.  The Postgres target has modules of its own     *)
(* (ReplicationPipeline, PgBatchWriter).                                   *)
(*                                                                         *)
(* All of them are fed from one log and confirm its positions; what only   *)
(* another target uses stays as it is.                                     *)
(***************************************************************************)
EXTENDS Integers, Sequences, FiniteSets

CONSTANTS
  Configured,  \* the targets to choose from
  Schema, Partition, PartitionOf, StartOffset, Changes, KLogLength, KFaults,
  Key, TableOf, Histories, Setups, MaxTries, SFaults,
  WEvents, Offers, MaxQueueBytes, WFaults,
  Lines, OFaults

VARIABLES
  target,
  log, next, pending, confirmed, faults,
  writer, topic, reader, fetched, begin, committed, held, sink, handled, logged,
  setup, indexer, batch, rest, todo, tries, index, docs, fresh, deletes, written, lost, dropped,
  stored, cached, cache, query, call, inflight, sending, queued, stopping, due, called,
  out

Kafka   == INSTANCE KafkaPipeline
Search  == INSTANCE SearchIndexer
Webhook == INSTANCE WebhookNotifier
Stdout  == INSTANCE StdoutWriter

ProcessorConfig == {"kafka", "search", "webhook", "stdout"}

ASSUME TargetsAssumption ==
  /\ Configured \subseteq ProcessorConfig
  /\ Kafka!KafkaAssumption /\ Search!SearchAssumption
  /\ Webhook!WebhookAssumption /\ Stdout!StdoutAssumption

kafkaOnly   == <<writer, topic, reader, fetched, begin, committed, held, sink, handled, logged>>
searchOnly  == <<setup, indexer, batch, rest, todo, tries, index, docs, fresh, deletes,
                 written, lost, dropped>>
webhookOnly == <<stored, cached, cache, query, call, inflight, sending, queued, stopping, due, called>>
vars == <<target, log, next, pending, confirmed, faults, kafkaOnly, searchOnly, webhookOnly, out>>
-----------------------------------------------------------------------------
(* What is not built has no state.                                         *)

NoKafka ==
  /\ writer = "off" /\ topic = <<>> /\ reader = "off" /\ fetched = <<>> /\ begin = <<>>
  /\ committed = <<>> /\ held = <<>> /\ sink = "off" /\ handled = {} /\ logged = {}
NoSearch ==
  /\ setup = <<>> /\ indexer = "off" /\ batch = <<>> /\ rest = <<>> /\ todo = <<>> /\ tries = 0
  /\ index = <<>> /\ docs = <<>> /\ fresh = {} /\ deletes = {}
  /\ written = {} /\ lost = {} /\ dropped = {}
NoWebhook ==
  /\ stored = {} /\ cached = FALSE /\ cache = {} /\ query = {} /\ call = [state |-> "off"] /\ inflight = <<>>
  /\ sending = {} /\ queued = 0 /\ stopping = "off" /\ due = <<>> /\ called = {}
NoStdout == out = <<>>

Init ==
  /\ target \in Configured
  /\ \/ target = "kafka"   /\ Kafka!KafkaInit /\ NoSearch /\ NoWebhook /\ NoStdout
     \/ target = "search"  /\ Search!SearchInit /\ NoKafka /\ NoWebhook /\ NoStdout
     \/ target = "webhook" /\ Webhook!WebhookInit /\ NoKafka /\ NoSearch /\ NoStdout /\ pending = <<>>
     \/ target = "stdout"  /\ Stdout!StdoutInit /\ NoKafka /\ NoSearch /\ NoWebhook /\ pending = <<>>

Next ==
  /\ UNCHANGED target
  /\ \/ /\ target = "kafka" /\ UNCHANGED <<searchOnly, webhookOnly, out>>
        /\ Kafka!KafkaNext
     \/ /\ target = "search" /\ UNCHANGED <<kafkaOnly, webhookOnly, out>>
        /\ Search!SearchNext
     \/ /\ target = "webhook" /\ UNCHANGED <<kafkaOnly, searchOnly, out, pending>>
        /\ Webhook!WebhookNext
     \/ /\ target = "stdout" /\ UNCHANGED <<kafkaOnly, searchOnly, webhookOnly, pending>>
        /\ Stdout!StdoutNext

Fairness ==
  /\ WF_vars(target = "webhook" /\ UNCHANGED <<target, kafkaOnly, searchOnly, out, pending>>
             /\ (Webhook!Acquire \/ Webhook!Refuse \/ Webhook!Take))
  /\ WF_vars(target = "webhook" /\ UNCHANGED <<target, kafkaOnly, searchOnly, out, pending>>
             /\ (Webhook!StopNotify \/ Webhook!Checkpoint \/ \E s \in Offers : Webhook!SendWebhook(s)))

Spec == Init /\ [][Next]_vars /\ Fairness
-----------------------------------------------------------------------------
(* Properties: those of the module that models the target, stated there.   *)

(* Each target's variables are what its module says they are.              *)
TypeOK ==
  CASE target = "kafka"   -> Kafka!KafkaTypeOK
    [] target = "search"  -> Search!SearchTypeOK
    [] target = "webhook" -> Webhook!WebhookTypeOK
    [] target = "stdout"  -> {next, confirmed + 1} \subseteq 1..Len(log) + 1 /\ out \in Seq(DOMAIN log)

(* Rows and DDL statements of a schema keep their order in the topic.      *)
OrderedPerSchema == target = "kafka" => Kafka!OrderedPerSchema

(* The index ends with the rows of the source.                             *)
IndexShowsSource == target = "search" => Search!IndexShowsSource

(* A confirmed position covers nothing that was lost without a word:       *)
(* whatever it passes has arrived, or a line in a log accounts for it.     *)
ConfirmedIsAccounted ==
  CASE target = "kafka"   -> Kafka!NothingLostSilently
    [] target = "search"  -> Search!ConfirmedIsAccounted
    [] target = "webhook" -> Webhook!ConfirmedIsCalled
    [] target = "stdout"  -> Stdout!WrittenInOrder

(* ProcessWALEvent of the notifier returns.                                *)
CallsReturn ==
  (target = "webhook" /\ call.state \in {"acquiring", "handing"}) ~> call.state \in {"idle", "failed"}
=============================================================================
