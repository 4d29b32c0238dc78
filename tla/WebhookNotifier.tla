--------------------------- MODULE WebhookNotifier ---------------------------
(***************************************************************************)
(* The webhook notifier (pkg/wal/processor/webhook): the listener's calls  *)
(* of ProcessWALEvent, the Notify loop and its workers, and the            *)
(* subscriptions, in Postgres and in the cache in front of it.             *)
(*                                                                         *)
(* A subscription is for one schema, or all of them; tables are treated    *)
(* the same way in the code and are left out.                              *)
(***************************************************************************)
EXTENDS Integers, Sequences, FiniteSets

CONSTANTS
  WEvents,        \* the logs the source may write: of [data, action, schema]
  Offers,         \* the subscriptions clients may ask for
  MaxQueueBytes,
  WFaults         \* bound: crashes, failing requests and queries

\* EventTypes when the request names none: a nil slice, which is stored as NULL.
AnyEvent == {"NULL"}

WebhookAssumption ==
  /\ \A events \in WEvents : events \in Seq([data : BOOLEAN, action : STRING, schema : STRING])
  /\ \A s \in Offers : s.types \in SUBSET {"I", "U", "D"} \cup {AnyEvent}
  /\ MaxQueueBytes \in Nat /\ WFaults \in Nat

VARIABLES
  log, next, confirmed, faults,
  stored,     \* the rows of the subscriptions table
  cached,     \* whether the cache is configured
  cache,      \* its contents
  query,      \* the set of rows read for the refresh under way, if any
  call,       \* ProcessWALEvent: [state, at, to]
  inflight,   \* the message being notified: [state, at, to]
  sending,    \* its subscriptions without an answer yet
  queued,       \* bytes taken from the queue's semaphore
  stopping,   \* Close was called, or the context is done: "no", "close", "cancel"
  due,        \* history: who must hear of a change
  called      \* history: who was called for a change, whatever came of it

subscriptionVars == <<stored, cached, cache, query>>
notifierVars     == <<inflight, sending, queued>>

WFault == faults < WFaults /\ faults' = faults + 1

Nothing(state) == [state |-> state, at |-> 0, to |-> {}]
-----------------------------------------------------------------------------
(* Subscriptions.                                                          *)

\* Subscription.IsFor: an empty list is for all events too.
IsFor(s, e) ==
  /\ s.types = AnyEvent \/ s.types = {} \/ e.action \in s.types
  /\ s.schema = "" \/ e.schema \in {"", s.schema}

\* buildGetQuery: to the query an empty list is for none.
Selects(s, e) ==
  /\ s.types = AnyEvent \/ e.action \in s.types
  /\ s.schema = "" \/ e.schema \in {"", s.schema}

GetSubscriptions(e) ==
  IF cached THEN {s \in cache : IsFor(s, e)} ELSE {s \in stored : Selects(s, e)}

\* CreateSubscription: one row for each URL and schema, the cache is not told.
\* A DeleteSubscription always fails: its statement is not valid SQL.
Subscribe(s) ==
  /\ s \notin stored
  /\ stored' = {r \in stored : r.url # s.url \/ r.schema # s.schema} \cup {s}
  /\ UNCHANGED <<log, next, confirmed, faults, cached, cache, query, call, notifierVars,
                 stopping, due, called>>

\* refresh reads the rows without the lock, and then takes it.
RefreshReads ==
  /\ cached /\ query = {} /\ stopping # "cancel"
  /\ \/ query' = {stored} /\ UNCHANGED faults
     \/ WFault /\ UNCHANGED query
  /\ UNCHANGED <<log, next, confirmed, stored, cached, cache, call, notifierVars,
                 stopping, due, called>>

RefreshStores ==
  /\ query # {}
  /\ cache' = UNION query /\ query' = {}
  /\ UNCHANGED <<log, next, confirmed, faults, stored, cached, call, notifierVars,
                 stopping, due, called>>
-----------------------------------------------------------------------------
(* ProcessWALEvent, as the listener calls it: one event after the other.   *)

Bytes(to) == IF to = {} THEN 0 ELSE 1 + Cardinality(to)

\* What the cache has and the table still has is what must be heard.
Lookup ==
  /\ call.state = "idle" /\ next <= Len(log) /\ stopping # "cancel"
  /\ LET e  == log[next]
         to == IF e.data THEN GetSubscriptions(e) ELSE {}
     IN  \/ /\ call' = [state |-> "acquiring", at |-> next, to |-> to]
            /\ due' = [due EXCEPT ![next] = to \cap stored]
            /\ next' = next + 1
            /\ UNCHANGED faults
         \/ /\ e.data /\ ~cached /\ WFault
            /\ call' = Nothing("failed")
            /\ UNCHANGED <<due, next>>
  /\ UNCHANGED <<log, confirmed, subscriptionVars, notifierVars, stopping, called>>

Acquire ==
  /\ call.state = "acquiring"
  /\ \/ /\ queued + Bytes(call.to) <= MaxQueueBytes
        /\ queued' = queued + Bytes(call.to)
        /\ call' = [call EXCEPT !.state = "handing"]
     \/ /\ queued + Bytes(call.to) > MaxQueueBytes /\ stopping = "cancel"
        /\ call' = [call EXCEPT !.state = "failed"]
        /\ UNCHANGED queued
  /\ UNCHANGED <<log, next, confirmed, faults, subscriptionVars, inflight, sending,
                 stopping, due, called>>

\* Mutant of LoopEnded: notifyDone stays open.
LoopEndedUnseen == FALSE

LoopEnded == inflight.state = "stopped"

\* A message that is refused keeps its bytes.
Refuse ==
  /\ call.state = "handing"
  /\ stopping = "close" \/ LoopEnded
  /\ call' = [call EXCEPT !.state = "failed"]
  /\ UNCHANGED <<log, next, confirmed, faults, subscriptionVars, notifierVars,
                 stopping, due, called>>
-----------------------------------------------------------------------------
(* Notify.                                                                 *)

Take ==
  /\ call.state = "handing" /\ inflight.state = "waiting"
  /\ inflight' = [state |-> "notifying", at |-> call.at, to |-> call.to]
  /\ sending' = call.to
  /\ call' = Nothing("idle")
  /\ UNCHANGED <<log, next, confirmed, faults, subscriptionVars, queued, stopping, due, called>>

\* webhookWorker: a call that fails, is refused or cancelled is only logged.
SendWebhook(s) ==
  /\ inflight.state = "notifying" /\ s \in sending
  /\ sending' = sending \ {s}
  /\ called' = called \cup {<<inflight.at, s>>}
  /\ UNCHANGED <<log, next, confirmed, faults, subscriptionVars, call, inflight, queued, stopping, due>>

\* The end of notify, and of the loop if the position cannot be checkpointed.
Checkpoint ==
  /\ inflight.state = "notifying" /\ sending = {}
  /\ queued' = queued - Bytes(inflight.to)
  /\ \/ /\ confirmed' = inflight.at
        /\ inflight' = Nothing("waiting")
        /\ UNCHANGED faults
     \/ /\ IF stopping = "cancel" THEN UNCHANGED faults ELSE WFault
        /\ inflight' = Nothing("stopped")
        /\ UNCHANGED confirmed
  /\ UNCHANGED <<log, next, subscriptionVars, call, sending, stopping, due, called>>

StopNotify ==
  /\ inflight.state = "waiting" /\ stopping # "no"
  /\ inflight' = Nothing("stopped")
  /\ UNCHANGED <<log, next, confirmed, faults, subscriptionVars, call, sending, queued,
                 stopping, due, called>>
-----------------------------------------------------------------------------
Shutdown(how) ==
  /\ stopping = "no" /\ how \in {"close", "cancel"}
  /\ WFault
  /\ stopping' = how
  /\ UNCHANGED <<log, next, confirmed, subscriptionVars, call, notifierVars, due, called>>

\* Nothing of a message survives; the cache starts with all rows.
Restart ==
  /\ IF call.state = "failed" \/ (stopping = "cancel" /\ inflight.state = "stopped")
     THEN UNCHANGED faults ELSE WFault
  /\ next' = confirmed + 1
  /\ call' = Nothing("idle") /\ inflight' = Nothing("waiting")
  /\ sending' = {} /\ queued' = 0 /\ stopping' = "no" /\ query' = {}
  /\ cache' = IF cached THEN stored ELSE {}
  /\ UNCHANGED <<log, confirmed, stored, cached, due, called>>

WebhookInit ==
  /\ log \in WEvents /\ next = 1 /\ confirmed = 0 /\ faults = 0
  /\ stored = {} /\ cached \in BOOLEAN /\ cache = {} /\ query = {}
  /\ call = Nothing("idle") /\ inflight = Nothing("waiting")
  /\ sending = {} /\ queued = 0 /\ stopping = "no"
  /\ due = [i \in DOMAIN log |-> {}] /\ called = {}

WebhookNext ==
  \/ Lookup \/ Acquire \/ Refuse \/ Take \/ Checkpoint \/ StopNotify \/ Restart
  \/ RefreshReads \/ RefreshStores
  \/ \E s \in Offers : Subscribe(s) \/ SendWebhook(s)
  \/ \E how \in {"close", "cancel"} : Shutdown(how)

-----------------------------------------------------------------------------
(* Properties *)

WebhookTypeOK ==
  /\ next \in 1..Len(log) + 1 /\ confirmed \in 0..Len(log) /\ faults \in 0..WFaults
  /\ \A rows \in {stored, cache} : rows \subseteq Offers
  /\ call.state \in {"idle", "acquiring", "handing", "failed"} /\ call.to \subseteq Offers
  /\ inflight.state \in {"waiting", "notifying", "stopped"} /\ sending \subseteq inflight.to
  /\ queued \in 0..MaxQueueBytes
  /\ called \subseteq (DOMAIN log) \X Offers

(* When a position is confirmed, every subscriber that the table and the   *)
(* cache had when a change up to it was looked up has been called, whatever*)
(* came of it: not a message that waited for bytes or  *)
(* was refused, nor one whose workers were still running.                  *)
ConfirmedIsCalled ==
  \A i \in 1..confirmed : \A s \in due[i] : <<i, s>> \in called

=============================================================================
