----------------------------- MODULE OrderedSink -----------------------------
(***************************************************************************)
(* What a batching processor promises the listener that feeds it: payloads *)
(* are taken in order, written without gaps, and a position is only        *)
(* checkpointed when every payload up to it has been settled.  A payload   *)
(* is settled when it has been written, or when its batch failed and the   *)
(* configuration says to ignore that (Config.IgnoreSendErrors).  How many  *)
(* payloads are taken together, and when, is left open.                    *)
(***************************************************************************)
EXTENDS Integers

VARIABLES
  mayDrop,   \* failed batches are ignored; this never changes
  received,  \* number of messages received so far
  data,      \* those with a payload
  settled,   \* payloads that were written or dropped
  dropped,   \* payloads that were dropped
  acked      \* positions checkpointed

vars == <<mayDrop, received, data, settled, dropped, acked>>

Init ==
  /\ mayDrop \in BOOLEAN
  /\ received = 0
  /\ data = {}
  /\ settled = {}
  /\ dropped = {}
  /\ acked = {}

\* The next message arrives, with or without a payload.
Receive ==
  /\ received' = received + 1
  /\ data' \in {data, data \cup {received + 1}}
  /\ UNCHANGED <<mayDrop, settled, dropped, acked>>

\* All the payloads up to k that are not settled yet are written; positions
\* up to k may be checkpointed with them.
Write(k) ==
  /\ settled' = settled \cup {i \in data : i <= k}
  /\ acked' \in {acked \cup P : P \in SUBSET (1..k)}
  /\ UNCHANGED <<mayDrop, received, data, dropped>>

\* They are given up instead, and nothing is checkpointed.
Drop(k) ==
  /\ mayDrop
  /\ settled' = settled \cup {i \in data : i <= k}
  /\ dropped' = dropped \cup (settled' \ settled)
  /\ UNCHANGED <<mayDrop, received, data, acked>>

Next == Receive \/ \E k \in 0..received : Write(k) \/ Drop(k)

Spec == Init /\ [][Next]_vars
=============================================================================
