---------------------------- MODULE StdoutWriter ----------------------------
(***************************************************************************)
(* The stdout processor (pkg/wal/processor/stdout).  It writes a change    *)
(* and confirms it in one call.                                            *)
(***************************************************************************)
EXTENDS Integers, Sequences, SequencesExt

CONSTANTS
  Lines,     \* the logs: of whether an event has data
  OFaults    \* bound: crashes, failing writes and failing checkpoints

StdoutAssumption == (\A l \in Lines : l \in Seq(BOOLEAN)) /\ OFaults \in Nat

VARIABLES log, next, confirmed, faults,
  out        \* the positions written, in order

StdoutInit ==
  /\ log \in Lines /\ next = 1 /\ confirmed = 0 /\ faults = 0 /\ out = <<>>

OFault == faults < OFaults /\ faults' = faults + 1

Printed == out' = IF log[next] THEN Append(out, next) ELSE out

\* A write that fails ends the listener, which starts again; a checkpoint that
\* fails is only logged, and the position goes with the next one.
ProcessWALEvent ==
  /\ next <= Len(log)
  /\ \/ /\ Printed
        /\ next' = next + 1
        /\ \/ confirmed' = next /\ UNCHANGED faults
           \/ OFault /\ UNCHANGED confirmed
     \/ /\ log[next] /\ OFault
        /\ next' = confirmed + 1
        /\ UNCHANGED <<confirmed, out>>
  /\ UNCHANGED log

Restart ==
  /\ OFault
  /\ next' = confirmed + 1
  /\ UNCHANGED <<log, confirmed, out>>

StdoutNext == ProcessWALEvent \/ Restart

(* Whatever is confirmed has been written, and a line that has a change    *)
(* for the first time stands behind those of every earlier change.         *)
WrittenInOrder ==
  \A i \in DOMAIN log : log[i] =>
    /\ i <= confirmed => i \in Range(out)
    /\ \A n \in DOMAIN out : out[n] = i =>
         \A j \in 1..i : log[j] => \E m \in 1..n : out[m] = j
=============================================================================
