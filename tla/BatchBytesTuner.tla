-------------------------- MODULE BatchBytesTuner --------------------------
(***************************************************************************)
(* The tuner of the batch sender's maximum of bytes per batch: it measures *)
(* the throughput of the batches it sends, moves to the next number of     *)
(* bytes once the measurements of the current one agree, and stops when    *)
(* the interval it searches is small enough.  (wal_batch_bytes_tuner.go,   *)
(* wal_batch_bytes_setting.go, internal/math.)                             *)
(*                                                                         *)
(* A throughput is a whole number; an average of MinSamples measurements   *)
(* is kept as their sum.  Time is left out: the network says which         *)
(* throughputs a batch may have.                                           *)
(***************************************************************************)
EXTENDS Integers, Sequences, SequencesExt

CONSTANTS
  MinTunedBytes, MaxTunedBytes, \* the interval to search
  Threshold,                    \* the length at which the search ends
  MinSamples, MaxSamples,       \* measurements of one setting
  MaxBatchBytesSet,             \* what the sender uses without a tuner
  MaxSkipped,                   \* bound: skipped batches counted
  Networks                      \* what the throughputs are: a profile and its noise

\* Validate refuses settings of which this does not hold.
AutoTuneConfig ==
  /\ {MinTunedBytes, MaxTunedBytes, MaxBatchBytesSet} \subseteq Nat
  /\ MinTunedBytes <= MaxTunedBytes
  /\ Threshold \in Nat \ {0}

ASSUME TunerAssumption ==
  /\ AutoTuneConfig
  /\ MaxSkipped \in Nat
  /\ MinSamples \in Nat \ {0} /\ MaxSamples \in Nat /\ MinSamples <= MaxSamples

\* profile: the throughput of a number of bytes; noise: the percentages of it
\* that a measurement may show.
ASSUME NetworkAssumption ==
  \A net \in Networks :
    /\ DOMAIN net.profile = MinTunedBytes..MaxTunedBytes
    /\ \A v \in DOMAIN net.profile : net.profile[v] \in Nat
    /\ net.noise \subseteq Nat

VARIABLES
  network,
  minBytes, maxBytes, \* the interval that is left
  measurement,        \* the setting being measured
  candidate,          \* the best setting so far, in a set
  tuningErr           \* the measurements of a setting never agreed

tunerVars == <<network, minBytes, maxBytes, measurement, candidate, tuningErr>>
-----------------------------------------------------------------------------
Median(a, b) == a + ((b - a) \div 2)

Setting(value, direction) ==
  [value |-> value, direction |-> direction, throughputs |-> <<>>, count |-> 0, skipped |-> 0]

\* Sums over the last MinSamples measurements.
Plus(a, b) == a + b
PlusSquare(a, b) == a + b * b
Total(s) == FoldLeft(Plus, 0, s.throughputs)
TotalOfSquares(s) == FoldLeft(PlusSquare, 0, s.throughputs)

\* A batch is measured if it has the bytes asked for, within a tenth.
IsWithinTolerance(s, bytes) ==
  bytes \in (s.value - (s.value \div 10))..(s.value + (s.value \div 10))

AddThroughput(s, x) ==
  LET ts == s.throughputs IN
  [value |-> s.value, direction |-> s.direction,
   throughputs |-> IF Len(ts) < MinSamples THEN Append(ts, x) ELSE Append(Tail(ts), x),
   count |-> s.count + 1, skipped |-> s.skipped]

HasMinSamples(s) == s.count >= MinSamples
HasMaxSamples(s) == s.count >= MaxSamples

\* The coefficient of variation is below 0.4; with a mean of zero it is no number.
IsStable(s) ==
  LET N == MinSamples
      S == Total(s) IN
  \/ N = 1
  \/ S # 0 /\ 25 * N * (N * TotalOfSquares(s) - S * S) < 4 * (N - 1) * S * S

HasConverged == maxBytes - minBytes <= Threshold

-----------------------------------------------------------------------------
TunerInit ==
  /\ network \in Networks
  /\ minBytes = MinTunedBytes /\ maxBytes = MaxTunedBytes
  /\ measurement = Setting(Median(MinTunedBytes, MaxTunedBytes), "none")
  /\ candidate = {} /\ tuningErr = FALSE

\* The bytes the sender fills a batch with.
GetTunedBatchBytes ==
  IF tuningErr THEN MaxBatchBytesSet
  ELSE IF HasConverged /\ candidate # {} THEN (CHOOSE s \in candidate : TRUE).value
  ELSE measurement.value

\* The first setting that is measured is the candidate; the search goes left.
NextOfFirst(m) ==
  /\ measurement' = Setting(Median(minBytes, m.value), "left")
  /\ candidate' = {m}
  /\ UNCHANGED <<minBytes, maxBytes>>

\* Mutant of GoLeft: the right end stays where it is.
GoLeftKeepingMax(m) ==
  /\ measurement' = Setting(Median(minBytes, m.value), "left")
  /\ UNCHANGED <<minBytes, maxBytes>>

GoLeft(m) ==
  /\ measurement' = Setting(Median(minBytes, m.value), "left")
  /\ maxBytes' = m.value /\ UNCHANGED minBytes

GoRight(m) ==
  /\ measurement' = Setting(Median(m.value, maxBytes), "right")
  /\ minBytes' = m.value /\ UNCHANGED maxBytes

\* Mutant of IsBetter: swapped.
IsBetterSwapped(m) == \A c \in candidate : Total(m) <= Total(c)

IsBetter(m) == \A c \in candidate : Total(m) >= Total(c)

\* Better than the candidate: go on in the same direction.  Worse: turn round.
CalculateNextSetting(m) ==
  \/ candidate = {} /\ NextOfFirst(m)
  \/ /\ candidate # {} /\ IsBetter(m) /\ candidate' = {m}
     /\ IF m.direction = "left" THEN GoLeft(m) ELSE GoRight(m)
  \/ /\ candidate # {} /\ ~IsBetter(m) /\ UNCHANGED candidate
     /\ IF m.direction = "left" THEN GoRight(m) ELSE GoLeft(m)

\* A batch has been sent and is measured, whether the send failed or not.
RecordMeasurement(x) ==
  LET m == AddThroughput(measurement, x) IN
  /\ UNCHANGED network
  /\ \/ /\ HasMinSamples(m) /\ IsStable(m)
        /\ CalculateNextSetting(m)
        /\ UNCHANGED tuningErr
     \/ /\ ~(HasMinSamples(m) /\ IsStable(m))
        /\ measurement' = m
        /\ tuningErr' = (HasMinSamples(m) /\ HasMaxSamples(m))
        /\ UNCHANGED <<minBytes, maxBytes, candidate>>

\* The sender's timeout cut the batch short.
SkipMeasurement ==
  /\ measurement' = [measurement EXCEPT !.skipped = IF @ < MaxSkipped THEN @ + 1 ELSE @]
  /\ UNCHANGED <<network, minBytes, maxBytes, candidate, tuningErr>>

\* A batch is sent: through the tuner, as long as it searches.
SendBatch(bytes, x) ==
  /\ ~HasConverged /\ ~tuningErr
  /\ bytes <= GetTunedBatchBytes
  /\ IF IsWithinTolerance(measurement, bytes) THEN RecordMeasurement(x) ELSE SkipMeasurement

Throughputs(v) == {(network.profile[v] * p) \div 100 : p \in network.noise}

SendFullBatch == \E x \in Throughputs(measurement.value) : SendBatch(GetTunedBatchBytes, x)
SendShortBatch == \E x \in Throughputs(measurement.value) : SendBatch(GetTunedBatchBytes \div 2, x)

TunerNext == SendFullBatch \/ SendShortBatch

\* As long as there is data enough to fill a batch.
TunerSpec == TunerInit /\ [][TunerNext]_tunerVars /\ WF_tunerVars(SendFullBatch)
-----------------------------------------------------------------------------
(* Properties.                                                             *)

Bytes == MinTunedBytes..MaxTunedBytes

TunerTypeOK ==
  /\ network \in Networks
  /\ minBytes \in Bytes /\ maxBytes \in Bytes /\ minBytes <= maxBytes
  /\ measurement.value \in Bytes /\ measurement.direction \in {"none", "left", "right"}
  /\ \A s \in candidate : s.value \in Bytes
  /\ tuningErr \in BOOLEAN

\* What is measured lies in the interval that is left: never at its right end,
\* and at its left end only in the first step to the left.
InsideTheInterval ==
  ~HasConverged =>
    /\ minBytes <= measurement.value /\ measurement.value < maxBytes
    /\ measurement.value = minBytes =>
         candidate # {} /\ minBytes = MinTunedBytes /\ maxBytes = MaxTunedBytes

\* The interval never grows, and every setting measured after the first one
\* makes it shorter, but for a first step to the left that has no room.
SearchNarrows ==
  [][ /\ minBytes <= minBytes' /\ maxBytes' <= maxBytes
      /\ candidate # {} /\ measurement'.value # measurement.value /\ measurement.value # minBytes
         => maxBytes' - minBytes' < maxBytes - minBytes ]_tunerVars

Steady == network.noise = {100} /\ \A v \in Bytes : network.profile[v] > 0
Falling == \A v, w \in Bytes : v <= w => network.profile[v] >= network.profile[w]
StrictlyRising == \A v, w \in Bytes : v < w => network.profile[v] < network.profile[w]

\* Tuning comes to an end: the search converges, or gives up when a setting's
\* measurements do not agree, as those of a network that carries nothing.  When
\* the network is steady it converges, and if more bytes are always better, or
\* never, at that end of the limits.
EndFound ==
  <>(\/ tuningErr /\ ~Steady
     \/ HasConverged /\ \A s \in candidate : Steady =>
          /\ StrictlyRising => s.value >= MaxTunedBytes - Threshold
          /\ Falling => s.value <= MinTunedBytes + Threshold)
=============================================================================
