------------------------- MODULE MCBatchBytesTuner -------------------------
(* Profiles that rise, fall, are flat or have one peak, steady or noisy.   *)
EXTENDS BatchBytesTuner

Net(profile, noise) == [profile |-> profile, noise |-> noise]
MCBytes == MinTunedBytes..MaxTunedBytes
Tent(peak) == [v \in MCBytes |-> 200 - 3 * (IF v > peak THEN v - peak ELSE peak - v)]
MCNetworks ==
  {Net(p, {100}) : p \in {[v \in MCBytes |-> 5], [v \in MCBytes |-> 0],
                          Tent(MinTunedBytes), Tent(MaxTunedBytes), Tent(Median(MinTunedBytes, MaxTunedBytes))}}
  \cup {Net(Tent(MaxTunedBytes), {70, 100}), Net([v \in MCBytes |-> 20], {30, 100})}
=============================================================================
