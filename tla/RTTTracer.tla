------------------------------ MODULE RTTTracer ------------------------------
(***************************************************************************)
(* The round trip times that quic-go reports to RTTTracer                  *)
(* (utils/qlog_tracer.go) and that others read by Metrics.  Each field is  *)
(* written under a critical section of its own, Metrics reads all of them  *)
(* in one.  RTTVar, the packet counters and the congestion state are left  *)
(* out: each stands alone, no other field has to agree with it.            *)
(***************************************************************************)
EXTENDS Naturals, TLAPS

CONSTANT Samples    \* the round trip times there are, none of them zero

ASSUME SamplesAssumption == Samples \subseteq Nat \ {0}

VARIABLES
  MinRTT, SmoothedRTT, LatestRTT,    \* the fields of the tracer
  rttStats,                          \* quic-go's own
  updatedMetrics                     \* where UpdatedMetrics is

tracerVars == <<MinRTT, SmoothedRTT, LatestRTT, rttStats, updatedMetrics>>

TracerTypeOK ==
  /\ MinRTT \in Samples \cup {0}
  /\ SmoothedRTT \in Samples \cup {0}
  /\ LatestRTT \in Samples \cup {0}
  /\ rttStats \in [min : Samples \cup {0}, smoothed : Samples \cup {0}, latest : Samples \cup {0}]
  /\ updatedMetrics \in {"idle", "min", "smoothed", "latest"}

TracerInit ==
  /\ MinRTT = 0
  /\ SmoothedRTT = 0
  /\ LatestRTT = 0
  /\ rttStats = [min |-> 0, smoothed |-> 0, latest |-> 0]
  /\ updatedMetrics = "idle"

-----------------------------------------------------------------------------

(* quic-go takes a sample, from which it has subtracted the peer's delay   *)
(* unless the result were below the minimum, and calls the tracer; the     *)
(* average moves towards the sample.  Times are whole microseconds, as     *)
(* quic-go has them in the average; that it rounds the sum is left out.    *)
Sample ==
  /\ updatedMetrics = "idle"
  /\ \E latest, smoothed \in Samples :
       /\ IF rttStats.smoothed = 0 THEN smoothed = latest
          ELSE \/ rttStats.smoothed <= smoothed /\ smoothed <= latest
               \/ latest <= smoothed /\ smoothed <= rttStats.smoothed
       /\ rttStats' =
            [min |-> IF rttStats.min \in 1 .. latest THEN rttStats.min ELSE latest,
             smoothed |-> smoothed,
             latest |-> latest]
  /\ updatedMetrics' = "min"
  /\ UNCHANGED <<MinRTT, SmoothedRTT, LatestRTT>>

(* It calls the tracer without a sample as well.                           *)
NoSample ==
  /\ updatedMetrics = "idle"
  /\ updatedMetrics' = "min"
  /\ UNCHANGED <<MinRTT, SmoothedRTT, LatestRTT, rttStats>>

UpdateGoto(at, next) == updatedMetrics = at /\ updatedMetrics' = next /\ UNCHANGED rttStats

(* Fault: the minimum is written once, like a field that never changes.    *)
updateMinRTTOnce ==
  /\ UpdateGoto("min", "smoothed")
  /\ MinRTT' = IF MinRTT = 0 THEN rttStats.min ELSE MinRTT
  /\ UNCHANGED <<SmoothedRTT, LatestRTT>>

updateMinRTT ==
  /\ UpdateGoto("min", "smoothed")
  /\ MinRTT' = IF rttStats.min # 0 THEN rttStats.min ELSE MinRTT
  /\ UNCHANGED <<SmoothedRTT, LatestRTT>>

updateSmoothedRTT ==
  /\ UpdateGoto("smoothed", "latest")
  /\ SmoothedRTT' = IF rttStats.smoothed # 0 THEN rttStats.smoothed ELSE SmoothedRTT
  /\ UNCHANGED <<MinRTT, LatestRTT>>

updateLatestRTT ==
  /\ UpdateGoto("latest", "idle")
  /\ LatestRTT' = IF rttStats.latest # 0 THEN rttStats.latest ELSE LatestRTT
  /\ UNCHANGED <<MinRTT, SmoothedRTT>>

TracerNext == Sample \/ NoSample \/ updateMinRTT \/ updateSmoothedRTT \/ updateLatestRTT

TracerSpec == TracerInit /\ [][TracerNext]_tracerVars

-----------------------------------------------------------------------------

AtMost(min, rtts) == \A rtt \in rtts \ {0} : min # 0 /\ min <= rtt

(* A caller of Metrics may come between any two of the updates; what it    *)
(* gets is nevertheless possible: there is a minimum as soon as there is   *)
(* another value, and none is below it.                                    *)
MetricsConsistent == AtMost(MinRTT, {SmoothedRTT, LatestRTT})

(* quic-go's values are consistent, and its minimum never grows; a field   *)
(* is behind its value only until it has been updated.                     *)
TracerIInv ==
  /\ TracerTypeOK
  /\ AtMost(rttStats.min, {rttStats.smoothed, rttStats.latest, MinRTT})
  /\ updatedMetrics # "min" => MinRTT = rttStats.min
  /\ MetricsConsistent

-----------------------------------------------------------------------------

LEMMA Numbers ==
  ASSUME TracerTypeOK
  PROVE  /\ rttStats.min \in Nat /\ rttStats.smoothed \in Nat /\ rttStats.latest \in Nat
         /\ MinRTT \in Nat /\ SmoothedRTT \in Nat /\ LatestRTT \in Nat
<1>1. Samples \cup {0} \subseteq Nat
  BY SamplesAssumption
<1>2. /\ rttStats.min \in Samples \cup {0}
      /\ rttStats.smoothed \in Samples \cup {0}
      /\ rttStats.latest \in Samples \cup {0}
  BY DEF TracerTypeOK
<1>. QED
  BY <1>1, <1>2 DEF TracerTypeOK

LEMMA InitIInv == TracerInit => TracerIInv
BY DEF TracerInit, TracerIInv, TracerTypeOK, MetricsConsistent, AtMost

LEMMA NextIInv ==
  ASSUME TracerIInv, [TracerNext]_tracerVars
  PROVE  TracerIInv'
<1>1. ASSUME Sample
      PROVE  TracerIInv'
  <2>1. PICK latest, smoothed \in Samples :
          /\ \/ smoothed = latest
             \/ rttStats.smoothed # 0 /\ rttStats.smoothed <= smoothed
             \/ latest <= smoothed
          /\ rttStats' =
               [min |-> IF rttStats.min \in 1 .. latest THEN rttStats.min ELSE latest,
                smoothed |-> smoothed,
                latest |-> latest]
    BY <1>1 DEF Sample
  <2>2. /\ rttStats.min \in Nat /\ rttStats.smoothed \in Nat /\ MinRTT \in Nat
        /\ latest \in Nat \ {0} /\ smoothed \in Nat \ {0}
    BY Numbers, SamplesAssumption DEF TracerIInv
  <2>3. /\ rttStats'.smoothed = smoothed
        /\ rttStats'.latest = latest
        /\ rttStats'.min \in {rttStats.min, latest}
        /\ rttStats'.min # 0 /\ rttStats'.min <= latest
        /\ rttStats.min # 0 => rttStats'.min <= rttStats.min
    BY <2>1, <2>2
  <2>4. rttStats'.min <= smoothed
    BY <2>1, <2>2, <2>3 DEF TracerIInv, AtMost
  <2>5. TracerTypeOK'
    BY <1>1, <2>1, <2>3 DEF Sample, TracerIInv, TracerTypeOK
  <2>6. AtMost(rttStats'.min, {rttStats'.smoothed, rttStats'.latest, MinRTT'})
    BY <1>1, <2>2, <2>3, <2>4 DEF Sample, TracerIInv, AtMost
  <2>. QED
    BY <1>1, <2>5, <2>6 DEF Sample, TracerIInv, MetricsConsistent
<1>2. ASSUME NoSample
      PROVE  TracerIInv'
  BY <1>2 DEF NoSample, TracerIInv, TracerTypeOK, MetricsConsistent
<1>3. ASSUME updateMinRTT
      PROVE  TracerIInv'
  <2>1. /\ rttStats.min \in Nat /\ MinRTT \in Nat
        /\ SmoothedRTT \in Nat /\ LatestRTT \in Nat
    BY Numbers, SamplesAssumption DEF TracerIInv
  <2>2. MinRTT' = rttStats.min
    BY <1>3, <2>1 DEF updateMinRTT, TracerIInv, AtMost
  <2>3. MetricsConsistent'
    BY <1>3, <2>1, <2>2 DEF updateMinRTT, TracerIInv, MetricsConsistent, AtMost
  <2>. QED
    BY <1>3, <2>1, <2>2, <2>3 DEF updateMinRTT, UpdateGoto, TracerIInv, TracerTypeOK, AtMost
<1>4. ASSUME updateSmoothedRTT
      PROVE  TracerIInv'
  BY <1>4 DEF updateSmoothedRTT, UpdateGoto, TracerIInv, TracerTypeOK, MetricsConsistent, AtMost
<1>5. ASSUME updateLatestRTT
      PROVE  TracerIInv'
  BY <1>5 DEF updateLatestRTT, UpdateGoto, TracerIInv, TracerTypeOK, MetricsConsistent, AtMost
<1>6. ASSUME UNCHANGED tracerVars
      PROVE  TracerIInv'
  BY <1>6 DEF tracerVars, TracerIInv, TracerTypeOK, MetricsConsistent
<1>. QED
  BY <1>1, <1>2, <1>3, <1>4, <1>5, <1>6 DEF TracerNext

(* Whatever the round trip times, what Metrics returns is possible.        *)
THEOREM Consistent == TracerSpec => []MetricsConsistent
<1>1. TracerIInv => MetricsConsistent
  BY DEF TracerIInv
<1>. QED
  BY <1>1, InitIInv, NextIInv, PTL DEF TracerSpec
=============================================================================
