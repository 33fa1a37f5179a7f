---------------------------- MODULE InferredTimes -----------------------------
(***************************************************************************)
(* FeedbackInference with RTTTracer, whose metrics its buffer reads: both  *)
(* go on while a tick is under way.  inferFeedback and the end of the      *)
(* sender have no part in the times and are not let in.                    *)
(***************************************************************************)
EXTENDS FeedbackInference, RTTTracer

(* What a tick may read: a sample, or zero before the first.               *)
ASSUME TimesAssumption == RTTs = Samples \cup {0}

TimesInit == TracerInit /\ Init

(* A tick takes its round trip time from the metrics: the average or, by a *)
(* flag of the program, the latest.                                        *)
BufferReadsMetrics ==
  /\ Next
  /\ Tick => rttNTP' \in {SmoothedRTT, LatestRTT}
  /\ UNCHANGED <<readerVars, endVars, tracerVars>>

TracerRuns == TracerNext /\ UNCHANGED vars

TimesNext == BufferReadsMetrics \/ TracerRuns

TimesSpec == TimesInit /\ [][TimesNext]_<<tracerVars, vars>>
=============================================================================
