---------------------------- MODULE ReceiverProofs ----------------------------
(***************************************************************************)
(* Proofs about Receiver: reports cover what has been handled, and nothing *)
(* happens after Receive has returned, whatever the number of packets and  *)
(* the moment the connection fails or Close is called.                     *)
(***************************************************************************)
EXTENDS Receiver, TLAPS

LEMMA InitIInv == Init => IInv
<1>. SUFFICES ASSUME Init PROVE IInv
  OBVIOUS
<1>. USE DEF Init, LogInit
<1>1. TypeOK
  <2>1. {pushed, logged, rx, feedback, reported} \subseteq 0 .. MaxPackets
    BY ReceiverAssumption
  <2>2. wg \in 0 .. 1 /\ screamLoop \in {"select", "gone"}
    OBVIOUS
  <2>. QED
    BY <2>1, <2>2 DEF TypeOK, LogTyped
<1>2. FeedbackCovered
  BY DEF FeedbackCovered
<1>3. InReadersHands /\ LoopsGone
  BY DEF InReadersHands, LoopsGone
<1>. QED
  BY <1>1, <1>2, <1>3 DEF IInv

(* The counters are numbers, and none is beyond what was pushed.           *)
LEMMA Counters ==
  ASSUME IInv
  PROVE  /\ MaxPackets \in Nat
         /\ pushed \in Nat /\ logged \in Nat /\ rx \in Nat
         /\ feedback \in Nat /\ reported \in Nat
         /\ reported <= feedback /\ feedback <= rx /\ rx <= logged /\ logged <= pushed
         /\ pushed <= MaxPackets
BY ReceiverAssumption DEF IInv, TypeOK, FeedbackCovered

(* The steps of the goroutine that reads the connection.                   *)
LEMMA ReaderKeepsIInv ==
  ASSUME IInv, Reader
  PROVE  IInv'
<1>. USE Counters DEF logVars, screamVars, closeVars, mainVars, UseScream
<1>1. CASE ReadPacket
  <2>1. TypeOK'
    BY <1>1 DEF ReadPacket, IInv, TypeOK, LogTyped
  <2>. QED
    BY <1>1, <2>1 DEF ReadPacket, IInv, FeedbackCovered, InReadersHands, LoopsGone
<1>2. CASE ReadFails
  <2>1. TypeOK'
    BY <1>2 DEF ReadFails, IInv, TypeOK, LogTyped
  <2>. QED
    BY <1>2, <2>1 DEF ReadFails, IInv, FeedbackCovered, InReadersHands, LoopsGone
<1>3. CASE LogPacket
  <2>1. /\ logged' = logged + 1 /\ pushed' = pushed /\ rx' = rx
        /\ reader = "log" /\ pushed = logged + 1
    BY <1>3 DEF LogPacket, IInv, InReadersHands
  <2>2. TypeOK'
    BY <1>3, <2>1 DEF LogPacket, IInv, TypeOK, LogTyped
  <2>. QED
    BY <1>3, <2>1, <2>2 DEF LogPacket, IInv, FeedbackCovered, InReadersHands, LoopsGone
<1>4. CASE ScreamReceive
  <2>1. UseScream /\ rx' = rx + 1 /\ logged = rx + 1 /\ pushed = logged
    BY <1>4 DEF ScreamReceive, IInv, InReadersHands
  <2>2. TypeOK'
    BY <1>4, <2>1 DEF ScreamReceive, IInv, TypeOK, LogTyped
  <2>. QED
    BY <1>4, <2>1, <2>2 DEF ScreamReceive, IInv, FeedbackCovered, InReadersHands, LoopsGone
<1>. QED
  BY <1>1, <1>2, <1>3, <1>4 DEF Reader

(* The steps of the feedback loop.                                         *)
LEMMA FeedbackLoopKeepsIInv ==
  ASSUME IInv, FeedbackLoop
  PROVE  IInv'
<1>. USE Counters DEF logVars, readerVars, closeVars, mainVars, UseScream
<1>1. CASE Tick \/ LogFeedback \/ WriteFeedback
  <2>1. TypeOK'
    BY <1>1 DEF Tick, LogFeedback, WriteFeedback, IInv, TypeOK, LogTyped
  <2>2. FeedbackCovered'
    BY <1>1 DEF Tick, LogFeedback, WriteFeedback, IInv, FeedbackCovered
  <2>3. (InReadersHands /\ LoopsGone)'
    BY <1>1 DEF Tick, LogFeedback, WriteFeedback, IInv, InReadersHands, LoopsGone
  <2>. QED
    BY <2>1, <2>2, <2>3 DEF IInv
<1>2. CASE ScreamLeave
  <2>1. wg = 1 /\ wg' = 0
    BY <1>2 DEF ScreamLeave, IInv, LoopsGone
  <2>2. TypeOK'
    BY <1>2, <2>1 DEF ScreamLeave, IInv, TypeOK, LogTyped
  <2>. QED
    BY <1>2, <2>1, <2>2 DEF ScreamLeave, IInv, FeedbackCovered, InReadersHands, LoopsGone
<1>. QED
  BY <1>1, <1>2 DEF FeedbackLoop

(* The steps of Receive.                                                   *)
LEMMA ReceiveStepsKeepIInv ==
  ASSUME IInv, ReceiveSteps
  PROVE  IInv'
<1>. USE DEF logVars, readerVars, screamVars, closeVars, mainVars
<1>1. CASE ConnError
  BY <1>1 DEF ConnError, StopPipeline, IInv, TypeOK, LogTyped, FeedbackCovered,
              InReadersHands, LoopsGone, UseScream
<1>2. CASE CloseTaken
  BY <1>2 DEF CloseTaken, StopPipeline, IInv, TypeOK, LogTyped, FeedbackCovered,
              InReadersHands, LoopsGone, UseScream
<1>3. CASE CloseLog \/ CloseScream
  BY <1>3 DEF CloseLog, CloseScream, LogCloseBegin, MainGoto, IInv, TypeOK, LogTyped,
              FeedbackCovered, InReadersHands, LoopsGone, UseScream
<1>4. CASE JoinLog
  BY <1>4 DEF JoinLog, LogCloseReturn, MainGoto, IInv, TypeOK, LogTyped,
              FeedbackCovered, InReadersHands, LoopsGone, UseScream
<1>5. CASE JoinScream
  BY <1>5 DEF JoinScream, MainGoto, IInv, TypeOK, LogTyped,
              FeedbackCovered, InReadersHands, LoopsGone, UseScream
<1>6. CASE \E byTimeout \in BOOLEAN : Return(byTimeout)
  BY <1>6 DEF Return, MainGoto, IInv, TypeOK, LogTyped,
              FeedbackCovered, InReadersHands, LoopsGone, UseScream
<1>. QED
  BY <1>1, <1>2, <1>3, <1>4, <1>5, <1>6 DEF ReceiveSteps

LEMMA NextIInv ==
  ASSUME IInv, [Next]_vars
  PROVE  IInv'
<1>. USE DEF logVars, readerVars, screamVars, closeVars, mainVars
<1>1. CASE Reader
  BY <1>1, ReaderKeepsIInv
<1>2. CASE FeedbackLoop
  BY <1>2, FeedbackLoopKeepsIInv
<1>3. CASE ReceiveSteps
  BY <1>3, ReceiveStepsKeepIInv
<1>4. CASE LogLoopLeaves
  BY <1>4 DEF LogLoopLeaves, LogLeave, IInv, TypeOK, LogTyped,
              FeedbackCovered, InReadersHands, LoopsGone, UseScream
<1>5. CASE CloseCall \/ SinkEOS
  BY <1>5 DEF CloseCall, SinkEOS, IInv, TypeOK, LogTyped,
              FeedbackCovered, InReadersHands, LoopsGone, UseScream
<1>6. CASE UNCHANGED vars
  BY <1>6 DEF vars, IInv, TypeOK, LogTyped,
              FeedbackCovered, InReadersHands, LoopsGone, UseScream
<1>. QED
  BY <1>1, <1>2, <1>3, <1>4, <1>5, <1>6 DEF Next

(* A report never covers a packet the decoder and the log have not had,    *)
(* and behind each stage of the shutdown the loop it closes is gone.       *)
THEOREM Invariance == SafeSpec => []IInv
BY InitIInv, NextIInv, PTL DEF SafeSpec

(* Once Receive has returned nothing is logged and nothing reported.       *)
THEOREM Quiet == SafeSpec => QuietAfterReturn
<1>1. ASSUME IInv, [Next]_vars
      PROVE  [main = "returned" => UNCHANGED <<logged, feedback, reported>>]_vars
  <2>. SUFFICES ASSUME main = "returned", Next
                PROVE  UNCHANGED <<logged, feedback, reported>>
    BY <1>1
  <2>1. logLoop = "gone" /\ screamLoop = "gone"
    BY <1>1 DEF IInv, LoopsGone
  <2>2. ~LogPacket /\ ~Tick /\ ~LogFeedback /\ ~WriteFeedback
    BY <2>1 DEF LogPacket, LogTakes, Tick, LogFeedback, WriteFeedback
  <2>. QED
    BY <2>2 DEF Next, Reader, ReadPacket, ReadFails, ScreamReceive, LogLoopLeaves,
                FeedbackLoop, ScreamLeave, CloseCall, ReceiveSteps, ConnError, CloseTaken,
                CloseLog, JoinLog, CloseScream, JoinScream, Return, SinkEOS, screamVars
<1>. QED
  BY <1>1, Invariance, PTL DEF SafeSpec, QuietAfterReturn

-----------------------------------------------------------------------------
(* Whether Receive returns.                                                *)

(* The feedback loop offers its report to a log that reads no more.        *)
Hung == screamLoop = "log" /\ logLoop = "gone"

(* What Receive waits for can move, or it is hung: the log's loop is at    *)
(* its select with done closed, or at its send that Close receives; the    *)
(* feedback loop is gone, at its select with close closed, or at a write.  *)
WaitsFor ==
  /\ main = "joinLog" => logLoop = "closing" \/ (logLoop = "select" /\ done)
  /\ main = "joinScream" =>
       wg = 0 \/ screamLoop = "write" \/ (screamLoop = "select" /\ close) \/ Hung

(* Each channel is closed where Receive has passed its close, and the log  *)
(* is joined only there.                                                   *)
ClosedBehind ==
  /\ main \notin {"select", "closeLog"} => done
  /\ main = "joinScream" => close
  /\ main \in {"select", "closeLog", "joinLog"} => logLoop # "gone"

LEMMA ClosedBehindStep ==
  ASSUME IInv, ClosedBehind, [Next]_vars
  PROVE  ClosedBehind'
<1>. USE DEF logVars, screamVars, closeVars, mainVars, readerVars
<1>1. CASE Reader \/ FeedbackLoop \/ CloseCall \/ SinkEOS
  BY <1>1 DEF Reader, ReadPacket, ReadFails, LogPacket, ScreamReceive, FeedbackLoop, Tick,
              LogFeedback, WriteFeedback, ScreamLeave, CloseCall, SinkEOS, ClosedBehind
<1>2. CASE LogLoopLeaves
  BY <1>2 DEF LogLoopLeaves, LogLeave, ClosedBehind
<1>3. CASE ReceiveSteps
  BY <1>3 DEF ReceiveSteps, ConnError, CloseTaken, StopPipeline, CloseLog, LogCloseBegin,
              JoinLog, LogCloseReturn, CloseScream, JoinScream, Return, MainGoto, ClosedBehind
<1>4. CASE UNCHANGED vars
  BY <1>4 DEF vars, ClosedBehind
<1>. QED
  BY <1>1, <1>2, <1>3, <1>4 DEF Next

(* Receive waits for nobody who cannot come, save a feedback loop that is  *)
(* hung: the close of the log before that of SCReAM is its one obstacle.   *)
THEOREM OneObstacle == SafeSpec => []WaitsFor
<1>1. Init => ClosedBehind
  BY DEF Init, LogInit, ClosedBehind
<1>2. IInv /\ ClosedBehind => WaitsFor
  BY DEF IInv, TypeOK, LogTyped, LoopsGone, ClosedBehind, WaitsFor, Hung
<1>. QED
  BY <1>1, <1>2, ClosedBehindStep, Invariance, PTL DEF SafeSpec

(* And that obstacle is for good: once the feedback loop hangs, Receive    *)
(* never returns, whatever the timeout of the sink.                        *)
THEOREM HangsForGood == SafeSpec => [](Hung => [](main # "returned"))
<1>1. ASSUME Hung, [Next]_vars
      PROVE  Hung'
  <2>. USE <1>1 DEF Hung, logVars, screamVars, closeVars, mainVars, readerVars
  <2>1. CASE Reader \/ FeedbackLoop \/ CloseCall \/ SinkEOS
    BY <2>1 DEF Reader, ReadPacket, ReadFails, LogPacket, ScreamReceive, FeedbackLoop, Tick,
                LogFeedback, WriteFeedback, ScreamLeave, LogTakes, CloseCall, SinkEOS
  <2>2. CASE LogLoopLeaves
    BY <2>2 DEF LogLoopLeaves, LogLeave
  <2>3. CASE ReceiveSteps
    BY <2>3 DEF ReceiveSteps, ConnError, CloseTaken, StopPipeline, CloseLog, LogCloseBegin,
                JoinLog, LogCloseReturn, CloseScream, JoinScream, Return, MainGoto
  <2>4. CASE UNCHANGED vars
    BY <2>4 DEF vars
  <2>. QED
    BY <2>1, <2>2, <2>3, <2>4 DEF Next
<1>2. IInv /\ Hung => main # "returned"
  BY DEF IInv, LoopsGone, Hung
<1>. QED
  BY <1>1, <1>2, Invariance, PTL DEF SafeSpec
=============================================================================
