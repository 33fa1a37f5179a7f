------------------------------ MODULE Receiver ------------------------------
(***************************************************************************)
(* The receiving endpoint: Receive and Close of rtc/receiver.go, with the  *)
(* interceptors main.go configures: the RTP log first, then, when it is    *)
(* asked for, the SCReAM receiver interceptor.  pion's chain binds in this *)
(* order, so SCReAM's feedback is written through the log and the packets  *)
(* reach the log before SCReAM; it closes in the same order.               *)
(*                                                                         *)
(* The goroutines are the reader of the connection, Receive itself, the    *)
(* loop of the log (module RTPLog), the feedback loop of SCReAM, and the   *)
(* pipeline.  The model starts when Receive reaches its select.  All       *)
(* channels are unbuffered.  A packet is represented by its number in the  *)
(* order of arrival, so counters stand for the sets of packets.            *)
(***************************************************************************)
EXTENDS Naturals, RTPLog

CONSTANTS
  Controls,    \* the values of the flag -cc: "scream" and others
  MaxPackets   \* bound: packets that arrive

ASSUME ReceiverAssumption == MaxPackets \in Nat

VARIABLES
  reader,      \* where the goroutine reading the connection is
  pushed,      \* packets pushed into the pipeline
  logged,      \* ... of them recorded by the log
  rx,          \* ... of them known to the SCReAM receiver object
  screamLoop,  \* where the feedback loop is
  feedback,    \* packets covered by the report it is sending
  reported,    \* packets covered by the latest report sent to the peer
  close,       \* the interceptor's channel close is closed
  wg,          \* the interceptor's wait group
  main,        \* where Receive is
  closeC,      \* Receiver.Close has been called
  pipeline,    \* "playing", then "draining" after Stop
  eosC,        \* the pipeline has reported the end of the stream
  rtcc         \* the congestion control asked for (-cc), which never changes

readerVars == <<reader, pushed>>
screamVars == <<rx, screamLoop, feedback, reported>>
closeVars == <<close, wg>>
mainVars == <<main, closeC, pipeline>>

vars == <<logVars, readerVars, logged, screamVars, closeVars, mainVars, eosC,
          rtcc>>

UseScream == rtcc = "scream"

Init ==
  /\ rtcc \in Controls
  /\ LogInit
  /\ reader = "conn"
  /\ pushed = 0
  /\ logged = 0
  /\ rx = 0
  /\ screamLoop = IF UseScream THEN "select" ELSE "gone"
  /\ feedback = 0
  /\ reported = 0
  /\ close = FALSE
  /\ wg = IF UseScream THEN 1 ELSE 0
  /\ main = "select"
  /\ closeC = FALSE
  /\ pipeline = "playing"
  /\ eosC = FALSE

-----------------------------------------------------------------------------
(* The reader of the connection.                                           *)

(* A packet goes through the innermost reader, which pushes it.            *)
ReadPacket ==
  /\ reader = "conn"
  /\ pushed < MaxPackets
  /\ pushed' = pushed + 1
  /\ reader' = "log"
  /\ UNCHANGED <<logVars, logged, screamVars, closeVars, mainVars, eosC, rtcc>>

(* An error of the connection, its "eos", or bytes that are no RTP packet  *)
(* (which the pipeline has been given all the same): reading ends.         *)
ReadFails ==
  /\ reader = "conn"
  /\ reader' = "err"
  /\ UNCHANGED <<logVars, pushed, logged, screamVars, closeVars, mainVars,
                 eosC, rtcc>>

LogPacket ==
  /\ reader = "log"
  /\ LogTakes
  /\ logged' = logged + 1
  /\ reader' = IF UseScream THEN "scream" ELSE "conn"
  /\ UNCHANGED <<logVars, pushed, screamVars, closeVars, mainVars, eosC, rtcc>>

(* r.receive <- &pkt: the feedback loop registers the packet with rx.      *)
ScreamReceive ==
  /\ reader = "scream"
  /\ screamLoop = "select"
  /\ rx' = rx + 1
  /\ reader' = "conn"
  /\ UNCHANGED <<logVars, pushed, logged, screamLoop, feedback, reported, closeVars,
                 mainVars, eosC, rtcc>>

-----------------------------------------------------------------------------
(* The feedback loop.  screamRxMu, which it holds from Tick to its next    *)
(* select, is wanted by no other goroutine once the streams are bound.     *)

(* Fault: the report covers a packet that is still on its way to rx.       *)
TickEarly ==
  /\ screamLoop = "select"
  /\ rx > reported
  /\ feedback' = rx + 1
  /\ screamLoop' = "log"
  /\ UNCHANGED <<logVars, readerVars, logged, rx, reported, closeVars,
                 mainVars, eosC, rtcc>>

(* A tick on which rx has something new to report.                         *)
Tick ==
  /\ screamLoop = "select"
  /\ rx > reported
  /\ feedback' = rx
  /\ screamLoop' = "log"
  /\ UNCHANGED <<logVars, readerVars, logged, rx, reported, closeVars,
                 mainVars, eosC, rtcc>>

(* The report goes through the log ...                                     *)
LogFeedback ==
  /\ screamLoop = "log"
  /\ LogTakes
  /\ screamLoop' = "write"
  /\ UNCHANGED <<logVars, readerVars, logged, rx, feedback, reported, closeVars,
                 mainVars, eosC, rtcc>>

(* ... to the transport, an error of which is logged.                      *)
WriteFeedback ==
  /\ screamLoop = "write"
  /\ reported' = feedback
  /\ screamLoop' = "select"
  /\ UNCHANGED <<logVars, readerVars, logged, rx, feedback, closeVars,
                 mainVars, eosC, rtcc>>

(* Fault: break, which leaves the select only, for return.                 *)
ScreamLeaveBreaks == FALSE

ScreamLeave ==
  /\ screamLoop = "select"
  /\ close
  /\ screamLoop' = "gone"
  /\ wg' = wg - 1
  /\ UNCHANGED <<logVars, readerVars, logged, rx, feedback, reported, close, mainVars,
                 eosC, rtcc>>

-----------------------------------------------------------------------------
(* Receive, from its select on, and Close.                                 *)

CloseCall ==
  /\ ~closeC
  /\ closeC' = TRUE
  /\ UNCHANGED <<logVars, readerVars, logged, screamVars, closeVars, main, pipeline,
                 eosC, rtcc>>

StopPipeline == main' = "closeLog" /\ pipeline' = "draining" /\ UNCHANGED closeC

ConnError ==
  /\ main = "select"
  /\ reader = "err"
  /\ StopPipeline
  /\ reader' = "done"
  /\ UNCHANGED <<logVars, pushed, logged, screamVars, closeVars, eosC, rtcc>>

CloseTaken ==
  /\ main = "select"
  /\ closeC
  /\ StopPipeline
  /\ UNCHANGED <<logVars, readerVars, logged, screamVars, closeVars, eosC, rtcc>>

MainGoto(l) == main' = l /\ UNCHANGED <<closeC, pipeline>>

(* Close of the chain: the log first, ...                                  *)
CloseLog ==
  /\ main = "closeLog"
  /\ LogCloseBegin
  /\ MainGoto("joinLog")
  /\ UNCHANGED <<readerVars, logged, screamVars, closeVars, eosC, rtcc>>

JoinLog ==
  /\ main = "joinLog"
  /\ LogCloseReturn
  /\ MainGoto(IF UseScream THEN "closeScream" ELSE "eos")
  /\ UNCHANGED <<readerVars, logged, screamVars, closeVars, eosC, rtcc>>

(* ... then SCReAM, which waits for its loop.                              *)
CloseScream ==
  /\ main = "closeScream"
  /\ close' = TRUE
  /\ MainGoto("joinScream")
  /\ UNCHANGED <<logVars, readerVars, logged, screamVars, wg, eosC, rtcc>>

(* Fault: Close does not wait for the feedback loop.                       *)
JoinScreamAtOnce ==
  /\ main = "joinScream"
  /\ MainGoto("eos")
  /\ UNCHANGED <<logVars, readerVars, logged, screamVars, closeVars, eosC, rtcc>>

JoinScream ==
  /\ main = "joinScream"
  /\ wg = 0
  /\ MainGoto("eos")
  /\ UNCHANGED <<logVars, readerVars, logged, screamVars, closeVars, eosC, rtcc>>

(* The sink's end of stream, which may never come, or three seconds.       *)
SinkEOS ==
  /\ pipeline = "draining"
  /\ ~eosC
  /\ eosC' = TRUE
  /\ UNCHANGED <<logVars, readerVars, logged, screamVars, closeVars, mainVars,
                 rtcc>>

Return(byTimeout) ==
  /\ main = "eos"
  /\ eosC \/ byTimeout
  /\ MainGoto("returned")
  /\ UNCHANGED <<logVars, readerVars, logged, screamVars, closeVars, eosC, rtcc>>

-----------------------------------------------------------------------------
LogLoopLeaves ==
  /\ LogLeave
  /\ UNCHANGED <<readerVars, logged, screamVars, closeVars, mainVars, eosC, rtcc>>

Reader == ReadPacket \/ ReadFails \/ LogPacket \/ ScreamReceive

FeedbackLoop == Tick \/ LogFeedback \/ WriteFeedback \/ ScreamLeave

ReceiveSteps ==
  \/ ConnError \/ CloseTaken \/ CloseLog \/ JoinLog \/ CloseScream \/ JoinScream
  \/ \E byTimeout \in BOOLEAN : Return(byTimeout)

Next ==
  \/ Reader
  \/ LogLoopLeaves
  \/ FeedbackLoop
  \/ CloseCall
  \/ ReceiveSteps
  \/ SinkEOS

SafeSpec == Init /\ [][Next]_vars

(* Each goroutine runs while it can; a select that is offered close again  *)
(* and again takes it in the end.  Nothing obliges the peer to send, the   *)
(* connection to fail, the pipeline to end or anybody to call Close.       *)
Fairness ==
  /\ WF_vars(LogPacket \/ ScreamReceive)
  /\ WF_vars(LogLoopLeaves)
  /\ WF_vars(LogFeedback \/ WriteFeedback)
  /\ SF_vars(ScreamLeave)
  /\ WF_vars(ReceiveSteps)

Spec == SafeSpec /\ Fairness

-----------------------------------------------------------------------------
(* Every variable has its type.                                            *)
TypeOK ==
  /\ LogTyped
  /\ reader \in {"conn", "log", "scream", "err", "done"}
  /\ {pushed, logged, rx, feedback, reported} \subseteq 0..MaxPackets
  /\ screamLoop \in {"select", "log", "write", "gone"}
  /\ wg \in 0..1
  /\ {close, closeC, eosC} \subseteq BOOLEAN
  /\ main \in {"select", "closeLog", "joinLog", "closeScream", "joinScream", "eos",
               "returned"}
  /\ pipeline \in {"playing", "draining"}

(* A feedback report never covers a packet that has not gone to the        *)
(* decoder and into the log: the peer's congestion control does not run    *)
(* ahead of what this side has done with the packets.                      *)
FeedbackCovered ==
  /\ reported <= feedback /\ feedback <= rx /\ rx <= logged /\ logged <= pushed
  /\ pushed <= rx + 1 \/ ~UseScream

(* A packet that has been pushed and is not yet logged, or logged and not  *)
(* yet known to rx, is in the hands of the one goroutine that reads.       *)
InReadersHands ==
  /\ pushed = logged + (IF reader = "log" THEN 1 ELSE 0)
  /\ UseScream => logged = rx + (IF reader = "scream" THEN 1 ELSE 0)
  /\ ~UseScream => reader # "scream" /\ screamLoop = "gone"

(* Behind the stages that close the log and SCReAM their loops are gone.   *)
LoopsGone ==
  /\ wg = IF screamLoop = "gone" THEN 0 ELSE 1
  /\ main \in {"closeScream", "joinScream", "eos", "returned"} => logLoop = "gone"
  /\ main \in {"eos", "returned"} => screamLoop = "gone"

IInv == TypeOK /\ FeedbackCovered /\ InReadersHands /\ LoopsGone

(* Once Receive has returned, main closes the log files and the transport: *)
(* no entry is written to a log and no report sent after that.             *)
QuietAfterReturn ==
  [][main = "returned" => UNCHANGED <<logged, feedback, reported>>]_vars

(* When the connection ends, or Close is called, Receive returns.  With    *)
(* SCReAM this fails, which ReceiveReturnsUnlessLogGone makes precise.     *)
ReceiveReturns == reader = "err" \/ closeC ~> main = "returned"

(* The one obstacle: the feedback loop offers its report to the log, which *)
(* was closed before SCReAM and reads no more.                             *)
ReceiveReturnsUnlessLogGone ==
  reader = "err" \/ closeC ~>
    main = "returned" \/ (screamLoop = "log" /\ logLoop = "gone")
=============================================================================
