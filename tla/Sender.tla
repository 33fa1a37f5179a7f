------------------------------- MODULE Sender -------------------------------
(***************************************************************************)
(* The sending endpoint with SCReAM: NewSender, AcceptFeedback, Start and  *)
(* Close of rtc/sender.go, and send of main.go from where it starts them.  *)
(*                                                                         *)
(* The chain main.go builds is SCReAM first, the RTP log second.  So the   *)
(* encoder writes through the log into SCReAM, SCReAM's loop writes        *)
(* straight to the transport, feedback is processed by SCReAM before it is *)
(* logged, and SCReAM is closed before the log.                            *)
(*                                                                         *)
(* ScreamSender models the interceptor against callers that do anything at *)
(* any time.  Here its actions are taken when this endpoint takes them:    *)
(* one stream, bound by Start, written by the thread of the encoder, read  *)
(* by the goroutine of AcceptFeedback, closed by Start.                    *)
(***************************************************************************)
EXTENDS ScreamSender, RTPLog

CONSTANT ssrc    \* the one stream of the endpoint

ASSUME SenderAssumption == Streams = {ssrc} /\ Negotiated = {ssrc}

VARIABLES
  source,      \* the encoder's thread: "idle", or in Write at "log"
  eosC,        \* the source has reported the end of the stream
  feedback,    \* where the goroutine of AcceptFeedback is
  statsGone,   \* the statistics goroutine has returned
  start,       \* where Start is
  main,        \* where send is
  closeC,      \* Sender.Close has been called
  signalled    \* send was woken by a signal

mainVars == <<main, closeC, signalled>>

endpointVars == <<source, eosC, feedback, statsGone, start, mainVars>>

allVars == <<vars, logVars, endpointVars>>

SenderInit ==
  /\ Init
  /\ LogInit
  /\ source = "idle"
  /\ eosC = FALSE
  /\ feedback = "conn"
  /\ statsGone = FALSE
  /\ start = "bind"
  /\ main = "wait"
  /\ closeC = FALSE
  /\ signalled = FALSE

(* The process ends when send has returned.                                *)
Alive == main # "exited"

-----------------------------------------------------------------------------
(* Start: the stream is bound and the pipeline started ...                 *)

Bind ==
  /\ BindBegin(ssrc) \/ BindRegister(ssrc)
  /\ UNCHANGED <<logVars, endpointVars>>

StartGoto(l) ==
  /\ start' = l
  /\ UNCHANGED <<source, eosC, statsGone, mainVars>>

StartPipeline ==
  /\ start = "bind"
  /\ media[ssrc] = "idle"
  /\ StartGoto("select")
  /\ UNCHANGED <<vars, logVars, feedback>>

(* ... then Start waits for the first of three things to happen.  But for  *)
(* the first it stops the pipeline, which asks the source for its end.     *)
SourceEOS ==
  /\ start = "select"
  /\ eosC
  /\ StartGoto("closeScream")
  /\ UNCHANGED <<vars, logVars, feedback>>

(* The error taken, AcceptFeedback passes what it has read on to the       *)
(* reader (nothing, after a failed read: the next error) or reads again.   *)
FeedbackError ==
  /\ start = "select"
  /\ feedback = "err"
  /\ feedback' \in {"err", "conn"}
  /\ StartGoto("closeScream")
  /\ UNCHANGED <<vars, logVars>>

CloseTaken ==
  /\ start = "select"
  /\ closeC
  /\ StartGoto("closeScream")
  /\ UNCHANGED <<vars, logVars, feedback>>

(* Close of the chain: SCReAM, ...                                         *)
CloseScream ==
  /\ start = "closeScream"
  /\ CloseBegin
  /\ StartGoto("joinScream")
  /\ UNCHANGED <<logVars, feedback>>

(* Fault: Close does not wait for the send loop.                           *)
JoinScreamAtOnce ==
  /\ start = "joinScream"
  /\ closer' = "closed"
  /\ UNCHANGED <<lockVars, close, wg, rtpStreams, queueVars, media, produced, loop,
                 packet, readerVars, stats, sentVars>>
  /\ StartGoto("closeLog")
  /\ UNCHANGED <<logVars, feedback>>

JoinScream ==
  /\ start = "joinScream"
  /\ CloseReturn
  /\ StartGoto("closeLog")
  /\ UNCHANGED <<logVars, feedback>>

(* ... and the log.                                                        *)
CloseLog ==
  /\ start = "closeLog"
  /\ LogCloseBegin
  /\ StartGoto("joinLog")
  /\ UNCHANGED <<vars, feedback>>

(* Faults: the log is not waited for, or waited for when it is gone.       *)
JoinLogAtOnce ==
  /\ start = "joinLog"
  /\ StartGoto("eos")
  /\ UNCHANGED <<vars, logVars, feedback>>

JoinLogGone ==
  /\ start = "joinLog"
  /\ logLoop = "gone"
  /\ StartGoto("eos")
  /\ UNCHANGED <<vars, logVars, feedback>>

JoinLog ==
  /\ start = "joinLog"
  /\ LogCloseReturn
  /\ StartGoto("eos")
  /\ UNCHANGED <<vars, feedback>>

(* The source's end of stream, or three seconds.                           *)
Return(byTimeout) ==
  /\ start = "eos"
  /\ eosC \/ byTimeout
  /\ StartGoto("returned")
  /\ UNCHANGED <<vars, logVars, feedback>>

-----------------------------------------------------------------------------
(* The thread of the encoder.  It delivers no packet, and not the end of   *)
(* the stream, while a Write of it is blocked.                             *)

SourceIdle == start # "bind" /\ source = "idle" /\ media[ssrc] = "idle" /\ ~eosC

SourceWrite ==
  /\ SourceIdle
  /\ produced[ssrc] < MaxPackets
  /\ source' = "log"
  /\ UNCHANGED <<vars, logVars, eosC, feedback, statsGone, start, mainVars>>

(* The log takes the packet and hands it to SCReAM's writer.               *)
LogThenQueue ==
  /\ source = "log"
  /\ LogTakes
  /\ WriteEnqueue(ssrc)
  /\ source' = "idle"
  /\ UNCHANGED <<logVars, eosC, feedback, statsGone, start, mainVars>>

(* Of its own, or because Start has stopped the pipeline.                  *)
SourceEnds ==
  /\ SourceIdle
  /\ eosC' = TRUE
  /\ UNCHANGED <<vars, logVars, source, feedback, statsGone, start, mainVars>>

-----------------------------------------------------------------------------
(* AcceptFeedback.  The peer reports only on what it has received.         *)

FeedbackStep == UNCHANGED <<logVars, source, eosC, statsGone, start, mainVars>>

FeedbackRead ==
  /\ feedback = "conn"
  /\ sent[ssrc] > 0
  /\ ReadReport
  /\ feedback' = "scream"
  /\ FeedbackStep

FeedbackProcessed ==
  /\ feedback = "scream"
  /\ ReadReturn
  /\ feedback' = "log"
  /\ FeedbackStep

FeedbackLogged ==
  /\ feedback = "log"
  /\ LogTakes
  /\ feedback' = "conn"
  /\ UNCHANGED vars
  /\ FeedbackStep

(* A failed read, or bytes that are no RTCP: the error is offered to Start *)
(* on an unbuffered channel.                                               *)
FeedbackFails ==
  /\ feedback = "conn"
  /\ feedback' = "err"
  /\ UNCHANGED vars
  /\ FeedbackStep

-----------------------------------------------------------------------------
(* The statistics goroutine.                                               *)

StatsTick ==
  /\ ~statsGone
  /\ StatsCall
  /\ UNCHANGED <<logVars, endpointVars>>

StatsLeave ==
  /\ stats = "idle"
  /\ closeC
  /\ ~statsGone
  /\ statsGone' = TRUE
  /\ UNCHANGED <<vars, logVars, source, eosC, feedback, start, mainVars>>

-----------------------------------------------------------------------------
(* send, after it has started Start: its deferred calls close the sender,  *)
(* then the log files, then the connection.                                *)

MainGoto(l) ==
  /\ main' = l
  /\ UNCHANGED <<vars, logVars, source, eosC, feedback, statsGone, start>>

Signal ==
  /\ main = "wait"
  /\ closeC' = TRUE
  /\ signalled' = TRUE
  /\ MainGoto("deferred")

StartDone ==
  /\ main = "wait"
  /\ start = "returned"
  /\ closeC' = TRUE
  /\ MainGoto("deferred")
  /\ UNCHANGED signalled

CloseFiles ==
  /\ main = "deferred"
  /\ MainGoto("filesClosed")
  /\ UNCHANGED <<closeC, signalled>>

Exit ==
  /\ main = "filesClosed"
  /\ MainGoto("exited")
  /\ UNCHANGED <<closeC, signalled>>

-----------------------------------------------------------------------------
(* The steps inside SCReAM that this endpoint does not drive.              *)

Inside(A) == A /\ UNCHANGED <<logVars, endpointVars>>

LoopStep == Inside(LoopSteps(ssrc))
LoopLeaves == Inside(LoopLeave(ssrc))
WriterWakes == Inside(WakeByWriter(ssrc))
WriterReports == Inside(WriteNewFrame(ssrc))
ReaderStep == Inside(IncomingFeedback \/ NotifyStream)
StatsStep == Inside(StatsLookup \/ StatsTx)

LogLoopLeaves == LogLeave /\ UNCHANGED <<vars, endpointVars>>

StartSteps ==
  \/ Bind \/ StartPipeline
  \/ SourceEOS \/ FeedbackError \/ CloseTaken
  \/ CloseScream \/ JoinScream \/ CloseLog \/ JoinLog
  \/ \E byTimeout \in BOOLEAN : Return(byTimeout)

FeedbackSteps == FeedbackProcessed \/ FeedbackLogged \/ ReaderStep

SenderNext ==
  /\ Alive
  /\ \/ StartSteps
     \/ SourceWrite \/ LogThenQueue \/ SourceEnds \/ WriterReports
     \/ FeedbackRead \/ FeedbackFails \/ FeedbackSteps
     \/ StatsTick \/ StatsStep \/ StatsLeave
     \/ LoopStep
     \/ LogLoopLeaves
     \/ Signal \/ StartDone \/ CloseFiles \/ Exit

SenderSafeSpec == SenderInit /\ [][SenderNext]_allVars

(* Goroutines run while they can and the process lives; strong fairness as *)
(* in ScreamSender, where a select that is offered a case again and again  *)
(* takes it in the end.  A pipeline that was stopped need not report the   *)
(* end of the stream, and nobody need send a signal.                       *)
SenderFairness ==
  /\ WF_allVars(Alive /\ StartSteps)
  /\ WF_allVars(Alive /\ (LogThenQueue \/ WriterReports))
  /\ WF_allVars(Alive /\ FeedbackSteps)
  /\ WF_allVars(Alive /\ LoopStep)
  /\ SF_allVars(Alive /\ WriterWakes)
  /\ SF_allVars(Alive /\ LoopLeaves)
  /\ WF_allVars(Alive /\ LogLoopLeaves)

SenderSpec == SenderSafeSpec /\ SenderFairness

-----------------------------------------------------------------------------
(* Everything this endpoint does to SCReAM is something ScreamSender       *)
(* allows, so that what is proved there holds here: among others, that     *)
(* packets come out in order and at most once.                             *)
UsesScreamSender == SafeSpec

(* When Start has returned, and main goes on to close the connection, no   *)
(* packet is handed to the transport any more.                             *)
QuietAfterStart == [][start = "returned" => UNCHANGED <<sent, lastSent>>]_allVars

(* The log files are closed only when the log's loop can write to them no  *)
(* more.  After a signal that is not so, for send does not wait for Start. *)
FilesOutliveLog ==
  main \in {"filesClosed", "exited"} /\ ~signalled => logLoop = "gone"

(* Why that is so: Start passes each stage of the shutdown only when the   *)
(* one before is complete, and send, unless signalled, only after Start.   *)
ShutdownOrder ==
  /\ start \in {"closeLog", "joinLog", "eos", "returned"} => closer = "closed"
  /\ start \in {"eos", "returned"} => logLoop = "gone"
  /\ main # "wait" => closeC
  /\ main # "wait" /\ ~signalled => start = "returned"

(* When the source ends, AcceptFeedback has an error, or the sender is     *)
(* closed, Start returns, if the process lives to see it.                  *)
StartReturns ==
  start = "select" /\ (eosC \/ feedback = "err" \/ closeC)
    ~> start = "returned" \/ ~Alive

(* A packet of the encoder passes the log and SCReAM's writer, unless the  *)
(* chain is closed meanwhile; then the thread may be blocked for good, and *)
(* the end of the stream with it (Start then waits its three seconds).     *)
EncoderNotBlocked ==
  source = "log" \/ media[ssrc] \in {"newFrame", "notify"}
    ~> SourceIdle \/ eosC \/ close \/ ~Alive
=============================================================================
