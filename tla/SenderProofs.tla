---------------------------- MODULE SenderProofs ----------------------------
(***************************************************************************)
(* Proofs about the sending endpoint.  Its every step is, for the SCReAM   *)
(* interceptor, a step of ScreamSender or nothing (StepUsesScream), so the *)
(* invariant of ScreamSender carries over; with the order of the shutdown  *)
(* it gives what must be quiet once Start has returned.                    *)
(***************************************************************************)
EXTENDS Sender, ScreamSenderProofs

(* A step of the endpoint is a step ScreamSender allows.                   *)
LEMMA StepUsesScream ==
  ASSUME SenderNext
  PROVE  [Next]_vars
<1>. USE SenderAssumption
<1>1. CASE StartSteps
  <2>1. CASE Bind
    BY <2>1 DEF Bind, Next, Media
  <2>2. CASE CloseScream \/ JoinScream
    BY <2>2 DEF CloseScream, JoinScream, Next, Closer
  <2>3. CASE StartPipeline \/ SourceEOS \/ FeedbackError \/ CloseTaken
    BY <2>3 DEF StartPipeline, SourceEOS, FeedbackError, CloseTaken
  <2>4. CASE CloseLog \/ JoinLog \/ \E byTimeout \in BOOLEAN : Return(byTimeout)
    BY <2>4 DEF CloseLog, JoinLog, Return
  <2>. QED
    BY <1>1, <2>1, <2>2, <2>3, <2>4 DEF StartSteps
<1>2. CASE LogThenQueue \/ WriterReports
  BY <1>2 DEF LogThenQueue, WriterReports, Inside, Next, Media
<1>3. CASE SourceWrite \/ SourceEnds \/ FeedbackFails \/ StatsLeave \/ LogLoopLeaves
  BY <1>3 DEF SourceWrite, SourceEnds, FeedbackFails, StatsLeave, LogLoopLeaves
<1>4. CASE FeedbackRead \/ FeedbackSteps
  BY <1>4 DEF FeedbackRead, FeedbackSteps, FeedbackProcessed, FeedbackLogged,
              ReaderStep, Inside, Next, Reader
<1>5. CASE StatsTick \/ StatsStep
  BY <1>5 DEF StatsTick, StatsStep, Inside, Next, Stats
<1>6. CASE LoopStep
  BY <1>6 DEF LoopStep, LoopSteps, Inside, Next
<1>7. CASE Signal \/ StartDone \/ CloseFiles \/ Exit
  BY <1>7 DEF Signal, StartDone, CloseFiles, Exit, MainGoto
<1>. QED
  BY <1>1, <1>2, <1>3, <1>4, <1>5, <1>6, <1>7 DEF SenderNext

(* The endpoint uses the interceptor as ScreamSender says it may be used.  *)
THEOREM Composition == SenderSafeSpec => UsesScreamSender
<1>1. SenderInit => Init
  BY DEF SenderInit
<1>2. [SenderNext]_allVars => [Next]_vars
  BY StepUsesScream DEF allVars
<1>. QED
  BY <1>1, <1>2, PTL DEF SenderSafeSpec, UsesScreamSender, SafeSpec

(* In the endpoint, too, packets leave SCReAM in order and at most once.   *)
THEOREM EndpointImplementsPipe == SenderSafeSpec => ImplementsPipe
BY Composition, Refinement, PTL DEF UsesScreamSender

(* The endpoint binds one stream, so its reader and its bind never wait    *)
(* for each other: the loop that is to take an offer waits for no lock.    *)
OfferTaken == reader = "notify" => LoopRuns(ssrc) \/ loop[ssrc] = "done"

THEOREM NoCircularWait == SenderSafeSpec => []OfferTaken
<1>1. IInv /\ OfferMeetsLoop => OfferTaken
  <2>. SUFFICES ASSUME IInv, OfferMeetsLoop, reader = "notify"
                PROVE  LoopRuns(ssrc) \/ loop[ssrc] = "done"
    BY DEF OfferTaken
  <2>1. rtpStreams \in SUBSET Streams /\ Head(ssrcs) \in rtpStreams
    BY DEF IInv, TypeOK, LocksTyped, LocksHeld
  <2>2. Head(ssrcs) = ssrc
    BY <2>1, SenderAssumption
  <2>. QED
    BY <2>2, SenderAssumption DEF OfferMeetsLoop
<1>. QED
  BY <1>1, Composition, Invariance, OffersMet, PTL DEF UsesScreamSender

(* The closer of the interceptor moves only with Start.                    *)
LEMMA CloserMoves ==
  ASSUME [SenderNext]_allVars, closer = "closed"
  PROVE  closer' = "closed"
<1>1. [Next]_vars
  BY StepUsesScream DEF allVars
<1>2. CASE UNCHANGED vars
  BY <1>2 DEF vars
<1>3. CASE Closer
  BY <1>3 DEF Closer, CloseBegin, CloseReturn
<1>4. CASE Reader \/ Stats
  BY <1>4 DEF Reader, ReadReport, IncomingFeedback, NotifyStream, SkipStream,
              ReadReturn, Stats, StatsCall, StatsLookup, StatsTx, allButStats, closeVars
<1>5. ASSUME NEW x \in Streams, Media(x)
      PROVE  closer' = "closed"
  BY <1>5 DEF Media, BindBare, BindBegin, BindRegister, WriteBare, WriteEnqueue,
              WriteNewFrame, closeVars
<1>6. ASSUME NEW x \in Streams, Select(x) \/ Transmit(x)
      PROVE  closer' = "closed"
  BY <1>6 DEF Select, WakeByWriter, WakeByReader, LoopLeave, LoopDefault, Transmit,
              LoopStart, LoopSize, LoopGranted, LoopDenied, LoopDequeueNil, LoopDequeue,
              LoopWrite, LoopReport, LoopGoto, closeVars
<1>. QED
  BY <1>1, <1>2, <1>3, <1>4, <1>5, <1>6 DEF Next

(* A step that moves neither Start, the log nor send keeps the order of    *)
(* the shutdown.                                                           *)
LEMMA OrderUntouched ==
  ASSUME ShutdownOrder, [SenderNext]_allVars, UNCHANGED <<logLoop, start, mainVars>>
  PROVE  ShutdownOrder'
<1>1. closer = "closed" => closer' = "closed"
  BY CloserMoves
<1>. QED
  BY <1>1 DEF ShutdownOrder, mainVars

(* The shutdown keeps its order in every step.                             *)
LEMMA OrderStep ==
  ASSUME ShutdownOrder, [SenderNext]_allVars
  PROVE  ShutdownOrder'
<1>. USE DEF logVars, endpointVars, mainVars
<1>1. CASE UNCHANGED allVars
  BY <1>1, OrderUntouched DEF allVars
<1>2. CASE StartSteps
  <2>1. CASE Bind
    BY <2>1, OrderUntouched DEF Bind
  <2>2. CASE StartPipeline \/ SourceEOS \/ FeedbackError \/ CloseTaken
    BY <2>2 DEF StartPipeline, SourceEOS, FeedbackError, CloseTaken, StartGoto,
                ShutdownOrder
  <2>3. CASE CloseScream
    BY <2>3 DEF CloseScream, StartGoto, ShutdownOrder
  <2>4. CASE JoinScream
    BY <2>4 DEF JoinScream, CloseReturn, StartGoto, ShutdownOrder
  <2>5. CASE CloseLog
    BY <2>5 DEF CloseLog, LogCloseBegin, StartGoto, ShutdownOrder, vars
  <2>6. CASE JoinLog
    BY <2>6 DEF JoinLog, LogCloseReturn, StartGoto, ShutdownOrder, vars
  <2>7. ASSUME NEW byTimeout \in BOOLEAN, Return(byTimeout)
        PROVE  ShutdownOrder'
    BY <2>7 DEF Return, StartGoto, ShutdownOrder, vars
  <2>. QED
    BY <1>2, <2>1, <2>2, <2>3, <2>4, <2>5, <2>6, <2>7 DEF StartSteps
<1>3. CASE SourceWrite \/ LogThenQueue \/ SourceEnds \/ WriterReports
  BY <1>3, OrderUntouched DEF SourceWrite, LogThenQueue, SourceEnds, WriterReports,
                              Inside
<1>4. CASE FeedbackRead \/ FeedbackFails \/ FeedbackSteps
  BY <1>4, OrderUntouched DEF FeedbackRead, FeedbackFails, FeedbackSteps,
           FeedbackProcessed, FeedbackLogged, FeedbackStep, ReaderStep, Inside
<1>5. CASE StatsTick \/ StatsStep \/ StatsLeave \/ LoopStep
  BY <1>5, OrderUntouched DEF StatsTick, StatsStep, StatsLeave, LoopStep, Inside
<1>6. CASE LogLoopLeaves
  BY <1>6 DEF LogLoopLeaves, LogLeave, ShutdownOrder, vars
<1>7. CASE Signal \/ StartDone \/ CloseFiles \/ Exit
  BY <1>7 DEF Signal, StartDone, CloseFiles, Exit, MainGoto, ShutdownOrder, vars
<1>. QED
  BY <1>1, <1>2, <1>3, <1>4, <1>5, <1>6, <1>7 DEF SenderNext

(* The endpoint shuts down in order: SCReAM, the log, Start, the files.    *)
THEOREM Shutdown == SenderSafeSpec => []ShutdownOrder
<1>1. SenderInit => ShutdownOrder
  BY DEF SenderInit, ShutdownOrder
<1>2. ShutdownOrder /\ [SenderNext]_allVars => ShutdownOrder'
  BY OrderStep
<1>. QED
  BY <1>1, <1>2, PTL DEF SenderSafeSpec

(* No entry can be written to a log file that send has closed, unless it   *)
(* was a signal that ended send.                                           *)
THEOREM FilesOutlive == SenderSafeSpec => []FilesOutliveLog
<1>1. ShutdownOrder => FilesOutliveLog
  BY DEF ShutdownOrder, FilesOutliveLog
<1>. QED
  BY <1>1, Shutdown, PTL

(* Only a loop that is at its write hands a packet to the transport.       *)
LEMMA OnlyLoopsSend ==
  ASSUME [SenderNext]_allVars, Live = {}
  PROVE  UNCHANGED <<sent, lastSent>>
<1>. USE SenderAssumption DEF sentVars
<1>1. loop[ssrc] # "write"
  BY DEF Live
<1>2. CASE UNCHANGED vars
  BY <1>2 DEF vars
<1>3. CASE StartSteps
  BY <1>3 DEF StartSteps, Bind, BindBegin, BindRegister, CloseScream, CloseBegin,
              JoinScream, CloseReturn, StartPipeline, SourceEOS, FeedbackError,
              CloseTaken, CloseLog, JoinLog, Return, vars
<1>4. CASE SourceWrite \/ LogThenQueue \/ SourceEnds \/ WriterReports
  BY <1>4 DEF SourceWrite, LogThenQueue, SourceEnds, WriterReports, Inside,
              WriteEnqueue, WriteNewFrame, vars
<1>5. CASE FeedbackRead \/ FeedbackFails \/ FeedbackSteps
  BY <1>5 DEF FeedbackRead, FeedbackFails, FeedbackSteps, FeedbackProcessed,
              FeedbackLogged, ReaderStep, Inside, ReadReport, ReadReturn,
              IncomingFeedback, NotifyStream, vars
<1>6. CASE StatsTick \/ StatsStep \/ StatsLeave
  BY <1>6 DEF StatsTick, StatsStep, StatsLeave, Inside, StatsCall, StatsLookup, StatsTx,
              allButStats, vars
<1>7. CASE LoopStep
  BY <1>1, <1>7 DEF LoopStep, Inside, LoopSteps, Select, WakeByWriter, WakeByReader,
              LoopLeave, LoopDefault, Transmit, LoopStart, LoopSize, LoopGranted,
              LoopDenied, LoopDequeueNil, LoopDequeue, LoopWrite, LoopReport, LoopGoto
<1>8. CASE LogLoopLeaves \/ Signal \/ StartDone \/ CloseFiles \/ Exit
  BY <1>8 DEF LogLoopLeaves, Signal, StartDone, CloseFiles, Exit, MainGoto, vars
<1>. QED
  BY <1>2, <1>3, <1>4, <1>5, <1>6, <1>7, <1>8 DEF SenderNext, allVars

(* Once Start has returned no packet is handed to the transport, which     *)
(* main is about to close: Close of the interceptor joined every loop      *)
(* (CloseJoins), and Start came after it (Shutdown).                       *)
THEOREM Quiet == SenderSafeSpec => QuietAfterStart
<1>1. ShutdownOrder /\ LoopsJoined /\ [SenderNext]_allVars
        => [start = "returned" => UNCHANGED <<sent, lastSent>>]_allVars
  <2>. SUFFICES ASSUME ShutdownOrder, LoopsJoined, [SenderNext]_allVars,
                       start = "returned"
                PROVE  UNCHANGED <<sent, lastSent>>
    OBVIOUS
  <2>1. Live = {}
    BY DEF ShutdownOrder, LoopsJoined
  <2>. QED
    BY <2>1, OnlyLoopsSend
<1>2. SenderSafeSpec => []LoopsJoined
  BY Composition, CloseJoins, PTL DEF UsesScreamSender
<1>. QED
  BY <1>1, <1>2, Shutdown, PTL DEF SenderSafeSpec, QuietAfterStart
=============================================================================
