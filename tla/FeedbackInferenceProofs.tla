----------------------- MODULE FeedbackInferenceProofs -----------------------
(***************************************************************************)
(* Proofs about FeedbackInference, for every number of packets, wrap of    *)
(* the sequence numbers and of the times, behaviour of the clock, capacity *)
(* of the channels and round trip times: an acknowledgement is in one      *)
(* place (IInv), which gives the order within a tick and that each is      *)
(* counted once (InferredFeedback).                                        *)
(***************************************************************************)
EXTENDS FeedbackInference, SequenceTheorems, TLAPS

LEMMA InitIInv == Init => IInv
<1>. SUFFICES ASSUME Init PROVE IInv
  OBVIOUS
<1>1. TypeOK
  <2>1. received \in Seq(SUBSET Packets)
    BY DEF Init
  <2>2. written \in 0 .. MaxPackets /\ lastPkt \in 0 .. MaxPackets
    BY InferenceAssumption DEF Init
  <2>. QED
    BY <2>1, <2>2 DEF Init, TypeOK
<1>. QED
  BY <1>1 DEF Init, IInv, OnePlace, SortedTick, ReportsSomething

-----------------------------------------------------------------------------
(* Types.                                                                  *)

LEMMA NextTypes ==
  ASSUME TypeOK, Next
  PROVE  TypeOK'
<1>. USE DEF TypeOK
<1>1. ASSUME rtpWriterFunc
      PROVE  TypeOK'
  <2>1. written' \in Packets
    BY <1>1, InferenceAssumption DEF rtpWriterFunc, Packets
  <2>2. flying' \subseteq Packets /\ sentTS' \in [Packets -> Clocks \cup {0}]
    BY <1>1, <2>1 DEF rtpWriterFunc
  <2>. QED
    BY <1>1, <2>1, <2>2, InferenceAssumption
       DEF rtpWriterFunc, Packets, ackVars, bufferVars, tickVars, readerVars, endVars
<1>2. ASSUME NEW p \in Packets, Lost(p) \/ Acknowledged(p) \/ SendAcked(p)
      PROVE  TypeOK'
  BY <1>2 DEF Lost, Acknowledged, SendAcked,
              writeVars, ackVars, bufferVars, tickVars, readerVars, endVars
<1>3. ASSUME NEW p \in Packets, TakeAcked(p)
      PROVE  TypeOK'
  BY <1>3 DEF TakeAcked, BufferStep, tickVars, writeVars, readerVars, endVars
<1>4. ASSUME NEW p \in Packets, Hand(p)
      PROVE  TypeOK'
  BY <1>4 DEF Hand, HandTo, Packets, BufferStep, writeVars, readerVars, endVars
<1>5. ASSUME Tick \/ NoReport \/ BufferLeave
      PROVE  TypeOK'
  BY <1>5, InferenceAssumption
     DEF Tick, NoReport, EndTick, BufferLeave, BufferStep, tickVars, writeVars, readerVars, endVars
<1>6. ASSUME SendReport
      PROVE  TypeOK'
  <2>1. received' \in Seq(SUBSET Packets)
    BY <1>6, AppendProperties DEF SendReport
  <2>. QED
    BY <1>6, <2>1, InferenceAssumption
       DEF SendReport, EndTick, BufferStep, writeVars, readerVars, endVars
<1>7. ASSUME TakeReport
      PROVE  TypeOK'
  <2>1. received' \in Seq(SUBSET Packets) /\ fb' \in SUBSET Packets
    BY <1>7, HeadTailProperties DEF TakeReport
  <2>. QED
    BY <1>7, <2>1 DEF TakeReport, ReaderStep, writeVars, ackVars, bufferVars, tickVars
<1>8. ASSUME TellTx \/ ReadFails \/ LogReport \/ ReaderLeave \/ TakeError
      PROVE  TypeOK'
  BY <1>8 DEF TellTx, ReadFails, LogReport, ReaderLeave, TakeError, ReaderStep,
              writeVars, ackVars, bufferVars, tickVars
<1>9. ASSUME StartCloses \/ Close
      PROVE  TypeOK'
  BY <1>9 DEF StartCloses, Close, ReaderStep,
              writeVars, ackVars, bufferVars, tickVars, readerVars
<1>. QED
  BY <1>1, <1>2, <1>3, <1>4, <1>5, <1>6, <1>7, <1>8, <1>9 DEF Next, BufferSteps, ReaderSteps

-----------------------------------------------------------------------------
(* The invariant.                                                          *)

(* Where the packets and the tick are is the business of few actions.      *)
placeVars == <<writeVars, ackVars, bufferVars>>

LEMMA OthersKeepPlaces ==
  ASSUME IInv, UNCHANGED placeVars
  PROVE  (OnePlace /\ SortedTick /\ ReportsSomething)'
BY DEF placeVars, writeVars, ackVars, bufferVars, tickVars,
       IInv, OnePlace, SortedTick, ReportsSomething, seqNr

LEMMA NextPlaces ==
  ASSUME IInv, Next
  PROVE  (OnePlace /\ SortedTick /\ ReportsSomething)'
<1>. USE DEF IInv, OnePlace, SortedTick, ReportsSomething
<1>1. ASSUME rtpWriterFunc
      PROVE  (OnePlace /\ SortedTick /\ ReportsSomething)'
  <2>1. /\ written \in Nat /\ written' = written + 1
        /\ \A p \in Packets : p \in Nat
    BY <1>1, InferenceAssumption DEF rtpWriterFunc, TypeOK, Packets
  <2>2. \A p \in flying \cup offered \cup acked \cup buf \cup rx :
          p <= written' /\ p # written'
    BY <2>1 DEF TypeOK
  <2>3. OnePlace'
    BY <1>1, <2>1, <2>2 DEF rtpWriterFunc, ackVars, bufferVars
  <2>. QED
    BY <1>1, <2>3 DEF rtpWriterFunc, bufferVars, tickVars, seqNr
<1>2. ASSUME NEW p \in Packets, Lost(p) \/ Acknowledged(p) \/ SendAcked(p)
      PROVE  (OnePlace /\ SortedTick /\ ReportsSomething)'
  BY <1>2 DEF Lost, Acknowledged, SendAcked, writeVars, ackVars, bufferVars, tickVars, seqNr
<1>3. ASSUME NEW p \in Packets, TakeAcked(p)
      PROVE  (OnePlace /\ SortedTick /\ ReportsSomething)'
  BY <1>3 DEF TakeAcked, BufferStep, tickVars, writeVars, seqNr
<1>4. ASSUME NEW p \in Packets, Hand(p)
      PROVE  (OnePlace /\ SortedTick /\ ReportsSomething)'
  <2>1. OnePlace'
    BY <1>4 DEF Hand, HandTo, BufferStep, writeVars
  <2>2. SortedTick'
    BY <1>4 DEF Hand, HandTo, First, seqNr
  <2>. QED
    BY <1>4, <2>1, <2>2 DEF Hand, HandTo
<1>5. ASSUME Tick \/ NoReport \/ SendReport \/ BufferLeave
      PROVE  (OnePlace /\ SortedTick /\ ReportsSomething)'
  BY <1>5 DEF Tick, NoReport, SendReport, EndTick, BufferLeave, BufferStep,
              tickVars, writeVars, seqNr
<1>6. CASE UNCHANGED placeVars
  BY <1>6, OthersKeepPlaces
<1>7. ReaderSteps \/ ReaderLeave \/ TakeError \/ StartCloses \/ Close => UNCHANGED placeVars
  BY DEF ReaderSteps, TakeReport, TellTx, ReadFails, LogReport, ReaderLeave,
         TakeError, StartCloses, Close, ReaderStep, placeVars
<1>. QED
  BY <1>1, <1>2, <1>3, <1>4, <1>5, <1>6, <1>7 DEF Next, BufferSteps

LEMMA NextIInv ==
  ASSUME IInv, [Next]_vars
  PROVE  IInv'
<1>1. CASE Next
  BY <1>1, NextTypes, NextPlaces DEF IInv
<1>2. CASE UNCHANGED vars
  <2>1. TypeOK'
    BY <1>2 DEF vars, IInv, TypeOK, writeVars, ackVars, bufferVars, tickVars,
                readerVars, endVars
  <2>. QED
    BY <1>2, <2>1, OthersKeepPlaces DEF vars, IInv, placeVars
<1>. QED
  BY <1>1, <1>2

(* Each acknowledgement is in one place, with its goroutine, in the        *)
(* channel, in the buffer, or known to rx, and buffer hands out in order.  *)
THEOREM Invariance == SafeSpec => []IInv
BY InitIInv, NextIInv, PTL DEF SafeSpec

-----------------------------------------------------------------------------
(* Arrival times.                                                          *)

(* A remainder grows with the number while the quotient is the same.       *)
LEMMA RemainderGrows ==
  ASSUME NEW n \in Nat \ {0}, NEW a \in Int, NEW b \in Int, a <= b, a \div n = b \div n
  PROVE  a % n \in Nat /\ b % n \in Nat /\ a % n <= b % n
OBVIOUS

(* Two readings of the clock of the same turn of the 32 bits keep their    *)
(* order, whichever way negative ones are converted.                       *)
LEMMA SameTurnInOrder ==
  ASSUME NEW a \in Int, NEW b \in Int, a <= b, a \div TimeMod = b \div TimeMod
  PROVE  ntpTime(a) \in Int /\ ntpTime(b) \in Int /\ ntpTime(a) <= ntpTime(b)
<1>1. a % TimeMod \in Nat /\ b % TimeMod \in Nat /\ a % TimeMod <= b % TimeMod
  BY RemainderGrows, InferenceAssumption
<1>. DEFINE c == a % TimeMod
           d == b % TimeMod
<1>. HIDE DEF c, d
<1>2. c \in Nat /\ d \in Nat /\ c <= d
  BY <1>1 DEF c, d
<1>3. /\ ntpTime(a) = (IF Saturates /\ a < 0 THEN 0 ELSE c)
      /\ ntpTime(b) = (IF Saturates /\ b < 0 THEN 0 ELSE d)
  BY DEF ntpTime, c, d
<1>. QED
  BY <1>2, <1>3

(* The arrival times inferred in a tick are in the order of sending, but   *)
(* where the sequence numbers or the 32 bits of the time have wrapped, or  *)
(* the clock was set back.                                                 *)
THEOREM InOrder == SafeSpec => TimesInOrder
<1>1. ASSUME IInv, [Next]_vars
      PROVE  [buffer = "hand" /\ lastPkt # 0 =>
                \/ InferredTS(lastPkt', rttNTP') >= InferredTS(lastPkt, rttNTP)
                \/ Wrapped(lastPkt', lastPkt)
                \/ SetBack(lastPkt, lastPkt')
                \/ TimeWrapped(lastPkt, lastPkt')]_<<bufferVars>>
  <2>. SUFFICES ASSUME buffer = "hand", lastPkt # 0, ~ UNCHANGED bufferVars
                PROVE  \/ InferredTS(lastPkt', rttNTP') >= InferredTS(lastPkt, rttNTP)
                       \/ Wrapped(lastPkt', lastPkt)
                       \/ SetBack(lastPkt, lastPkt')
                       \/ TimeWrapped(lastPkt, lastPkt')
    OBVIOUS
  <2>1. PICK p \in Packets : Hand(p)
    BY <1>1 DEF vars, Next, BufferSteps, ReaderSteps, rtpWriterFunc, Lost, Acknowledged,
                SendAcked, TakeAcked, Tick, NoReport, SendReport, EndTick, BufferLeave,
                TakeReport, TellTx, ReadFails, LogReport, ReaderLeave, TakeError,
                StartCloses, Close, ReaderStep
  <2>2. /\ lastPkt' = p /\ rttNTP' = rttNTP /\ sentTS' = sentTS
        /\ seqNr(lastPkt) <= seqNr(p)
        /\ lastPkt # p
    BY <1>1, <2>1 DEF Hand, HandTo, BufferStep, writeVars, IInv, OnePlace, SortedTick
  <2>3. /\ p \in Nat /\ lastPkt \in Nat /\ rttNTP \in Nat
        /\ sentTS[p] \in Int /\ sentTS[lastPkt] \in Int
    <3>1. lastPkt \in Packets
      BY <1>1, InferenceAssumption DEF IInv, TypeOK, Packets
    <3>2. sentTS \in [Packets -> Clocks \cup {0}] /\ Clocks \cup {0} \subseteq Int
      BY <1>1, InferenceAssumption DEF IInv, TypeOK
    <3>3. sentTS[p] \in Int /\ sentTS[lastPkt] \in Int
      BY <3>1, <3>2
    <3>. QED
      BY <1>1, <3>1, <3>3, InferenceAssumption DEF IInv, TypeOK, Packets
  <2>4. CASE p < lastPkt
    BY <2>2, <2>4 DEF Wrapped
  <2>5. CASE lastPkt < p
    <3>. SUFFICES ASSUME sentTS[p] >= sentTS[lastPkt],
                         sentTS[p] \div TimeMod = sentTS[lastPkt] \div TimeMod
                  PROVE  InferredTS(lastPkt', rttNTP') >= InferredTS(lastPkt, rttNTP)
      BY <2>2, <2>3, <2>5 DEF SetBack, TimeWrapped
    <3>. DEFINE half == rttNTP \div 2
    <3>1. half \in Nat
      BY <2>3
    <3>2. /\ ntpTime(sentTS[p]) \in Int /\ ntpTime(sentTS[lastPkt]) \in Int
          /\ ntpTime(sentTS[p]) >= ntpTime(sentTS[lastPkt])
      BY <2>3, SameTurnInOrder
    <3>3. /\ InferredTS(lastPkt', rttNTP') = ntpTime(sentTS[p]) + half
          /\ InferredTS(lastPkt, rttNTP) = ntpTime(sentTS[lastPkt]) + half
      BY <2>2 DEF InferredTS, ntpTime
    <3>. HIDE DEF half
    <3>. QED
      BY <3>1, <3>2, <3>3
  <2>. QED
    BY <2>2, <2>3, <2>4, <2>5
<1>. QED
  BY <1>1, Invariance, PTL DEF SafeSpec, TimesInOrder

-----------------------------------------------------------------------------
(* The promise.                                                            *)

Arrived == offered \cup acked \cup buf

Reports == IF reader = "scream" THEN <<fb>> \o received ELSE received

(* The reports on their way, before and after a step of inferFeedback.     *)
LEMMA TakeReportKeeps ==
  ASSUME TypeOK, TakeReport
  PROVE  Reports' = Reports
BY DEF TypeOK, TakeReport, Reports

LEMMA HeadOfReports ==
  ASSUME TypeOK, reader = "scream", reader' # "scream", received' = received
  PROVE  Reports # <<>> /\ Head(Reports) = fb /\ Tail(Reports) = Reports'
BY DEF TypeOK, Reports

LEMMA SendReportAppends ==
  ASSUME TypeOK, SendReport
  PROVE  Reports' = Append(Reports, rx)
BY DEF TypeOK, SendReport, EndTick, BufferStep, readerVars, Reports

LEMMA PromiseStep ==
  ASSUME IInv, Next
  PROVE  Promise!Next \/ UNCHANGED Promise!promiseVars
<1>. USE DEF Promise!promiseVars
<1>1. CASE rtpWriterFunc
  BY <1>1 DEF rtpWriterFunc, Promise!Next, Promise!Write, ackVars, bufferVars, readerVars
<1>2. ASSUME NEW p \in Packets, Lost(p)
      PROVE  Promise!Next
  BY <1>2 DEF Lost, Packets, Promise!Next, Promise!Lose, ackVars, bufferVars, readerVars
<1>3. ASSUME NEW p \in Packets, Acknowledged(p)
      PROVE  Promise!Next
  <2>1. Promise!Arrive(p)
    BY <1>3 DEF Acknowledged, Promise!Arrive, bufferVars, readerVars
  <2>. QED
    BY <2>1 DEF Packets, Promise!Next
<1>4. ASSUME NEW p \in Packets, SendAcked(p) \/ TakeAcked(p)
      PROVE  UNCHANGED Promise!promiseVars
  <2>1. (offered \cup acked \cup buf)' = offered \cup acked \cup buf
    BY <1>4 DEF SendAcked, TakeAcked, BufferStep, bufferVars
  <2>. QED
    BY <1>4, <2>1 DEF SendAcked, TakeAcked, BufferStep, writeVars, bufferVars, readerVars
<1>5. ASSUME NEW p \in Packets, Hand(p)
      PROVE  Promise!Next
  <2>1. Promise!Count(p)
    BY <1>5 DEF Hand, HandTo, BufferStep, IInv, OnePlace, Promise!Count, writeVars, readerVars
  <2>. QED
    BY <2>1 DEF Packets, Promise!Next
<1>6. CASE Tick \/ NoReport \/ BufferLeave
  BY <1>6 DEF Tick, NoReport, EndTick, BufferLeave, BufferStep, writeVars, readerVars
<1>7. CASE SendReport
  <2>1. Promise!Report
    BY <1>7, SendReportAppends
       DEF SendReport, EndTick, BufferStep, Reports, IInv, ReportsSomething,
           Promise!Report, writeVars, readerVars
  <2>. QED
    BY <2>1 DEF Promise!Next
<1>8. CASE TakeReport
  BY <1>8, TakeReportKeeps DEF TakeReport, ReaderStep, Reports, IInv, writeVars, ackVars, bufferVars
<1>9. CASE TellTx
  <2>1. Promise!Tell
    BY <1>9, HeadOfReports DEF TellTx, ReaderStep, Reports, IInv, Promise!Tell,
                               writeVars, ackVars, bufferVars
  <2>. QED
    BY <2>1 DEF Promise!Next
<1>10. CASE ReadFails
  <2>1. Promise!Drop
    BY <1>10, HeadOfReports DEF ReadFails, ReaderStep, Reports, IInv, Promise!Drop,
                                writeVars, ackVars, bufferVars
  <2>. QED
    BY <2>1 DEF Promise!Next
<1>11. CASE LogReport \/ ReaderLeave \/ TakeError \/ StartCloses \/ Close
  BY <1>11 DEF LogReport, ReaderLeave, TakeError, StartCloses, Close, ReaderStep,
               writeVars, ackVars, bufferVars, readerVars
<1>. QED
  BY <1>1, <1>2, <1>3, <1>4, <1>5, <1>6, <1>7, <1>8, <1>9, <1>10, <1>11
     DEF Next, BufferSteps, ReaderSteps

(* Each acknowledgement is taken into account once and the reports reach   *)
(* SCReAM in the order they were made.                                     *)
THEOREM KeepsPromise == SafeSpec => ImplementsPromise
<1>1. Init => Promise!Init
  BY DEF Init, Promise!Init
<1>2. ASSUME IInv, [Next]_vars
      PROVE  [Promise!Next]_(Promise!promiseVars)
  <2>1. CASE Next
    BY <1>2, <2>1, PromiseStep
  <2>2. CASE UNCHANGED vars
    BY <2>2 DEF vars, Promise!promiseVars, writeVars, ackVars, bufferVars, readerVars
  <2>. QED
    BY <1>2, <2>1, <2>2
<1>. QED
  BY <1>1, <1>2, Invariance, PTL DEF SafeSpec, ImplementsPromise, Promise!Spec
=============================================================================
