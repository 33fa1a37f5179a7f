-------------------------- MODULE FeedbackInference --------------------------
(***************************************************************************)
(* SCReAM fed from QUIC acknowledgements: fbInferer (rtc/feedback_inferer) *)
(* and inferFeedback (rtc/sender.go), with as much of Start and Close as   *)
(* ends them.                                                              *)
(*                                                                         *)
(* SCReAM's loop writes packets with rtpWriterFunc.  For each that is      *)
(* acknowledged a goroutine of its own sends on the channel acked.  The    *)
(* goroutine buffer collects them, hands them to the receiver object rx    *)
(* every 10 ms and sends the report of rx on the channel received, from    *)
(* which inferFeedback passes it through SCReAM's reader and the log.      *)
(***************************************************************************)
EXTENDS Integers, Sequences, FiniteSets

CONSTANTS
  MaxPackets,          \* bounds what is written
  SeqNrs,              \* sequence numbers wrap here, at 2^16 in the code
  AckedCapacity,       \* of the channel acked, 1000 in the code
  ReceivedCapacity,    \* of the channel received, 1000000 in the code
  RTTs,                \* the round trip times that Metrics may return
  Clocks,              \* what the wall clock may show, counted from t0 in
                       \* units of 2^-16 s
  TimeMod,             \* times of rx wrap here, at 2^32 units in the code
  Saturates            \* whether a negative time converts to 0, as on some
                       \* processors, or wraps, as on others

ASSUME InferenceAssumption ==
  /\ MaxPackets \in Nat
  /\ SeqNrs \in Nat \ {0}
  /\ AckedCapacity \in Nat
  /\ ReceivedCapacity \in Nat
  /\ RTTs \subseteq Nat
  /\ Clocks \subseteq Int
  /\ TimeMod \in Nat \ {0}
  /\ Saturates \in BOOLEAN

Packets == 1 .. MaxPackets

VARIABLES
  written,     \* how many packets SCReAM's loop has written
  flying,      \* packets whose callback has not been called
  sentTS,      \* the wall clock when the packet was written
  offered,     \* packets whose goroutine waits to send on acked
  acked,       \* packets in the channel; their order is lost to the sort
  buffer,      \* where buffer is
  buf,         \* the packets it has collected
  lastPkt,     \* the packet of this tick it handed to rx last, 0 if none
  rttNTP,      \* the round trip time of this tick
  rx,          \* the packets rx has received
  received,    \* the reports in the channel, as the packets they cover
  reader,      \* where inferFeedback is
  fb,          \* the report it holds
  tx,          \* the packets SCReAM has been told of
  start,       \* Start is at its select, or has closed the chain
  closeC       \* Sender.Close has been called

writeVars == <<written, flying, sentTS>>
ackVars == <<offered, acked>>
tickVars == <<lastPkt, rttNTP>>
bufferVars == <<buffer, buf, tickVars, rx>>
readerVars == <<reader, fb, tx>>
endVars == <<start, closeC>>

vars == <<writeVars, ackVars, bufferVars, received, readerVars, endVars>>

TypeOK ==
  /\ written \in 0 .. MaxPackets
  /\ sentTS \in [Packets -> Clocks \cup {0}]
  /\ flying \subseteq Packets /\ offered \subseteq Packets /\ acked \subseteq Packets
  /\ buf \subseteq Packets /\ rx \subseteq Packets
  /\ fb \subseteq Packets /\ tx \subseteq Packets
  /\ buffer \in {"select", "hand", "report", "gone"}
  /\ lastPkt \in 0 .. MaxPackets
  /\ rttNTP \in RTTs \cup {0}
  /\ received \in Seq(SUBSET Packets)
  /\ reader \in {"select", "scream", "log", "err", "gone"}
  /\ start \in {"select", "closed"}
  /\ closeC \in BOOLEAN

Init ==
  /\ written = 0 /\ sentTS = [p \in Packets |-> 0]
  /\ flying = {} /\ offered = {} /\ acked = {}
  /\ buffer = "select" /\ buf = {} /\ lastPkt = 0 /\ rttNTP = 0 /\ rx = {}
  /\ received = <<>>
  /\ reader = "select" /\ fb = {} /\ tx = {}
  /\ start = "select" /\ closeC = FALSE

seqNr(p) == p % SeqNrs

(* A time as rx counts it: getTimeBetweenNTP keeps 32 bits of it.          *)
ntpTime(t) == IF Saturates /\ t < 0 THEN 0 ELSE t % TimeMod

(* When the packet is taken to have arrived, given the round trip time;    *)
(* the sum is not cut to 32 bits again.                                    *)
InferredTS(p, rtt) == ntpTime(sentTS[p]) + rtt \div 2

-----------------------------------------------------------------------------
(* rtpWriterFunc, called by SCReAM's loop until Start closes the chain.    *)
(* The wall clock may be set between two packets, forward or back; a write *)
(* that fails has no callback.                                             *)

rtpWriterFunc ==
  /\ start = "select"
  /\ written < MaxPackets
  /\ written' = written + 1
  /\ \/ \E t \in Clocks :
          /\ sentTS' = [sentTS EXCEPT ![written'] = t]
          /\ flying' = flying \cup {written'}
     \/ UNCHANGED <<flying, sentTS>>
  /\ UNCHANGED <<ackVars, bufferVars, received, readerVars, endVars>>

(* Its callback, by quic-go.                                               *)
Lost(p) ==
  /\ p \in flying
  /\ flying' = flying \ {p}
  /\ UNCHANGED <<written, sentTS, ackVars, bufferVars, received, readerVars, endVars>>

Acknowledged(p) ==
  /\ p \in flying
  /\ flying' = flying \ {p}
  /\ offered' = offered \cup {p}
  /\ UNCHANGED <<written, sentTS, acked, bufferVars, received, readerVars, endVars>>

(* Fault: the goroutine sends again and again.                             *)
SendAckedTwice(p) ==
  /\ p \in offered
  /\ Cardinality(acked) < AckedCapacity
  /\ acked' = acked \cup {p}
  /\ UNCHANGED <<writeVars, offered, bufferVars, received, readerVars, endVars>>

(* The goroutine the callback has started.                                 *)
SendAcked(p) ==
  /\ p \in offered
  /\ Cardinality(acked) < AckedCapacity
  /\ offered' = offered \ {p}
  /\ acked' = acked \cup {p}
  /\ UNCHANGED <<writeVars, bufferVars, received, readerVars, endVars>>

-----------------------------------------------------------------------------
(* buffer.                                                                 *)

BufferStep == UNCHANGED <<writeVars, offered, readerVars, endVars>>

TakeAcked(p) ==
  /\ buffer = "select"
  /\ p \in acked
  /\ acked' = acked \ {p}
  /\ buf' = buf \cup {p}
  /\ UNCHANGED <<buffer, tickVars, rx, received>>
  /\ BufferStep

(* The metrics are read once for all packets of the tick; which of the two *)
(* round trip times is used is a flag of the program.                      *)
Tick ==
  /\ buffer = "select"
  /\ buf # {}
  /\ buffer' = "hand"
  /\ rttNTP' \in RTTs
  /\ UNCHANGED <<acked, buf, lastPkt, rx, received>>
  /\ BufferStep

First(p) == \A q \in buf : seqNr(p) <= seqNr(q)

HandTo(p) ==
  /\ buffer = "hand"
  /\ buf' = buf \ {p}
  /\ rx' = rx \cup {p}
  /\ lastPkt' = p
  /\ buffer' = IF buf' = {} THEN "report" ELSE "hand"

(* Fault: the metrics are read for each packet.                            *)
HandWithOwnRTT(p) ==
  /\ p \in buf /\ First(p)
  /\ HandTo(p)
  /\ rttNTP' \in RTTs
  /\ UNCHANGED <<acked, received>>
  /\ BufferStep

(* One turn of the loop over the sorted buffer; which of two packets with  *)
(* the same number comes first is left to the sort.                        *)
Hand(p) ==
  /\ p \in buf /\ First(p)
  /\ HandTo(p)
  /\ UNCHANGED <<acked, rttNTP, received>>
  /\ BufferStep

EndTick ==
  /\ buffer = "report"
  /\ buffer' = "select"
  /\ lastPkt' = 0
  /\ rttNTP' = 0
  /\ UNCHANGED <<acked, buf, rx>>
  /\ BufferStep

(* Fault: when there is nothing to report, buffer returns.                 *)
NoReportReturns ==
  /\ buffer = "report"
  /\ buffer' = "gone"
  /\ UNCHANGED <<acked, buf, tickVars, rx, received>>
  /\ BufferStep

(* rx may find that there is nothing to report, ...                        *)
NoReport == EndTick /\ UNCHANGED received

(* Fault: a report that finds the channel full is sent all the same, in    *)
(* the place of the last.                                                  *)
SendReportInPlace ==
  /\ EndTick
  /\ received' = IF Len(received) < ReceivedCapacity THEN Append(received, rx)
                 ELSE <<rx>> \o received

(* ... else the report waits for room in the channel.                      *)
SendReport ==
  /\ Len(received) < ReceivedCapacity
  /\ EndTick
  /\ received' = Append(received, rx)

(* Fault: buffer waits for its reports to be taken before it returns.      *)
BufferLeaveDrained ==
  /\ buffer = "select"
  /\ closeC
  /\ received = <<>>
  /\ buffer' = "gone"
  /\ UNCHANGED <<acked, buf, tickVars, rx, received>>
  /\ BufferStep

BufferLeave ==
  /\ buffer = "select"
  /\ closeC
  /\ buffer' = "gone"
  /\ UNCHANGED <<acked, buf, tickVars, rx, received>>
  /\ BufferStep

-----------------------------------------------------------------------------
(* inferFeedback.                                                          *)

ReaderStep == UNCHANGED <<writeVars, ackVars, bufferVars, closeC>>

TakeReport ==
  /\ reader = "select"
  /\ received # <<>>
  /\ fb' = Head(received)
  /\ received' = Tail(received)
  /\ reader' = "scream"
  /\ UNCHANGED <<tx, start>>
  /\ ReaderStep

(* SCReAM's reader tells tx and wakes the loop of the stream, ...          *)
TellTx ==
  /\ reader = "scream"
  /\ tx' = fb
  /\ fb' = {}
  /\ reader' = "log"
  /\ UNCHANGED <<received, start>>
  /\ ReaderStep

(* Fault: an error ends inferFeedback, and nobody is told.                 *)
ReadFailsReturns ==
  /\ reader = "scream"
  /\ fb' = {}
  /\ reader' = "gone"
  /\ UNCHANGED <<tx, received, start>>
  /\ ReaderStep

(* ... or fails to decode the report, ...                                  *)
ReadFails ==
  /\ reader = "scream"
  /\ fb' = {}
  /\ reader' = "err"
  /\ UNCHANGED <<tx, received, start>>
  /\ ReaderStep

(* ... and the log takes it, unless it is closed: then it never does.      *)
LogReport ==
  /\ reader = "log"
  /\ start = "select"
  /\ reader' = "select"
  /\ UNCHANGED <<fb, tx, received, start>>
  /\ ReaderStep

ReaderLeave ==
  /\ reader = "select"
  /\ closeC
  /\ reader' = "gone"
  /\ UNCHANGED <<fb, tx, received, start>>
  /\ ReaderStep

-----------------------------------------------------------------------------
(* Start takes the error of inferFeedback, the end of the source or the    *)
(* close of the sender, whichever is first, and closes the chain.          *)

TakeError ==
  /\ start = "select"
  /\ reader = "err"
  /\ start' = "closed"
  /\ reader' = "select"
  /\ UNCHANGED <<fb, tx, received>>
  /\ ReaderStep

StartCloses ==
  /\ start = "select"
  /\ start' = "closed"
  /\ UNCHANGED <<readerVars, received>>
  /\ ReaderStep

(* main closes the sender when Start has returned, or on a signal.         *)
Close ==
  /\ ~closeC
  /\ closeC' = TRUE
  /\ UNCHANGED <<writeVars, ackVars, bufferVars, received, readerVars, start>>

-----------------------------------------------------------------------------

BufferSteps ==
  \/ Tick \/ NoReport \/ SendReport
  \/ \E p \in Packets : TakeAcked(p) \/ Hand(p)

ReaderSteps == TakeReport \/ TellTx \/ ReadFails \/ LogReport

Next ==
  \/ rtpWriterFunc
  \/ \E p \in Packets : Lost(p) \/ Acknowledged(p) \/ SendAcked(p)
  \/ BufferSteps \/ BufferLeave
  \/ ReaderSteps \/ ReaderLeave
  \/ TakeError \/ StartCloses \/ Close

SafeSpec == Init /\ [][Next]_vars

(* Goroutines run while they can; a select that is offered a case again    *)
(* and again takes it in the end.  quic-go need not call back, and nobody  *)
(* need write or end anything, but that Start takes an error offered to    *)
(* it, and main closes the sender when Start has closed the chain.         *)
Fairness ==
  /\ \A p \in Packets : SF_vars(SendAcked(p))
  /\ WF_vars(BufferSteps)
  /\ SF_vars(BufferLeave)
  /\ WF_vars(ReaderSteps)
  /\ SF_vars(ReaderLeave)
  /\ WF_vars(TakeError)
  /\ WF_vars(start = "closed" /\ Close)

Spec == SafeSpec /\ Fairness

-----------------------------------------------------------------------------

(* A packet is in one place: its fate is open, or its acknowledgement is   *)
(* with its goroutine, in the channel, in the buffer or known to rx; so    *)
(* none is handed to rx twice.                                             *)
OnePlace ==
  /\ flying \cap (offered \cup acked \cup buf \cup rx) = {}
  /\ offered \cap (acked \cup buf \cup rx) = {}
  /\ acked \cap (buf \cup rx) = {}
  /\ buf \cap rx = {}
  /\ \A p \in flying \cup offered \cup acked \cup buf \cup rx : p <= written

(* While buffer hands packets to rx, none that it still holds comes before *)
(* the last one in the order of sequence numbers.                          *)
SortedTick ==
  lastPkt # 0 =>
    /\ buffer \in {"hand", "report"} /\ lastPkt \in rx
    /\ \A p \in buf : seqNr(lastPkt) <= seqNr(p)

(* A report is made of something.                                          *)
ReportsSomething == buffer = "report" => rx # {}

(* Types and the three together are inductive.                             *)
IInv == TypeOK /\ OnePlace /\ SortedTick /\ ReportsSomething

(* The packets of a tick reach rx with arrival times in the order they     *)
(* were sent in, with three exceptions and no other: the sequence numbers  *)
(* have wrapped between two of them, when the later one is handed over     *)
(* first; the clock was set back between them; or the 32 bits of its       *)
(* readings have wrapped, 18.2 hours after t0 and every 18.2 hours on.     *)
Wrapped(earlier, later) == earlier < later /\ seqNr(later) <= seqNr(earlier)

SetBack(earlier, later) == earlier < later /\ sentTS[later] < sentTS[earlier]

TimeWrapped(earlier, later) ==
  earlier < later /\ sentTS[earlier] \div TimeMod # sentTS[later] \div TimeMod

TimesInOrder ==
  [][buffer = "hand" /\ lastPkt # 0 =>
       \/ InferredTS(lastPkt', rttNTP') >= InferredTS(lastPkt, rttNTP)
       \/ Wrapped(lastPkt', lastPkt)
       \/ SetBack(lastPkt, lastPkt')
       \/ TimeWrapped(lastPkt, lastPkt')]_<<bufferVars>>

(* Each acknowledgement is taken into account once, and the reports reach  *)
(* SCReAM in the order they were made.                                     *)
Promise == INSTANCE InferredFeedback WITH
  arrived <- offered \cup acked \cup buf,
  counted <- rx,
  reports <- IF reader = "scream" THEN <<fb>> \o received ELSE received,
  told <- tx

ImplementsPromise == Promise!Spec

(* While the sender runs, an acknowledgement reaches rx, and a report made *)
(* reaches SCReAM: no goroutine waits for good though the channels fill.   *)
AcksCounted ==
  \A p \in Packets :
    p \in offered \cup acked \cup buf ~> p \in rx \/ start = "closed" \/ closeC

ReportsArrive ==
  \A p \in Packets :
    p \in fb \/ (\E i \in 1 .. Len(received) : p \in received[i])
      ~> p \in tx \/ start = "closed" \/ closeC

(* When the sender is closed buffer returns, unless it waits to send a     *)
(* report, for good: the channel is full and inferFeedback has returned,   *)
(* or waits for the log or for Start.                                      *)
BufferReturns ==
  closeC ~> buffer = "gone" \/ [](buffer = "report" /\ Len(received) = ReceivedCapacity)
=============================================================================
