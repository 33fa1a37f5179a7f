---------------------------- MODULE ScreamSender ----------------------------
(***************************************************************************)
(* The SCReAM sender interceptor: internal/scream/sender_interceptor.go    *)
(* with the RTP queue of internal/scream/rtp_queue.go.                     *)
(*                                                                         *)
(* The goroutines are                                                      *)
(*   - per stream x, the media goroutine, which binds x (BindLocalStream)  *)
(*     and then writes its packets into the writer it was given;           *)
(*   - per bound stream x, the send loop, which polls the queue of x and   *)
(*     hands packets to the transport when SCReAM grants it;               *)
(*   - the RTCP reader, which feeds reports to SCReAM and wakes the loops; *)
(*   - the statistics goroutine, which asks for the target bitrate;        *)
(*   - the closer, which calls Close.                                      *)
(*                                                                         *)
(* They share the mutexes m and rtpStreamsMu, the stream map, the queues,  *)
(* the unbuffered channel newFeedback of each stream, the close channel,   *)
(* the wait group, and the SCReAM library object tx.  tx is external: only *)
(* its answers (grant or deny) and its one effect on this code (it may     *)
(* clear a queue through the RTPQueue interface) appear, as choices.  A    *)
(* critical section that contains no blocking operation is one atomic      *)
(* action guarded by its lock being free.                                  *)
(*                                                                         *)
(* Packets of a stream are numbered 1, 2, ... in the order they are        *)
(* written; 0 is Go's nil packet.                                          *)
(***************************************************************************)
EXTENDS Integers, Sequences, FiniteSets

CONSTANTS
  Streams,     \* SSRCs of the local streams
  Negotiated,  \* those whose StreamInfo carries the ack/ccfb feedback
  MaxPackets,  \* bound: packets written per stream
  Offset,      \* Offset[n]: marshalled bytes of the first n packets of a stream
  None         \* no goroutine: a mutex that is free

ASSUME StreamsAssumption ==
  /\ IsFiniteSet(Streams)
  /\ Negotiated \subseteq Streams
  /\ None \notin Streams

ASSUME SizesAssumption ==
  /\ MaxPackets \in Nat
  /\ Offset \in [0..MaxPackets -> Nat]

VARIABLES
  m,             \* holder of s.m across a blocking step: the stream being bound
  rtpStreamsMu,  \* TRUE while the RTCP reader holds s.rtpStreamsMu
  close,         \* the channel s.close is closed
  wg,            \* counter of the wait group s.wg
  rtpStreams,    \* keys of the map s.rtpStreams
  queue,         \* queue[x]: the packets in the RTP queue of x
  bytesInQueue,  \* bytesInQueue[x]: the byte counter of that queue
  media,         \* media[x]: where the media goroutine of x is
  produced,      \* produced[x]: packets of x written so far
  loop,          \* loop[x]: where the send loop of x is
  packet,        \* packet[x]: the loop's local variable packet
  reader,        \* where the RTCP reader is
  ssrcs,         \* the SSRCs of the report it has still to notify
  stats,         \* where the statistics goroutine is
  closer,        \* where the goroutine calling Close is
  lastSent,      \* lastSent[x]: latest packet of x handed to the transport
  sent,          \* sent[x]: how many packets of x were handed to it
  cleared        \* cleared[x]: how many packets Clear has thrown away

queueVars == <<queue, bytesInQueue, cleared>>
lockVars == <<m, rtpStreamsMu>>
readerVars == <<reader, ssrcs>>
sentVars == <<lastSent, sent>>
closeVars == <<close, closer>>

vars == <<m, rtpStreamsMu, close, wg, rtpStreams, queue, bytesInQueue, media,
          produced, loop, packet, reader, ssrcs, stats, closer, lastSent, sent,
          cleared>>

MediaStates == {"unbound", "binding", "bare", "idle", "newFrame", "notify"}
LoopStates == {"none", "start", "select", "size", "ok", "dequeue", "write",
               "report", "done"}
ReaderStates == {"idle", "tx", "next", "notify"}
StatsStates == {"idle", "lookup", "tx"}
CloserStates == {"open", "waiting", "closed"}

Init ==
  /\ m = None
  /\ rtpStreamsMu = FALSE
  /\ close = FALSE
  /\ wg = 0
  /\ rtpStreams = {}
  /\ queue = [x \in Streams |-> <<>>]
  /\ bytesInQueue = [x \in Streams |-> 0]
  /\ media = [x \in Streams |-> "unbound"]
  /\ produced = [x \in Streams |-> 0]
  /\ loop = [x \in Streams |-> "none"]
  /\ packet = [x \in Streams |-> 0]
  /\ reader = "idle"
  /\ ssrcs = <<>>
  /\ stats = "idle"
  /\ closer = "open"
  /\ lastSent = [x \in Streams |-> 0]
  /\ sent = [x \in Streams |-> 0]
  /\ cleared = [x \in Streams |-> 0]

-----------------------------------------------------------------------------
(* The RTP queue.  Its methods run under its own mutex q.m, held by nobody *)
(* across a blocking operation: each is atomic.                            *)

MarshalSize(p) == Offset[p] - Offset[p - 1]

(* Faulty variants, by which the properties are tried, precede what they   *)
(* vary; no specification uses them.  Here: PushFront for PushBack.        *)
EnqueueInFront(x, p) ==
  /\ queue' = [queue EXCEPT ![x] = <<p>> \o @]
  /\ bytesInQueue' = [bytesInQueue EXCEPT ![x] = @ + MarshalSize(p)]
  /\ UNCHANGED cleared

Enqueue(x, p) ==
  /\ queue' = [queue EXCEPT ![x] = Append(@, p)]
  /\ bytesInQueue' = [bytesInQueue EXCEPT ![x] = @ + MarshalSize(p)]
  /\ UNCHANGED cleared

(* Fault: the front is read and not removed.                               *)
DequeueKeepsFront(x) ==
  /\ packet' = [packet EXCEPT ![x] = Head(queue[x])]
  /\ UNCHANGED <<queue, bytesInQueue, cleared>>

Dequeue(x) ==
  /\ packet' = [packet EXCEPT ![x] = Head(queue[x])]
  /\ queue' = [queue EXCEPT ![x] = Tail(@)]
  /\ bytesInQueue' = [bytesInQueue EXCEPT ![x] = @ - MarshalSize(Head(queue[x]))]
  /\ UNCHANGED cleared

(* Fault: the list is replaced, the byte counter is not reset.             *)
ClearKeepsBytes(D) ==
  /\ queue' = [x \in Streams |-> IF x \in D THEN <<>> ELSE queue[x]]
  /\ cleared' = [x \in Streams |->
                   cleared[x] + (IF x \in D THEN Len(queue[x]) ELSE 0)]
  /\ UNCHANGED bytesInQueue

(* Clear of every queue in D.                                              *)
Clear(D) ==
  /\ queue' = [x \in Streams |-> IF x \in D THEN <<>> ELSE queue[x]]
  /\ bytesInQueue' = [x \in Streams |-> IF x \in D THEN 0 ELSE bytesInQueue[x]]
  /\ cleared' = [x \in Streams |->
                   cleared[x] + (IF x \in D THEN Len(queue[x]) ELSE 0)]

(* A call into tx that may make it drop the queues of some streams of S.   *)
TxMayClear(S) == \E D \in SUBSET S : Clear(D)

-----------------------------------------------------------------------------
(* The media goroutine: BindLocalStream, then the writer it returns.       *)

(* A stream without ack/ccfb feedback keeps the bare writer, and so does   *)
(* one bound after Close.                                                  *)
BindBare(x) ==
  /\ media[x] = "unbound"
  /\ x \notin Negotiated \/ (m = None /\ close)
  /\ media' = [media EXCEPT ![x] = "bare"]
  /\ UNCHANGED <<lockVars, closeVars, wg, rtpStreams, queueVars, produced, loop,
                 packet, readerVars, stats, sentVars>>

(* Faults: the wait group is not told, or isClosed is not asked.           *)
BindBeginFrom(x, closedOk, added) ==
  /\ media[x] = "unbound"
  /\ x \in Negotiated
  /\ m = None
  /\ ~close \/ closedOk
  /\ m' = x
  /\ wg' = wg + added
  /\ media' = [media EXCEPT ![x] = "binding"]
  /\ UNCHANGED <<rtpStreamsMu, closeVars, rtpStreams, queueVars, produced, loop,
                 packet, readerVars, stats, sentVars>>

BindBeginUncounted(x) == BindBeginFrom(x, FALSE, 0)
BindBeginAfterClose(x) == BindBeginFrom(x, TRUE, 1)

(* Otherwise m is taken and kept, and the loop to come joins the group.    *)
BindBegin(x) ==
  /\ media[x] = "unbound"
  /\ x \in Negotiated
  /\ m = None
  /\ ~close
  /\ m' = x
  /\ wg' = wg + 1
  /\ media' = [media EXCEPT ![x] = "binding"]
  /\ UNCHANGED <<rtpStreamsMu, closeVars, rtpStreams, queueVars, produced, loop,
                 packet, readerVars, stats, sentVars>>

(* With rtpStreamsMu the stream enters the map; it is registered with tx,  *)
(* its loop is started and m released, none of which can block.            *)
BindRegister(x) ==
  /\ media[x] = "binding"
  /\ ~rtpStreamsMu
  /\ rtpStreams' = rtpStreams \cup {x}
  /\ loop' = [loop EXCEPT ![x] = "start"]
  /\ m' = None
  /\ media' = [media EXCEPT ![x] = "idle"]
  /\ UNCHANGED <<rtpStreamsMu, closeVars, wg, queueVars, produced, packet,
                 readerVars, stats, sentVars>>

WriteBare(x) ==
  /\ media[x] = "bare"
  /\ produced[x] < MaxPackets
  /\ produced' = [produced EXCEPT ![x] = @ + 1]
  /\ sent' = [sent EXCEPT ![x] = @ + 1]
  /\ lastSent' = [lastSent EXCEPT ![x] = produced[x] + 1]
  /\ UNCHANGED <<lockVars, closeVars, wg, rtpStreams, queueVars, media, loop,
                 packet, readerVars, stats>>

WriteEnqueue(x) ==
  /\ media[x] = "idle"
  /\ produced[x] < MaxPackets
  /\ produced' = [produced EXCEPT ![x] = @ + 1]
  /\ Enqueue(x, produced[x] + 1)
  /\ media' = [media EXCEPT ![x] = "newFrame"]
  /\ UNCHANGED <<lockVars, closeVars, wg, rtpStreams, loop, packet, readerVars,
                 stats, sentVars>>

(* tx.NewMediaFrame under m; the writer then offers a wake-up to its loop. *)
WriteNewFrame(x) ==
  /\ media[x] = "newFrame"
  /\ m = None
  /\ TxMayClear({x})
  /\ media' = [media EXCEPT ![x] = "notify"]
  /\ UNCHANGED <<lockVars, closeVars, wg, rtpStreams, produced, loop, packet,
                 readerVars, stats, sentVars>>

-----------------------------------------------------------------------------
(* The send loop of a stream.                                              *)

LoopGoto(x, l) ==
  /\ loop' = [loop EXCEPT ![x] = l]
  /\ UNCHANGED <<lockVars, closeVars, wg, rtpStreams, queueVars, media, produced,
                 packet, readerVars, stats, sentVars>>

LoopStart(x) ==
  /\ loop[x] = "start"
  /\ ~rtpStreamsMu
  /\ LoopGoto(x, "select")

(* Faults: the loop listens on a channel on which nobody sends.            *)
WriterOffersNothing(x) == FALSE
ReaderOffersNothing(x) == FALSE

WriterOffers(x) == media[x] = "notify"
ReaderOffers(x) == reader = "notify" /\ Head(ssrcs) = x

(* The select at the top of the loop.  A ready case is chosen at random;   *)
(* the default is taken only when none is ready.                           *)
WakeByWriter(x) ==
  /\ loop[x] = "select"
  /\ WriterOffers(x)
  /\ loop' = [loop EXCEPT ![x] = "size"]
  /\ media' = [media EXCEPT ![x] = "idle"]
  /\ UNCHANGED <<lockVars, closeVars, wg, rtpStreams, queueVars, produced, packet,
                 readerVars, stats, sentVars>>

(* Fault: the reader does not release rtpStreamsMu.                        *)
WakeByReaderKeepsMu(x) ==
  /\ loop[x] = "select"
  /\ ReaderOffers(x)
  /\ loop' = [loop EXCEPT ![x] = "size"]
  /\ reader' = "next"
  /\ ssrcs' = Tail(ssrcs)
  /\ UNCHANGED <<lockVars, closeVars, wg, rtpStreams, queueVars, media, produced,
                 packet, stats, sentVars>>

(* The reader, its offer taken, releases rtpStreamsMu and goes on.         *)
WakeByReader(x) ==
  /\ loop[x] = "select"
  /\ ReaderOffers(x)
  /\ loop' = [loop EXCEPT ![x] = "size"]
  /\ reader' = "next"
  /\ ssrcs' = Tail(ssrcs)
  /\ rtpStreamsMu' = FALSE
  /\ UNCHANGED <<m, closeVars, wg, rtpStreams, queueVars, media, produced, packet,
                 stats, sentVars>>

(* Fault: Done is not called.                                              *)
LoopLeaveUndone(x) ==
  /\ loop[x] = "select"
  /\ close
  /\ LoopGoto(x, "done")

LoopLeave(x) ==
  /\ loop[x] = "select"
  /\ close
  /\ loop' = [loop EXCEPT ![x] = "done"]
  /\ wg' = wg - 1
  /\ UNCHANGED <<lockVars, closeVars, rtpStreams, queueVars, media, produced,
                 packet, readerVars, stats, sentVars>>

LoopDefault(x) ==
  /\ loop[x] = "select"
  /\ ~WriterOffers(x) /\ ~ReaderOffers(x) /\ ~close
  /\ LoopGoto(x, "size")

(* Fault: a queue of one packet is taken for empty.                        *)
LoopSizeOffByOne(x) ==
  /\ loop[x] = "size"
  /\ LoopGoto(x, IF Len(queue[x]) <= 1 THEN "select" ELSE "ok")

LoopSize(x) ==
  /\ loop[x] = "size"
  /\ LoopGoto(x, IF queue[x] = <<>> THEN "select" ELSE "ok")

(* tx.IsOkToTransmit under m: a grant, possible only when the queue holds  *)
(* a packet, or -1 ("no packets or CWND too small").                       *)
LoopGranted(x) ==
  /\ loop[x] = "ok"
  /\ m = None
  /\ queue[x] # <<>>
  /\ LoopGoto(x, "dequeue")

LoopDenied(x) ==
  /\ loop[x] = "ok"
  /\ m = None
  /\ LoopGoto(x, "select")

(* m is free again: the queue may have been cleared since the grant.       *)
LoopDequeueNil(x) ==
  /\ loop[x] = "dequeue"
  /\ queue[x] = <<>>
  /\ LoopGoto(x, "select")

LoopDequeue(x) ==
  /\ loop[x] = "dequeue"
  /\ queue[x] # <<>>
  /\ Dequeue(x)
  /\ loop' = [loop EXCEPT ![x] = "write"]
  /\ UNCHANGED <<lockVars, closeVars, wg, rtpStreams, media, produced, readerVars,
                 stats, sentVars>>

(* An error of the writer below is logged: the packet is gone either way.  *)
LoopWrite(x) ==
  /\ loop[x] = "write"
  /\ sent' = [sent EXCEPT ![x] = @ + 1]
  /\ lastSent' = [lastSent EXCEPT ![x] = packet[x]]
  /\ loop' = [loop EXCEPT ![x] = "report"]
  /\ UNCHANGED <<lockVars, closeVars, wg, rtpStreams, queueVars, media, produced,
                 packet, readerVars, stats>>

(* Fault: m is not released.                                               *)
LoopReportKeepsM(x) ==
  /\ loop[x] = "report"
  /\ m = None
  /\ m' = x
  /\ packet' = [packet EXCEPT ![x] = 0]
  /\ loop' = [loop EXCEPT ![x] = "select"]
  /\ UNCHANGED <<rtpStreamsMu, closeVars, wg, rtpStreams, queueVars, media, produced,
                 readerVars, stats, sentVars>>

(* tx.AddTransmitted under m; the packet goes out of scope.                *)
LoopReport(x) ==
  /\ loop[x] = "report"
  /\ m = None
  /\ packet' = [packet EXCEPT ![x] = 0]
  /\ loop' = [loop EXCEPT ![x] = "select"]
  /\ UNCHANGED <<lockVars, closeVars, wg, rtpStreams, queueVars, media, produced,
                 readerVars, stats, sentVars>>

-----------------------------------------------------------------------------
(* The RTCP reader: the function returned by BindRTCPReader.               *)

(* The SSRC lists extractSSRCs can return: distinct, and of streams of     *)
(* which the peer has received something.                                  *)
Reports ==
  LET Heard == {x \in Streams : sent[x] > 0}
  IN  UNION {{r \in [1..n -> Heard] : \A i, j \in 1..n : r[i] = r[j] => i = j} :
               n \in 0..Cardinality(Streams)}

(* A datagram may hold several raw packets: each is a report of its own.   *)
ReadReport ==
  /\ reader = "idle"
  /\ \E r \in Reports : ssrcs' = r
  /\ reader' = "tx"
  /\ UNCHANGED <<lockVars, closeVars, wg, rtpStreams, queueVars, media, produced,
                 loop, packet, stats, sentVars>>

(* tx.IncomingStandardizedFeedback under m.                                *)
IncomingFeedback ==
  /\ reader = "tx"
  /\ m = None
  /\ TxMayClear(rtpStreams)
  /\ reader' = "next"
  /\ UNCHANGED <<lockVars, closeVars, wg, rtpStreams, media, produced, loop, packet,
                 ssrcs, stats, sentVars>>

(* The loop over the SSRCs: under rtpStreamsMu each is looked up, and if   *)
(* it is there the reader offers a wake-up and waits, still holding it.    *)
NotifyStream ==
  /\ reader = "next"
  /\ ssrcs # <<>>
  /\ Head(ssrcs) \in rtpStreams
  /\ ~rtpStreamsMu
  /\ rtpStreamsMu' = TRUE
  /\ reader' = "notify"
  /\ UNCHANGED <<m, closeVars, wg, rtpStreams, queueVars, media, produced, loop,
                 packet, ssrcs, stats, sentVars>>

SkipStream ==
  /\ reader = "next"
  /\ ssrcs # <<>>
  /\ Head(ssrcs) \notin rtpStreams
  /\ ~rtpStreamsMu
  /\ ssrcs' = Tail(ssrcs)
  /\ UNCHANGED <<lockVars, closeVars, wg, rtpStreams, queueVars, media, produced,
                 loop, packet, reader, stats, sentVars>>

ReadReturn ==
  /\ reader = "next"
  /\ ssrcs = <<>>
  /\ reader' = "idle"
  /\ UNCHANGED <<lockVars, closeVars, wg, rtpStreams, queueVars, media, produced,
                 loop, packet, ssrcs, stats, sentVars>>

-----------------------------------------------------------------------------
(* GetTargetBitrate, from the statistics goroutine.                        *)

allButStats == <<lockVars, closeVars, wg, rtpStreams, queueVars, media, produced,
                 loop, packet, readerVars, sentVars>>

StatsCall ==
  /\ stats = "idle"
  /\ stats' = "lookup"
  /\ UNCHANGED allButStats

(* An SSRC that is not in the map is an error and the call returns.        *)
StatsLookup ==
  /\ stats = "lookup"
  /\ ~rtpStreamsMu
  /\ \E x \in Streams : stats' = IF x \in rtpStreams THEN "tx" ELSE "idle"
  /\ UNCHANGED allButStats

StatsTx ==
  /\ stats = "tx"
  /\ m = None
  /\ stats' = "idle"
  /\ UNCHANGED allButStats

-----------------------------------------------------------------------------
(* Close.  rtc/sender.go calls it once per interceptor.                    *)

CloseBegin ==
  /\ closer = "open"
  /\ m = None
  /\ close' = TRUE
  /\ closer' = "waiting"
  /\ UNCHANGED <<lockVars, wg, rtpStreams, queueVars, media, produced, loop, packet,
                 readerVars, stats, sentVars>>

(* s.wg.Wait, after m has been released.                                   *)
CloseReturn ==
  /\ closer = "waiting"
  /\ wg = 0
  /\ closer' = "closed"
  /\ UNCHANGED <<lockVars, close, wg, rtpStreams, queueVars, media, produced, loop,
                 packet, readerVars, stats, sentVars>>

-----------------------------------------------------------------------------
Media(x) ==
  \/ BindBare(x) \/ BindBegin(x) \/ BindRegister(x)
  \/ WriteBare(x) \/ WriteEnqueue(x) \/ WriteNewFrame(x)

Select(x) == WakeByWriter(x) \/ WakeByReader(x) \/ LoopLeave(x) \/ LoopDefault(x)

Transmit(x) ==
  \/ LoopStart(x) \/ LoopSize(x) \/ LoopGranted(x) \/ LoopDenied(x)
  \/ LoopDequeueNil(x) \/ LoopDequeue(x) \/ LoopWrite(x) \/ LoopReport(x)

Reader == ReadReport \/ IncomingFeedback \/ NotifyStream \/ SkipStream \/ ReadReturn

Stats == StatsCall \/ StatsLookup \/ StatsTx

Closer == CloseBegin \/ CloseReturn

Next ==
  \/ \E x \in Streams : Media(x) \/ Select(x) \/ Transmit(x)
  \/ Reader
  \/ Stats
  \/ Closer

SafeSpec == Init /\ [][Next]_vars

-----------------------------------------------------------------------------
(* Fairness.  A goroutine that can run does run: that is weak fairness of  *)
(* the loop, of the steps the other goroutines take inside a call, and of  *)
(* the return of Close.  Strong fairness is needed where the chance comes  *)
(* and goes, and is justified by                                           *)
(*   - the starvation mode of Go's mutexes (a waiter of rtpStreamsMu gets  *)
(*     it although the reader takes it again and again);                   *)
(*   - the FIFO queue of senders of a channel and the random choice of a   *)
(*     ready case by select (each offer of the loop is taken in the end,   *)
(*     and so is close);                                                   *)
(* and, an assumption about the library, by SCReAM granting again and      *)
(* again while a queue holds packets.  Nothing obliges the application to  *)
(* write, the peer to report, or anybody to ask for the bitrate or close.  *)

LoopSteps(x) == Select(x) \/ Transmit(x)

Fairness ==
  /\ \A x \in Streams :
       /\ WF_vars(LoopSteps(x))
       /\ WF_vars(WriteNewFrame(x))
       /\ SF_vars(BindRegister(x) \/ LoopStart(x))
       /\ SF_vars(WakeByWriter(x))
       /\ SF_vars(WakeByReader(x))
       /\ SF_vars(LoopLeave(x))
       /\ SF_vars(LoopGranted(x))
  /\ WF_vars(IncomingFeedback \/ NotifyStream \/ SkipStream \/ ReadReturn)
  /\ SF_vars(StatsLookup)
  /\ WF_vars(StatsTx)
  /\ WF_vars(CloseReturn)

Spec == SafeSpec /\ Fairness

-----------------------------------------------------------------------------
(* Invariants.                                                             *)

LocksTyped ==
  /\ m \in Streams \cup {None}
  /\ rtpStreamsMu \in BOOLEAN
  /\ close \in BOOLEAN
  /\ wg \in Nat
  /\ rtpStreams \in SUBSET Streams

GoroutinesTyped ==
  /\ media \in [Streams -> MediaStates]
  /\ loop \in [Streams -> LoopStates]
  /\ reader \in ReaderStates
  /\ ssrcs \in Seq(Streams)
  /\ stats \in StatsStates
  /\ closer \in CloserStates

PacketsTyped ==
  /\ queue \in [Streams -> Seq(1..MaxPackets)]
  /\ bytesInQueue \in [Streams -> Int]
  /\ produced \in [Streams -> 0..MaxPackets]
  /\ packet \in [Streams -> 0..MaxPackets]
  /\ lastSent \in [Streams -> 0..MaxPackets]
  /\ sent \in [Streams -> Int]
  /\ cleared \in [Streams -> Int]

(* Every variable has its type: a lock has at most one holder, queues hold *)
(* packets that can exist, every goroutine is at one of its points.        *)
TypeOK ==
  /\ LocksTyped
  /\ GoroutinesTyped
  /\ PacketsTyped

(* The goroutines the wait group stands for: loops running, and those a    *)
(* bind in progress is about to start.                                     *)
Live == {x \in Streams : media[x] = "binding" \/ loop[x] \notin {"none", "done"}}

(* The wait group counts exactly them: Add(1) runs long before the loop    *)
(* that will call Done exists, and a bind refused after Close adds none.   *)
WaitGroupCounts == wg = Cardinality(Live)

(* Each mutex is held across a blocking step by exactly the goroutine that *)
(* is at such a step.                                                      *)
LocksHeld ==
  /\ \A x \in Streams : m = x <=> media[x] = "binding"
  /\ rtpStreamsMu <=> reader = "notify"
  /\ rtpStreamsMu => ssrcs # <<>> /\ Head(ssrcs) \in rtpStreams

(* A loop exists only for a stream in the map whose bind has finished, and *)
(* only such a stream has a writer that queues.                            *)
LoopsBound ==
  \A x \in Streams :
    /\ loop[x] # "none" <=> media[x] \in {"idle", "newFrame", "notify"}
    /\ loop[x] # "none" <=> x \in rtpStreams

(* A loop is gone only because of Close, and once Close has returned every *)
(* loop is gone and none is about to start, whatever binds raced with it.  *)
LoopsJoined ==
  /\ closer # "open" <=> close
  /\ \A x \in Streams : loop[x] = "done" => close
  /\ closer = "closed" => Live = {}

(* The loop of x is at work and on its way to its select, with no lock to  *)
(* wait for.                                                               *)
LoopRuns(x) ==
  \/ loop[x] \in {"select", "size", "dequeue", "write"}
  \/ loop[x] \in {"ok", "report"} /\ m = None

(* The reader holds rtpStreamsMu until the loop of a stream takes its      *)
(* offer.  Nothing it holds keeps that loop from doing so: not even the    *)
(* loop's look-up of the stream, which needs rtpStreamsMu, since it was    *)
(* made before anything was sent that a report could be on.  So a circular *)
(* wait takes a second stream, which is being bound; or the loop has gone. *)
OfferMeetsLoop ==
  reader = "notify" =>
    \/ LoopRuns(Head(ssrcs))
    \/ \E y \in Streams : y # Head(ssrcs) /\ m = y /\ media[y] = "binding"
    \/ loop[Head(ssrcs)] = "done"

(* What the loop of x has taken out of its queue, or Clear thrown away.     *)
Taken(x) == produced[x] - Len(queue[x])

(* The queue holds the latest packets written, without gap and in order,   *)
(* and what the loop has taken out is older than all of them and younger   *)
(* than everything already sent.                                           *)
InOrder(x) ==
  /\ Taken(x) \in Nat
  /\ \A i \in 1..Len(queue[x]) : queue[x][i] = Taken(x) + i
  /\ lastSent[x] <= Taken(x)
  /\ packet[x] <= Taken(x)
  /\ packet[x] # 0 <=> loop[x] \in {"write", "report"}
  /\ loop[x] = "write" => lastSent[x] < packet[x]
  /\ media[x] \in {"unbound", "binding", "bare"} => queue[x] = <<>>

QueueInOrder == \A x \in Streams : InOrder(x)

(* The byte counter of a queue is the marshalled size of the packets that  *)
(* are in it, across Enqueue, Dequeue and a Clear at any moment.           *)
BytesMatchQueue ==
  \A x \in Streams : bytesInQueue[x] = Offset[produced[x]] - Offset[Taken(x)]

(* No packet is lost or sent twice: each packet written is in the queue,   *)
(* in the hands of the loop, sent, or thrown away by Clear.                *)
PacketConservation ==
  \A x \in Streams :
    produced[x] = sent[x] + cleared[x] + Len(queue[x])
                    + (IF loop[x] = "write" THEN 1 ELSE 0)

(* The invariant that Next preserves, from which the others follow.        *)
IInv ==
  /\ TypeOK
  /\ WaitGroupCounts
  /\ LocksHeld
  /\ LoopsBound
  /\ LoopsJoined
  /\ QueueInOrder
  /\ BytesMatchQueue
  /\ PacketConservation

-----------------------------------------------------------------------------
(* What the interceptor promises: RTPPipe.                                 *)

pending ==
  [x \in Streams |-> IF loop[x] = "write" THEN <<packet[x]>> \o queue[x]
                                          ELSE queue[x]]

Pipe == INSTANCE RTPPipe WITH accepted <- produced, pending <- pending,
                              last <- lastSent, stopped <- (closer = "closed")

(* Packets come out in order and at most once, only what was written comes *)
(* out, and nothing that was queued comes out after Close has returned.    *)
ImplementsPipe == Pipe!SafeSpec

(* A packet that was written leaves the interceptor (it is sent, or thrown *)
(* away by SCReAM) unless Close returns first.                             *)
PacketsLeave == Pipe!Progress

(* Between a packet's being written and its being sent, the stream's       *)
(* writer, the reader, the statistics and Close may all be blocked on the  *)
(* loop or on a mutex; none of them stays so:                              *)
(* a write returns, unless the interceptor is closed before its wake-up is *)
(* taken (then it never does);                                             *)
WriteReturns ==
  \A x \in Streams : media[x] = "newFrame" ~> media[x] = "idle" \/ close

(* the function reading RTCP returns, with the same exception;             *)
ReadReturns == reader # "idle" ~> reader = "idle" \/ close

(* a request for the target bitrate is answered, although the reader keeps *)
(* rtpStreamsMu while it waits for a loop, with the same exception;        *)
BitrateReturns == stats # "idle" ~> stats = "idle" \/ close

(* and Close returns.                                                      *)
CloseReturns == closer = "waiting" ~> closer = "closed"

(* A bind that has been begun finishes.                                    *)
BindReturns ==
  \A x \in Streams : media[x] = "binding" ~> media[x] # "binding"
=============================================================================
