--------------------------- MODULE NaiveAdaption ---------------------------
(***************************************************************************)
(* The naive rate adaption, internal/utils/rate_adaption_interceptor.go: a *)
(* buffered channel per stream, a loop per stream that takes packets from  *)
(* it, writes them down and watches the length of the channel to step the  *)
(* target bitrate up and down.                                             *)
(*                                                                         *)
(* streamsMu is never held across a blocking operation, so it has no       *)
(* variable.  A panic of any goroutine ends the process.  Streams are      *)
(* bound before Close is called, as Start of rtc/sender.go does it: unlike *)
(* the SCReAM interceptor this one does not refuse a late bind.            *)
(***************************************************************************)
EXTENDS Integers, Sequences, FiniteSets

CONSTANTS
  Streams,      \* SSRCs of the local streams
  Removed,      \* those for which UnbindLocalStream may be called
  MaxPackets,   \* bound: packets written per stream
  Capacity,     \* of a stream's channel (1_000_000)
  Steps,        \* length of the table of bitrates (5)
  GrowLimit,    \* packets that found the channel grown before a decrease (50)
  ShrinkLimit,  \* packets that found it shrunk before an increase (100)
  Long,         \* a channel of more packets always counts as grown (200)
  Short         \* one of fewer may count as shrunk (100)

ASSUME AdaptionAssumption ==
  /\ IsFiniteSet(Streams)
  /\ Removed \subseteq Streams
  /\ {MaxPackets, GrowLimit, Long, Short} \subseteq Nat
  /\ {Capacity, Steps, ShrinkLimit} \subseteq Nat \ {0}
  /\ Short <= Long + 1

VARIABLES
  close,          \* the channel s.close is closed
  wg,             \* counter of the wait group
  streams,        \* keys of the map s.streams
  queue,          \* queue[x]: what the channel of x holds
  queueClosed,    \* the streams whose channel is closed
  produced,       \* produced[x]: packets of x written so far
  loop,           \* loop[x]: where the loop of x is
  packet,         \* packet[x]: the packet it has taken
  nextQueueSize,  \* nextQueueSize[x]: the channel's length soon after that
  lastQueueSize,  \* lastQueueSize[x]: the same, a packet earlier
  queueGrowing, queueShrinking,   \* the loop's two counters
  currentStep,    \* currentStep[x]: the index of the target bitrate
  closer,         \* where the goroutine calling Close is
  lastSent,       \* lastSent[x]: latest packet of x handed down
  panicked        \* the process is gone

adaptVars == <<lastQueueSize, queueGrowing, queueShrinking, currentStep>>
closeVars == <<close, closer>>

vars == <<closeVars, wg, streams, queue, queueClosed, produced, loop, packet,
          nextQueueSize, adaptVars, lastSent, panicked>>

Zero == [x \in Streams |-> 0]

Init ==
  /\ close = FALSE
  /\ wg = 0
  /\ streams = {}
  /\ queue = [x \in Streams |-> <<>>]
  /\ queueClosed = {}
  /\ produced = Zero
  /\ loop = [x \in Streams |-> "none"]
  /\ packet = Zero
  /\ nextQueueSize = Zero
  /\ lastQueueSize = Zero
  /\ queueGrowing = Zero
  /\ queueShrinking = Zero
  /\ currentStep = Zero
  /\ closer = "open"
  /\ lastSent = Zero
  /\ panicked = FALSE

Panic ==
  /\ panicked' = TRUE
  /\ UNCHANGED <<closeVars, wg, streams, queue, queueClosed, produced, loop, packet,
                 nextQueueSize, adaptVars, lastSent>>

-----------------------------------------------------------------------------
(* The application: bind, write, unbind.                                   *)

Bind(x) ==
  /\ loop[x] = "none"
  /\ closer = "open"
  /\ streams' = streams \cup {x}
  /\ wg' = wg + 1
  /\ loop' = [loop EXCEPT ![x] = "start"]
  /\ UNCHANGED <<closeVars, queue, queueClosed, produced, packet, nextQueueSize,
                 adaptVars, lastSent, panicked>>

(* ls.queue <- pkt waits while the channel is full.                        *)
Write(x) ==
  /\ loop[x] # "none"
  /\ x \notin queueClosed
  /\ produced[x] < MaxPackets
  /\ Len(queue[x]) < Capacity
  /\ produced' = [produced EXCEPT ![x] = @ + 1]
  /\ queue' = [queue EXCEPT ![x] = Append(@, produced[x] + 1)]
  /\ UNCHANGED <<closeVars, wg, streams, queueClosed, loop, packet, nextQueueSize,
                 adaptVars, lastSent, panicked>>

(* A send on a closed channel, be it already waiting, panics.              *)
WriteClosed(x) ==
  /\ x \in queueClosed
  /\ produced[x] < MaxPackets
  /\ Panic

(* Fault: what the channel holds is thrown away.                           *)
UnbindLocalStreamEmpties(x) ==
  /\ x \in Removed \cap streams
  /\ queueClosed' = queueClosed \cup {x}
  /\ queue' = [queue EXCEPT ![x] = <<>>]
  /\ streams' = streams \ {x}
  /\ UNCHANGED <<closeVars, wg, produced, loop, packet, nextQueueSize,
                 adaptVars, lastSent, panicked>>

(* An SSRC that is not in the map is ignored.                              *)
UnbindLocalStream(x) ==
  /\ x \in Removed \cap streams
  /\ queueClosed' = queueClosed \cup {x}
  /\ streams' = streams \ {x}
  /\ UNCHANGED <<closeVars, wg, queue, produced, loop, packet, nextQueueSize,
                 adaptVars, lastSent, panicked>>

-----------------------------------------------------------------------------
(* The loop of a stream.                                                   *)

LoopStart(x) ==
  /\ loop[x] = "start"
  /\ x \in streams
  /\ loop' = [loop EXCEPT ![x] = "select"]
  /\ UNCHANGED <<closeVars, wg, streams, queue, queueClosed, produced, packet,
                 nextQueueSize, adaptVars, lastSent, panicked>>

(* Unbound before its loop looked it up, the stream is nil.                *)
LoopStartNil(x) ==
  /\ loop[x] = "start"
  /\ x \notin streams
  /\ Panic

(* Fault: the last packet is left in the channel.                          *)
LoopTakeButLast(x) ==
  /\ loop[x] = "select"
  /\ Len(queue[x]) > 1
  /\ packet' = [packet EXCEPT ![x] = Head(queue[x])]
  /\ queue' = [queue EXCEPT ![x] = Tail(@)]
  /\ loop' = [loop EXCEPT ![x] = "size"]
  /\ UNCHANGED <<closeVars, wg, streams, queueClosed, produced, nextQueueSize,
                 adaptVars, lastSent, panicked>>

LoopTake(x) ==
  /\ loop[x] = "select"
  /\ queue[x] # <<>>
  /\ packet' = [packet EXCEPT ![x] = Head(queue[x])]
  /\ queue' = [queue EXCEPT ![x] = Tail(@)]
  /\ loop' = [loop EXCEPT ![x] = "size"]
  /\ UNCHANGED <<closeVars, wg, streams, queueClosed, produced, nextQueueSize,
                 adaptVars, lastSent, panicked>>

(* The writer may have added to the channel since.                         *)
LoopSize(x) ==
  /\ loop[x] = "size"
  /\ nextQueueSize' = [nextQueueSize EXCEPT ![x] = Len(queue[x])]
  /\ loop' = [loop EXCEPT ![x] = "write"]
  /\ UNCHANGED <<closeVars, wg, streams, queue, queueClosed, produced, packet,
                 adaptVars, lastSent, panicked>>

(* Once empty, a closed channel yields nil packets: &packet.Header panics. *)
LoopTakeNil(x) ==
  /\ loop[x] = "select"
  /\ queue[x] = <<>>
  /\ x \in queueClosed
  /\ Panic

(* Fault: the last step is not the limit.                                  *)
IncreaseUncapped(step) == step + 1

Increase(step) == IF step >= Steps - 1 THEN step ELSE step + 1
Decrease(step) == IF step <= 0 THEN step ELSE step - 1

(* Fault: the first increase neither sets the counters back nor restarts   *)
(* the clock of increases.                                                 *)
AdaptTwice(x, increaseDue, decreaseDue, againDue) ==
  LET next == nextQueueSize[x]
      rise == next = 0 /\ increaseDue
      shrank == next < Short /\ next < lastQueueSize[x]
      riseAgain == shrank /\ queueShrinking[x] + 1 > ShrinkLimit /\ againDue
      step == IF rise THEN Increase(currentStep[x]) ELSE currentStep[x]
  IN  /\ currentStep' = [currentStep EXCEPT
                           ![x] = IF riseAgain THEN Increase(step) ELSE step]
      /\ queueShrinking' = [queueShrinking EXCEPT
                              ![x] = IF riseAgain THEN 0
                                     ELSE IF shrank THEN @ + 1 ELSE @]
      /\ lastQueueSize' = [lastQueueSize EXCEPT ![x] = next]
      /\ UNCHANGED queueGrowing

(* What a packet makes of the target.  increaseDue: the last increase by   *)
(* the first rule is 500 ms past; decreaseDue: the last decrease is 50 ms  *)
(* past; againDue: by the time of the third rule the first one's last      *)
(* increase is 500 ms past, as it still is if it was before and there has  *)
(* been none since.  The first rule, an empty channel, also sets the       *)
(* counters back, so that the third, a shrinking one, is not up on the     *)
(* same packet.                                                            *)
Adapt(x, increaseDue, decreaseDue, againDue) ==
  LET next == nextQueueSize[x]
      rise == next = 0 /\ increaseDue
      grew == next > lastQueueSize[x] \/ next > Long
      growing == (IF rise THEN 0 ELSE queueGrowing[x]) + (IF grew THEN 1 ELSE 0)
      fall == grew /\ growing > GrowLimit /\ decreaseDue
      shrank == next < Short /\ next < lastQueueSize[x]
      shrinking == (IF rise THEN 0 ELSE queueShrinking[x]) + (IF shrank THEN 1 ELSE 0)
      riseAgain == shrank /\ shrinking > ShrinkLimit /\ againDue
      first == IF rise THEN Increase(currentStep[x]) ELSE currentStep[x]
      second == IF fall THEN Decrease(first) ELSE first
  IN  /\ increaseDue /\ ~rise => againDue
      /\ currentStep' = [currentStep EXCEPT
                           ![x] = IF riseAgain THEN Increase(second) ELSE second]
      /\ queueGrowing' = [queueGrowing EXCEPT ![x] = IF fall THEN 0 ELSE growing]
      /\ queueShrinking' = [queueShrinking EXCEPT
                              ![x] = IF riseAgain THEN 0 ELSE shrinking]
      /\ lastQueueSize' = [lastQueueSize EXCEPT ![x] = next]

(* The packet is written (an error is logged) and the target adapted.      *)
LoopWrite(x) ==
  /\ loop[x] = "write"
  /\ lastSent' = [lastSent EXCEPT ![x] = packet[x]]
  /\ \E increaseDue, decreaseDue, againDue \in BOOLEAN :
       Adapt(x, increaseDue, decreaseDue, againDue)
  /\ loop' = [loop EXCEPT ![x] = "select"]
  /\ UNCHANGED <<closeVars, wg, streams, queue, queueClosed, produced, packet,
                 nextQueueSize, panicked>>

(* Fault: Done is not called.                                              *)
LoopLeaveUndone(x) ==
  /\ loop[x] = "select"
  /\ close
  /\ loop' = [loop EXCEPT ![x] = "done"]
  /\ UNCHANGED <<closeVars, wg, streams, queue, queueClosed, produced, packet,
                 nextQueueSize, adaptVars, lastSent, panicked>>

LoopLeave(x) ==
  /\ loop[x] = "select"
  /\ close
  /\ loop' = [loop EXCEPT ![x] = "done"]
  /\ wg' = wg - 1
  /\ UNCHANGED <<closeVars, streams, queue, queueClosed, produced, packet,
                 nextQueueSize, adaptVars, lastSent, panicked>>

-----------------------------------------------------------------------------
CloseBegin ==
  /\ closer = "open"
  /\ close' = TRUE
  /\ closer' = "waiting"
  /\ UNCHANGED <<wg, streams, queue, queueClosed, produced, loop, packet,
                 nextQueueSize, adaptVars, lastSent, panicked>>

CloseReturn ==
  /\ closer = "waiting"
  /\ wg = 0
  /\ closer' = "closed"
  /\ UNCHANGED <<close, wg, streams, queue, queueClosed, produced, loop, packet,
                 nextQueueSize, adaptVars, lastSent, panicked>>

LoopSteps(x) ==
  \/ LoopStart(x) \/ LoopStartNil(x)
  \/ LoopTake(x) \/ LoopTakeNil(x) \/ LoopSize(x) \/ LoopWrite(x) \/ LoopLeave(x)

Next ==
  /\ ~panicked
  /\ \/ \E x \in Streams :
          \/ Bind(x) \/ Write(x) \/ WriteClosed(x) \/ UnbindLocalStream(x)
          \/ LoopSteps(x)
     \/ CloseBegin
     \/ CloseReturn

SafeSpec == Init /\ [][Next]_vars

(* A loop runs while it can, and its select, at which packets and close    *)
(* are both ready, takes close in the end.  Close returns when it can.     *)
Fairness ==
  /\ \A x \in Streams :
       /\ WF_vars(~panicked /\ LoopSteps(x))
       /\ SF_vars(~panicked /\ LoopLeave(x))
  /\ WF_vars(~panicked /\ CloseReturn)

Spec == SafeSpec /\ Fairness

-----------------------------------------------------------------------------
(* Every variable has its type.  The step indexes the table of bitrates.   *)
TypeOK ==
  /\ close \in BOOLEAN /\ closer \in {"open", "waiting", "closed"}
  /\ wg \in Nat
  /\ streams \subseteq Streams /\ queueClosed \subseteq Streams
  /\ queue \in [Streams -> Seq(1..MaxPackets)]
  /\ \A x \in Streams : Len(queue[x]) <= Capacity
  /\ {produced, packet, lastSent} \subseteq [Streams -> 0..MaxPackets]
  /\ loop \in [Streams -> {"none", "start", "select", "size", "write", "done"}]
  /\ {nextQueueSize, lastQueueSize} \subseteq [Streams -> 0..Capacity]
  /\ {queueGrowing, queueShrinking} \subseteq [Streams -> Nat]
  /\ currentStep \in [Streams -> 0..Steps - 1]
  /\ panicked \in BOOLEAN

(* The streams whose loop has been started and has not left.               *)
Live == {x \in Streams : loop[x] \notin {"none", "done"}}

(* The wait group counts them, so that no loop is left once Close is done, *)
(* which is why nothing is sent after it.  This is inductive.              *)
IInv ==
  /\ TypeOK
  /\ wg = Cardinality(Live)
  /\ closer = "closed" => Live = {}

(* One packet moves the target by one step at most, although three rules   *)
(* are tried on it, two of which increase.                                 *)
OneStepPerPacket ==
  [][\A x \in Streams : currentStep'[x] - currentStep[x] \in {-1, 0, 1}]_vars

pending ==
  [x \in Streams |-> IF loop[x] \in {"size", "write"} THEN <<packet[x]>> \o queue[x]
                                                     ELSE queue[x]]

Pipe == INSTANCE RTPPipe WITH accepted <- produced, pending <- pending,
                              last <- lastSent,
                              stopped <- (closer = "closed" \/ panicked)

(* Packets come out in the order they were written in, each once and none  *)
(* left out: what has not come out is still held.  That holds however a    *)
(* stream is removed and whenever Close is called; what is held when Close *)
(* returns, or the process ends, stays where it is and never comes out.    *)
ImplementsPipe == Pipe!LosslessSpec

(* A packet that was written leaves for the writer below, unless Close     *)
(* returns first or a panic ends the process.                              *)
PacketsLeave == Pipe!Progress

(* Close returns.                                                          *)
CloseReturns == closer = "waiting" ~> closer = "closed" \/ panicked

(* Removing a stream cleans up after it: the process survives.             *)
UnbindIsSafe == ~panicked
=============================================================================
