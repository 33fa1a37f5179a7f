------------------------- MODULE ScreamSenderProofs -------------------------
(***************************************************************************)
(* Proofs about ScreamSender, for every set of streams, every bound on     *)
(* packets and every assignment of sizes to packets.                       *)
(*                                                                         *)
(* IInv is inductive (InitIInv, NextIInv).  Its parts lean on each other:  *)
(* LoopsJoined needs WaitGroupCounts (Close returns when the counter is 0) *)
(* and LocksHeld (no bind is half done when Close gets m); LocksHeld needs *)
(* LoopsBound (a bind in progress has no loop yet); BytesMatchQueue and    *)
(* the refinement need QueueInOrder, which needs LoopsBound.               *)
(***************************************************************************)
EXTENDS ScreamSender, FiniteSetTheorems, SequenceTheorems, TLAPS

(* A fresh interceptor (NewSenderInterceptor) with no stream bound         *)
(* satisfies the invariant.                                                *)
LEMMA InitIInv == Init => IInv
<1>. SUFFICES ASSUME Init PROVE IInv
  OBVIOUS
<1>1. LocksTyped
  <2>1. rtpStreamsMu \in BOOLEAN /\ close \in BOOLEAN
    BY DEF Init
  <2>2. m \in Streams \cup {None} /\ wg \in Nat /\ rtpStreams \in SUBSET Streams
    BY DEF Init
  <2>. QED
    BY <2>1, <2>2 DEF LocksTyped
<1>2. GoroutinesTyped
  BY DEF Init, GoroutinesTyped, MediaStates, LoopStates, ReaderStates, StatsStates,
         CloserStates
<1>3. PacketsTyped
  BY SizesAssumption DEF Init, PacketsTyped
<1>4. Live = {}
  BY DEF Init, Live
<1>5. WaitGroupCounts
  BY <1>4, FS_EmptySet DEF Init, WaitGroupCounts
<1>6. LocksHeld /\ LoopsBound /\ LoopsJoined
  BY <1>4, StreamsAssumption DEF Init, LocksHeld, LoopsBound, LoopsJoined
<1>7. QueueInOrder /\ BytesMatchQueue /\ PacketConservation
  BY SizesAssumption DEF Init, QueueInOrder, InOrder, Taken, BytesMatchQueue, PacketConservation
<1>. QED
  BY <1>1, <1>2, <1>3, <1>5, <1>6, <1>7 DEF IInv, TypeOK

(* The live streams are finitely many, whatever the loops do.              *)
LEMMA LiveFinite == IsFiniteSet(Live)
  BY StreamsAssumption, FS_Subset DEF Live

(* Where a media goroutine is that has no queue.                           *)
Unqueued == {"unbound", "binding", "bare"}

(* A step that touches no queue and hands no packet on keeps what the      *)
(* queues promise.                                                         *)
LEMMA QueuesUntouched ==
  ASSUME PacketsTyped, QueueInOrder, BytesMatchQueue, PacketConservation,
         UNCHANGED <<queueVars, produced, packet, sentVars>>,
         \A x \in Streams :
           /\ media'[x] \in Unqueued => media[x] \in Unqueued
           /\ \A l \in {"write", "report"} : loop'[x] = l <=> loop[x] = l
  PROVE  PacketsTyped' /\ QueueInOrder' /\ BytesMatchQueue' /\ PacketConservation'
<1>1. PacketsTyped'
  BY DEF PacketsTyped, queueVars, sentVars
<1>2. QueueInOrder'
  <2>. SUFFICES ASSUME NEW x \in Streams
                PROVE  InOrder(x)'
    BY DEF QueueInOrder
  <2>. QED
    BY DEF QueueInOrder, InOrder, Taken, Unqueued, queueVars, sentVars
<1>3. BytesMatchQueue'
  BY DEF BytesMatchQueue, Taken, queueVars
<1>4. PacketConservation'
  BY DEF PacketConservation, queueVars, sentVars
<1>. QED
  BY <1>1, <1>2, <1>3, <1>4

(* Clear, at any moment, keeps what the queues promise.                    *)
LEMMA ClearKeepsQueues ==
  ASSUME TypeOK, QueueInOrder, BytesMatchQueue, PacketConservation,
         NEW S \in SUBSET Streams, TxMayClear(S),
         UNCHANGED <<produced, packet, sent, lastSent, loop>>,
         \A x \in Streams : media'[x] \in Unqueued => media[x] \in Unqueued
  PROVE  PacketsTyped' /\ QueueInOrder' /\ BytesMatchQueue' /\ PacketConservation'
<1>1. PICK D \in SUBSET S : Clear(D)
  BY DEF TxMayClear
<1>2. ASSUME NEW x \in Streams
      PROVE  /\ queue[x] \in Seq(1..MaxPackets)
             /\ Len(queue[x]) \in Nat
             /\ produced[x] \in 0..MaxPackets
             /\ x \in D => /\ queue'[x] = <<>>
                           /\ Len(queue'[x]) = 0
                           /\ bytesInQueue'[x] = 0
                           /\ cleared'[x] = cleared[x] + Len(queue[x])
             /\ x \notin D => /\ queue'[x] = queue[x]
                              /\ bytesInQueue'[x] = bytesInQueue[x]
                              /\ cleared'[x] = cleared[x]
  BY <1>1, SizesAssumption DEF Clear, TypeOK, PacketsTyped
<1>3. PacketsTyped'
  <2>1. <<>> \in Seq(1..MaxPackets)
    OBVIOUS
  <2>2. \A x \in Streams :
          (IF x \in D THEN <<>> ELSE queue[x]) \in Seq(1..MaxPackets)
    BY <1>2, <2>1, Zenon
  <2>3. queue' \in [Streams -> Seq(1..MaxPackets)]
    BY <1>1, <2>2 DEF Clear
  <2>4. /\ bytesInQueue' \in [Streams -> Int]
        /\ cleared' \in [Streams -> Int]
    BY <1>1, <1>2 DEF Clear, TypeOK, PacketsTyped
  <2>. QED
    BY <2>3, <2>4 DEF TypeOK, PacketsTyped
<1>4. QueueInOrder'
  <2>. SUFFICES ASSUME NEW x \in Streams
                PROVE  InOrder(x)'
    BY DEF QueueInOrder
  <2>1. InOrder(x)
    BY DEF QueueInOrder
  <2>2. CASE x \in D
    <3>1. /\ packet'[x] = packet[x] /\ lastSent'[x] = lastSent[x]
          /\ packet[x] \in Nat /\ lastSent[x] \in Nat
          /\ produced[x] \in Nat /\ Taken(x)' = produced[x]
      BY <1>2, <2>2, SizesAssumption DEF Taken, TypeOK, PacketsTyped
    <3>. QED
      BY <1>2, <2>1, <2>2, <3>1 DEF InOrder, Taken, Unqueued
  <2>3. CASE x \notin D
    BY <1>2, <2>1, <2>3 DEF InOrder, Taken, Unqueued
  <2>. QED
    BY <2>2, <2>3
<1>5. BytesMatchQueue'
  <2>. SUFFICES ASSUME NEW x \in Streams
                PROVE  (bytesInQueue[x] = Offset[produced[x]] - Offset[Taken(x)])'
    BY DEF BytesMatchQueue
  <2>2. CASE x \in D
    BY <1>2, <2>2, SizesAssumption DEF BytesMatchQueue, Taken
  <2>3. CASE x \notin D
    BY <1>2, <2>3 DEF BytesMatchQueue, Taken
  <2>. QED
    BY <2>2, <2>3
<1>6. PacketConservation'
  BY <1>2 DEF PacketConservation, TypeOK, PacketsTyped
<1>. QED
  BY <1>3, <1>4, <1>5, <1>6
(* What the types say of one stream.                                       *)
LEMMA Typed ==
  ASSUME PacketsTyped, NEW y \in Streams
  PROVE  /\ queue[y] \in Seq(1..MaxPackets) /\ Len(queue[y]) \in Nat
         /\ produced[y] \in Nat /\ produced[y] <= MaxPackets
         /\ packet[y] \in Nat /\ lastSent[y] \in Nat
         /\ bytesInQueue[y] \in Int /\ sent[y] \in Int /\ cleared[y] \in Int
  BY SizesAssumption DEF PacketsTyped

(* The queue of a stream is a sequence of numbers, and the packet in the   *)
(* loop's hands a number.                                                  *)
LEMMA QueuesOfNumbers ==
  ASSUME PacketsTyped, NEW y \in Streams
  PROVE  queue[y] \in Seq(Nat) /\ packet[y] \in Nat
<1>1. 1..MaxPackets \subseteq Nat
  BY SizesAssumption
<1>. QED
  BY <1>1, Typed, SeqMonotonic

(* Writing packet produced + 1 appends it behind all that are held.        *)
LEMMA WriteEnqueueKeepsQueues ==
  ASSUME IInv, NEW x \in Streams, WriteEnqueue(x)
  PROVE  PacketsTyped' /\ QueueInOrder' /\ BytesMatchQueue' /\ PacketConservation'
<1>. DEFINE p == produced[x] + 1
<1>0. /\ PacketsTyped /\ GoroutinesTyped /\ LoopsBound
      /\ QueueInOrder /\ BytesMatchQueue /\ PacketConservation
  BY DEF IInv, TypeOK
<1>1. /\ p \in 1..MaxPackets /\ p - 1 = produced[x]
      /\ media[x] = "idle" /\ loop[x] # "none"
      /\ InOrder(x)
  <2>1. media[x] = "idle" /\ produced[x] < MaxPackets
    BY DEF WriteEnqueue
  <2>2. loop[x] # "none" /\ InOrder(x)
    BY <1>0, <2>1 DEF LoopsBound, QueueInOrder
  <2>3. p \in 1..MaxPackets /\ p - 1 = produced[x]
    <3>1. produced[x] \in Nat
      BY <1>0, Typed
    <3>2. MaxPackets \in Nat
      BY SizesAssumption
    <3>. QED
      BY <2>1, <3>1, <3>2
  <2>. QED
    BY <2>1, <2>2, <2>3
<1>2. /\ produced' = [produced EXCEPT ![x] = p]
      /\ queue' = [queue EXCEPT ![x] = Append(queue[x], p)]
      /\ bytesInQueue' = [bytesInQueue EXCEPT ![x] =
                            bytesInQueue[x] + (Offset[p] - Offset[produced[x]])]
      /\ media' = [media EXCEPT ![x] = "newFrame"]
      /\ UNCHANGED <<cleared, lastSent, sent, packet, loop>>
  <2>1. bytesInQueue' = [bytesInQueue EXCEPT ![x] = @ + MarshalSize(p)]
    BY DEF WriteEnqueue, Enqueue
  <2>. QED
    BY <1>1, <2>1 DEF WriteEnqueue, Enqueue, MarshalSize, sentVars
<1>3. /\ queue'[x] = Append(queue[x], p) /\ queue'[x] \in Seq(1..MaxPackets)
      /\ Len(queue'[x]) = Len(queue[x]) + 1
      /\ \A i \in 1..Len(queue[x]) : queue'[x][i] = queue[x][i]
      /\ queue'[x][Len(queue[x]) + 1] = p
  BY <1>0, <1>1, <1>2, Typed, AppendProperties DEF PacketsTyped
<1>4. produced'[x] = p /\ Taken(x)' = Taken(x)
  BY <1>0, <1>1, <1>2, <1>3, Typed DEF PacketsTyped, Taken
<1>5. ASSUME NEW y \in Streams, y # x
      PROVE  queue'[y] = queue[y] /\ produced'[y] = produced[y] /\ Taken(y)' = Taken(y)
  BY <1>0, <1>2, <1>5 DEF PacketsTyped, Taken
<1>6. PacketsTyped'
  <2>1. /\ queue' \in [Streams -> Seq(1..MaxPackets)]
        /\ produced' \in [Streams -> 0..MaxPackets]
    BY <1>0, <1>1, <1>2, <1>3 DEF PacketsTyped
  <2>2. Offset[p] - Offset[produced[x]] \in Int
    BY <1>0, <1>1, Typed, SizesAssumption
  <2>3. bytesInQueue' \in [Streams -> Int]
    <3>1. bytesInQueue[x] + (Offset[p] - Offset[produced[x]]) \in Int
      BY <1>0, <2>2, Typed
    <3>. QED
      BY <1>0, <1>2, <3>1 DEF PacketsTyped
  <2>. QED
    BY <1>0, <1>2, <2>1, <2>3 DEF PacketsTyped
<1>7. QueueInOrder'
  <2>1. InOrder(x)'
    <3>1. /\ lastSent'[x] = lastSent[x] /\ packet'[x] = packet[x] /\ loop'[x] = loop[x]
          /\ media'[x] = "newFrame"
      BY <1>0, <1>2 DEF GoroutinesTyped
    <3>2. \A i \in 1..Len(queue'[x]) : queue'[x][i] = Taken(x) + i
      <4>. SUFFICES ASSUME NEW i \in 1..Len(queue[x]) + 1
                    PROVE  queue'[x][i] = Taken(x) + i
        BY <1>3
      <4>1. CASE i \in 1..Len(queue[x])
        BY <1>1, <1>3, <4>1 DEF InOrder
      <4>2. CASE i = Len(queue[x]) + 1
        BY <1>0, <1>3, <4>2, Typed DEF Taken
      <4>. QED
        BY <1>0, <4>1, <4>2, Typed
    <3>. QED
      BY <1>1, <1>4, <3>1, <3>2 DEF InOrder
  <2>2. ASSUME NEW y \in Streams, y # x PROVE InOrder(y)'
    BY <1>0, <1>2, <1>5, <2>2 DEF QueueInOrder, InOrder, GoroutinesTyped
  <2>. QED
    BY <2>1, <2>2 DEF QueueInOrder
<1>8. BytesMatchQueue'
  <2>1. bytesInQueue'[x] = Offset[produced'[x]] - Offset[Taken(x)']
    <3>1. bytesInQueue'[x] = bytesInQueue[x] + (Offset[p] - Offset[produced[x]])
      BY <1>0, <1>2 DEF PacketsTyped
    <3>2. bytesInQueue[x] = Offset[produced[x]] - Offset[Taken(x)]
      BY <1>0 DEF BytesMatchQueue
    <3>3. /\ Offset[p] \in Int /\ Offset[produced[x]] \in Int
          /\ Offset[Taken(x)] \in Int
      <4>1. Taken(x) \in 0..MaxPackets /\ produced[x] \in 0..MaxPackets
        <5>1. /\ Taken(x) = produced[x] - Len(queue[x]) /\ Taken(x) \in Nat
              /\ produced[x] \in Nat /\ produced[x] <= MaxPackets
              /\ Len(queue[x]) \in Nat
          BY <1>0, <1>1, Typed DEF InOrder, Taken
        <5>. QED
          BY <5>1, SizesAssumption
      <4>. QED
        BY <1>1, <4>1, SizesAssumption
    <3>. QED
      BY <1>4, <3>1, <3>2, <3>3
  <2>2. ASSUME NEW y \in Streams, y # x
        PROVE  bytesInQueue'[y] = Offset[produced'[y]] - Offset[Taken(y)']
    BY <1>0, <1>2, <1>5, <2>2 DEF BytesMatchQueue, PacketsTyped
  <2>. QED
    BY <2>1, <2>2 DEF BytesMatchQueue
<1>9. PacketConservation'
  <2>1. ASSUME NEW y \in Streams, y # x
        PROVE  produced'[y] = sent'[y] + cleared'[y] + Len(queue'[y])
                                + (IF loop'[y] = "write" THEN 1 ELSE 0)
    BY <1>0, <1>2, <1>5, <2>1 DEF PacketConservation
  <2>2. produced'[x] = sent'[x] + cleared'[x] + Len(queue'[x])
                         + (IF loop'[x] = "write" THEN 1 ELSE 0)
    <3>1. produced[x] = sent[x] + cleared[x] + Len(queue[x])
                          + (IF loop[x] = "write" THEN 1 ELSE 0)
      BY <1>0 DEF PacketConservation
    <3>2. /\ sent[x] \in Int /\ cleared[x] \in Int
          /\ Len(queue[x]) \in Nat
      BY <1>0, Typed
    <3>3. /\ produced'[x] = produced[x] + 1
          /\ Len(queue'[x]) = Len(queue[x]) + 1
          /\ sent'[x] = sent[x] /\ cleared'[x] = cleared[x] /\ loop'[x] = loop[x]
      BY <1>2, <1>3, <1>4
    <3>. QED
      BY <3>1, <3>2, <3>3
  <2>. QED
    BY <2>1, <2>2 DEF PacketConservation
<1>. QED
  BY <1>6, <1>7, <1>8, <1>9

(* The oldest packet held goes to the loop.                                *)
LEMMA LoopDequeueKeepsQueues ==
  ASSUME IInv, NEW x \in Streams, LoopDequeue(x)
  PROVE  PacketsTyped' /\ QueueInOrder' /\ BytesMatchQueue' /\ PacketConservation'
<1>. DEFINE p == Taken(x) + 1
<1>0. /\ PacketsTyped /\ GoroutinesTyped /\ LoopsBound
      /\ QueueInOrder /\ BytesMatchQueue /\ PacketConservation
  BY DEF IInv, TypeOK
<1>1. queue[x] # <<>> /\ loop[x] = "dequeue" /\ InOrder(x)
  BY <1>0 DEF QueueInOrder, LoopDequeue
<1>2. /\ Len(queue[x]) \in Nat \ {0}
      /\ Head(queue[x]) = queue[x][1]
      /\ Tail(queue[x]) \in Seq(1..MaxPackets)
      /\ Len(Tail(queue[x])) = Len(queue[x]) - 1
      /\ \A i \in 1..Len(Tail(queue[x])) : Tail(queue[x])[i] = queue[x][i + 1]
  <2>1. queue[x] \in Seq(1..MaxPackets)
    BY <1>0, Typed
  <2>2. Len(queue[x]) \in Nat /\ Len(queue[x]) # 0
    BY <1>1, <2>1, EmptySeq
  <2>. QED
    <3>1. Head(queue[x]) = queue[x][1]
      BY <2>1
    <3>2. Len(queue[x]) \in Nat \ {0}
      BY <2>2
    <3>. QED
      BY <1>1, <2>1, <3>1, <3>2, HeadTailProperties, Zenon
<1>3. Taken(x) \in Nat /\ Head(queue[x]) = p /\ p \in 1..MaxPackets
  <2>1. Taken(x) \in Nat /\ queue[x][1] = Taken(x) + 1
    BY <1>1, <1>2 DEF InOrder
  <2>. QED
    <3>1. Taken(x) = produced[x] - Len(queue[x]) /\ p = Taken(x) + 1
      BY DEF Taken
    <3>2. produced[x] \in Nat /\ produced[x] <= MaxPackets
      BY <1>0, Typed
    <3>3. p \in 1..MaxPackets
      BY <1>2, <2>1, <3>1, <3>2, SizesAssumption
    <3>. QED
      BY <1>2, <2>1, <3>3
<1>4. /\ packet' = [packet EXCEPT ![x] = p]
      /\ queue' = [queue EXCEPT ![x] = Tail(queue[x])]
      /\ bytesInQueue' = [bytesInQueue EXCEPT ![x] =
                            bytesInQueue[x] - (Offset[p] - Offset[Taken(x)])]
      /\ loop' = [loop EXCEPT ![x] = "write"]
      /\ UNCHANGED <<cleared, produced, media, sent, lastSent>>
  <2>1. p - 1 = Taken(x)
    BY <1>3
  <2>. QED
    BY <1>3, <2>1 DEF LoopDequeue, Dequeue, MarshalSize, sentVars
<1>5. queue'[x] = Tail(queue[x]) /\ Taken(x)' = p
  BY <1>0, <1>2, <1>4, Typed DEF Taken, PacketsTyped
<1>6. ASSUME NEW y \in Streams, y # x
      PROVE  /\ queue'[y] = queue[y] /\ Taken(y)' = Taken(y)
             /\ packet'[y] = packet[y] /\ loop'[y] = loop[y]
  BY <1>0, <1>4, <1>6 DEF PacketsTyped, GoroutinesTyped, Taken
<1>7. /\ Offset[p] \in Int /\ Offset[Taken(x)] \in Int
      /\ Offset[produced[x]] \in Int
  BY <1>0, <1>3, Typed, SizesAssumption
<1>8. PacketsTyped'
  <2>1. /\ queue' \in [Streams -> Seq(1..MaxPackets)]
        /\ packet' \in [Streams -> 0..MaxPackets]
    BY <1>0, <1>2, <1>3, <1>4 DEF PacketsTyped
  <2>2. bytesInQueue' \in [Streams -> Int]
    <3>1. bytesInQueue[x] - (Offset[p] - Offset[Taken(x)]) \in Int
      BY <1>0, <1>7, Typed
    <3>. QED
      BY <1>0, <1>4, <3>1 DEF PacketsTyped
  <2>. QED
    BY <1>0, <1>4, <2>1, <2>2 DEF PacketsTyped
<1>9. QueueInOrder'
  <2>1. InOrder(x)'
    <3>1. /\ packet'[x] = p /\ lastSent'[x] = lastSent[x]
          /\ loop'[x] = "write" /\ media'[x] = media[x]
      BY <1>0, <1>4 DEF PacketsTyped, GoroutinesTyped
    <3>2. \A i \in 1..Len(queue'[x]) : queue'[x][i] = p + i
      BY <1>1, <1>2, <1>3, <1>5 DEF InOrder
    <3>3. lastSent[x] <= Taken(x) /\ lastSent[x] \in Nat /\ p # 0
      BY <1>0, <1>1, <1>3, Typed DEF InOrder
    <3>4. media[x] \notin {"unbound", "binding", "bare"}
      BY <1>1 DEF InOrder
    <3>. QED
      BY <1>3, <1>5, <3>1, <3>2, <3>3, <3>4, SMTT(30) DEF InOrder
  <2>2. ASSUME NEW y \in Streams, y # x PROVE InOrder(y)'
    BY <1>0, <1>4, <1>6, <2>2 DEF QueueInOrder, InOrder
  <2>. QED
    BY <2>1, <2>2 DEF QueueInOrder
<1>10. BytesMatchQueue'
  <2>1. bytesInQueue'[x] = Offset[produced'[x]] - Offset[Taken(x)']
    <3>1. bytesInQueue'[x] = bytesInQueue[x] - (Offset[p] - Offset[Taken(x)])
      BY <1>0, <1>4 DEF PacketsTyped
    <3>2. bytesInQueue[x] = Offset[produced[x]] - Offset[Taken(x)]
      BY <1>0 DEF BytesMatchQueue
    <3>. QED
      BY <1>4, <1>5, <1>7, <3>1, <3>2
  <2>2. ASSUME NEW y \in Streams, y # x
        PROVE  bytesInQueue'[y] = Offset[produced'[y]] - Offset[Taken(y)']
    BY <1>0, <1>4, <1>6, <2>2 DEF BytesMatchQueue, PacketsTyped
  <2>. QED
    BY <2>1, <2>2 DEF BytesMatchQueue
<1>11. PacketConservation'
  <2>1. ASSUME NEW y \in Streams, y # x
        PROVE  produced'[y] = sent'[y] + cleared'[y] + Len(queue'[y])
                                + (IF loop'[y] = "write" THEN 1 ELSE 0)
    BY <1>0, <1>4, <1>6, <2>1 DEF PacketConservation
  <2>2. produced'[x] = sent'[x] + cleared'[x] + Len(queue'[x])
                         + (IF loop'[x] = "write" THEN 1 ELSE 0)
    <3>1. produced[x] = sent[x] + cleared[x] + Len(queue[x])
      BY <1>0, <1>1, Typed DEF PacketConservation
    <3>2. loop'[x] = "write"
      BY <1>0, <1>4 DEF GoroutinesTyped
    <3>3. Len(queue'[x]) = Len(queue[x]) - 1
      BY <1>2, <1>5
    <3>4. /\ produced'[x] = produced[x] /\ sent'[x] = sent[x]
          /\ cleared'[x] = cleared[x]
      BY <1>4
    <3>5. Len(queue[x]) \in Nat /\ sent[x] \in Int /\ cleared[x] \in Int
      BY <1>0, Typed
    <3>. QED
      BY <3>1, <3>2, <3>3, <3>4, <3>5
  <2>. QED
    BY <2>1, <2>2 DEF PacketConservation
<1>. QED
  BY <1>8, <1>9, <1>10, <1>11

(* A packet goes out: through the loop, ...                                *)
LEMMA LoopWriteKeepsQueues ==
  ASSUME IInv, NEW x \in Streams, LoopWrite(x)
  PROVE  PacketsTyped' /\ QueueInOrder' /\ BytesMatchQueue' /\ PacketConservation'
<1>0. /\ PacketsTyped /\ GoroutinesTyped
      /\ QueueInOrder /\ BytesMatchQueue /\ PacketConservation
  BY DEF IInv, TypeOK
<1>1. /\ loop[x] = "write"
      /\ sent' = [sent EXCEPT ![x] = sent[x] + 1]
      /\ lastSent' = [lastSent EXCEPT ![x] = packet[x]]
      /\ loop' = [loop EXCEPT ![x] = "report"]
      /\ UNCHANGED <<queue, bytesInQueue, cleared, produced, media, packet>>
  BY DEF LoopWrite, queueVars
<1>2. PacketsTyped'
  BY <1>0, <1>1 DEF PacketsTyped
<1>3. QueueInOrder'
  <2>1. InOrder(x)'
    BY <1>0, <1>1, Typed DEF QueueInOrder, InOrder, Taken, PacketsTyped,
       GoroutinesTyped
  <2>2. ASSUME NEW y \in Streams, y # x PROVE InOrder(y)'
    BY <1>0, <1>1, <2>2 DEF QueueInOrder, InOrder, Taken, PacketsTyped,
       GoroutinesTyped
  <2>. QED
    BY <2>1, <2>2 DEF QueueInOrder
<1>4. BytesMatchQueue'
  BY <1>0, <1>1 DEF BytesMatchQueue, Taken
<1>5. PacketConservation'
  <2>. SUFFICES ASSUME NEW y \in Streams
                PROVE  produced'[y] = sent'[y] + cleared'[y] + Len(queue'[y])
                                        + (IF loop'[y] = "write" THEN 1 ELSE 0)
    BY DEF PacketConservation
  <2>1. CASE y = x
    BY <1>0, <1>1, <2>1, Typed DEF PacketConservation, PacketsTyped, GoroutinesTyped
  <2>2. CASE y # x
    BY <1>0, <1>1, <2>2 DEF PacketConservation, PacketsTyped, GoroutinesTyped
  <2>. QED
    BY <2>1, <2>2
<1>. QED
  BY <1>2, <1>3, <1>4, <1>5

(* ... or straight from the writer of an uncontrolled stream.              *)
LEMMA WriteBareKeepsQueues ==
  ASSUME IInv, NEW x \in Streams, WriteBare(x)
  PROVE  PacketsTyped' /\ QueueInOrder' /\ BytesMatchQueue' /\ PacketConservation'
<1>. DEFINE p == produced[x] + 1
<1>0. /\ PacketsTyped /\ GoroutinesTyped /\ LoopsBound
      /\ QueueInOrder /\ BytesMatchQueue /\ PacketConservation
  BY DEF IInv, TypeOK
<1>1. /\ media[x] = "bare" /\ loop[x] = "none" /\ p \in 1..MaxPackets
      /\ queue[x] = <<>> /\ Len(queue[x]) = 0 /\ packet[x] = 0
      /\ Taken(x) = produced[x]
  <2>1. media[x] = "bare" /\ loop[x] = "none" /\ p \in 1..MaxPackets /\ InOrder(x)
    <3>1. media[x] = "bare" /\ produced[x] < MaxPackets
      BY DEF WriteBare
    <3>2. p \in 1..MaxPackets
      <4>1. produced[x] \in Nat /\ MaxPackets \in Nat
        BY <1>0, Typed, SizesAssumption
      <4>. QED
        BY <3>1, <4>1
    <3>. QED
      BY <1>0, <3>1, <3>2 DEF LoopsBound, QueueInOrder
  <2>2. queue[x] = <<>> /\ packet[x] = 0
    BY <2>1 DEF InOrder
  <2>3. Len(queue[x]) = 0
    BY <2>2
  <2>4. Taken(x) = produced[x]
    BY <1>0, <2>3, Typed DEF Taken
  <2>. QED
    BY <2>1, <2>2, <2>3, <2>4
<1>2. /\ produced' = [produced EXCEPT ![x] = p]
      /\ sent' = [sent EXCEPT ![x] = sent[x] + 1]
      /\ lastSent' = [lastSent EXCEPT ![x] = p]
      /\ UNCHANGED <<queue, bytesInQueue, cleared, media, packet, loop>>
  BY DEF WriteBare, queueVars
<1>3. produced'[x] = p /\ Taken(x)' = p
  BY <1>0, <1>1, <1>2 DEF Taken, PacketsTyped
<1>4. ASSUME NEW y \in Streams, y # x
      PROVE  produced'[y] = produced[y] /\ Taken(y)' = Taken(y)
  BY <1>0, <1>2, <1>4 DEF PacketsTyped, Taken
<1>5. PacketsTyped'
  BY <1>0, <1>1, <1>2 DEF PacketsTyped
<1>6. QueueInOrder'
  <2>1. InOrder(x)'
    BY <1>0, <1>1, <1>2, <1>3 DEF InOrder, PacketsTyped
  <2>2. ASSUME NEW y \in Streams, y # x PROVE InOrder(y)'
    BY <1>0, <1>2, <1>4, <2>2 DEF QueueInOrder, InOrder, PacketsTyped
  <2>. QED
    BY <2>1, <2>2 DEF QueueInOrder
<1>7. BytesMatchQueue'
  <2>1. bytesInQueue'[x] = Offset[produced'[x]] - Offset[Taken(x)']
    <3>1. bytesInQueue[x] = Offset[produced[x]] - Offset[produced[x]]
      BY <1>0, <1>1 DEF BytesMatchQueue
    <3>2. Offset[produced[x]] \in Int /\ Offset[p] \in Int
      BY <1>0, <1>1, Typed, SizesAssumption
    <3>. QED
      BY <1>2, <1>3, <3>1, <3>2
  <2>2. ASSUME NEW y \in Streams, y # x
        PROVE  bytesInQueue'[y] = Offset[produced'[y]] - Offset[Taken(y)']
    BY <1>0, <1>2, <1>4, <2>2 DEF BytesMatchQueue
  <2>. QED
    BY <2>1, <2>2 DEF BytesMatchQueue
<1>8. PacketConservation'
  <2>1. ASSUME NEW y \in Streams, y # x
        PROVE  produced'[y] = sent'[y] + cleared'[y] + Len(queue'[y])
                                + (IF loop'[y] = "write" THEN 1 ELSE 0)
    BY <1>0, <1>2, <1>4, <2>1 DEF PacketConservation, PacketsTyped
  <2>2. produced'[x] = sent'[x] + cleared'[x] + Len(queue'[x])
                         + (IF loop'[x] = "write" THEN 1 ELSE 0)
    <3>1. produced[x] = sent[x] + cleared[x]
      BY <1>0, <1>1, Typed DEF PacketConservation
    <3>2. sent'[x] = sent[x] + 1 /\ Len(queue'[x]) = 0 /\ loop'[x] = "none"
      BY <1>0, <1>1, <1>2 DEF PacketsTyped
    <3>. QED
      BY <1>0, <1>2, <1>3, <3>1, <3>2, Typed
  <2>. QED
    BY <2>1, <2>2 DEF PacketConservation
<1>. QED
  BY <1>5, <1>6, <1>7, <1>8

(* Each action preserves each part of IInv.                                *)
LEMMA NextIInv == ASSUME IInv, Next PROVE IInv'
<1>. USE StreamsAssumption
     DEF IInv, TypeOK, queueVars, lockVars, readerVars, sentVars, closeVars
<1>1. ASSUME NEW x \in Streams, BindBare(x) PROVE IInv'
  <2>1. LocksTyped' /\ GoroutinesTyped'
    BY <1>1 DEF LocksTyped, GoroutinesTyped, MediaStates, LoopStates,
       ReaderStates, StatsStates, CloserStates, BindBare
  <2>2. Live' = Live
    BY <1>1 DEF Live, GoroutinesTyped, BindBare
  <2>3. WaitGroupCounts'
    BY <1>1, <2>2 DEF WaitGroupCounts, BindBare
  <2>4. LocksHeld' /\ LoopsBound' /\ LoopsJoined'
    BY <1>1, <2>2 DEF LocksTyped, GoroutinesTyped, LocksHeld, LoopsBound,
       LoopsJoined, BindBare
  <2>5. /\ PacketsTyped' /\ QueueInOrder'
       /\ BytesMatchQueue' /\ PacketConservation'
    BY <1>1, QueuesUntouched DEF GoroutinesTyped, Unqueued, BindBare
  <2>. QED
    BY <2>1, <2>2, <2>3, <2>4, <2>5
<1>2. ASSUME NEW x \in Streams, BindBegin(x) PROVE IInv'
  <2>1. LocksTyped'
    BY <1>2 DEF LocksTyped, BindBegin
  <2>2. GoroutinesTyped'
    BY <1>2 DEF GoroutinesTyped, MediaStates, LoopStates, ReaderStates,
       StatsStates, CloserStates, BindBegin
  <2>3. Live' = Live \cup {x} /\ x \notin Live
    BY <1>2 DEF Live, GoroutinesTyped, LoopsBound, BindBegin
  <2>4. WaitGroupCounts'
    BY <1>2, <2>3, LiveFinite, FS_AddElement DEF WaitGroupCounts, BindBegin
  <2>5. LocksHeld' /\ LoopsBound' /\ LoopsJoined'
    BY <1>2, <2>3 DEF LocksTyped, GoroutinesTyped, LocksHeld, LoopsBound,
       LoopsJoined, BindBegin
  <2>6. /\ PacketsTyped' /\ QueueInOrder'
       /\ BytesMatchQueue' /\ PacketConservation'
    BY <1>2, QueuesUntouched DEF GoroutinesTyped, Unqueued, BindBegin
  <2>. QED
    BY <2>1, <2>2, <2>3, <2>4, <2>5, <2>6
<1>3. ASSUME NEW x \in Streams, BindRegister(x) PROVE IInv'
  <2>1. LocksTyped' /\ GoroutinesTyped'
    BY <1>3 DEF LocksTyped, GoroutinesTyped, MediaStates, LoopStates,
       ReaderStates, StatsStates, CloserStates, BindRegister
  <2>2. Live' = Live
    BY <1>3 DEF Live, GoroutinesTyped, LoopsBound, BindRegister
  <2>3. WaitGroupCounts'
    BY <1>3, <2>2 DEF WaitGroupCounts, BindRegister
  <2>4. LocksHeld' /\ LoopsBound' /\ LoopsJoined'
    BY <1>3, <2>2 DEF LocksTyped, GoroutinesTyped, LocksHeld, LoopsBound,
       LoopsJoined, BindRegister
  <2>5. \A y \in Streams :
         /\ media'[y] \in Unqueued => media[y] \in Unqueued
         /\ \A l \in {"write", "report"} : loop'[y] = l <=> loop[y] = l
    BY <1>3 DEF GoroutinesTyped, LoopsBound, Unqueued, BindRegister
  <2>6. /\ PacketsTyped' /\ QueueInOrder'
       /\ BytesMatchQueue' /\ PacketConservation'
    BY <1>3, <2>5, QueuesUntouched DEF BindRegister
  <2>. QED
    BY <2>1, <2>2, <2>3, <2>4, <2>5, <2>6
<1>4. ASSUME NEW x \in Streams, WriteBare(x) PROVE IInv'
  <2>1. LocksTyped' /\ GoroutinesTyped'
    BY <1>4 DEF LocksTyped, GoroutinesTyped, MediaStates, LoopStates,
       ReaderStates, StatsStates, CloserStates, WriteBare
  <2>2. Live' = Live
    BY <1>4 DEF Live, GoroutinesTyped, WriteBare
  <2>3. WaitGroupCounts'
    BY <1>4, <2>2 DEF WaitGroupCounts, WriteBare
  <2>4. LocksHeld' /\ LoopsBound' /\ LoopsJoined'
    BY <1>4, <2>2 DEF LocksTyped, GoroutinesTyped, LocksHeld, LoopsBound,
       LoopsJoined, WriteBare
  <2>5. /\ PacketsTyped' /\ QueueInOrder'
       /\ BytesMatchQueue' /\ PacketConservation'
    BY <1>4, WriteBareKeepsQueues
  <2>. QED
    BY <2>1, <2>2, <2>3, <2>4, <2>5
<1>5. ASSUME NEW x \in Streams, WriteEnqueue(x) PROVE IInv'
  <2>1. LocksTyped' /\ GoroutinesTyped'
    BY <1>5 DEF LocksTyped, GoroutinesTyped, MediaStates, LoopStates,
       ReaderStates, StatsStates, CloserStates, WriteEnqueue, Enqueue,
       MarshalSize
  <2>2. Live' = Live
    BY <1>5 DEF Live, GoroutinesTyped, WriteEnqueue, Enqueue, MarshalSize
  <2>3. WaitGroupCounts'
    BY <1>5, <2>2 DEF WaitGroupCounts, WriteEnqueue, Enqueue, MarshalSize
  <2>4. LocksHeld' /\ LoopsBound' /\ LoopsJoined'
    BY <1>5, <2>2 DEF LocksTyped, GoroutinesTyped, LocksHeld, LoopsBound,
       LoopsJoined, WriteEnqueue, Enqueue, MarshalSize
  <2>5. /\ PacketsTyped' /\ QueueInOrder'
       /\ BytesMatchQueue' /\ PacketConservation'
    BY <1>5, WriteEnqueueKeepsQueues
  <2>. QED
    BY <2>1, <2>2, <2>3, <2>4, <2>5
<1>6. ASSUME NEW x \in Streams, WriteNewFrame(x) PROVE IInv'
  <2>1. LocksTyped' /\ GoroutinesTyped'
    BY <1>6 DEF LocksTyped, GoroutinesTyped, MediaStates, LoopStates,
       ReaderStates, StatsStates, CloserStates, WriteNewFrame, TxMayClear, Clear
  <2>2. Live' = Live
    BY <1>6 DEF Live, GoroutinesTyped, WriteNewFrame, TxMayClear, Clear
  <2>3. WaitGroupCounts'
    BY <1>6, <2>2 DEF WaitGroupCounts, WriteNewFrame, TxMayClear, Clear
  <2>4. LocksHeld' /\ LoopsBound' /\ LoopsJoined'
    BY <1>6, <2>2 DEF LocksTyped, GoroutinesTyped, LocksHeld, LoopsBound,
       LoopsJoined, WriteNewFrame, TxMayClear, Clear
  <2>5. /\ PacketsTyped' /\ QueueInOrder'
       /\ BytesMatchQueue' /\ PacketConservation'
    BY <1>6, ClearKeepsQueues DEF LocksTyped, GoroutinesTyped, Unqueued,
       WriteNewFrame
  <2>. QED
    BY <2>1, <2>2, <2>3, <2>4, <2>5
<1>7. ASSUME NEW x \in Streams, LoopStart(x) PROVE IInv'
  <2>1. LocksTyped' /\ GoroutinesTyped'
    BY <1>7 DEF LocksTyped, GoroutinesTyped, MediaStates, LoopStates,
       ReaderStates, StatsStates, CloserStates, LoopStart, LoopGoto
  <2>2. Live' = Live
    BY <1>7 DEF Live, GoroutinesTyped, LoopStart, LoopGoto
  <2>3. WaitGroupCounts'
    BY <1>7, <2>2 DEF WaitGroupCounts, LoopStart, LoopGoto
  <2>4. LocksHeld' /\ LoopsBound' /\ LoopsJoined'
    BY <1>7, <2>2 DEF LocksTyped, GoroutinesTyped, LocksHeld, LoopsBound,
       LoopsJoined, LoopStart, LoopGoto
  <2>5. /\ PacketsTyped' /\ QueueInOrder'
       /\ BytesMatchQueue' /\ PacketConservation'
    BY <1>7, QueuesUntouched DEF GoroutinesTyped, Unqueued, LoopStart, LoopGoto
  <2>. QED
    BY <2>1, <2>2, <2>3, <2>4, <2>5
<1>8. ASSUME NEW x \in Streams, WakeByWriter(x) PROVE IInv'
  <2>1. LocksTyped' /\ GoroutinesTyped'
    BY <1>8 DEF LocksTyped, GoroutinesTyped, MediaStates, LoopStates,
       ReaderStates, StatsStates, CloserStates, WakeByWriter, WriterOffers
  <2>2. Live' = Live
    BY <1>8 DEF Live, GoroutinesTyped, WakeByWriter, WriterOffers
  <2>3. WaitGroupCounts'
    BY <1>8, <2>2 DEF WaitGroupCounts, WakeByWriter, WriterOffers
  <2>4. LocksHeld' /\ LoopsBound' /\ LoopsJoined'
    BY <1>8, <2>2 DEF LocksTyped, GoroutinesTyped, LocksHeld, LoopsBound,
       LoopsJoined, WakeByWriter, WriterOffers
  <2>5. /\ PacketsTyped' /\ QueueInOrder'
       /\ BytesMatchQueue' /\ PacketConservation'
    BY <1>8, QueuesUntouched DEF GoroutinesTyped, Unqueued, WakeByWriter,
       WriterOffers
  <2>. QED
    BY <2>1, <2>2, <2>3, <2>4, <2>5
<1>9. ASSUME NEW x \in Streams, WakeByReader(x) PROVE IInv'
  <2>1. LocksTyped'
    BY <1>9 DEF LocksTyped, WakeByReader, ReaderOffers
  <2>2. GoroutinesTyped'
    BY <1>9 DEF GoroutinesTyped, LocksHeld, MediaStates, LoopStates,
       ReaderStates, StatsStates, CloserStates, WakeByReader, ReaderOffers
  <2>3. Live' = Live
    BY <1>9 DEF Live, GoroutinesTyped, WakeByReader, ReaderOffers
  <2>4. WaitGroupCounts'
    BY <1>9, <2>3 DEF WaitGroupCounts, WakeByReader, ReaderOffers
  <2>5. LocksHeld' /\ LoopsBound' /\ LoopsJoined'
    BY <1>9, <2>3 DEF LocksTyped, GoroutinesTyped, LocksHeld, LoopsBound,
       LoopsJoined, WakeByReader, ReaderOffers
  <2>6. /\ PacketsTyped' /\ QueueInOrder'
       /\ BytesMatchQueue' /\ PacketConservation'
    BY <1>9, QueuesUntouched DEF GoroutinesTyped, Unqueued, WakeByReader,
       ReaderOffers
  <2>. QED
    BY <2>1, <2>2, <2>3, <2>4, <2>5, <2>6
<1>10. ASSUME NEW x \in Streams, LoopLeave(x) PROVE IInv'
  <2>1. Live' = Live \ {x} /\ x \in Live
    BY <1>10 DEF Live, GoroutinesTyped, LocksHeld, LoopsBound, LoopLeave
  <2>2. WaitGroupCounts'
    BY <1>10, <2>1, LiveFinite, FS_RemoveElement DEF WaitGroupCounts,
       LocksTyped, LoopLeave
  <2>3. wg' \in Nat
    BY <1>10, <2>1, <2>2, LiveFinite, FS_Subset, FS_CardinalityType DEF
       WaitGroupCounts
  <2>4. LocksTyped'
    BY <1>10, <2>3 DEF LocksTyped, LoopLeave
  <2>5. GoroutinesTyped'
    BY <1>10 DEF GoroutinesTyped, MediaStates, LoopStates, ReaderStates,
       StatsStates, CloserStates, LoopLeave
  <2>6. LocksHeld' /\ LoopsBound' /\ LoopsJoined'
    BY <1>10, <2>1 DEF LocksTyped, GoroutinesTyped, LocksHeld, LoopsBound,
       LoopsJoined, LoopLeave
  <2>7. /\ PacketsTyped' /\ QueueInOrder'
       /\ BytesMatchQueue' /\ PacketConservation'
    BY <1>10, QueuesUntouched DEF GoroutinesTyped, Unqueued, LoopLeave
  <2>. QED
    BY <2>1, <2>2, <2>3, <2>4, <2>5, <2>6, <2>7
<1>11. ASSUME NEW x \in Streams, LoopDefault(x) PROVE IInv'
  <2>1. LocksTyped' /\ GoroutinesTyped'
    BY <1>11 DEF LocksTyped, GoroutinesTyped, MediaStates, LoopStates,
       ReaderStates, StatsStates, CloserStates, LoopDefault, LoopGoto,
       WriterOffers, ReaderOffers
  <2>2. Live' = Live
    BY <1>11 DEF Live, GoroutinesTyped, LoopDefault, LoopGoto, WriterOffers,
       ReaderOffers
  <2>3. WaitGroupCounts'
    BY <1>11, <2>2 DEF WaitGroupCounts, LoopDefault, LoopGoto, WriterOffers,
       ReaderOffers
  <2>4. LocksHeld' /\ LoopsBound' /\ LoopsJoined'
    BY <1>11, <2>2 DEF LocksTyped, GoroutinesTyped, LocksHeld, LoopsBound,
       LoopsJoined, LoopDefault, LoopGoto, WriterOffers, ReaderOffers
  <2>5. /\ PacketsTyped' /\ QueueInOrder'
       /\ BytesMatchQueue' /\ PacketConservation'
    BY <1>11, QueuesUntouched DEF GoroutinesTyped, Unqueued, LoopDefault,
       LoopGoto, WriterOffers, ReaderOffers
  <2>. QED
    BY <2>1, <2>2, <2>3, <2>4, <2>5
<1>12. ASSUME NEW x \in Streams, LoopSize(x) PROVE IInv'
  <2>1. LocksTyped' /\ GoroutinesTyped'
    BY <1>12 DEF LocksTyped, GoroutinesTyped, MediaStates, LoopStates,
       ReaderStates, StatsStates, CloserStates, LoopSize, LoopGoto
  <2>2. Live' = Live
    BY <1>12 DEF Live, GoroutinesTyped, LoopSize, LoopGoto
  <2>3. WaitGroupCounts'
    BY <1>12, <2>2 DEF WaitGroupCounts, LoopSize, LoopGoto
  <2>4. LocksHeld' /\ LoopsBound' /\ LoopsJoined'
    BY <1>12, <2>2 DEF LocksTyped, GoroutinesTyped, LocksHeld, LoopsBound,
       LoopsJoined, LoopSize, LoopGoto
  <2>5. /\ PacketsTyped' /\ QueueInOrder'
       /\ BytesMatchQueue' /\ PacketConservation'
    BY <1>12, QueuesUntouched DEF GoroutinesTyped, Unqueued, LoopSize, LoopGoto
  <2>. QED
    BY <2>1, <2>2, <2>3, <2>4, <2>5
<1>13. ASSUME NEW x \in Streams, LoopGranted(x) PROVE IInv'
  <2>1. LocksTyped' /\ GoroutinesTyped'
    BY <1>13 DEF LocksTyped, GoroutinesTyped, MediaStates, LoopStates,
       ReaderStates, StatsStates, CloserStates, LoopGranted, LoopGoto
  <2>2. Live' = Live
    BY <1>13 DEF Live, GoroutinesTyped, LoopGranted, LoopGoto
  <2>3. WaitGroupCounts'
    BY <1>13, <2>2 DEF WaitGroupCounts, LoopGranted, LoopGoto
  <2>4. LocksHeld' /\ LoopsBound' /\ LoopsJoined'
    BY <1>13, <2>2 DEF LocksTyped, GoroutinesTyped, LocksHeld, LoopsBound,
       LoopsJoined, LoopGranted, LoopGoto
  <2>5. /\ PacketsTyped' /\ QueueInOrder'
       /\ BytesMatchQueue' /\ PacketConservation'
    BY <1>13, QueuesUntouched DEF GoroutinesTyped, Unqueued, LoopGranted,
       LoopGoto
  <2>. QED
    BY <2>1, <2>2, <2>3, <2>4, <2>5
<1>14. ASSUME NEW x \in Streams, LoopDenied(x) PROVE IInv'
  <2>1. LocksTyped' /\ GoroutinesTyped'
    BY <1>14 DEF LocksTyped, GoroutinesTyped, MediaStates, LoopStates,
       ReaderStates, StatsStates, CloserStates, LoopDenied, LoopGoto
  <2>2. Live' = Live
    BY <1>14 DEF Live, GoroutinesTyped, LoopDenied, LoopGoto
  <2>3. WaitGroupCounts'
    BY <1>14, <2>2 DEF WaitGroupCounts, LoopDenied, LoopGoto
  <2>4. LocksHeld' /\ LoopsBound' /\ LoopsJoined'
    BY <1>14, <2>2 DEF LocksTyped, GoroutinesTyped, LocksHeld, LoopsBound,
       LoopsJoined, LoopDenied, LoopGoto
  <2>5. /\ PacketsTyped' /\ QueueInOrder'
       /\ BytesMatchQueue' /\ PacketConservation'
    BY <1>14, QueuesUntouched DEF GoroutinesTyped, Unqueued, LoopDenied,
       LoopGoto
  <2>. QED
    BY <2>1, <2>2, <2>3, <2>4, <2>5
<1>15. ASSUME NEW x \in Streams, LoopDequeueNil(x) PROVE IInv'
  <2>1. LocksTyped' /\ GoroutinesTyped'
    BY <1>15 DEF LocksTyped, GoroutinesTyped, MediaStates, LoopStates,
       ReaderStates, StatsStates, CloserStates, LoopDequeueNil, LoopGoto
  <2>2. Live' = Live
    BY <1>15 DEF Live, GoroutinesTyped, LoopDequeueNil, LoopGoto
  <2>3. WaitGroupCounts'
    BY <1>15, <2>2 DEF WaitGroupCounts, LoopDequeueNil, LoopGoto
  <2>4. LocksHeld' /\ LoopsBound' /\ LoopsJoined'
    BY <1>15, <2>2 DEF LocksTyped, GoroutinesTyped, LocksHeld, LoopsBound,
       LoopsJoined, LoopDequeueNil, LoopGoto
  <2>5. /\ PacketsTyped' /\ QueueInOrder'
       /\ BytesMatchQueue' /\ PacketConservation'
    BY <1>15, QueuesUntouched DEF GoroutinesTyped, Unqueued, LoopDequeueNil,
       LoopGoto
  <2>. QED
    BY <2>1, <2>2, <2>3, <2>4, <2>5
<1>16. ASSUME NEW x \in Streams, LoopDequeue(x) PROVE IInv'
  <2>1. LocksTyped' /\ GoroutinesTyped'
    BY <1>16 DEF LocksTyped, GoroutinesTyped, MediaStates, LoopStates,
       ReaderStates, StatsStates, CloserStates, LoopDequeue, Dequeue,
       MarshalSize
  <2>2. Live' = Live
    BY <1>16 DEF Live, GoroutinesTyped, LoopDequeue, Dequeue, MarshalSize
  <2>3. WaitGroupCounts'
    BY <1>16, <2>2 DEF WaitGroupCounts, LoopDequeue, Dequeue, MarshalSize
  <2>4. LocksHeld' /\ LoopsBound' /\ LoopsJoined'
    BY <1>16, <2>2 DEF LocksTyped, GoroutinesTyped, LocksHeld, LoopsBound,
       LoopsJoined, LoopDequeue, Dequeue, MarshalSize
  <2>5. /\ PacketsTyped' /\ QueueInOrder'
       /\ BytesMatchQueue' /\ PacketConservation'
    BY <1>16, LoopDequeueKeepsQueues
  <2>. QED
    BY <2>1, <2>2, <2>3, <2>4, <2>5
<1>17. ASSUME NEW x \in Streams, LoopWrite(x) PROVE IInv'
  <2>1. LocksTyped' /\ GoroutinesTyped'
    BY <1>17 DEF LocksTyped, GoroutinesTyped, MediaStates, LoopStates,
       ReaderStates, StatsStates, CloserStates, LoopWrite
  <2>2. Live' = Live
    BY <1>17 DEF Live, GoroutinesTyped, LoopWrite
  <2>3. WaitGroupCounts'
    BY <1>17, <2>2 DEF WaitGroupCounts, LoopWrite
  <2>4. LocksHeld' /\ LoopsBound' /\ LoopsJoined'
    BY <1>17, <2>2 DEF LocksTyped, GoroutinesTyped, LocksHeld, LoopsBound,
       LoopsJoined, LoopWrite
  <2>5. /\ PacketsTyped' /\ QueueInOrder'
       /\ BytesMatchQueue' /\ PacketConservation'
    BY <1>17, LoopWriteKeepsQueues
  <2>. QED
    BY <2>1, <2>2, <2>3, <2>4, <2>5
<1>18. ASSUME NEW x \in Streams, LoopReport(x) PROVE IInv'
  <2>1. LocksTyped' /\ GoroutinesTyped'
    BY <1>18 DEF LocksTyped, GoroutinesTyped, MediaStates, LoopStates,
       ReaderStates, StatsStates, CloserStates, LoopReport
  <2>2. Live' = Live
    BY <1>18 DEF Live, GoroutinesTyped, LoopReport
  <2>3. WaitGroupCounts'
    BY <1>18, <2>2 DEF WaitGroupCounts, LoopReport
  <2>4. LocksHeld' /\ LoopsBound' /\ LoopsJoined'
    BY <1>18, <2>2 DEF LocksTyped, GoroutinesTyped, LocksHeld, LoopsBound,
       LoopsJoined, LoopReport
  <2>5. PacketsTyped'
    BY <1>18, SizesAssumption DEF PacketsTyped, LoopReport
  <2>6. QueueInOrder'
    <3>. SUFFICES ASSUME NEW y \in Streams
                  PROVE  InOrder(y)'
      BY DEF QueueInOrder
    <3>1. CASE y = x
      BY <1>18, <3>1 DEF PacketsTyped, GoroutinesTyped, QueueInOrder, InOrder,
         Taken, LoopReport
    <3>2. CASE y # x
      BY <1>18, <3>2 DEF PacketsTyped, GoroutinesTyped, QueueInOrder, InOrder,
         Taken, LoopReport
    <3>. QED
      BY <3>1, <3>2
  <2>7. BytesMatchQueue'
    BY <1>18 DEF BytesMatchQueue, Taken, LoopReport
  <2>8. PacketConservation'
    BY <1>18 DEF GoroutinesTyped, PacketConservation, LoopReport
  <2>. QED
    BY <2>1, <2>2, <2>3, <2>4, <2>5, <2>6, <2>7, <2>8
<1>19. ASSUME ReadReport PROVE IInv'
  <2>1. LocksTyped' /\ GoroutinesTyped'
    BY <1>19 DEF LocksTyped, GoroutinesTyped, MediaStates, LoopStates,
       ReaderStates, StatsStates, CloserStates, ReadReport, Reports
  <2>2. Live' = Live
    BY <1>19 DEF Live, GoroutinesTyped, ReadReport, Reports
  <2>3. WaitGroupCounts'
    BY <1>19, <2>2 DEF WaitGroupCounts, ReadReport, Reports
  <2>4. LocksHeld' /\ LoopsBound' /\ LoopsJoined'
    BY <1>19, <2>2 DEF LocksTyped, GoroutinesTyped, LocksHeld, LoopsBound,
       LoopsJoined, ReadReport, Reports
  <2>5. /\ PacketsTyped' /\ QueueInOrder'
       /\ BytesMatchQueue' /\ PacketConservation'
    BY <1>19, QueuesUntouched DEF GoroutinesTyped, Unqueued, ReadReport, Reports
  <2>. QED
    BY <2>1, <2>2, <2>3, <2>4, <2>5
<1>20. ASSUME IncomingFeedback PROVE IInv'
  <2>1. LocksTyped' /\ GoroutinesTyped'
    BY <1>20 DEF LocksTyped, GoroutinesTyped, MediaStates, LoopStates,
       ReaderStates, StatsStates, CloserStates, IncomingFeedback, TxMayClear,
       Clear
  <2>2. Live' = Live
    BY <1>20 DEF Live, GoroutinesTyped, IncomingFeedback, TxMayClear, Clear
  <2>3. WaitGroupCounts'
    BY <1>20, <2>2 DEF WaitGroupCounts, IncomingFeedback, TxMayClear, Clear
  <2>4. LocksHeld' /\ LoopsBound' /\ LoopsJoined'
    BY <1>20, <2>2 DEF LocksTyped, GoroutinesTyped, LocksHeld, LoopsBound,
       LoopsJoined, IncomingFeedback, TxMayClear, Clear
  <2>5. /\ PacketsTyped' /\ QueueInOrder'
       /\ BytesMatchQueue' /\ PacketConservation'
    BY <1>20, ClearKeepsQueues DEF LocksTyped, GoroutinesTyped, Unqueued,
       IncomingFeedback
  <2>. QED
    BY <2>1, <2>2, <2>3, <2>4, <2>5
<1>21. ASSUME NotifyStream PROVE IInv'
  <2>1. LocksTyped'
    BY <1>21 DEF LocksTyped, NotifyStream
  <2>2. GoroutinesTyped'
    BY <1>21 DEF GoroutinesTyped, MediaStates, LoopStates, ReaderStates,
       StatsStates, CloserStates, NotifyStream
  <2>3. Live' = Live
    BY <1>21 DEF Live, GoroutinesTyped, NotifyStream
  <2>4. WaitGroupCounts'
    BY <1>21, <2>3 DEF WaitGroupCounts, NotifyStream
  <2>5. LocksHeld' /\ LoopsBound' /\ LoopsJoined'
    BY <1>21, <2>3 DEF LocksTyped, GoroutinesTyped, LocksHeld, LoopsBound,
       LoopsJoined, NotifyStream
  <2>6. /\ PacketsTyped' /\ QueueInOrder'
       /\ BytesMatchQueue' /\ PacketConservation'
    BY <1>21, QueuesUntouched DEF GoroutinesTyped, Unqueued, NotifyStream
  <2>. QED
    BY <2>1, <2>2, <2>3, <2>4, <2>5, <2>6
<1>22. ASSUME SkipStream PROVE IInv'
  <2>1. LocksTyped' /\ GoroutinesTyped'
    BY <1>22 DEF LocksTyped, GoroutinesTyped, MediaStates, LoopStates,
       ReaderStates, StatsStates, CloserStates, SkipStream
  <2>2. Live' = Live
    BY <1>22 DEF Live, GoroutinesTyped, SkipStream
  <2>3. WaitGroupCounts'
    BY <1>22, <2>2 DEF WaitGroupCounts, SkipStream
  <2>4. LocksHeld' /\ LoopsBound' /\ LoopsJoined'
    BY <1>22, <2>2 DEF LocksTyped, GoroutinesTyped, LocksHeld, LoopsBound,
       LoopsJoined, SkipStream
  <2>5. /\ PacketsTyped' /\ QueueInOrder'
       /\ BytesMatchQueue' /\ PacketConservation'
    BY <1>22, QueuesUntouched DEF GoroutinesTyped, Unqueued, SkipStream
  <2>. QED
    BY <2>1, <2>2, <2>3, <2>4, <2>5
<1>23. ASSUME ReadReturn PROVE IInv'
  <2>1. LocksTyped' /\ GoroutinesTyped'
    BY <1>23 DEF LocksTyped, GoroutinesTyped, MediaStates, LoopStates,
       ReaderStates, StatsStates, CloserStates, ReadReturn
  <2>2. Live' = Live
    BY <1>23 DEF Live, GoroutinesTyped, ReadReturn
  <2>3. WaitGroupCounts'
    BY <1>23, <2>2 DEF WaitGroupCounts, ReadReturn
  <2>4. LocksHeld' /\ LoopsBound' /\ LoopsJoined'
    BY <1>23, <2>2 DEF LocksTyped, GoroutinesTyped, LocksHeld, LoopsBound,
       LoopsJoined, ReadReturn
  <2>5. /\ PacketsTyped' /\ QueueInOrder'
       /\ BytesMatchQueue' /\ PacketConservation'
    BY <1>23, QueuesUntouched DEF GoroutinesTyped, Unqueued, ReadReturn
  <2>. QED
    BY <2>1, <2>2, <2>3, <2>4, <2>5
<1>24. ASSUME StatsCall PROVE IInv'
  <2>1. LocksTyped' /\ GoroutinesTyped'
    BY <1>24 DEF LocksTyped, GoroutinesTyped, MediaStates, LoopStates,
       ReaderStates, StatsStates, CloserStates, StatsCall, allButStats
  <2>2. Live' = Live
    BY <1>24 DEF Live, GoroutinesTyped, StatsCall, allButStats
  <2>3. WaitGroupCounts'
    BY <1>24, <2>2 DEF WaitGroupCounts, StatsCall, allButStats
  <2>4. LocksHeld' /\ LoopsBound' /\ LoopsJoined'
    BY <1>24, <2>2 DEF LocksTyped, GoroutinesTyped, LocksHeld, LoopsBound,
       LoopsJoined, StatsCall, allButStats
  <2>5. /\ PacketsTyped' /\ QueueInOrder'
       /\ BytesMatchQueue' /\ PacketConservation'
    BY <1>24, QueuesUntouched DEF GoroutinesTyped, Unqueued, StatsCall,
       allButStats
  <2>. QED
    BY <2>1, <2>2, <2>3, <2>4, <2>5
<1>25. ASSUME StatsLookup PROVE IInv'
  <2>1. LocksTyped' /\ GoroutinesTyped'
    BY <1>25 DEF LocksTyped, GoroutinesTyped, MediaStates, LoopStates,
       ReaderStates, StatsStates, CloserStates, StatsLookup, allButStats
  <2>2. Live' = Live
    BY <1>25 DEF Live, GoroutinesTyped, StatsLookup, allButStats
  <2>3. WaitGroupCounts'
    BY <1>25, <2>2 DEF WaitGroupCounts, StatsLookup, allButStats
  <2>4. LocksHeld' /\ LoopsBound' /\ LoopsJoined'
    BY <1>25, <2>2 DEF LocksTyped, GoroutinesTyped, LocksHeld, LoopsBound,
       LoopsJoined, StatsLookup, allButStats
  <2>5. /\ PacketsTyped' /\ QueueInOrder'
       /\ BytesMatchQueue' /\ PacketConservation'
    BY <1>25, QueuesUntouched DEF GoroutinesTyped, Unqueued, StatsLookup,
       allButStats
  <2>. QED
    BY <2>1, <2>2, <2>3, <2>4, <2>5
<1>26. ASSUME StatsTx PROVE IInv'
  <2>1. LocksTyped' /\ GoroutinesTyped'
    BY <1>26 DEF LocksTyped, GoroutinesTyped, MediaStates, LoopStates,
       ReaderStates, StatsStates, CloserStates, StatsTx, allButStats
  <2>2. Live' = Live
    BY <1>26 DEF Live, GoroutinesTyped, StatsTx, allButStats
  <2>3. WaitGroupCounts'
    BY <1>26, <2>2 DEF WaitGroupCounts, StatsTx, allButStats
  <2>4. LocksHeld' /\ LoopsBound' /\ LoopsJoined'
    BY <1>26, <2>2 DEF LocksTyped, GoroutinesTyped, LocksHeld, LoopsBound,
       LoopsJoined, StatsTx, allButStats
  <2>5. /\ PacketsTyped' /\ QueueInOrder'
       /\ BytesMatchQueue' /\ PacketConservation'
    BY <1>26, QueuesUntouched DEF GoroutinesTyped, Unqueued, StatsTx,
       allButStats
  <2>. QED
    BY <2>1, <2>2, <2>3, <2>4, <2>5
<1>27. ASSUME CloseBegin PROVE IInv'
  <2>1. LocksTyped'
    BY <1>27 DEF LocksTyped, CloseBegin
  <2>2. GoroutinesTyped'
    BY <1>27 DEF GoroutinesTyped, MediaStates, LoopStates, ReaderStates,
       StatsStates, CloserStates, CloseBegin
  <2>3. Live' = Live
    BY <1>27 DEF Live, GoroutinesTyped, CloseBegin
  <2>4. WaitGroupCounts'
    BY <1>27, <2>3 DEF WaitGroupCounts, CloseBegin
  <2>5. LocksHeld' /\ LoopsBound' /\ LoopsJoined'
    BY <1>27, <2>3 DEF LocksTyped, GoroutinesTyped, LocksHeld, LoopsBound,
       LoopsJoined, CloseBegin
  <2>6. /\ PacketsTyped' /\ QueueInOrder'
       /\ BytesMatchQueue' /\ PacketConservation'
    BY <1>27, QueuesUntouched DEF GoroutinesTyped, Unqueued, CloseBegin
  <2>. QED
    BY <2>1, <2>2, <2>3, <2>4, <2>5, <2>6
<1>28. ASSUME CloseReturn PROVE IInv'
  <2>1. LocksTyped' /\ GoroutinesTyped'
    BY <1>28 DEF LocksTyped, GoroutinesTyped, MediaStates, LoopStates,
       ReaderStates, StatsStates, CloserStates, CloseReturn
  <2>2. Live' = Live
    BY <1>28 DEF Live, GoroutinesTyped, CloseReturn
  <2>3. WaitGroupCounts'
    BY <1>28, <2>2 DEF WaitGroupCounts, CloseReturn
  <2>4. Live = {}
    BY <1>28, LiveFinite, FS_EmptySet DEF WaitGroupCounts, CloseReturn
  <2>5. LocksHeld' /\ LoopsBound' /\ LoopsJoined'
    BY <1>28, <2>2, <2>4 DEF LocksTyped, GoroutinesTyped, LocksHeld, LoopsBound,
       LoopsJoined, CloseReturn
  <2>6. /\ PacketsTyped' /\ QueueInOrder'
       /\ BytesMatchQueue' /\ PacketConservation'
    BY <1>28, QueuesUntouched DEF GoroutinesTyped, Unqueued, CloseReturn
  <2>. QED
    BY <2>1, <2>2, <2>3, <2>4, <2>5, <2>6
<1>. QED
  BY <1>1, <1>2, <1>3, <1>4, <1>5, <1>6, <1>7, <1>8, <1>9, <1>10, <1>11, <1>12,
     <1>13, <1>14, <1>15, <1>16, <1>17, <1>18, <1>19, <1>20, <1>21, <1>22,
     <1>23, <1>24, <1>25, <1>26, <1>27, <1>28 DEF Next, Media, Select, Transmit,
     Reader, Stats, Closer

(* The invariant holds in every reachable state of the interceptor.        *)
THEOREM Invariance == SafeSpec => []IInv
<1>1. ASSUME IInv, UNCHANGED vars PROVE IInv'
  <2>. USE DEF IInv, TypeOK
  <2>1. LocksTyped' /\ GoroutinesTyped'
    BY <1>1 DEF vars, LocksTyped, GoroutinesTyped
  <2>2. Live' = Live
    BY <1>1 DEF vars, Live
  <2>3. WaitGroupCounts' /\ LocksHeld' /\ LoopsBound' /\ LoopsJoined'
    BY <1>1, <2>2 DEF vars, WaitGroupCounts, LocksHeld, LoopsBound, LoopsJoined
  <2>4. PacketsTyped' /\ QueueInOrder' /\ BytesMatchQueue' /\ PacketConservation'
    BY <1>1, QueuesUntouched DEF vars, queueVars, sentVars
  <2>. QED
    BY <2>1, <2>3, <2>4
<1>. QED
  BY InitIInv, NextIInv, <1>1, PTL DEF SafeSpec

(* Every variable keeps its type, for any streams and any number of        *)
(* packets: the goroutines of sender_interceptor.go stay at their points,  *)
(* and the queues of rtp_queue.go hold packets that were written.          *)
THEOREM TypeCorrect == SafeSpec => []TypeOK
BY Invariance, PTL DEF IInv

(* Close of sender_interceptor.go joins: when it has returned no send loop *)
(* is running and none will start, whatever binds raced with it.           *)
THEOREM CloseJoins == SafeSpec => []LoopsJoined
BY Invariance, PTL DEF IInv

(* Across Enqueue, Dequeue and Clear in any order, the byte counter of     *)
(* rtp_queue.go is the size of what its list holds, whatever the sizes.    *)
THEOREM BytesCorrect == SafeSpec => []BytesMatchQueue
BY Invariance, PTL DEF IInv

(* The interceptor neither loses nor duplicates a packet: each one written *)
(* is queued, in the hands of the loop, sent, or thrown away by Clear.     *)
THEOREM PacketsConserved == SafeSpec => []PacketConservation
BY Invariance, PTL DEF IInv

-----------------------------------------------------------------------------
(* What the reader waits for while it holds rtpStreamsMu.                  *)

(* A report is on streams that have sent, and a stream that is controlled  *)
(* sends nothing before its loop has looked it up.                         *)
ReportsHeard == \A i \in 1..Len(ssrcs) : sent[ssrcs[i]] > 0

SendsStarted ==
  \A x \in Streams : sent[x] > 0 => media[x] = "bare" \/ loop[x] \notin {"none", "start"}

(* What has been sent stays sent.                                          *)
LEMMA SentGrows ==
  ASSUME TypeOK, [Next]_vars
  PROVE  \A x \in Streams : sent[x] > 0 => sent'[x] > 0
<1>. USE DEF sentVars
<1>1. ASSUME NEW x \in Streams, sent' = [sent EXCEPT ![x] = @ + 1]
      PROVE  \A y \in Streams : sent[y] > 0 => sent'[y] > 0
  <2>1. \A y \in Streams : sent[y] \in Int /\ sent'[y] = IF y = x THEN sent[y] + 1 ELSE sent[y]
    BY <1>1 DEF TypeOK, PacketsTyped
  <2>. QED
    BY <2>1
<1>2. ASSUME NEW x \in Streams, WriteBare(x) \/ LoopWrite(x)
      PROVE  \A y \in Streams : sent[y] > 0 => sent'[y] > 0
  BY <1>1, <1>2 DEF WriteBare, LoopWrite
<1>3. ASSUME NEW x \in Streams, Media(x) \/ Select(x) \/ Transmit(x), ~WriteBare(x), ~LoopWrite(x)
      PROVE  UNCHANGED sent
  BY <1>3 DEF Media, BindBare, BindBegin, BindRegister, WriteEnqueue, WriteNewFrame,
              Select, WakeByWriter, WakeByReader, LoopLeave, LoopDefault,
              Transmit, LoopStart, LoopSize, LoopGranted, LoopDenied, LoopDequeueNil,
              LoopDequeue, LoopReport, LoopGoto
<1>4. CASE Reader \/ Stats \/ Closer \/ UNCHANGED vars
  BY <1>4 DEF Reader, ReadReport, IncomingFeedback, NotifyStream, SkipStream, ReadReturn,
              Stats, StatsCall, StatsLookup, StatsTx, allButStats,
              Closer, CloseBegin, CloseReturn, vars
<1>. QED
  BY <1>2, <1>3, <1>4 DEF Next

(* The reader goes through the report, and only a new one brings others.   *)
LEMMA ReportShrinks ==
  ASSUME TypeOK, LocksHeld, [Next]_vars
  PROVE  \/ UNCHANGED ssrcs
         \/ ssrcs # <<>> /\ ssrcs' = Tail(ssrcs)
         \/ ReadReport
<1>1. ASSUME NEW x \in Streams, Media(x) \/ Select(x) \/ Transmit(x), ~WakeByReader(x)
      PROVE  UNCHANGED ssrcs
  BY <1>1 DEF Media, BindBare, BindBegin, BindRegister, WriteBare, WriteEnqueue, WriteNewFrame,
              Select, WakeByWriter, LoopLeave, LoopDefault, Transmit, LoopStart, LoopSize,
              LoopGranted, LoopDenied, LoopDequeueNil, LoopDequeue, LoopWrite, LoopReport,
              LoopGoto, readerVars
<1>2. ASSUME NEW x \in Streams, WakeByReader(x)
      PROVE  ssrcs # <<>> /\ ssrcs' = Tail(ssrcs)
  BY <1>2 DEF WakeByReader, ReaderOffers, LocksHeld
<1>3. CASE Reader
  BY <1>3 DEF Reader, IncomingFeedback, NotifyStream, SkipStream, ReadReturn
<1>4. CASE Stats \/ Closer \/ UNCHANGED vars
  BY <1>4 DEF Stats, StatsCall, StatsLookup, StatsTx, allButStats, Closer, CloseBegin,
              CloseReturn, vars, readerVars
<1>. QED
  BY <1>1, <1>2, <1>3, <1>4 DEF Next

LEMMA HeardStep ==
  ASSUME IInv, ReportsHeard, [Next]_vars
  PROVE  ReportsHeard'
<1>1. /\ ssrcs \in Seq(Streams)
      /\ \A x \in Streams : sent[x] > 0 => sent'[x] > 0
  BY SentGrows DEF IInv, TypeOK, GoroutinesTyped
<1>2. CASE UNCHANGED ssrcs
  <2>1. \A i \in 1..Len(ssrcs) : ssrcs[i] \in Streams
    BY <1>1, ElementOfSeq
  <2>. QED
    BY <1>1, <1>2, <2>1 DEF ReportsHeard
<1>3. CASE ssrcs # <<>> /\ ssrcs' = Tail(ssrcs)
  <2>1. \A i \in 1..Len(ssrcs) : ssrcs[i] \in Streams
    BY <1>1, ElementOfSeq
  <2>2. \A i \in 1..Len(ssrcs') : i + 1 \in 1..Len(ssrcs) /\ ssrcs'[i] = ssrcs[i + 1]
    BY <1>1, <1>3
  <2>. QED
    BY <1>1, <2>1, <2>2 DEF ReportsHeard
<1>4. CASE ReadReport
  <2>1. PICK n \in Nat : /\ ssrcs' \in [1..n -> {x \in Streams : sent[x] > 0}]
    BY <1>4 DEF ReadReport, Reports
  <2>2. ssrcs' \in Seq({x \in Streams : sent[x] > 0}) /\ Len(ssrcs') = n
    BY <2>1
  <2>3. \A i \in 1..Len(ssrcs') : ssrcs'[i] \in Streams /\ sent[ssrcs'[i]] > 0
    BY <2>1, <2>2
  <2>. QED
    BY <1>1, <2>3 DEF ReportsHeard
<1>. QED
  BY <1>2, <1>3, <1>4, ReportShrinks DEF IInv

LEMMA StartedStep ==
  ASSUME IInv, SendsStarted, [Next]_vars
  PROVE  SendsStarted'
<1>. USE DEF sentVars
<1>1. /\ media \in [Streams -> MediaStates] /\ loop \in [Streams -> LoopStates]
      /\ sent \in [Streams -> Int]
  BY DEF IInv, TypeOK, GoroutinesTyped, PacketsTyped
<1>2. ASSUME NEW x \in Streams, Media(x), ~WriteBare(x)
      PROVE  SendsStarted'
  <2>1. sent' = sent /\ \A y \in Streams \ {x} : media'[y] = media[y] /\ loop'[y] = loop[y]
    BY <1>1, <1>2 DEF Media, BindBare, BindBegin, BindRegister, WriteEnqueue, WriteNewFrame
  <2>2. /\ media[x] = "bare" => media'[x] = "bare"
        /\ loop[x] \notin {"none", "start"} => loop'[x] = loop[x]
    BY <1>1, <1>2 DEF Media, BindBare, BindBegin, BindRegister, WriteEnqueue, WriteNewFrame,
                      IInv, LoopsBound
  <2>. QED
    BY <2>1, <2>2 DEF SendsStarted
<1>3. ASSUME NEW x \in Streams, WriteBare(x)
      PROVE  SendsStarted'
  <2>1. /\ media' = media /\ loop' = loop /\ media[x] = "bare"
        /\ \A y \in Streams \ {x} : sent'[y] = sent[y]
    BY <1>1, <1>3 DEF WriteBare
  <2>. QED
    BY <2>1 DEF SendsStarted
<1>4. ASSUME NEW x \in Streams, Select(x) \/ Transmit(x)
      PROVE  SendsStarted'
  <2>1. \A y \in Streams \ {x} : sent'[y] = sent[y] /\ loop'[y] = loop[y] /\ media'[y] = media[y]
    BY <1>1, <1>4 DEF Select, WakeByWriter, WakeByReader, LoopLeave, LoopDefault, Transmit,
          LoopStart, LoopSize, LoopGranted, LoopDenied, LoopDequeueNil, LoopDequeue, LoopWrite,
          LoopReport, LoopGoto
  <2>2. loop'[x] \notin {"none", "start"}
    BY <1>1, <1>4 DEF Select, WakeByWriter, WakeByReader, LoopLeave, LoopDefault, Transmit,
          LoopStart, LoopSize, LoopGranted, LoopDenied, LoopDequeueNil, LoopDequeue, LoopWrite,
          LoopReport, LoopGoto
  <2>. QED
    BY <2>1, <2>2 DEF SendsStarted
<1>5. CASE Reader \/ Stats \/ Closer \/ UNCHANGED vars
  <2>1. UNCHANGED <<media, loop, sent>>
    BY <1>5 DEF Reader, ReadReport, IncomingFeedback, NotifyStream, SkipStream, ReadReturn,
                Stats, StatsCall, StatsLookup, StatsTx, allButStats,
                Closer, CloseBegin, CloseReturn, vars
  <2>. QED
    BY <2>1 DEF SendsStarted
<1>. QED
  BY <1>2, <1>3, <1>4, <1>5 DEF Next

(* A stream that is in the map and has sent has a loop past its look-up,   *)
(* and the loop waits only for m, which only a bind holds across a step.   *)
LEMMA OfferMet ==
  ASSUME IInv, ReportsHeard, SendsStarted
  PROVE  OfferMeetsLoop
<1>. SUFFICES ASSUME reader = "notify"
              PROVE  \/ LoopRuns(Head(ssrcs))
                     \/ \E y \in Streams : y # Head(ssrcs) /\ m = y /\ media[y] = "binding"
                     \/ loop[Head(ssrcs)] = "done"
  BY DEF OfferMeetsLoop
<1>. DEFINE x == Head(ssrcs)
<1>1. /\ ssrcs \in Seq(Streams) /\ ssrcs # <<>> /\ x \in rtpStreams
      /\ media \in [Streams -> MediaStates] /\ loop \in [Streams -> LoopStates]
      /\ m \in Streams \cup {None}
  BY DEF IInv, TypeOK, LocksTyped, GoroutinesTyped, LocksHeld
<1>2. x \in Streams /\ sent[x] > 0
  <2>1. 1 \in 1..Len(ssrcs) /\ x = ssrcs[1]
    BY <1>1
  <2>2. x \in Streams
    BY <1>1 DEF IInv, TypeOK, LocksTyped
  <2>. QED
    BY <2>1, <2>2 DEF ReportsHeard
<1>. HIDE DEF x
<1>3. loop[x] # "none" /\ media[x] \in {"idle", "newFrame", "notify"}
  BY <1>1, <1>2 DEF IInv, LoopsBound
<1>4. loop[x] # "start"
  BY <1>2, <1>3 DEF SendsStarted
<1>5. m # None => m \in Streams /\ m # x /\ media[m] = "binding"
  BY <1>1, <1>2, <1>3 DEF IInv, LocksHeld
<1>6. LoopRuns(x) \/ loop[x] = "done" \/ m # None
  BY <1>1, <1>2, <1>3, <1>4 DEF LoopRuns, LoopStates
<1>. QED
  BY <1>5, <1>6 DEF x

(* The reader, which holds rtpStreamsMu while it offers a wake-up, never   *)
(* waits for a loop that waits for it, unless another stream is being      *)
(* bound: of any number of streams it takes two to deadlock.               *)
THEOREM OffersMet == SafeSpec => []OfferMeetsLoop
<1>1. Init => ReportsHeard /\ SendsStarted
  BY DEF Init, ReportsHeard, SendsStarted
<1>. QED
  BY <1>1, HeardStep, StartedStep, OfferMet, Invariance, PTL DEF SafeSpec

-----------------------------------------------------------------------------
(* The refinement of RTPPipe.                                              *)

(* A step that moves no packet is a stuttering step of the pipe.           *)
LEMMA PipeStutters ==
  ASSUME UNCHANGED <<produced, queue, lastSent>>,
         (closer = "closed")' = (closer = "closed"),
         \A y \in Streams : /\ loop'[y] = "write" <=> loop[y] = "write"
                            /\ loop[y] = "write" => packet'[y] = packet[y]
  PROVE  UNCHANGED Pipe!pipeVars
<1>1. pending' = pending
  BY DEF pending
<1>. QED
  BY <1>1 DEF Pipe!pipeVars

(* What tx clears is a flush of the pipe that spares what is on its way.   *)
LEMMA ClearFlushes ==
  ASSUME PacketsTyped, NEW S \in SUBSET Streams, TxMayClear(S),
         UNCHANGED <<produced, packet, lastSent, loop, closer>>
  PROVE  Pipe!Flush
<1>1. PICK D \in SUBSET S : Clear(D)
  BY DEF TxMayClear
<1>. DEFINE E == {x \in D : loop[x] = "write"}
<1>2. ASSUME NEW x \in Streams, loop[x] = "write"
      PROVE  /\ pending[x] = <<packet[x]>> \o queue[x]
             /\ pending[x] # <<>> /\ Head(pending[x]) = packet[x]
  <2>1. queue[x] \in Seq(Nat) /\ packet[x] \in Nat
    BY QueuesOfNumbers
  <2>2. pending[x] = <<packet[x]>> \o queue[x]
    BY <1>2 DEF pending
  <2>. QED
    BY <2>1, <2>2
<1>3. E \in SUBSET {x \in Streams : pending[x] # <<>>}
  BY <1>2
<1>4. ASSUME NEW x \in Streams
      PROVE  pending'[x] = IF x \in E THEN <<Head(pending[x])>>
                           ELSE IF x \in D THEN <<>> ELSE pending[x]
  <2>1. pending'[x] = IF loop[x] = "write" THEN <<packet[x]>> \o queue'[x]
                                          ELSE queue'[x]
    BY DEF pending
  <2>2. queue'[x] = IF x \in D THEN <<>> ELSE queue[x]
    BY <1>1 DEF Clear
  <2>3. CASE x \in E
    <3>1. pending'[x] = <<packet[x]>> \o <<>>
      BY <2>1, <2>2, <2>3
    <3>2. <<packet[x]>> \o <<>> = <<packet[x]>>
      OBVIOUS
    <3>. QED
      BY <1>2, <2>3, <3>1, <3>2
  <2>4. CASE x \in D /\ x \notin E
    BY <2>1, <2>2, <2>4
  <2>5. CASE x \notin D
    BY <2>1, <2>2, <2>5 DEF pending
  <2>. QED
    BY <2>3, <2>4, <2>5
<1>5. pending' = [x \in Streams |-> IF x \in E THEN <<Head(pending[x])>>
                                    ELSE IF x \in D THEN <<>> ELSE pending[x]]
  BY <1>4 DEF pending
<1>6. D \in SUBSET Streams
  OBVIOUS
<1>. QED
  BY <1>3, <1>5, <1>6 DEF Pipe!Flush

(* Every step of the interceptor is a step of RTPPipe or leaves the pipe   *)
(* as it is.                                                               *)
LEMMA PipeStep == ASSUME IInv, Next PROVE Pipe!Next \/ UNCHANGED Pipe!pipeVars
<1>. USE DEF queueVars, lockVars, readerVars, sentVars, closeVars
<1>0. PacketsTyped /\ GoroutinesTyped
  BY DEF IInv, TypeOK
<1>1. ASSUME NEW x \in Streams, BindBare(x)
      PROVE  Pipe!Next \/ UNCHANGED Pipe!pipeVars
  BY <1>0, <1>1, PipeStutters DEF BindBare, GoroutinesTyped
<1>2. ASSUME NEW x \in Streams, BindBegin(x)
      PROVE  Pipe!Next \/ UNCHANGED Pipe!pipeVars
  BY <1>0, <1>2, PipeStutters DEF BindBegin, GoroutinesTyped
<1>3. ASSUME NEW x \in Streams, BindRegister(x)
      PROVE  Pipe!Next \/ UNCHANGED Pipe!pipeVars
  <2>1. loop[x] = "none" /\ loop' = [loop EXCEPT ![x] = "start"]
    BY <1>3 DEF BindRegister, IInv, LoopsBound
  <2>. QED
    BY <1>0, <1>3, <2>1, PipeStutters DEF BindRegister, GoroutinesTyped
<1>4. ASSUME NEW x \in Streams, WriteBare(x)
      PROVE  Pipe!Next \/ UNCHANGED Pipe!pipeVars
  <2>1. media[x] = "bare" /\ produced[x] < MaxPackets
        /\ loop[x] = "none" /\ queue[x] = <<>>
    BY <1>4 DEF WriteBare, IInv, LoopsBound, QueueInOrder, InOrder
  <2>2. pending' = pending /\ pending[x] = <<>>
    BY <1>4, <2>1 DEF WriteBare, pending
  <2>3. Pipe!Forward(x)
    BY <1>4, <2>1, <2>2 DEF WriteBare, Pipe!Forward
  <2>. QED
    BY <2>3 DEF Pipe!Next, Pipe!LosslessNext
<1>5. ASSUME NEW x \in Streams, WriteEnqueue(x)
      PROVE  Pipe!Next \/ UNCHANGED Pipe!pipeVars
  <2>. DEFINE p == produced[x] + 1
  <2>1. /\ queue[x] \in Seq(Nat) /\ packet[x] \in Nat /\ p \in Nat
    BY <1>0, Typed, QueuesOfNumbers
  <2>2. /\ queue' = [queue EXCEPT ![x] = Append(queue[x], p)]
        /\ UNCHANGED <<loop, packet, lastSent, closer>>
    BY <1>5 DEF WriteEnqueue, Enqueue
  <2>3. pending'[x] = Append(pending[x], p)
    <3>1. CASE loop[x] = "write"
      BY <1>0, <2>1, <2>2, <3>1 DEF pending, PacketsTyped
    <3>2. CASE loop[x] # "write"
      BY <1>0, <2>2, <3>2 DEF pending, PacketsTyped
    <3>. QED
      BY <3>1, <3>2
  <2>4. \A y \in Streams : y # x => pending'[y] = pending[y]
    BY <1>0, <2>2 DEF pending, PacketsTyped
  <2>5. pending' = [pending EXCEPT ![x] = Append(@, p)]
    BY <2>3, <2>4 DEF pending
  <2>6. Pipe!Accept(x)
    BY <1>5, <2>2, <2>5 DEF WriteEnqueue, Pipe!Accept
  <2>. QED
    BY <2>6 DEF Pipe!Next, Pipe!LosslessNext
<1>6. ASSUME NEW x \in Streams, WriteNewFrame(x)
      PROVE  Pipe!Next \/ UNCHANGED Pipe!pipeVars
  <2>1. TxMayClear({x}) /\ {x} \in SUBSET Streams
    BY <1>6 DEF WriteNewFrame, IInv, TypeOK, LocksTyped
  <2>2. Pipe!Flush
    BY <1>0, <1>6, <2>1, ClearFlushes DEF WriteNewFrame
  <2>. QED
    BY <2>2 DEF Pipe!Next, Pipe!LosslessNext
<1>7. ASSUME NEW x \in Streams, LoopStart(x)
      PROVE  Pipe!Next \/ UNCHANGED Pipe!pipeVars
  BY <1>0, <1>7, PipeStutters DEF LoopStart, LoopGoto, GoroutinesTyped
<1>8. ASSUME NEW x \in Streams, WakeByWriter(x)
      PROVE  Pipe!Next \/ UNCHANGED Pipe!pipeVars
  BY <1>0, <1>8, PipeStutters DEF WakeByWriter, WriterOffers, GoroutinesTyped
<1>9. ASSUME NEW x \in Streams, WakeByReader(x)
      PROVE  Pipe!Next \/ UNCHANGED Pipe!pipeVars
  BY <1>0, <1>9, PipeStutters DEF WakeByReader, ReaderOffers, GoroutinesTyped
<1>10. ASSUME NEW x \in Streams, LoopLeave(x)
      PROVE  Pipe!Next \/ UNCHANGED Pipe!pipeVars
  BY <1>0, <1>10, PipeStutters DEF LoopLeave, GoroutinesTyped
<1>11. ASSUME NEW x \in Streams, LoopDefault(x)
      PROVE  Pipe!Next \/ UNCHANGED Pipe!pipeVars
  BY <1>0, <1>11, PipeStutters DEF LoopDefault, LoopGoto, WriterOffers, ReaderOffers, GoroutinesTyped
<1>12. ASSUME NEW x \in Streams, LoopSize(x)
      PROVE  Pipe!Next \/ UNCHANGED Pipe!pipeVars
  BY <1>0, <1>12, PipeStutters DEF LoopSize, LoopGoto, GoroutinesTyped
<1>13. ASSUME NEW x \in Streams, LoopGranted(x)
      PROVE  Pipe!Next \/ UNCHANGED Pipe!pipeVars
  BY <1>0, <1>13, PipeStutters DEF LoopGranted, LoopGoto, GoroutinesTyped
<1>14. ASSUME NEW x \in Streams, LoopDenied(x)
      PROVE  Pipe!Next \/ UNCHANGED Pipe!pipeVars
  BY <1>0, <1>14, PipeStutters DEF LoopDenied, LoopGoto, GoroutinesTyped
<1>15. ASSUME NEW x \in Streams, LoopDequeueNil(x)
      PROVE  Pipe!Next \/ UNCHANGED Pipe!pipeVars
  BY <1>0, <1>15, PipeStutters DEF LoopDequeueNil, LoopGoto, GoroutinesTyped
<1>16. ASSUME NEW x \in Streams, LoopDequeue(x)
      PROVE  Pipe!Next \/ UNCHANGED Pipe!pipeVars
  <2>1. queue[x] \in Seq(Nat) /\ queue[x] # <<>> /\ loop[x] = "dequeue"
    BY <1>0, <1>16, QueuesOfNumbers DEF LoopDequeue
  <2>2. /\ packet' = [packet EXCEPT ![x] = Head(queue[x])]
        /\ queue' = [queue EXCEPT ![x] = Tail(queue[x])]
        /\ loop' = [loop EXCEPT ![x] = "write"]
        /\ UNCHANGED <<produced, lastSent, closer>>
    BY <1>16 DEF LoopDequeue, Dequeue
  <2>3. pending'[x] = pending[x]
    <3>1. pending'[x] = <<Head(queue[x])>> \o Tail(queue[x])
      BY <1>0, <2>2 DEF pending, PacketsTyped, GoroutinesTyped
    <3>2. pending[x] = queue[x]
      BY <2>1 DEF pending
    <3>. QED
      BY <2>1, <3>1, <3>2
  <2>4. \A y \in Streams : y # x => pending'[y] = pending[y]
    BY <1>0, <2>2 DEF pending, PacketsTyped, GoroutinesTyped
  <2>5. pending' = pending
    BY <2>3, <2>4 DEF pending
  <2>. QED
    BY <2>2, <2>5 DEF Pipe!pipeVars
<1>17. ASSUME NEW x \in Streams, LoopWrite(x)
      PROVE  Pipe!Next \/ UNCHANGED Pipe!pipeVars
  <2>1. queue[x] \in Seq(Nat) /\ packet[x] \in Nat /\ loop[x] = "write"
    BY <1>0, <1>17, QueuesOfNumbers DEF LoopWrite
  <2>2. /\ lastSent' = [lastSent EXCEPT ![x] = packet[x]]
        /\ loop' = [loop EXCEPT ![x] = "report"]
        /\ UNCHANGED <<queue, packet, produced, closer>>
    BY <1>17 DEF LoopWrite
  <2>3. /\ pending[x] # <<>>
        /\ Head(pending[x]) = packet[x]
        /\ Tail(pending[x]) = queue[x]
    <3>1. pending[x] = <<packet[x]>> \o queue[x]
      BY <2>1 DEF pending
    <3>2. /\ <<packet[x]>> \o queue[x] # <<>>
          /\ Head(<<packet[x]>> \o queue[x]) = packet[x]
          /\ Tail(<<packet[x]>> \o queue[x]) = queue[x]
      BY <2>1
    <3>. QED
      BY <3>1, <3>2
  <2>4. pending'[x] = queue[x]
    BY <1>0, <2>2 DEF pending, GoroutinesTyped
  <2>5. \A y \in Streams : y # x => pending'[y] = pending[y]
    BY <1>0, <2>2 DEF pending, GoroutinesTyped
  <2>6. pending' = [pending EXCEPT ![x] = Tail(@)]
    BY <2>3, <2>4, <2>5 DEF pending
  <2>7. closer # "closed"
    BY <2>1 DEF IInv, LoopsJoined, Live
  <2>8. Pipe!Deliver(x)
    BY <2>2, <2>3, <2>6, <2>7 DEF Pipe!Deliver
  <2>. QED
    BY <2>8 DEF Pipe!Next, Pipe!LosslessNext
<1>18. ASSUME NEW x \in Streams, LoopReport(x)
      PROVE  Pipe!Next \/ UNCHANGED Pipe!pipeVars
  BY <1>0, <1>18, PipeStutters DEF LoopReport, GoroutinesTyped, PacketsTyped
<1>19. ASSUME ReadReport
      PROVE  Pipe!Next \/ UNCHANGED Pipe!pipeVars
  BY <1>0, <1>19, PipeStutters DEF ReadReport, Reports, GoroutinesTyped
<1>20. ASSUME IncomingFeedback
      PROVE  Pipe!Next \/ UNCHANGED Pipe!pipeVars
  <2>1. TxMayClear(rtpStreams) /\ rtpStreams \in SUBSET Streams
    BY <1>20 DEF IncomingFeedback, IInv, TypeOK, LocksTyped
  <2>2. Pipe!Flush
    BY <1>0, <1>20, <2>1, ClearFlushes DEF IncomingFeedback
  <2>. QED
    BY <2>2 DEF Pipe!Next, Pipe!LosslessNext
<1>21. ASSUME NotifyStream
      PROVE  Pipe!Next \/ UNCHANGED Pipe!pipeVars
  BY <1>0, <1>21, PipeStutters DEF NotifyStream, GoroutinesTyped
<1>22. ASSUME SkipStream
      PROVE  Pipe!Next \/ UNCHANGED Pipe!pipeVars
  BY <1>0, <1>22, PipeStutters DEF SkipStream, GoroutinesTyped
<1>23. ASSUME ReadReturn
      PROVE  Pipe!Next \/ UNCHANGED Pipe!pipeVars
  BY <1>0, <1>23, PipeStutters DEF ReadReturn, GoroutinesTyped
<1>24. ASSUME StatsCall
      PROVE  Pipe!Next \/ UNCHANGED Pipe!pipeVars
  BY <1>0, <1>24, PipeStutters DEF StatsCall, allButStats, GoroutinesTyped
<1>25. ASSUME StatsLookup
      PROVE  Pipe!Next \/ UNCHANGED Pipe!pipeVars
  BY <1>0, <1>25, PipeStutters DEF StatsLookup, allButStats, GoroutinesTyped
<1>26. ASSUME StatsTx
      PROVE  Pipe!Next \/ UNCHANGED Pipe!pipeVars
  BY <1>0, <1>26, PipeStutters DEF StatsTx, allButStats, GoroutinesTyped
<1>27. ASSUME CloseBegin
      PROVE  Pipe!Next \/ UNCHANGED Pipe!pipeVars
  BY <1>0, <1>27, PipeStutters DEF CloseBegin, GoroutinesTyped
<1>28. ASSUME CloseReturn
      PROVE  Pipe!Next \/ UNCHANGED Pipe!pipeVars
  <2>1. pending' = pending
    BY <1>28 DEF CloseReturn, pending
  <2>2. Pipe!Stop
    BY <1>28, <2>1 DEF CloseReturn, Pipe!Stop
  <2>. QED
    BY <2>2 DEF Pipe!Next, Pipe!LosslessNext
<1>. QED
  BY <1>1, <1>2, <1>3, <1>4, <1>5, <1>6, <1>7, <1>8, <1>9, <1>10, <1>11, <1>12,
     <1>13, <1>14, <1>15, <1>16, <1>17, <1>18, <1>19, <1>20, <1>21, <1>22,
     <1>23, <1>24, <1>25, <1>26, <1>27, <1>28 DEF Next, Media, Select, Transmit,
     Reader, Stats, Closer

(* The interceptor of sender_interceptor.go is a pipe: what each stream's  *)
(* writer is given comes out below in order and at most once, whatever the *)
(* goroutines, the congestion controller and Close do, and once Close has  *)
(* returned nothing that was held comes out.                               *)
THEOREM Refinement == SafeSpec => ImplementsPipe
<1>1. Init => Pipe!Init
  <2>. SUFFICES ASSUME Init PROVE Pipe!Init
    OBVIOUS
  <2>1. pending = [x \in Streams |-> <<>>]
    BY DEF Init, pending
  <2>. QED
    BY <2>1 DEF Init, Pipe!Init
<1>2. ASSUME IInv, [Next]_vars PROVE [Pipe!Next]_(Pipe!pipeVars)
  <2>1. CASE Next
    BY <1>2, <2>1, PipeStep
  <2>2. CASE UNCHANGED vars
    BY <2>2, PipeStutters DEF vars
  <2>. QED
    BY <1>2, <2>1, <2>2
<1>. QED
  BY <1>1, <1>2, Invariance, PTL DEF SafeSpec, ImplementsPipe, Pipe!SafeSpec
=============================================================================
