------------------------ MODULE NaiveAdaptionProofs ------------------------
(***************************************************************************)
(* Proofs about NaiveAdaption, for every set of streams, every bound on    *)
(* packets, every capacity of the channels and every table and limits.     *)
(***************************************************************************)
EXTENDS NaiveAdaption, FiniteSetTheorems, SequenceTheorems, TLAPS

(* The numbers of the constants, as the proofs use them.                   *)
LEMMA Numbers ==
  /\ MaxPackets \in Nat
  /\ GrowLimit \in Nat /\ ShrinkLimit \in Nat \ {0} /\ Long \in Nat /\ Short \in Nat
  /\ Capacity \in Nat \ {0} /\ Steps \in Nat \ {0}
BY AdaptionAssumption

(* The live loops are finitely many.                                       *)
LEMMA LiveFinite == IsFiniteSet(Live)
BY AdaptionAssumption, FS_Subset DEF Live

(* A fresh interceptor (NewSenderInterceptor) satisfies the invariant.     *)
LEMMA InitIInv == Init => IInv
<1>. SUFFICES ASSUME Init PROVE IInv
  OBVIOUS
<1>1. TypeOK
  <2>1. Zero \in [Streams -> 0..0] /\ 0..0 \subseteq 0..MaxPackets
        /\ 0..0 \subseteq 0..Capacity /\ 0..0 \subseteq 0..Steps - 1
    BY Numbers DEF Zero
  <2>2. /\ Zero \in [Streams -> 0..MaxPackets] /\ Zero \in [Streams -> 0..Capacity]
        /\ Zero \in [Streams -> Nat] /\ Zero \in [Streams -> 0..Steps - 1]
    BY <2>1
  <2>3. /\ queue \in [Streams -> Seq(1..MaxPackets)]
        /\ \A x \in Streams : Len(queue[x]) <= Capacity
    BY Numbers DEF Init
  <2>4. loop \in [Streams -> {"none", "start", "select", "size", "write", "done"}]
    BY DEF Init
  <2>. QED
    BY <2>2, <2>3, <2>4 DEF Init, TypeOK
<1>2. Live = {}
  BY DEF Init, Live
<1>. QED
  BY <1>1, <1>2, FS_EmptySet DEF Init, IInv

(* A step that leaves the loops, the wait group and Close alone keeps what *)
(* the invariant says of them, and so does one that moves a loop within.   *)
LEMMA LivesOn ==
  ASSUME IInv, TypeOK', Live' = Live, wg' = wg,
         closer' = "closed" => closer = "closed" \/ Live = {}
  PROVE  IInv'
BY DEF IInv

(* A write keeps the channel within its capacity.                          *)
LEMMA WriteTyped ==
  ASSUME TypeOK, NEW x \in Streams, Write(x)
  PROVE  TypeOK'
<1>. DEFINE p == produced[x] + 1
<1>1. p \in 1..MaxPackets /\ produced' = [produced EXCEPT ![x] = p]
  <2>1. produced[x] \in 0..MaxPackets /\ produced[x] < MaxPackets
    BY DEF TypeOK, Write
  <2>. QED
    BY <2>1, Numbers DEF Write
<1>2. queue' = [queue EXCEPT ![x] = Append(queue[x], p)]
  BY DEF Write
<1>3. queue[x] \in Seq(1..MaxPackets) /\ Len(queue[x]) < Capacity
  BY DEF TypeOK, Write
<1>4. /\ Append(queue[x], p) \in Seq(1..MaxPackets)
      /\ Len(Append(queue[x], p)) = Len(queue[x]) + 1
  BY <1>1, <1>3, AppendProperties
<1>5. /\ queue' \in [Streams -> Seq(1..MaxPackets)]
      /\ \A y \in Streams : Len(queue'[y]) <= Capacity
  <2>1. queue' \in [Streams -> Seq(1..MaxPackets)]
    BY <1>2, <1>4 DEF TypeOK
  <2>2. Len(queue'[x]) <= Capacity
    BY <1>2, <1>3, <1>4, LenProperties, Numbers DEF TypeOK
  <2>3. \A y \in Streams \ {x} : queue'[y] = queue[y]
    BY <1>2 DEF TypeOK
  <2>. QED
    BY <2>1, <2>2, <2>3 DEF TypeOK
<1>6. produced' \in [Streams -> 0..MaxPackets]
  BY <1>1, Numbers DEF TypeOK
<1>. QED
  BY <1>5, <1>6 DEF TypeOK, Write, closeVars, adaptVars

(* Taking a packet does as well, and the packet is one that was written.   *)
LEMMA LoopTakeTyped ==
  ASSUME TypeOK, NEW x \in Streams, LoopTake(x)
  PROVE  TypeOK'
<1>1. queue[x] \in Seq(1..MaxPackets) /\ queue[x] # <<>>
  BY DEF TypeOK, LoopTake
<1>2. /\ Head(queue[x]) \in 1..MaxPackets
      /\ Tail(queue[x]) \in Seq(1..MaxPackets)
      /\ Len(Tail(queue[x])) = Len(queue[x]) - 1
  BY <1>1, HeadTailProperties
<1>3. queue' = [queue EXCEPT ![x] = Tail(queue[x])]
      /\ packet' = [packet EXCEPT ![x] = Head(queue[x])]
  BY DEF LoopTake
<1>4. \A y \in Streams : Len(queue'[y]) <= Capacity
  <2>1. Len(queue'[x]) <= Capacity
    BY <1>1, <1>2, <1>3, LenProperties, Numbers DEF TypeOK
  <2>2. \A y \in Streams \ {x} : queue'[y] = queue[y]
    BY <1>3 DEF TypeOK
  <2>. QED
    BY <2>1, <2>2 DEF TypeOK
<1>5. packet' \in [Streams -> 0..MaxPackets]
  BY <1>2, <1>3, Numbers DEF TypeOK
<1>6. queue' \in [Streams -> Seq(1..MaxPackets)]
  BY <1>2, <1>3 DEF TypeOK
<1>7. loop' \in [Streams -> {"none", "start", "select", "size", "write", "done"}]
  BY DEF TypeOK, LoopTake
<1>. QED
  BY <1>4, <1>5, <1>6, <1>7 DEF TypeOK, LoopTake, closeVars, adaptVars

(* The rules keep the index within the table and move it by one at most.   *)
LEMMA AdaptBounds ==
  ASSUME TypeOK, NEW x \in Streams,
         NEW increaseDue \in BOOLEAN, NEW decreaseDue \in BOOLEAN, NEW againDue \in BOOLEAN,
         Adapt(x, increaseDue, decreaseDue, againDue)
  PROVE  /\ {queueGrowing', queueShrinking'} \subseteq [Streams -> Nat]
         /\ lastQueueSize' \in [Streams -> 0..Capacity]
         /\ currentStep' \in [Streams -> 0..Steps - 1]
         /\ \A y \in Streams : currentStep'[y] - currentStep[y] \in {-1, 0, 1}
<1>. DEFINE next == nextQueueSize[x]
            step == currentStep[x]
            rise == next = 0 /\ increaseDue
            grew == next > lastQueueSize[x] \/ next > Long
            growing == (IF rise THEN 0 ELSE queueGrowing[x]) + (IF grew THEN 1 ELSE 0)
            fall == grew /\ growing > GrowLimit /\ decreaseDue
            shrank == next < Short /\ next < lastQueueSize[x]
            shrinking == (IF rise THEN 0 ELSE queueShrinking[x])
                           + (IF shrank THEN 1 ELSE 0)
            riseAgain == shrank /\ shrinking > ShrinkLimit /\ againDue
            first == IF rise THEN Increase(step) ELSE step
            second == IF fall THEN Decrease(first) ELSE first
            third == IF riseAgain THEN Increase(second) ELSE second
<1>1. /\ next \in 0..Capacity /\ lastQueueSize[x] \in 0..Capacity
      /\ queueGrowing[x] \in Nat /\ queueShrinking[x] \in Nat
      /\ step \in 0..Steps - 1
  BY DEF TypeOK
<1>2. growing \in Nat /\ shrinking \in Nat
  BY <1>1
<1>3. /\ ~(rise /\ fall) /\ ~(rise /\ riseAgain) /\ ~(fall /\ riseAgain)
  BY <1>1, Numbers, AdaptionAssumption
<1>4. \A s \in 0..Steps - 1 :
        /\ Increase(s) \in 0..Steps - 1 /\ Increase(s) - s \in {0, 1}
        /\ Decrease(s) \in 0..Steps - 1 /\ Decrease(s) - s \in {-1, 0}
  BY Numbers DEF Increase, Decrease
<1>5. third \in 0..Steps - 1 /\ third - step \in {-1, 0, 1}
  <2>. HIDE DEF rise, fall, riseAgain, step
  <2>1. CASE rise
    <3>1. third = Increase(step)
      BY <1>3, <2>1
    <3>. QED
      BY <1>1, <1>4, <3>1
  <2>2. CASE fall
    <3>1. third = Decrease(step)
      BY <1>3, <2>2
    <3>. QED
      BY <1>1, <1>4, <3>1
  <2>3. CASE riseAgain
    <3>1. third = Increase(step)
      BY <1>3, <2>3
    <3>. QED
      BY <1>1, <1>4, <3>1
  <2>4. CASE ~rise /\ ~fall /\ ~riseAgain
    BY <1>1, <2>4, Numbers
  <2>. QED
    BY <2>1, <2>2, <2>3, <2>4
<1>6. /\ currentStep' = [currentStep EXCEPT ![x] = third]
      /\ queueGrowing' = [queueGrowing EXCEPT ![x] = IF fall THEN 0 ELSE growing]
      /\ queueShrinking' = [queueShrinking EXCEPT
                              ![x] = IF riseAgain THEN 0 ELSE shrinking]
      /\ lastQueueSize' = [lastQueueSize EXCEPT ![x] = next]
  BY DEF Adapt
<1>. HIDE DEF next, step, growing, shrinking, third, fall, riseAgain
<1>7. {queueGrowing', queueShrinking'} \subseteq [Streams -> Nat]
  BY <1>2, <1>6 DEF TypeOK
<1>8. lastQueueSize' \in [Streams -> 0..Capacity]
  BY <1>1, <1>6 DEF TypeOK
<1>9. currentStep' \in [Streams -> 0..Steps - 1]
  BY <1>5, <1>6 DEF TypeOK
<1>10. \A y \in Streams : currentStep'[y] - currentStep[y] \in {-1, 0, 1}
  <2>1. currentStep'[x] - currentStep[x] \in {-1, 0, 1}
    BY <1>5, <1>6 DEF TypeOK, step
  <2>2. \A y \in Streams \ {x} : currentStep'[y] = currentStep[y] /\ currentStep[y] \in Nat
    BY <1>6, Numbers DEF TypeOK
  <2>. QED
    BY <2>1, <2>2
<1>. QED
  BY <1>7, <1>8, <1>9, <1>10

(* The invariant is inductive: one step per action, and under it what the  *)
(* action does to the loops that Close waits for.                          *)
LEMMA NextIInv == ASSUME IInv, Next PROVE IInv'
<1>. USE DEF closeVars, adaptVars
<1>0. TypeOK
  BY DEF IInv
<1>1. ASSUME NEW x \in Streams, Bind(x) PROVE IInv'
  <2>1. TypeOK'
    <3>1. wg' \in Nat
      BY <1>0, <1>1 DEF TypeOK, Bind
    <3>. QED
      BY <1>0, <1>1, <3>1 DEF TypeOK, Bind
  <2>2. Live' = Live \cup {x} /\ x \notin Live
    BY <1>0, <1>1 DEF Live, TypeOK, Bind
  <2>3. wg' = Cardinality(Live')
    BY <1>1, <2>2, LiveFinite, FS_AddElement DEF IInv, Bind
  <2>. QED
    BY <1>1, <2>1, <2>3 DEF IInv, Bind
<1>2. ASSUME NEW x \in Streams, Write(x) PROVE IInv'
  <2>1. Live' = Live
    BY <1>2 DEF Live, Write
  <2>. QED
    BY <1>0, <1>2, <2>1, WriteTyped, LivesOn DEF Write
<1>3. ASSUME Panic PROVE IInv'
  BY <1>3, <1>0 DEF Panic, IInv, TypeOK, Live
<1>4. ASSUME NEW x \in Streams, UnbindLocalStream(x) PROVE IInv'
  <2>1. TypeOK'
    BY <1>0, <1>4 DEF TypeOK, UnbindLocalStream
  <2>2. Live' = Live
    BY <1>4 DEF Live, UnbindLocalStream
  <2>. QED
    BY <1>4, <2>1, <2>2, LivesOn DEF UnbindLocalStream
<1>5. ASSUME NEW x \in Streams, LoopStart(x) PROVE IInv'
  <2>1. TypeOK'
    BY <1>0, <1>5 DEF TypeOK, LoopStart
  <2>2. Live' = Live
    BY <1>0, <1>5 DEF TypeOK, Live, LoopStart
  <2>. QED
    BY <1>5, <2>1, <2>2, LivesOn DEF LoopStart
<1>6. ASSUME NEW x \in Streams, LoopTake(x) PROVE IInv'
  <2>1. Live' = Live
    BY <1>0, <1>6 DEF TypeOK, Live, LoopTake
  <2>. QED
    BY <1>0, <1>6, <2>1, LoopTakeTyped, LivesOn DEF LoopTake
<1>7. ASSUME NEW x \in Streams, LoopSize(x) PROVE IInv'
  <2>1. TypeOK'
    <3>1. Len(queue[x]) \in 0..Capacity
      BY <1>0, LenProperties, Numbers DEF TypeOK
    <3>2. nextQueueSize' \in [Streams -> 0..Capacity]
      BY <1>0, <1>7, <3>1 DEF TypeOK, LoopSize
    <3>. QED
      BY <1>0, <1>7, <3>2 DEF TypeOK, LoopSize
  <2>2. Live' = Live
    BY <1>0, <1>7 DEF TypeOK, Live, LoopSize
  <2>. QED
    BY <1>7, <2>1, <2>2, LivesOn DEF LoopSize
<1>8. ASSUME NEW x \in Streams, LoopWrite(x) PROVE IInv'
  <2>1. PICK increaseDue, decreaseDue, againDue \in BOOLEAN :
          Adapt(x, increaseDue, decreaseDue, againDue)
    BY <1>8 DEF LoopWrite
  <2>2. /\ {queueGrowing', queueShrinking'} \subseteq [Streams -> Nat]
        /\ lastQueueSize' \in [Streams -> 0..Capacity]
        /\ currentStep' \in [Streams -> 0..Steps - 1]
    BY <1>0, <2>1, AdaptBounds
  <2>3. TypeOK'
    <3>1. lastSent' \in [Streams -> 0..MaxPackets]
      BY <1>0, <1>8 DEF TypeOK, LoopWrite
    <3>. QED
      BY <1>0, <1>8, <2>2, <3>1 DEF TypeOK, LoopWrite
  <2>4. Live' = Live
    BY <1>0, <1>8 DEF TypeOK, Live, LoopWrite
  <2>. QED
    BY <1>8, <2>3, <2>4, LivesOn DEF LoopWrite
<1>9. ASSUME NEW x \in Streams, LoopLeave(x) PROVE IInv'
  <2>1. Live' = Live \ {x} /\ x \in Live
    BY <1>0, <1>9 DEF TypeOK, Live, LoopLeave
  <2>2. wg' = Cardinality(Live')
    BY <1>9, <2>1, LiveFinite, FS_RemoveElement DEF IInv, LoopLeave
  <2>3. wg' \in Nat
    BY <2>1, <2>2, LiveFinite, FS_Subset, FS_CardinalityType
  <2>4. TypeOK'
    BY <1>0, <1>9, <2>3 DEF TypeOK, LoopLeave
  <2>. QED
    BY <1>9, <2>1, <2>2, <2>4 DEF IInv, LoopLeave
<1>10. CASE CloseBegin
  <2>1. TypeOK' /\ Live' = Live
    BY <1>0, <1>10 DEF TypeOK, Live, CloseBegin
  <2>. QED
    BY <1>10, <2>1, LivesOn DEF CloseBegin
<1>11. CASE CloseReturn
  <2>1. TypeOK' /\ Live' = Live
    BY <1>0, <1>11 DEF TypeOK, Live, CloseReturn
  <2>2. Live = {}
    BY <1>11, LiveFinite, FS_EmptySet DEF IInv, CloseReturn
  <2>. QED
    BY <1>11, <2>1, <2>2, LivesOn DEF CloseReturn
<1>. QED
  BY <1>1, <1>2, <1>3, <1>4, <1>5, <1>6, <1>7, <1>8, <1>9, <1>10, <1>11
     DEF Next, LoopSteps, WriteClosed, LoopStartNil, LoopTakeNil

(* The wait group counts the loops that run, and none runs once Close has  *)
(* returned: the invariant holds in every reachable state.                 *)
THEOREM Invariance == SafeSpec => []IInv
<1>1. IInv /\ [Next]_vars => IInv'
  <2>1. IInv /\ UNCHANGED vars => IInv'
    BY DEF IInv, TypeOK, Live, vars, closeVars, adaptVars
  <2>. QED
    BY <2>1, NextIInv
<1>. QED
  BY InitIInv, <1>1, PTL DEF SafeSpec

(* Types are kept, the index of the target bitrate within its table.       *)
THEOREM TypeCorrect == SafeSpec => []TypeOK
<1>1. IInv => TypeOK
  BY DEF IInv
<1>. QED
  BY <1>1, Invariance, PTL

(* Only the rules of the loop move the target, and the rules that can meet *)
(* on a packet do not add up.                                              *)
THEOREM OneStep == SafeSpec => OneStepPerPacket
<1>1. TypeOK /\ [Next]_vars
        => [\A x \in Streams : currentStep'[x] - currentStep[x] \in {-1, 0, 1}]_vars
  <2>. SUFFICES ASSUME TypeOK, Next
                PROVE  \A x \in Streams : currentStep'[x] - currentStep[x] \in {-1, 0, 1}
    OBVIOUS
  <2>1. CASE currentStep' = currentStep
    <3>1. \A x \in Streams : currentStep[x] \in 0..Steps - 1
      BY DEF TypeOK
    <3>. QED
      BY <2>1, <3>1, Numbers
  <2>2. ASSUME NEW x \in Streams, LoopWrite(x)
        PROVE  \A y \in Streams : currentStep'[y] - currentStep[y] \in {-1, 0, 1}
    BY <2>2, AdaptBounds DEF LoopWrite
  <2>3. currentStep' = currentStep \/ \E x \in Streams : LoopWrite(x)
    BY DEF Next, LoopSteps, Panic, Bind, Write, WriteClosed, UnbindLocalStream, LoopStart,
           LoopStartNil, LoopTake, LoopTakeNil, LoopSize, LoopLeave, CloseBegin,
           CloseReturn, adaptVars
  <2>. QED
    BY <2>1, <2>2, <2>3
<1>. QED
  BY <1>1, TypeCorrect, PTL DEF SafeSpec, OneStepPerPacket

(* A step that moves no packet and ends nothing is a stuttering step of    *)
(* the pipe.                                                               *)
LEMMA PipeStutters ==
  ASSUME UNCHANGED <<produced, queue, lastSent, panicked>>,
         (closer = "closed")' = (closer = "closed"),
         \A y \in Streams :
           /\ loop'[y] \in {"size", "write"} <=> loop[y] \in {"size", "write"}
           /\ loop[y] \in {"size", "write"} => packet'[y] = packet[y]
  PROVE  UNCHANGED Pipe!pipeVars
<1>1. pending' = pending
  BY DEF pending
<1>. QED
  BY <1>1 DEF Pipe!pipeVars

(* Packets are numbers.                                                    *)
LEMMA NumbersOfPackets ==
  ASSUME TypeOK, NEW x \in Streams
  PROVE  queue[x] \in Seq(Nat) /\ packet[x] \in Nat /\ produced[x] + 1 \in Nat
<1>1. Seq(1..MaxPackets) \subseteq Seq(Nat)
  BY Numbers
<1>2. queue[x] \in Seq(1..MaxPackets)
  BY DEF TypeOK
<1>3. packet[x] \in 0..MaxPackets /\ produced[x] \in 0..MaxPackets
  BY DEF TypeOK
<1>. QED
  BY <1>1, <1>2, <1>3, Numbers

(* Write is Accept of the pipe, LoopWrite is Deliver, a panic or the       *)
(* return of Close is Stop; all else stutters.                             *)
LEMMA PipeStep == ASSUME IInv, Next PROVE Pipe!LosslessNext \/ UNCHANGED Pipe!pipeVars
<1>. USE DEF closeVars, adaptVars
<1>0. TypeOK /\ ~panicked
  BY DEF IInv, Next
<1>1. ASSUME NEW x \in Streams, Bind(x)
      PROVE  Pipe!LosslessNext \/ UNCHANGED Pipe!pipeVars
  BY <1>0, <1>1, PipeStutters DEF Bind, TypeOK
<1>2. ASSUME NEW x \in Streams, Write(x)
      PROVE  Pipe!LosslessNext \/ UNCHANGED Pipe!pipeVars
  <2>. DEFINE p == produced[x] + 1
  <2>1. queue[x] \in Seq(Nat) /\ packet[x] \in Nat /\ p \in Nat
    BY <1>0, NumbersOfPackets
  <2>2. /\ queue' = [queue EXCEPT ![x] = Append(queue[x], p)]
        /\ UNCHANGED <<loop, packet, lastSent, closer, panicked>>
    BY <1>2 DEF Write
  <2>3. pending'[x] = Append(pending[x], p)
    <3>1. CASE loop[x] \in {"size", "write"}
      <4>1. pending[x] = <<packet[x]>> \o queue[x]
        BY <3>1 DEF pending
      <4>2. queue'[x] = Append(queue[x], p)
        BY <1>0, <2>2 DEF TypeOK
      <4>3. pending'[x] = <<packet[x]>> \o queue'[x]
        BY <2>2, <3>1 DEF pending
      <4>. HIDE DEF p
      <4>4. <<packet[x]>> \o Append(queue[x], p) = Append(<<packet[x]>> \o queue[x], p)
        BY <2>1
      <4>. QED
        BY <4>1, <4>2, <4>3, <4>4
    <3>2. CASE loop[x] \notin {"size", "write"}
      BY <1>0, <2>2, <3>2 DEF pending, TypeOK
    <3>. QED
      BY <3>1, <3>2
  <2>4. \A y \in Streams : y # x => pending'[y] = pending[y]
    BY <1>0, <2>2 DEF pending, TypeOK
  <2>5. pending' = [pending EXCEPT ![x] = Append(@, p)]
    BY <2>3, <2>4 DEF pending
  <2>6. Pipe!Accept(x)
    BY <1>2, <2>2, <2>5 DEF Write, Pipe!Accept
  <2>. QED
    BY <2>6 DEF Pipe!LosslessNext
<1>3. ASSUME Panic
      PROVE  Pipe!LosslessNext \/ UNCHANGED Pipe!pipeVars
  <2>1. pending' = pending
    BY <1>3 DEF Panic, pending
  <2>2. Pipe!Stop
    BY <1>3, <2>1 DEF Panic, Pipe!Stop
  <2>. QED
    BY <2>2 DEF Pipe!LosslessNext
<1>4. ASSUME NEW x \in Streams, UnbindLocalStream(x)
      PROVE  Pipe!LosslessNext \/ UNCHANGED Pipe!pipeVars
  BY <1>4, PipeStutters DEF UnbindLocalStream
<1>5. ASSUME NEW x \in Streams, LoopStart(x)
      PROVE  Pipe!LosslessNext \/ UNCHANGED Pipe!pipeVars
  BY <1>0, <1>5, PipeStutters DEF LoopStart, TypeOK
<1>6. ASSUME NEW x \in Streams, LoopTake(x)
      PROVE  Pipe!LosslessNext \/ UNCHANGED Pipe!pipeVars
  <2>1. queue[x] \in Seq(1..MaxPackets) /\ queue[x] # <<>> /\ loop[x] = "select"
    BY <1>0, <1>6 DEF TypeOK, LoopTake
  <2>2. /\ packet' = [packet EXCEPT ![x] = Head(queue[x])]
        /\ queue' = [queue EXCEPT ![x] = Tail(queue[x])]
        /\ loop' = [loop EXCEPT ![x] = "size"]
        /\ UNCHANGED <<produced, lastSent, closer, panicked>>
    BY <1>6 DEF LoopTake
  <2>3. pending'[x] = pending[x]
    <3>1. pending'[x] = <<Head(queue[x])>> \o Tail(queue[x])
      BY <1>0, <2>2 DEF pending, TypeOK
    <3>2. pending[x] = queue[x]
      BY <2>1 DEF pending
    <3>. QED
      BY <2>1, <3>1, <3>2
  <2>4. \A y \in Streams : y # x => pending'[y] = pending[y]
    BY <1>0, <2>2 DEF pending, TypeOK
  <2>5. pending' = pending
    BY <2>3, <2>4 DEF pending
  <2>. QED
    BY <2>2, <2>5 DEF Pipe!pipeVars
<1>7. ASSUME NEW x \in Streams, LoopSize(x)
      PROVE  Pipe!LosslessNext \/ UNCHANGED Pipe!pipeVars
  BY <1>0, <1>7, PipeStutters DEF LoopSize, TypeOK
<1>8. ASSUME NEW x \in Streams, LoopWrite(x)
      PROVE  Pipe!LosslessNext \/ UNCHANGED Pipe!pipeVars
  <2>1. queue[x] \in Seq(Nat) /\ packet[x] \in Nat /\ loop[x] = "write"
    BY <1>0, <1>8, NumbersOfPackets DEF LoopWrite
  <2>2. /\ lastSent' = [lastSent EXCEPT ![x] = packet[x]]
        /\ loop' = [loop EXCEPT ![x] = "select"]
        /\ UNCHANGED <<queue, packet, produced, closer, panicked>>
    BY <1>8 DEF LoopWrite
  <2>3. /\ pending[x] # <<>>
        /\ Head(pending[x]) = packet[x]
        /\ Tail(pending[x]) = queue[x]
    <3>1. pending[x] = <<packet[x]>> \o queue[x]
      BY <2>1 DEF pending
    <3>2. /\ <<packet[x]>> \o queue[x] # <<>>
          /\ Head(<<packet[x]>> \o queue[x]) = packet[x]
          /\ Tail(<<packet[x]>> \o queue[x]) = queue[x]
      BY <2>1
    <3>. QED
      BY <3>1, <3>2
  <2>4. pending'[x] = queue[x]
    BY <1>0, <2>2 DEF pending, TypeOK
  <2>5. \A y \in Streams : y # x => pending'[y] = pending[y]
    BY <1>0, <2>2 DEF pending, TypeOK
  <2>6. pending' = [pending EXCEPT ![x] = Tail(@)]
    BY <2>3, <2>4, <2>5 DEF pending
  <2>7. closer # "closed"
    BY <2>1 DEF IInv, Live
  <2>8. Pipe!Deliver(x)
    BY <1>0, <2>2, <2>3, <2>6, <2>7 DEF Pipe!Deliver
  <2>. QED
    BY <2>8 DEF Pipe!LosslessNext
<1>9. ASSUME NEW x \in Streams, LoopLeave(x)
      PROVE  Pipe!LosslessNext \/ UNCHANGED Pipe!pipeVars
  BY <1>0, <1>9, PipeStutters DEF LoopLeave, TypeOK
<1>10. CASE CloseBegin
  BY <1>10, PipeStutters DEF CloseBegin
<1>11. CASE CloseReturn
  <2>1. pending' = pending
    BY <1>11 DEF CloseReturn, pending
  <2>2. Pipe!Stop
    BY <1>11, <2>1 DEF CloseReturn, Pipe!Stop
  <2>. QED
    BY <2>2 DEF Pipe!LosslessNext
<1>. QED
  BY <1>1, <1>2, <1>3, <1>4, <1>5, <1>6, <1>7, <1>8, <1>9, <1>10, <1>11
     DEF Next, LoopSteps, WriteClosed, LoopStartNil, LoopTakeNil

(* The naive adaption implements the pipe that throws nothing away: every  *)
(* packet written has come out, in order and once, or is still held, and   *)
(* none comes out after Close has returned.                                *)
THEOREM Refinement == SafeSpec => ImplementsPipe
<1>1. Init => Pipe!Init
  <2>. SUFFICES ASSUME Init PROVE Pipe!Init
    OBVIOUS
  <2>1. pending = [x \in Streams |-> <<>>]
    BY DEF Init, pending
  <2>. QED
    BY <2>1 DEF Init, Zero, Pipe!Init
<1>2. IInv /\ [Next]_vars => [Pipe!LosslessNext]_(Pipe!pipeVars)
  <2>1. UNCHANGED vars => UNCHANGED Pipe!pipeVars
    BY DEF vars, closeVars, adaptVars, pending, Pipe!pipeVars
  <2>. QED
    BY <2>1, PipeStep
<1>. QED
  BY <1>1, <1>2, Invariance, PTL DEF SafeSpec, ImplementsPipe, Pipe!LosslessSpec
=============================================================================
