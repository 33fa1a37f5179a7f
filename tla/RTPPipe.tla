------------------------------- MODULE RTPPipe -------------------------------
(***************************************************************************)
(* What a congestion-controlling interceptor promises the application that *)
(* writes RTP into it (pion's BindLocalStream contract, as rtc/sender.go   *)
(* uses it): the packets of a stream, numbered 1, 2, ... in the order in   *)
(* which they are written, reach the writer below in that order and each   *)
(* at most once; the interceptor may throw away what it holds, except that *)
(* a packet already on its way down may survive the flush; once Close has  *)
(* returned nothing that was held comes out.                               *)
(*                                                                         *)
(* ScreamSender is shown to implement it (SafeSpec), and NaiveAdaption the *)
(* stronger pipe that throws nothing away (LosslessSpec).                  *)
(***************************************************************************)
EXTENDS Naturals, Sequences

CONSTANTS
  Streams,     \* the local streams (SSRCs)
  MaxPackets   \* bound: packets written per stream

VARIABLES
  accepted,    \* accepted[x]: number of packets of x written so far
  pending,     \* pending[x]: packets of x written and not yet passed on
  last,        \* last[x]: the latest packet of x passed on, 0 before the first
  stopped      \* Close has returned

pipeVars == <<accepted, pending, last, stopped>>

Init ==
  /\ accepted = [x \in Streams |-> 0]
  /\ pending = [x \in Streams |-> <<>>]
  /\ last = [x \in Streams |-> 0]
  /\ stopped = FALSE

(* The application writes the next packet of x: it is held.                *)
Accept(x) ==
  /\ accepted[x] < MaxPackets
  /\ accepted' = [accepted EXCEPT ![x] = @ + 1]
  /\ pending' = [pending EXCEPT ![x] = Append(@, accepted[x] + 1)]
  /\ UNCHANGED <<last, stopped>>

(* A stream the interceptor does not control is written straight through.  *)
Forward(x) ==
  /\ accepted[x] < MaxPackets
  /\ pending[x] = <<>>
  /\ accepted' = [accepted EXCEPT ![x] = @ + 1]
  /\ last' = [last EXCEPT ![x] = accepted[x] + 1]
  /\ UNCHANGED <<pending, stopped>>

(* The oldest packet held is passed on.                                    *)
Deliver(x) ==
  /\ ~stopped
  /\ pending[x] # <<>>
  /\ last' = [last EXCEPT ![x] = Head(pending[x])]
  /\ pending' = [pending EXCEPT ![x] = Tail(@)]
  /\ UNCHANGED <<accepted, stopped>>

(* What is held is thrown away: everything for the streams of D, all but   *)
(* the packet that is already on its way down for those of E.              *)
Flush ==
  /\ \E D \in SUBSET Streams :
       \E E \in SUBSET {x \in Streams : pending[x] # <<>>} :
         pending' = [x \in Streams |->
                       IF x \in E THEN <<Head(pending[x])>>
                       ELSE IF x \in D THEN <<>> ELSE pending[x]]
  /\ UNCHANGED <<accepted, last, stopped>>

Stop ==
  /\ stopped' = TRUE
  /\ UNCHANGED <<accepted, pending, last>>

LosslessNext ==
  \/ \E x \in Streams : Accept(x) \/ Forward(x) \/ Deliver(x)
  \/ Stop

Next == LosslessNext \/ Flush

SafeSpec == Init /\ [][Next]_pipeVars

(* The pipe that throws nothing away: each packet written is passed on or  *)
(* still held, and the one passed on after a packet is the one written     *)
(* after it.                                                               *)
LosslessSpec == Init /\ [][LosslessNext]_pipeVars

Holds(x, p) == \E i \in DOMAIN pending[x] : pending[x][i] = p

(* What is held is eventually passed on or thrown away, unless Close       *)
(* returns in the meantime.                                                *)
Progress ==
  \A x \in Streams, p \in 1..MaxPackets :
    Holds(x, p) ~> ~Holds(x, p) \/ stopped

Spec == SafeSpec /\ Progress
=============================================================================
