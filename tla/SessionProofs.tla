---------------------------- MODULE SessionProofs ----------------------------
(***************************************************************************)
(* Proofs about Session: what an endpoint learns of its peer's end is so,  *)
(* and the sender dies of its stream only with the receiver's word lost,   *)
(* for every flag and whatever the network loses, delays or repeats.       *)
(*                                                                         *)
(* IInv is inductive: TypeStep for the types, and for the rest one lemma   *)
(* per kind of step.                                                       *)
(***************************************************************************)
EXTENDS Session, TLAPS

Calls == {"cancel", "reader", "writer", "conn"}

(* Each of the two ends is the other's peer.                               *)
LEMMA EndsOfPeers ==
  /\ Peer("send") = "recv" /\ Peer("recv") = "send"
  /\ \A e \in Ends : Peer(e) \in Ends /\ Peer(e) # e /\ Peer(Peer(e)) = e
BY DEF Ends, Peer

(* What main defers is a list of the calls that closing makes.             *)
LEMMA DeferredTyped ==
  ASSUME NEW e \in Ends
  PROVE  Deferred(e) \in Seq(Calls)
<1>1. /\ <<>> \in Seq(Calls) /\ <<"cancel">> \in Seq(Calls)
      /\ <<"reader", "writer", "conn">> \in Seq(Calls)
      /\ <<"writer", "reader", "conn">> \in Seq(Calls)
  BY DEF Calls
<1>2. \A s, t \in Seq(Calls) : s \o t \in Seq(Calls)
  OBVIOUS
<1>. QED
  BY <1>1, <1>2 DEF Deferred

(* Nothing is connected, said or read yet.                                 *)
LEMMA InitIInv == Init => IInv
<1>. SUFFICES ASSUME Init PROVE IInv
  OBVIOUS
<1>. USE DEF Init, Ends
<1>1. TypeOK
  <2>1. <<>> \in Seq({"cancel", "reader", "writer", "conn"})
    OBVIOUS
  <2>. QED
    BY <2>1 DEF TypeOK
<1>. QED
  BY <1>1 DEF IInv, FeedbackAfterBind, ClosedWhenEnding, Connected, ReadersLive,
              ReadersTold, TimedOut, CloseOnItsWay, Peer

(* A process that dies, or that is killed, keeps the types.                *)
LEMMA DiesTyped ==
  ASSUME TypeOK, NEW e \in Ends, NEW how \in {"killed", "fatal"}, Dies(e, how)
  PROVE  TypeOK'
BY EndsOfPeers DEF Dies, Exits, TypeOK, flags

(* So does one that opens its connection,                                  *)
LEMMA OpenedTyped ==
  ASSUME TypeOK, NEW E \in SUBSET Ends, Opened(E)
  PROVE  TypeOK'
BY DeferredTyped DEF Opened, TypeOK, flags, feedbackVars, receiverVars, Calls

(* or takes the next of its deferred calls off the list,                   *)
LEMMA DeferTyped ==
  ASSUME TypeOK, NEW e \in Ends, NEW c, Defer(e, c)
  PROVE  deferred' \in [Ends -> Seq(Calls)]
BY DEF Defer, TypeOK, Calls

(* or makes that call, or has none left and exits.                         *)
LEMMA ClosingTyped ==
  ASSUME TypeOK, NEW e \in Ends, Closing(e)
  PROVE  TypeOK'
<1>1. CASE Exit(e)
  BY <1>1 DEF Exit, Exits, TypeOK, flags
<1>2. CASE ~Exit(e)
  <2>1. PICK c : Defer(e, c)
    BY <1>2 DEF Closing, Cancel, CloseReader, CloseWriter, CloseConn, CloseSession
  <2>2. \/ SaysEOS(e) \/ CannotSay(e) \/ UNCHANGED <<conn, net, refused, unsaid>>
        \/ conn' = [conn EXCEPT ![e] = "closed"] /\ UNCHANGED <<net, refused, unsaid>>
    BY <1>2 DEF Closing, Cancel, CloseReader, CloseWriter, CloseConn, CloseSession
  <2>3. conn' \in [Ends -> {"none", "open", "closed", "eos", "timeout"}]
    BY <2>2 DEF SaysEOS, CannotSay, TypeOK
  <2>6. net' \subseteq Ends \X {"rtp", "rtcp", "eos"}
    BY <2>2, EndsOfPeers DEF SaysEOS, Says, CannotSay, TypeOK
  <2>5. refused' \in BOOLEAN /\ unsaid' \in [Ends -> BOOLEAN]
    BY <2>2, EndsOfPeers DEF SaysEOS, CannotSay, TypeOK
  <2>4. deferred' \in [Ends -> Seq(Calls)]
    BY <2>1, DeferTyped
  <2>. QED
    BY <2>1, <2>3, <2>4, <2>5, <2>6 DEF Defer, TypeOK, flags, feedbackVars, receiverVars, Calls
<1>. QED
  BY <1>1, <1>2

(* The network loses, bounces and delivers what was on it, and nothing else. *)
LEMMA WireTyped ==
  ASSUME TypeOK,
         \/ \E m \in net : Lose(m) \/ Bounce(m)
         \/ \E e \in Ends : SessionClosed(e) \/ SessionTimesOut(e)
  PROVE  TypeOK'
<1>. USE EndsOfPeers DEF WireStep, Forgets, flags, endVars, feedbackVars, receiverVars
<1>1. ASSUME NEW m \in net, Lose(m) \/ Bounce(m)
      PROVE  TypeOK'
  <2>1. m[1] \in Ends
    BY DEF TypeOK
  <2>2. net' \subseteq net /\ {refused', bounced'} \subseteq BOOLEAN /\ UNCHANGED <<conn, outage>>
    BY <1>1 DEF Lose, Bounce, TypeOK
  <2>3. unsaid' \in [Ends -> BOOLEAN]
    BY <1>1, <2>1 DEF Lose, Bounce, TypeOK
  <2>4. WireStep
    BY <1>1 DEF Lose, Bounce
  <2>. QED
    BY <2>2, <2>3, <2>4 DEF TypeOK
<1>2. ASSUME NEW e \in Ends, SessionClosed(e) \/ SessionTimesOut(e)
      PROVE  TypeOK'
  <2>1. net' \subseteq net /\ UNCHANGED <<refused, bounced, unsaid>> /\ WireStep
    BY <1>2 DEF SessionClosed, SessionTimesOut
  <2>4. outage' \in BOOLEAN
    BY <1>2 DEF SessionClosed, SessionTimesOut, TypeOK
  <2>3. {refused', bounced', outage'} \subseteq BOOLEAN /\ unsaid' \in [Ends -> BOOLEAN]
    BY <2>1, <2>4 DEF TypeOK
  <2>2. conn' \in [Ends -> {"none", "open", "closed", "eos", "timeout"}]
    <3>1. \E c \in {"eos", "timeout", conn[e]} : conn' = [conn EXCEPT ![e] = c]
      BY <1>2 DEF SessionClosed, SessionTimesOut
    <3>. QED
      BY <3>1 DEF TypeOK
  <2>. QED
    BY <2>1, <2>2, <2>3 DEF TypeOK
<1>. QED
  BY <1>1, <1>2

(* Every step keeps the types.                                             *)
LEMMA TypeStep ==
  ASSUME TypeOK, [Next]_vars
  PROVE  TypeOK'
<1>. USE DEF flags, endVars, wireVars, feedbackVars, receiverVars
<1>1. CASE Listen
  BY <1>1 DEF Listen, TypeOK
<1>2. CASE Dial \/ \E e \in Ends : OpenUDP(e)
  BY <1>2, OpenedTyped DEF Dial, OpenUDP
<1>3. CASE DialFails \/ SendStreamFails \/ ReceiveStreamFails \/ \E e \in Ends : Killed(e)
  BY <1>3, DiesTyped DEF DialFails, SendStreamFails, ReceiveStreamFails, Fatal, Killed, Ends
<1>4. CASE SenderSteps
  BY <1>4 DEF SenderSteps, AcceptFeedback, Start, Panics, UseFeedback, FeedbackError, Ending, TypeOK
<1>5. CASE SendRTP
  <2>1. net' \subseteq Ends \X {"rtp", "rtcp", "eos"}
    BY <1>5 DEF SendRTP, TypeOK, Ends
  <2>2. refused' \in BOOLEAN
    BY <1>5 DEF SendRTP
  <2>. QED
    BY <1>5, <2>1, <2>2 DEF SendRTP, TypeOK
<1>6. CASE FeedbackArrives
  BY <1>6 DEF FeedbackArrives, ReadFeedback, ReadFeedbackFails, ReadFeedbackBreaks, Takes, TypeOK
<1>7. CASE SourceEnds \/ \E e \in Ends : Signal(e)
  BY <1>7 DEF SourceEnds, Signal, Ending, TypeOK
<1>14. CASE ReceiverEnds \/ ReceiveReturns \/ ReceiveHangs
  BY <1>14 DEF ReceiverEnds, ReceiveReturns, ReceiveHangs, TypeOK
<1>8. CASE ReadLost \/ HandleRTP \/ ReadRTP \/ ReadEOS \/ ReadFails
  BY <1>8 DEF ReadLost, HandleRTP, ReadRTP, ReadEOS, ReadFails, Read, Takes, ReaderStep, TypeOK
<1>9. CASE WriteReport
  <2>1. net' \subseteq Ends \X {"rtp", "rtcp", "eos"}
    BY <1>9 DEF WriteReport, TypeOK, Ends
  <2>. QED
    BY <1>9, <2>1 DEF WriteReport, ReaderStep, TypeOK
<1>10. CASE SendStreamOver \/ ReceiveStreamOver \/ \E e \in Ends : BulkOpens(e)
  <2>1. bulk' \in [Ends -> {"off", "open", "copy", "over"}]
    BY <1>10 DEF SendStreamOver, ReceiveStreamOver, BulkOver, BulkOpens, TypeOK
  <2>2. UNCHANGED <<flags, endVars, wireVars, feedbackVars, receiverVars>>
    BY <1>10 DEF SendStreamOver, ReceiveStreamOver, BulkOver, BulkOpens
  <2>. QED
    BY <2>1, <2>2 DEF TypeOK
<1>11. CASE \E e \in Ends : Closing(e)
  BY <1>11, ClosingTyped
<1>12. CASE \/ \E m \in net : Lose(m) \/ Bounce(m)
            \/ \E e \in Ends : SessionClosed(e) \/ SessionTimesOut(e)
  BY <1>12, WireTyped
<1>13. CASE UNCHANGED vars
  BY <1>13 DEF vars, TypeOK
<1>. QED
  BY <1>1, <1>2, <1>3, <1>4, <1>5, <1>6, <1>7, <1>8, <1>9, <1>10, <1>11, <1>12, <1>13, <1>14
     DEF Next, Opening, ReceiverSteps

-----------------------------------------------------------------------------
(* The parts of IInv other than the types.                                 *)

(* An endpoint that is opened had no connection before.                    *)
LEMMA OpenedKeepsIInv ==
  ASSUME IInv, TypeOK', NEW E \in SUBSET Ends, Opened(E),
         proto = "quic" => E = Ends,
         \A e \in E : main[e] \in {"start", "listen"} /\ conn[e] = "none"
  PROVE  IInv'
<1>1. /\ UNCHANGED <<flags, net, addr, refused, bounced, unsaid, outage, feedbackVars, receiverVars>>
      /\ \A e \in Ends : /\ main'[e] \in IF e \in E THEN {"open", "run"} ELSE {main[e]}
                         /\ conn'[e] = IF e \in E THEN "open" ELSE conn[e]
  BY DEF Opened
<1>2. \A e \in Ends : conn[e] = "closed" => conn'[e] = "closed"
  BY <1>1
<1>3. FeedbackAfterBind' /\ ReadersTold'
  <2>1. main'["recv"] = "run" /\ main["recv"] # "run" => reader = "conn"
    BY <1>1 DEF IInv, ReadersLive, Ends
  <2>. QED
    BY <1>1, <1>2, <2>1 DEF IInv, FeedbackAfterBind, ReadersTold, TimedOut, flags, feedbackVars, receiverVars, Ends
<1>4. ClosedWhenEnding'
  <2>1. /\ net' = net
        /\ \A e \in Ends : /\ main'[e] = "start" => main[e] = "start" /\ conn'[e] = conn[e]
                           /\ conn'[e] = "closed" => conn[e] = "closed" /\ main'[e] = main[e]
                           /\ conn'[e] = "eos" => conn[e] = "eos"
    BY <1>1
  <2>2. ASSUME NEW e \in Ends
        PROVE  /\ main'[e] = "start" => conn'[e] = "none"
               /\ conn'[e] = "closed" => main'[e] \in {"deferred", "exited"}
               /\ <<e, "eos">> \in net' \/ conn'[e] = "eos" => conn'[Peer(e)] = "closed"
    <3>1. Peer(e) \in Ends
      BY EndsOfPeers
    <3>. QED
      BY <1>2, <2>1, <3>1 DEF IInv, ClosedWhenEnding
  <2>. QED
    BY <2>2 DEF ClosedWhenEnding
<1>5. Connected'
  BY <1>1 DEF IInv, Connected, flags, Ends
<1>6. ReadersLive'
  BY <1>1 DEF IInv, ReadersLive, feedbackVars, receiverVars, Ends
<1>7. CloseOnItsWay'
  BY <1>1, EndsOfPeers DEF IInv, CloseOnItsWay, flags
<1>. QED
  BY <1>3, <1>4, <1>5, <1>6, <1>7 DEF IInv

(* A listener, a dialler and a UDP endpoint open one of that kind.         *)
LEMMA OpeningKeepsIInv ==
  ASSUME IInv, TypeOK', Opening
  PROVE  IInv'
<1>1. CASE Listen
  <2>1. \A e \in Ends : main'[e] = IF e = "recv" THEN "listen" ELSE main[e]
    BY <1>1 DEF Listen, IInv, TypeOK
  <2>2. conn["recv"] # "closed"
    BY <1>1 DEF Listen, IInv, ClosedWhenEnding, Ends
  <2>. QED
    BY <1>1, <2>1, <2>2
       DEF Listen, IInv, FeedbackAfterBind, ClosedWhenEnding, Connected, ReadersLive,
           ReadersTold, TimedOut, CloseOnItsWay, flags, wireVars, feedbackVars, receiverVars, Ends
<1>2. CASE Dial
  <2>1. conn["send"] = "none" /\ conn["recv"] = "none"
    BY <1>2 DEF Dial, IInv, ClosedWhenEnding, Connected, Ends
  <2>. QED
    BY <1>2, <2>1, OpenedKeepsIInv DEF Dial, Ends
<1>3. ASSUME NEW e \in Ends, OpenUDP(e)
      PROVE  IInv'
  <2>1. conn[e] = "none"
    BY <1>3 DEF OpenUDP, IInv, ClosedWhenEnding
  <2>. QED
    BY <1>3, <2>1, OpenedKeepsIInv DEF OpenUDP
<1>. QED
  BY <1>1, <1>2, <1>3 DEF Opening

(* The connection of a process that dies is closed, and its peer is told   *)
(* nothing.                                                                *)
LEMMA DyingKeepsIInv ==
  ASSUME IInv, TypeOK', NEW e \in Ends, NEW how, Dies(e, how), main[e] # "exited"
  PROVE  IInv'
<1>1. /\ UNCHANGED <<flags, net, addr, refused, bounced, outage, bound>>
      /\ feedback' = (IF e = "send" THEN "over" ELSE feedback)
      /\ reader' = (IF e = "recv" THEN "over" ELSE reader)
      /\ heard' => heard
  BY DEF Dies, Exits
<1>2. \A f \in Ends :
        /\ main'[f] = IF f = e THEN "exited" ELSE main[f]
        /\ conn'[f] = IF f = e /\ conn[f] = "open" THEN "closed" ELSE conn[f]
        /\ unsaid'[f] <=> unsaid[f] \/ (f # e /\ conn[e] # "closed")
  <2>1. \A f \in Ends : f = Peer(e) <=> f # e
    BY EndsOfPeers DEF Ends
  <2>2. \A f \in Ends : main'[f] = IF f = e THEN "exited" ELSE main[f]
    BY DEF Dies, Exits, IInv, TypeOK
  <2>3. \A f \in Ends : conn'[f] = IF f = e /\ conn[f] = "open" THEN "closed" ELSE conn[f]
    BY DEF Dies, IInv, TypeOK
  <2>4. unsaid' = [unsaid EXCEPT ![Peer(e)] = unsaid[Peer(e)] \/ conn[e] # "closed"]
    BY DEF Dies
  <2>5. \A f \in Ends : unsaid'[f] <=> unsaid[f] \/ (f # e /\ conn[e] # "closed")
    <3>1. unsaid \in [Ends -> BOOLEAN] /\ Peer(e) \in Ends
      BY EndsOfPeers DEF IInv, TypeOK
    <3>2. unsaid'[Peer(e)] = (unsaid[Peer(e)] \/ conn[e] # "closed")
      BY <2>4, <3>1
    <3>3. \A f \in Ends : f # Peer(e) => unsaid'[f] = unsaid[f]
      BY <2>4, <3>1
    <3>. QED
      BY <2>1, <3>2, <3>3
  <2>. QED
    BY <2>2, <2>3, <2>5
<1>3. \A f \in Ends : conn[f] = "closed" => conn'[f] = "closed"
  BY <1>2
<1>4. FeedbackAfterBind' /\ ReadersTold'
  BY <1>1, <1>2, <1>3 DEF IInv, FeedbackAfterBind, ReadersTold, TimedOut, flags, Ends
<1>5. ClosedWhenEnding'
  <2>1. ASSUME NEW f \in Ends
        PROVE  /\ main'[f] = "start" => main[f] = "start" /\ f # e
               /\ conn'[f] = "none" <=> conn[f] = "none"
               /\ conn'[f] = "closed" => f = e \/ conn[f] = "closed"
               /\ conn'[f] = "eos" => conn[f] = "eos"
               /\ main[f] \in {"deferred", "exited"} => main'[f] \in {"deferred", "exited"}
    BY <1>2
  <2>2. main'[e] = "exited"
    BY <1>2
  <2>. QED
    BY <1>1, <1>3, <2>1, <2>2, EndsOfPeers DEF IInv, ClosedWhenEnding
<1>6. Connected' /\ ReadersLive'
  BY <1>1, <1>2 DEF IInv, Connected, ReadersLive, flags, Ends
<1>7. CloseOnItsWay'
  BY <1>1, <1>2, EndsOfPeers DEF IInv, CloseOnItsWay, flags
<1>. QED
  BY <1>4, <1>5, <1>6, <1>7 DEF IInv

(* An endpoint that begins to end has said nothing of it yet, and its      *)
(* connection is as it was.                                                *)
LEMMA EndingKeepsIInv ==
  ASSUME IInv, TypeOK', NEW e \in Ends, NEW stage \in {"closing", "hung", "deferred"},
         main[e] \in {"open", "run", "closing", "hung"},
         main' = [main EXCEPT ![e] = stage],
         UNCHANGED <<flags, wireVars, bound, receiverVars>>,
         feedback' = feedback \/ (e = "send" /\ feedback' = "over")
  PROVE  IInv'
<1>1. /\ UNCHANGED <<flags, conn, net, addr, refused, bounced, unsaid, outage, bound, receiverVars>>
      /\ \A f \in Ends : main'[f] = IF f = e THEN stage ELSE main[f]
  BY DEF wireVars, IInv, TypeOK
<1>2. FeedbackAfterBind' /\ CloseOnItsWay'
  BY <1>1 DEF IInv, FeedbackAfterBind, CloseOnItsWay, flags, receiverVars
<1>3. ReadersLive'
  BY <1>1 DEF IInv, ReadersLive, receiverVars, Ends
<1>4. Connected'
  BY <1>1 DEF IInv, Connected, flags, Ends
<1>5. ClosedWhenEnding'
  <2>1. conn[e] # "closed"
    BY DEF IInv, ClosedWhenEnding
  <2>2. ASSUME NEW f \in Ends
        PROVE  /\ main'[f] = "start" => main[f] = "start"
               /\ conn'[f] = "closed" /\ main[f] \in {"deferred", "exited"} =>
                    main'[f] \in {"deferred", "exited"}
    BY <1>1, <2>1
  <2>3. conn' = conn /\ net' = net
    BY <1>1
  <2>. QED
    BY <2>1, <2>2, <2>3 DEF IInv, ClosedWhenEnding
<1>6. ReadersTold'
  BY <1>1 DEF IInv, ReadersTold, TimedOut, flags, receiverVars, Ends
<1>. QED
  BY <1>2, <1>3, <1>4, <1>5, <1>6 DEF IInv

(* The sender's reader is told only by a peer that closed or by a packet that *)
(* bounced, and the sender ends on that word.                              *)
LEMMA SenderKeepsIInv ==
  ASSUME IInv, TypeOK', SenderSteps \/ SendRTP \/ FeedbackArrives \/ SourceEnds
  PROVE  IInv'
<1>. USE DEF flags, endVars, wireVars, feedbackVars, receiverVars
<1>1. CASE AcceptFeedback \/ Start
  BY <1>1 DEF AcceptFeedback, Start, SenderReady, IInv, TypeOK, FeedbackAfterBind,
              ClosedWhenEnding, Connected, ReadersLive, ReadersTold, TimedOut, CloseOnItsWay, Ends
<1>2. CASE Panics \/ FeedbackError \/ SourceEnds
  BY <1>2, EndingKeepsIInv DEF Panics, FeedbackError, SourceEnds, Ending, Ends
<1>3. CASE UseFeedback
  BY <1>3 DEF UseFeedback, IInv, FeedbackAfterBind, ClosedWhenEnding,
              Connected, ReadersLive, ReadersTold, TimedOut, CloseOnItsWay
<1>4. CASE SendRTP
  <2>1. bound' /\ \A e \in Ends : <<e, "eos">> \in net' <=> <<e, "eos">> \in net
    BY <1>4 DEF SendRTP, Sending
  <2>. QED
    BY <1>4, <2>1 DEF SendRTP, IInv, FeedbackAfterBind, ClosedWhenEnding,
                      Connected, ReadersLive, ReadersTold, TimedOut, CloseOnItsWay
<1>5. CASE ReadFeedback
  <2>1. PICK m \in {"rtcp", "eos"} :
          /\ m = "eos" => proto = "udp"
          /\ <<"send", m>> \in net /\ net' \subseteq net
          /\ feedback' = m
          /\ proto = "quic" => \A e \in Ends : <<e, "eos">> \in net => <<e, "eos">> \in net'
    BY <1>5 DEF ReadFeedback, Takes
  <2>2. bound
    BY <1>5, <2>1 DEF ReadFeedback, IInv, FeedbackAfterBind
  <2>3. (FeedbackAfterBind /\ Connected /\ ReadersLive)'
    BY <1>5, <2>1, <2>2 DEF ReadFeedback, IInv, FeedbackAfterBind, Connected, ReadersLive
  <2>4. ReadersTold'
    BY <1>5, <2>1, EndsOfPeers DEF ReadFeedback, IInv, ReadersTold, TimedOut, ClosedWhenEnding, Ends
  <2>5. ClosedWhenEnding' /\ CloseOnItsWay'
    BY <1>5, <2>1 DEF ReadFeedback, IInv, ClosedWhenEnding, CloseOnItsWay
  <2>. QED
    BY <2>3, <2>4, <2>5 DEF IInv
<1>7. CASE ReadFeedbackBreaks
  BY <1>7 DEF ReadFeedbackBreaks, IInv, FeedbackAfterBind, ClosedWhenEnding, Connected,
              ReadersLive, ReadersTold, TimedOut, CloseOnItsWay
<1>6. CASE ReadFeedbackFails
  <2>1. main["send"] \notin {"start", "listen", "exited"}
    BY <1>6 DEF ReadFeedbackFails, IInv, ReadersLive
  <2>2. conn["send"] # "open" => conn["send"] \in {"closed", "eos", "timeout"}
    BY <2>1 DEF IInv, TypeOK, Connected, Ends
  <2>3. bounced \/ "closed" \in {conn["send"], conn["recv"]} \/ TimedOut("send")
    BY <1>6, <2>2, EndsOfPeers DEF ReadFeedbackFails, IInv, ClosedWhenEnding, ReadersTold, TimedOut,
                                   CloseOnItsWay, Ends
  <2>4. ReadersTold' /\ ReadersLive'
    BY <1>6, <2>1, <2>3 DEF ReadFeedbackFails, IInv, ReadersTold, TimedOut, ReadersLive
  <2>5. (FeedbackAfterBind /\ ClosedWhenEnding /\ Connected /\ CloseOnItsWay)'
    BY <1>6 DEF ReadFeedbackFails, IInv, FeedbackAfterBind, ClosedWhenEnding, Connected, CloseOnItsWay
  <2>. QED
    BY <2>4, <2>5 DEF IInv
<1>. QED
  BY <1>1, <1>2, <1>3, <1>4, <1>5, <1>6, <1>7 DEF SenderSteps, FeedbackArrives

(* A reader takes what is on the wire: an eos is there only when its peer has *)
(* closed.                                                                 *)
LEMMA ReadKeepsIInv ==
  ASSUME IInv, TypeOK', NEW m \in {"rtp", "eos"}, Read(m), m = "eos" => proto = "udp"
  PROVE  IInv'
<1>. USE DEF ReaderStep, flags, endVars, feedbackVars
<1>1. /\ net' \subseteq net /\ <<"recv", m>> \in net
      /\ proto = "quic" => \A e \in Ends : <<e, "eos">> \in net => <<e, "eos">> \in net'
  BY DEF Read, Takes
<1>2. m = "eos" => conn["send"] = "closed"
  BY <1>1, EndsOfPeers DEF IInv, ClosedWhenEnding, Ends
<1>3. (FeedbackAfterBind /\ ReadersTold)'
  BY <1>1, <1>2 DEF Read, IInv, FeedbackAfterBind, ReadersTold, TimedOut
<1>4. (ClosedWhenEnding /\ Connected /\ CloseOnItsWay)'
  BY <1>1 DEF Read, IInv, ClosedWhenEnding, Connected, CloseOnItsWay
<1>5. ReadersLive'
  BY DEF Read, Reading, IInv, ReadersLive
<1>. QED
  BY <1>3, <1>4, <1>5 DEF IInv

(* The receiver ends on its reader's word, and reports only what it heard. *)
LEMMA ReceiverKeepsIInv ==
  ASSUME IInv, TypeOK',
         ReceiverSteps \/ ReceiveHangs \/ ReadRTP \/ ReadEOS \/ ReadFails \/ WriteReport
  PROVE  IInv'
<1>. USE DEF ReaderStep, flags, endVars, feedbackVars
<1>1. CASE ReadLost
  <2>1. main["recv"] = "run" => conn["send"] = "closed" \/ TimedOut("recv")
    <3>1. main["recv"] = "run" => conn["recv"] \in {"eos", "timeout"}
      BY <1>1 DEF ReadLost, IInv, TypeOK, Connected, ClosedWhenEnding, Ends
    <3>. QED
      BY <3>1, EndsOfPeers DEF IInv, ClosedWhenEnding, CloseOnItsWay, TimedOut, Ends
  <2>. QED
    BY <1>1, <2>1 DEF ReadLost, Reading, IInv, FeedbackAfterBind, ClosedWhenEnding, Connected,
                      ReadersLive, ReadersTold, TimedOut, CloseOnItsWay
<1>2. CASE HandleRTP
  BY <1>2 DEF HandleRTP, IInv, FeedbackAfterBind, ClosedWhenEnding, Connected,
              ReadersLive, ReadersTold, TimedOut, CloseOnItsWay
<1>3. CASE ReceiverEnds \/ ReceiveReturns \/ ReceiveHangs
  BY <1>3, EndingKeepsIInv DEF ReceiverEnds, ReceiveReturns, ReceiveHangs, Ends
<1>4. CASE ReadRTP \/ ReadEOS
  BY <1>4, ReadKeepsIInv DEF ReadRTP, ReadEOS
<1>5. CASE ReadFails
  BY <1>5 DEF ReadFails, Reading, IInv, FeedbackAfterBind, ClosedWhenEnding, Connected,
              ReadersLive, ReadersTold, TimedOut, CloseOnItsWay
<1>6. CASE WriteReport
  <2>1. bound /\ \A e \in Ends : <<e, "eos">> \in net' <=> <<e, "eos">> \in net
    BY <1>6 DEF WriteReport, IInv, FeedbackAfterBind
  <2>. QED
    BY <1>6, <2>1 DEF WriteReport, IInv, FeedbackAfterBind, ClosedWhenEnding, Connected,
                      ReadersLive, ReadersTold, TimedOut, CloseOnItsWay
<1>. QED
  BY <1>1, <1>2, <1>3, <1>4, <1>5, <1>6 DEF ReceiverSteps

(* An endpoint that closes its end leaves word of it.                      *)
LEMMA SayingKeepsIInv ==
  ASSUME IInv, TypeOK', NEW e \in Ends, main[e] = "deferred", conn[e] = "open", SaysEOS(e),
         e = "recv" /\ proto = "udp" => addr,
         UNCHANGED <<flags, main, addr, bounced, outage, feedbackVars, receiverVars>>
  PROVE  IInv'
<1>. USE DEF flags, feedbackVars, receiverVars
<1>1. /\ net' = net \cup {<<Peer(e), "eos">>} /\ UNCHANGED <<refused, unsaid>>
      /\ \A f \in Ends : conn'[f] = IF f = e THEN "closed" ELSE conn[f]
  BY DEF SaysEOS, Says, IInv, TypeOK
<1>2. /\ \A f \in Ends : conn[f] = "closed" => conn'[f] = "closed"
      /\ \A f \in Ends : f = Peer(e) <=> f # e
  BY <1>1, EndsOfPeers DEF Ends
<1>3. (FeedbackAfterBind /\ ReadersTold)'
  BY <1>1, <1>2 DEF IInv, FeedbackAfterBind, ReadersTold, TimedOut, Ends
<1>4. ClosedWhenEnding'
  <2>1. conn'[e] = "closed" /\ \A f \in Ends : f # e => conn'[f] = conn[f]
    BY <1>1
  <2>2. \A f \in Ends : <<f, "eos">> \in net' => <<f, "eos">> \in net \/ Peer(f) = e
    BY <1>1, EndsOfPeers
  <2>3. ASSUME NEW f \in Ends
        PROVE  /\ main'[f] = "start" => conn'[f] = "none"
               /\ conn'[f] = "closed" => main'[f] \in {"deferred", "exited"}
               /\ <<f, "eos">> \in net' \/ conn'[f] = "eos" => conn'[Peer(f)] = "closed"
    <3>1. CASE f = e
      BY <1>2, <2>1, <2>2, <3>1, EndsOfPeers DEF IInv, ClosedWhenEnding
    <3>2. CASE f # e
      BY <1>2, <2>1, <3>2, EndsOfPeers DEF IInv, ClosedWhenEnding
    <3>. QED
      BY <3>1, <3>2
  <2>. QED
    BY <2>3 DEF ClosedWhenEnding
<1>5. (Connected /\ ReadersLive)'
  BY <1>1 DEF IInv, Connected, ReadersLive, Ends
<1>6. CloseOnItsWay'
  BY <1>1, <1>2, EndsOfPeers DEF IInv, CloseOnItsWay
<1>. QED
  BY <1>3, <1>4, <1>5, <1>6 DEF IInv

(* One that cannot say so, or is not yet closing, tells its peer nothing.  *)
LEMMA NotSayingKeepsIInv ==
  ASSUME IInv, TypeOK', NEW e \in Ends,
         CannotSay(e) \/ UNCHANGED <<conn, net, refused, unsaid>>,
         UNCHANGED <<flags, main, addr, bounced, outage, feedbackVars, receiverVars>>
  PROVE  IInv'
<1>. USE DEF flags, feedbackVars, receiverVars
<1>1. /\ UNCHANGED <<conn, net>> /\ (refused' => refused)
      /\ \A f \in Ends : unsaid[f] => unsaid'[f]
  BY EndsOfPeers DEF CannotSay, IInv, TypeOK
<1>. QED
  BY <1>1 DEF IInv, FeedbackAfterBind, ClosedWhenEnding, Connected, ReadersLive,
              ReadersTold, TimedOut, CloseOnItsWay

(* Each deferred call says so or does not.                                 *)
LEMMA ClosingKeepsIInv ==
  ASSUME IInv, TypeOK', NEW e \in Ends, Closing(e)
  PROVE  IInv'
<1>1. ASSUME NEW c, Defer(e, c)
      PROVE  main[e] = "deferred" /\ UNCHANGED <<flags, main, addr, bounced, outage, feedbackVars, receiverVars>>
  BY <1>1 DEF Defer
<1>2. CASE Cancel(e)
  BY <1>1, <1>2, NotSayingKeepsIInv DEF Cancel
<1>3. CASE CloseReader(e)
  <2>1. CASE e = "send" \/ conn[e] # "open"
    BY <1>1, <1>3, <2>1, NotSayingKeepsIInv DEF CloseReader
  <2>2. CASE e # "send" /\ conn[e] = "open" /\ addr
    BY <1>1, <1>3, <2>2, SayingKeepsIInv DEF CloseReader
  <2>3. CASE e # "send" /\ conn[e] = "open" /\ ~addr
    BY <1>1, <1>3, <2>3, NotSayingKeepsIInv DEF CloseReader
  <2>. QED
    BY <2>1, <2>2, <2>3
<1>4. CASE CloseWriter(e)
  <2>1. CASE e = "recv" \/ conn[e] # "open"
    BY <1>1, <1>4, <2>1, NotSayingKeepsIInv DEF CloseWriter
  <2>2. CASE e # "recv" /\ conn[e] = "open" /\ ~refused
    BY <1>1, <1>4, <2>2, SayingKeepsIInv DEF CloseWriter
  <2>3. CASE e # "recv" /\ conn[e] = "open" /\ refused
    BY <1>1, <1>4, <2>3, NotSayingKeepsIInv DEF CloseWriter
  <2>. QED
    BY <2>1, <2>2, <2>3
<1>5. CASE CloseConn(e)
  <2>. USE DEF flags, feedbackVars, receiverVars
  <2>1. /\ proto = "udp" /\ main[e] = "deferred"
        /\ UNCHANGED <<flags, main, addr, bounced, outage, feedbackVars, receiverVars, net, refused, unsaid>>
        /\ \A f \in Ends : conn'[f] = IF f = e THEN "closed" ELSE conn[f]
    BY <1>1, <1>5 DEF CloseConn, IInv, TypeOK
  <2>2. \A f \in Ends : conn[f] = "closed" => conn'[f] = "closed"
    BY <2>1
  <2>3. (FeedbackAfterBind /\ ReadersTold)'
    BY <2>1, <2>2 DEF IInv, FeedbackAfterBind, ReadersTold, TimedOut, Ends
  <2>4. (ClosedWhenEnding /\ CloseOnItsWay)'
    BY <2>1, <2>2, EndsOfPeers DEF IInv, ClosedWhenEnding, CloseOnItsWay
  <2>5. (Connected /\ ReadersLive)'
    BY <2>1 DEF IInv, Connected, ReadersLive, Ends
  <2>. QED
    BY <2>3, <2>4, <2>5 DEF IInv
<1>6. CASE CloseSession(e)
  <2>1. CASE conn[e] = "open"
    BY <1>1, <1>6, <2>1, SayingKeepsIInv DEF CloseSession
  <2>2. CASE conn[e] # "open"
    BY <1>1, <1>6, <2>2, NotSayingKeepsIInv DEF CloseSession
  <2>. QED
    BY <2>1, <2>2
<1>7. CASE Exit(e)
  <2>. USE DEF flags
  <2>1. /\ UNCHANGED <<flags, conn, net, addr, refused, bounced, unsaid, outage, bound>>
        /\ main[e] = "deferred"
        /\ \A f \in Ends : main'[f] = IF f = e THEN "exited" ELSE main[f]
        /\ feedback' = (IF e = "send" THEN "over" ELSE feedback)
        /\ reader' = (IF e = "recv" THEN "over" ELSE reader)
        /\ heard' => heard
    BY <1>7 DEF Exit, Exits, IInv, TypeOK
  <2>2. (FeedbackAfterBind /\ ReadersTold)'
    BY <2>1 DEF IInv, FeedbackAfterBind, ReadersTold, TimedOut, Ends
  <2>3. (ClosedWhenEnding /\ CloseOnItsWay)'
    BY <2>1 DEF IInv, ClosedWhenEnding, CloseOnItsWay
  <2>4. (Connected /\ ReadersLive)'
    BY <2>1 DEF IInv, Connected, ReadersLive, Ends
  <2>. QED
    BY <2>2, <2>3, <2>4 DEF IInv
<1>. QED
  BY <1>2, <1>3, <1>4, <1>5, <1>6, <1>7 DEF Closing

(* A word that is lost or bounces is one that the peer will not get.       *)
LEMMA DatagramKeepsIInv ==
  ASSUME IInv, TypeOK', NEW m \in net, Lose(m) \/ Bounce(m)
  PROVE  IInv'
<1>. USE DEF WireStep, flags, endVars, feedbackVars, receiverVars
<1>1. /\ net' = net \ {m} /\ UNCHANGED <<conn, outage>>
      /\ (refused' => refused \/ bounced') /\ (bounced => bounced')
      /\ UNCHANGED <<flags, endVars, addr, feedbackVars, receiverVars>>
  BY DEF Lose, Bounce
<1>2. \A e \in Ends : unsaid'[e] <=> unsaid[e] \/ m = <<e, "eos">>
  <2>1. unsaid \in [Ends -> BOOLEAN] /\ m[1] \in Ends
    BY DEF IInv, TypeOK
  <2>2. m = <<m[1], m[2]>>
    BY DEF IInv, TypeOK
  <2>3. unsaid' = [unsaid EXCEPT ![m[1]] = unsaid[m[1]] \/ m[2] = "eos"]
    BY DEF Lose, Bounce, Forgets
  <2>4. unsaid'[m[1]] = (unsaid[m[1]] \/ m[2] = "eos")
    BY <2>1, <2>3
  <2>5. \A e \in Ends : e # m[1] => unsaid'[e] = unsaid[e]
    BY <2>1, <2>3
  <2>6. \A e \in Ends : m = <<e, "eos">> <=> e = m[1] /\ m[2] = "eos"
    BY <2>2
  <2>. QED
    BY <2>4, <2>5, <2>6
<1>3. (FeedbackAfterBind /\ ClosedWhenEnding /\ Connected)'
  BY <1>1 DEF IInv, FeedbackAfterBind, ClosedWhenEnding, Connected
<1>4. (ReadersLive /\ ReadersTold)'
  BY <1>1 DEF IInv, ReadersLive, ReadersTold, TimedOut
<1>5. CloseOnItsWay'
  BY <1>1, <1>2 DEF IInv, CloseOnItsWay
<1>. QED
  BY <1>3, <1>4, <1>5 DEF IInv

(* A session is over for an endpoint when the peer has closed it, when its *)
(* close was lost, or in an outage.                                        *)
LEMMA SessionKeepsIInv ==
  ASSUME IInv, TypeOK', NEW e \in Ends, SessionClosed(e) \/ SessionTimesOut(e)
  PROVE  IInv'
<1>. USE DEF WireStep, flags, endVars, feedbackVars, receiverVars
<1>1. /\ proto = "quic" /\ net' \in {net, net \ {<<e, "eos">>}}
      /\ UNCHANGED <<flags, main, addr, refused, bounced, unsaid, feedbackVars, receiverVars>>
      /\ outage => outage'
      /\ \E c \in {"eos", "timeout"} :
           \A f \in Ends : conn'[f] = IF f = e /\ conn[f] = "open" THEN c ELSE conn[f]
  <2>1. CASE SessionClosed(e)
    BY <2>1 DEF SessionClosed, IInv, TypeOK
  <2>2. CASE SessionTimesOut(e)
    BY <2>2 DEF SessionTimesOut, IInv, TypeOK
  <2>. QED
    BY <2>1, <2>2
<1>2. /\ \A f \in Ends : conn'[f] = "closed" <=> conn[f] = "closed"
      /\ \A f \in Ends : conn'[f] = "none" <=> conn[f] = "none"
      /\ \A f \in Ends : conn'[f] = "open" => conn[f] = "open"
      /\ \A f \in Ends : conn[f] = "timeout" => conn'[f] = "timeout"
      /\ \A f \in Ends : f # e => conn'[f] = conn[f]
      /\ conn'[e] # "open"
  BY <1>1
<1>4. (FeedbackAfterBind /\ ReadersTold)'
  BY <1>1, <1>2 DEF IInv, FeedbackAfterBind, ReadersTold, TimedOut, Ends
<1>5. ClosedWhenEnding'
  <2>1. conn'[e] = "eos" => conn[Peer(e)] = "closed"
    BY DEF SessionClosed, SessionTimesOut, IInv, TypeOK, ClosedWhenEnding
  <2>2. net' \subseteq net /\ main' = main
    BY <1>1
  <2>3. ASSUME NEW f \in Ends
        PROVE  /\ main'[f] = "start" => conn'[f] = "none"
               /\ conn'[f] = "closed" => main'[f] \in {"deferred", "exited"}
               /\ <<f, "eos">> \in net' \/ conn'[f] = "eos" => conn'[Peer(f)] = "closed"
    <3>1. CASE f = e
      BY <1>2, <2>1, <2>2, <3>1, EndsOfPeers DEF IInv, ClosedWhenEnding
    <3>2. CASE f # e
      BY <1>2, <2>2, <3>2, EndsOfPeers DEF IInv, ClosedWhenEnding
    <3>. QED
      BY <3>1, <3>2
  <2>. QED
    BY <2>3 DEF ClosedWhenEnding
<1>6. (Connected /\ ReadersLive)'
  BY <1>1, <1>2 DEF IInv, Connected, ReadersLive, Ends
<1>7. CloseOnItsWay'
  <2>1. conn'[e] = "timeout" /\ ~outage' => conn[Peer(e)] = "closed" /\ unsaid[e]
    <3>1. CASE SessionClosed(e)
      BY <3>1 DEF SessionClosed, IInv, TypeOK, CloseOnItsWay
    <3>2. CASE SessionTimesOut(e)
      <4>1. SUFFICES ASSUME ~outage' PROVE conn[Peer(e)] = "closed" /\ unsaid[e]
        OBVIOUS
      <4>2. ~outage /\ conn[e] = "open" /\ conn[Peer(e)] # "open" /\ <<e, "eos">> \notin net
        BY <3>2, <4>1 DEF SessionTimesOut
      <4>3. conn[Peer(e)] \in {"closed", "eos", "timeout"}
        BY <1>1, <4>2, EndsOfPeers DEF IInv, TypeOK, Connected, Ends
      <4>4. conn[Peer(e)] = "closed"
        BY <4>2, <4>3, EndsOfPeers DEF IInv, ClosedWhenEnding, CloseOnItsWay
      <4>. QED
        BY <1>1, <4>2, <4>4 DEF IInv, CloseOnItsWay
    <3>. QED
      BY <3>1, <3>2
  <2>2. \A f \in Ends : f # e => (<<f, "eos">> \in net' <=> <<f, "eos">> \in net)
    BY <1>1
  <2>3. ASSUME NEW f \in Ends
        PROVE  /\ proto' = "quic" /\ conn'[f] = "open" /\ conn'[Peer(f)] = "closed" =>
                    <<f, "eos">> \in net' \/ unsaid'[f]
               /\ conn'[f] = "timeout" /\ ~outage' => conn'[Peer(f)] = "closed" /\ unsaid'[f]
    <3>1. CASE f = e
      BY <1>1, <1>2, <2>1, <3>1, EndsOfPeers
    <3>2. CASE f # e
      BY <1>1, <1>2, <2>2, <3>2, EndsOfPeers DEF IInv, CloseOnItsWay
    <3>. QED
      BY <3>1, <3>2
  <2>. QED
    BY <2>3 DEF CloseOnItsWay
<1>. QED
  BY <1>4, <1>5, <1>6, <1>7 DEF IInv

(* Every step keeps IInv.                                                  *)
LEMMA NextIInv ==
  ASSUME IInv, [Next]_vars
  PROVE  IInv'
<1>1. TypeOK'
  BY TypeStep DEF IInv
<1>2. ASSUME UNCHANGED <<flags, endVars, wireVars, feedbackVars, receiverVars>>
      PROVE  IInv'
  BY <1>1, <1>2 DEF flags, endVars, wireVars, feedbackVars, receiverVars, IInv, FeedbackAfterBind,
                    ClosedWhenEnding, Connected, ReadersLive, ReadersTold, TimedOut, CloseOnItsWay
<1>3. CASE Opening
  BY <1>1, <1>3, OpeningKeepsIInv
<1>4. CASE DialFails \/ SendStreamFails \/ ReceiveStreamFails \/ \E e \in Ends : Killed(e)
  BY <1>1, <1>4, DyingKeepsIInv DEF DialFails, SendStreamFails, ReceiveStreamFails, Fatal, Killed, Ends
<1>5. CASE SenderSteps \/ SendRTP \/ FeedbackArrives \/ SourceEnds
  BY <1>1, <1>5, SenderKeepsIInv
<1>6. CASE ReceiverSteps \/ ReceiveHangs \/ ReadRTP \/ ReadEOS \/ ReadFails \/ WriteReport
  BY <1>1, <1>6, ReceiverKeepsIInv
<1>7. CASE SendStreamOver \/ ReceiveStreamOver \/ \E e \in Ends : BulkOpens(e)
  BY <1>2, <1>7 DEF SendStreamOver, ReceiveStreamOver, BulkOver, BulkOpens
<1>8. ASSUME NEW e \in Ends, Signal(e)
      PROVE  IInv'
  BY <1>1, <1>8, EndingKeepsIInv DEF Signal, SenderReady, Ending
<1>9. CASE \E e \in Ends : Closing(e)
  BY <1>1, <1>9, ClosingKeepsIInv
<1>10. CASE \E e \in Ends : SessionClosed(e) \/ SessionTimesOut(e)
  BY <1>1, <1>10, SessionKeepsIInv
<1>11. CASE \E m \in net : Lose(m) \/ Bounce(m)
  BY <1>1, <1>11, DatagramKeepsIInv
<1>12. CASE UNCHANGED vars
  BY <1>2, <1>12 DEF vars
<1>. QED
  BY <1>3, <1>4, <1>5, <1>6, <1>7, <1>8, <1>9, <1>10, <1>11, <1>12 DEF Next

(* Whatever is lost, delayed or repeated between the two processes, there  *)
(* is nothing for AcceptFeedback to read before Start has bound its        *)
(* reader, and the close of a connection is on its way until it is noticed *)
(* or lost.                                                                *)
THEOREM Invariance == SafeSpec => []IInv
BY InitIInv, NextIInv, PTL DEF SafeSpec

-----------------------------------------------------------------------------
(* What an endpoint takes for the peer's end.                              *)

(* An end is for ever, and so are the marks it leaves.                     *)
LEMMA EndsRemain ==
  ASSUME TypeOK, [Next]_vars
  PROVE  /\ \A e \in Ends : main[e] \in {"deferred", "exited"} => main'[e] \in {"deferred", "exited"}
         /\ \A e \in Ends : main[e] = "exited" => main'[e] = "exited"
         /\ bounced => bounced'
<1>. USE DEF flags, endVars, wireVars, feedbackVars, receiverVars
<1>1. CASE Opening
  BY <1>1 DEF Opening, Listen, Dial, OpenUDP, Opened, TypeOK, Ends
<1>2. CASE DialFails \/ SendStreamFails \/ ReceiveStreamFails \/ \E e \in Ends : Killed(e)
  BY <1>2 DEF DialFails, SendStreamFails, ReceiveStreamFails, Fatal, Killed, Dies, Exits, TypeOK
<1>3. ASSUME NEW e \in Ends, NEW reason, Ending(e, reason),
             main[e] \in {"open", "run", "closing", "hung"}, UNCHANGED bounced
      PROVE  /\ \A f \in Ends : main[f] \in {"deferred", "exited"} => main'[f] \in {"deferred", "exited"}
             /\ \A f \in Ends : main[f] = "exited" => main'[f] = "exited"
  BY <1>3 DEF Ending, TypeOK
<1>4. CASE Panics \/ FeedbackError \/ SourceEnds \/ \E e \in Ends : Signal(e)
  <2>1. PICK e \in Ends, reason \in {"panic", "peer", "source", "error", "signal"} :
          Ending(e, reason) /\ main[e] \in {"open", "run", "closing", "hung"}
    BY <1>4 DEF Panics, FeedbackError, SourceEnds, Signal, SenderReady, Ends
  <2>2. UNCHANGED bounced
    BY <2>1 DEF Ending
  <2>. QED
    BY <1>3, <2>1, <2>2
<1>11. CASE ReceiverEnds \/ ReceiveReturns \/ ReceiveHangs
  BY <1>11 DEF ReceiverEnds, ReceiveReturns, ReceiveHangs, TypeOK, Ends
<1>6. CASE AcceptFeedback \/ Start \/ UseFeedback \/ SendRTP \/ FeedbackArrives
  BY <1>6 DEF AcceptFeedback, Start, UseFeedback, SendRTP, FeedbackArrives, ReadFeedback,
              ReadFeedbackFails, ReadFeedbackBreaks, SenderReady, TypeOK, Ends
<1>10. CASE ReadLost \/ HandleRTP \/ ReadRTP \/ ReadEOS \/ ReadFails \/ WriteReport
  BY <1>10 DEF ReadLost, HandleRTP, ReadRTP, ReadEOS, Read, ReadFails, WriteReport, ReaderStep
<1>5. CASE SendStreamOver \/ ReceiveStreamOver \/ \E e \in Ends : BulkOpens(e)
  BY <1>5 DEF SendStreamOver, ReceiveStreamOver, BulkOver, BulkOpens
<1>7. CASE \E e \in Ends : Closing(e)
  BY <1>7 DEF Closing, Cancel, CloseReader, CloseWriter, CloseConn, CloseSession, Defer,
              Exit, Exits, TypeOK
<1>8. CASE \/ \E e \in Ends : SessionClosed(e) \/ SessionTimesOut(e)
           \/ \E m \in net : Lose(m) \/ Bounce(m)
  <2>1. UNCHANGED main /\ (bounced' = bounced \/ bounced' = TRUE)
    BY <1>8 DEF SessionClosed, SessionTimesOut, Lose, Bounce, WireStep
  <2>. QED
    BY <2>1
<1>9. CASE UNCHANGED vars
  BY <1>9 DEF vars
<1>. QED
  BY <1>1, <1>2, <1>4, <1>5, <1>6, <1>7, <1>8, <1>9, <1>10, <1>11
     DEF Next, SenderSteps, ReceiverSteps

(* What ends an endpoint and what kills it is decided in the steps that do *)
(* so, and in no other.                                                    *)
LEMMA EndsAreDecided ==
  ASSUME [Next]_vars
  PROVE  \/ UNCHANGED <<why, died>>
         \/ /\ Panics \/ FeedbackError \/ SourceEnds \/ ReceiverEnds \/ \E e \in Ends : Signal(e)
            /\ UNCHANGED died
         \/ /\ DialFails \/ SendStreamFails \/ ReceiveStreamFails \/ \E e \in Ends : Killed(e)
            /\ UNCHANGED why
<1>. USE DEF endVars
<1>1. CASE Panics \/ FeedbackError \/ SourceEnds \/ ReceiverEnds \/ \E e \in Ends : Signal(e)
  BY <1>1 DEF Panics, FeedbackError, SourceEnds, ReceiverEnds, Signal, Ending
<1>2. CASE DialFails \/ SendStreamFails \/ ReceiveStreamFails \/ \E e \in Ends : Killed(e)
  BY <1>2 DEF DialFails, SendStreamFails, ReceiveStreamFails, Fatal, Killed, Dies, Exits
<1>3. CASE Opening
  BY <1>3 DEF Opening, Listen, Dial, OpenUDP, Opened
<1>4. CASE AcceptFeedback \/ Start \/ UseFeedback \/ SendRTP \/ FeedbackArrives
  BY <1>4 DEF AcceptFeedback, Start, UseFeedback, SendRTP, FeedbackArrives, ReadFeedback,
              ReadFeedbackFails, ReadFeedbackBreaks
<1>5. CASE \/ ReadLost \/ HandleRTP \/ ReadRTP \/ ReadEOS \/ ReadFails \/ WriteReport
           \/ ReceiveReturns \/ ReceiveHangs
  BY <1>5 DEF ReadLost, HandleRTP, ReadRTP, ReadEOS, Read, ReadFails, WriteReport, ReaderStep,
              ReceiveReturns, ReceiveHangs
<1>6. CASE SendStreamOver \/ ReceiveStreamOver \/ \E e \in Ends : BulkOpens(e)
  BY <1>6 DEF SendStreamOver, ReceiveStreamOver, BulkOver, BulkOpens
<1>7. CASE \E e \in Ends : Closing(e)
  BY <1>7 DEF Closing, Cancel, CloseReader, CloseWriter, CloseConn, CloseSession, Defer, Exit, Exits
<1>8. CASE \/ \E e \in Ends : SessionClosed(e) \/ SessionTimesOut(e)
           \/ \E m \in net : Lose(m) \/ Bounce(m)
  BY <1>8 DEF SessionClosed, SessionTimesOut, Lose, Bounce, WireStep
<1>9. CASE UNCHANGED vars
  BY <1>9 DEF vars
<1>. QED
  BY <1>1, <1>2, <1>3, <1>4, <1>5, <1>6, <1>7, <1>8, <1>9 DEF Next, SenderSteps, ReceiverSteps

(* An endpoint ends on word of its peer only when a reader has told it.    *)
LEMMA PeerTold ==
  ASSUME TypeOK, [Next]_vars
  PROVE  /\ why'["recv"] = "peer" =>
              why["recv"] = "peer" \/ (main["recv"] = "run" /\ reader = "eos")
         /\ why'["send"] = "peer" =>
              why["send"] = "peer" \/ (main["send"] = "run" /\ feedback = "err")
<1>1. CASE UNCHANGED why
  BY <1>1
<1>2. CASE Panics \/ SourceEnds \/ \E e \in Ends : Signal(e)
  <2>1. \E e \in Ends, reason \in {"panic", "source", "signal"} :
          why' = [why EXCEPT ![e] = reason]
    BY <1>2 DEF Panics, SourceEnds, Signal, Ending, Ends
  <2>. QED
    BY <2>1 DEF TypeOK
<1>3. CASE FeedbackError
  BY <1>3 DEF FeedbackError, Ending, TypeOK, Ends
<1>4. CASE ReceiverEnds
  BY <1>4 DEF ReceiverEnds, Ending, TypeOK, Ends
<1>. QED
  BY <1>1, <1>2, <1>3, <1>4, EndsAreDecided

(* Few steps open, close or lose a connection.                             *)
LEMMA WireTouched ==
  ASSUME [Next]_vars
  PROVE  \/ Opening
         \/ DialFails \/ SendStreamFails \/ ReceiveStreamFails \/ \E e \in Ends : Killed(e)
         \/ \E e \in Ends : Closing(e) \/ SessionClosed(e) \/ SessionTimesOut(e)
         \/ \E m \in net : Lose(m) \/ Bounce(m)
         \/ UNCHANGED <<conn, unsaid, outage>>
<1>. USE DEF wireVars
<1>1. CASE SenderSteps \/ SendRTP \/ FeedbackArrives \/ SourceEnds \/ \E e \in Ends : Signal(e)
  BY <1>1 DEF SenderSteps, AcceptFeedback, Start, Panics, UseFeedback, FeedbackError, SendRTP,
              FeedbackArrives, ReadFeedback, ReadFeedbackFails, ReadFeedbackBreaks, SourceEnds,
              Signal, Ending
<1>2. CASE ReceiverSteps \/ ReceiveHangs \/ ReadRTP \/ ReadEOS \/ ReadFails \/ WriteReport
  BY <1>2 DEF ReceiverSteps, ReadLost, HandleRTP, ReceiverEnds, ReceiveReturns, ReceiveHangs,
              ReadRTP, ReadEOS, Read, ReadFails, WriteReport, ReaderStep
<1>3. CASE SendStreamOver \/ ReceiveStreamOver \/ \E e \in Ends : BulkOpens(e)
  BY <1>3 DEF SendStreamOver, ReceiveStreamOver, BulkOver, BulkOpens
<1>4. CASE UNCHANGED vars
  BY <1>4 DEF vars
<1>. QED
  BY <1>1, <1>2, <1>3, <1>4 DEF Next

(* A session that has timed out stays so, and an outage is not forgotten.  *)
LEMMA TimeoutsRemain ==
  ASSUME IInv, [Next]_vars
  PROVE  (outage => outage') /\ \A e \in Ends : conn[e] = "timeout" => conn'[e] = "timeout"
<1>. USE DEF IInv, TypeOK
<1>1. CASE Opening
  <2>1. \/ UNCHANGED <<conn, outage>>
        \/ \E E \in SUBSET Ends :
             Opened(E) /\ \A e \in E : main[e] \in {"start", "listen"}
    <3>1. CASE Listen
      BY <3>1 DEF Listen, wireVars
    <3>2. CASE Dial
      BY <3>2 DEF Dial, Ends
    <3>3. ASSUME NEW e \in Ends, OpenUDP(e)
          PROVE  Opened({e}) /\ {e} \in SUBSET Ends /\ \A f \in {e} : main[f] \in {"start", "listen"}
      BY <3>3 DEF OpenUDP
    <3>. QED
      BY <1>1, <3>1, <3>2, <3>3 DEF Opening
  <2>2. \A e \in Ends : main[e] \in {"start", "listen"} => conn[e] # "timeout"
    BY <1>1, EndsOfPeers DEF Opening, Listen, Dial, OpenUDP, ClosedWhenEnding, Connected, Ends
  <2>. QED
    BY <2>1, <2>2 DEF Opened
<1>2. CASE DialFails \/ SendStreamFails \/ ReceiveStreamFails \/ \E e \in Ends : Killed(e)
  BY <1>2 DEF DialFails, SendStreamFails, ReceiveStreamFails, Fatal, Killed, Dies, Exits
<1>3. ASSUME NEW e \in Ends, Closing(e)
      PROVE  (outage => outage') /\ \A f \in Ends : conn[f] = "timeout" => conn'[f] = "timeout"
  <2>1. outage' = outage
    BY <1>3 DEF Closing, Cancel, CloseReader, CloseWriter, CloseConn, CloseSession, Defer, Exit, Exits
  <2>2. \/ conn' = conn
        \/ conn[e] # "timeout" /\ conn' = [conn EXCEPT ![e] = "closed"]
    BY <1>3 DEF Closing, Cancel, CloseReader, CloseWriter, CloseConn, CloseSession, Exit,
                SaysEOS, CannotSay, Connected
  <2>. QED
    BY <2>1, <2>2
<1>4. ASSUME NEW e \in Ends, SessionClosed(e) \/ SessionTimesOut(e)
      PROVE  (outage => outage') /\ \A f \in Ends : conn[f] = "timeout" => conn'[f] = "timeout"
  <2>1. outage => outage'
    BY <1>4 DEF SessionClosed, SessionTimesOut
  <2>2. \E c \in {"eos", "timeout"} :
          conn' = [conn EXCEPT ![e] = IF conn[e] = "open" THEN c ELSE conn[e]]
    BY <1>4 DEF SessionClosed, SessionTimesOut
  <2>. QED
    BY <2>1, <2>2
<1>5. CASE \E m \in net : Lose(m) \/ Bounce(m)
  BY <1>5 DEF Lose, Bounce
<1>. QED
  BY <1>1, <1>2, <1>3, <1>4, <1>5, WireTouched

(* An endpoint takes its peer for gone only when it is, or when its own    *)
(* session timed out in an outage, or, for a sender over UDP, when a       *)
(* packet of its had found no socket there.                                *)
THEOREM Announced == SafeSpec => []EndAnnounced
<1>1. Init => EndAnnounced
  BY DEF Init, EndAnnounced, Ends
<1>2. ASSUME IInv, EndAnnounced, [Next]_vars
      PROVE  EndAnnounced'
  <2>1. main["recv"] = "run" /\ reader = "eos" =>
          main["send"] \in {"deferred", "exited"} \/ TimedOut("recv")
    BY <1>2 DEF IInv, ReadersTold, ClosedWhenEnding, Ends
  <2>2. main["send"] = "run" /\ feedback = "err" =>
          main["recv"] \in {"deferred", "exited"} \/ bounced \/ TimedOut("send")
    BY <1>2 DEF IInv, ReadersTold, ClosedWhenEnding, Ends
  <2>3. \A e \in Ends : TimedOut(e) => TimedOut(e)'
    BY <1>2, TimeoutsRemain DEF TimedOut
  <2>4. TypeOK
    BY <1>2 DEF IInv
  <2>. QED
    BY <1>2, <2>1, <2>2, <2>3, <2>4, EndsRemain, PeerTold DEF EndAnnounced, Ends
<1>. QED
  BY <1>1, <1>2, Invariance, PTL DEF SafeSpec

-----------------------------------------------------------------------------
(* What kills an endpoint.                                                 *)

(* What has died of something has exited.                                  *)
Dead == \A e \in Ends : died[e] # "no" => main[e] = "exited"

(* A process that has died opens no connection any more, and the sender    *)
(* dies by itself only where it dials or where its stream fails.           *)
LEMMA DeathStep ==
  ASSUME IInv, Dead, [Next]_vars
  PROVE  /\ Dead'
         /\ died'["send"] = "fatal" => died["send"] = "fatal" \/ DialFails \/ SendStreamFails
<1>1. CASE UNCHANGED died
  BY <1>1, EndsRemain DEF IInv, Dead
<1>2. ASSUME NEW e \in Ends, NEW how, Dies(e, how)
      PROVE  Dead' /\ died' = [died EXCEPT ![e] = how]
  BY <1>2 DEF Dies, Exits, Dead, IInv, TypeOK
<1>3. CASE DialFails \/ SendStreamFails
  BY <1>2, <1>3 DEF DialFails, SendStreamFails, Fatal, Ends
<1>4. CASE ReceiveStreamFails \/ \E e \in Ends : Killed(e)
  <2>1. PICK e \in Ends, how \in {"fatal", "killed"} :
          Dies(e, how) /\ (e = "send" => how = "killed")
    BY <1>4 DEF ReceiveStreamFails, Fatal, Killed, Ends
  <2>. QED
    BY <1>2, <2>1 DEF IInv, TypeOK, Ends
<1>. QED
  BY <1>1, <1>3, <1>4, EndsAreDecided

(* A sender that has exited with no connection opens none.                 *)
LEMMA OpensAtStart ==
  ASSUME IInv, [Next]_vars, main["send"] = "exited", conn["send"] = "none"
  PROVE  conn'["send"] = "none"
<1>. USE DEF IInv, TypeOK, Ends
<1>1. CASE Opening
  BY <1>1 DEF Opening, Listen, Dial, OpenUDP, Opened, wireVars
<1>2. CASE DialFails \/ SendStreamFails \/ ReceiveStreamFails \/ \E e \in Ends : Killed(e)
  BY <1>2 DEF DialFails, SendStreamFails, ReceiveStreamFails, Fatal, Killed, Dies
<1>3. ASSUME NEW e \in Ends, Closing(e)
      PROVE  conn'["send"] = "none"
  <2>1. e = "recv"
    BY <1>3 DEF Closing, Cancel, CloseReader, CloseWriter, CloseConn, CloseSession, Defer, Exit
  <2>2. conn' = conn \/ conn' = [conn EXCEPT ![e] = "closed"]
    BY <1>3 DEF Closing, Cancel, CloseReader, CloseWriter, CloseConn, CloseSession, Exit,
                SaysEOS, CannotSay
  <2>. QED
    BY <2>1, <2>2
<1>4. CASE \/ \E e \in Ends : SessionClosed(e) \/ SessionTimesOut(e)
           \/ \E m \in net : Lose(m) \/ Bounce(m)
  BY <1>4 DEF SessionClosed, SessionTimesOut, Lose, Bounce
<1>. QED
  BY <1>1, <1>2, <1>3, <1>4, WireTouched

(* What an endpoint will not hear stays unsaid.                            *)
LEMMA UnsaidRemains ==
  ASSUME IInv, [Next]_vars, unsaid["send"]
  PROVE  unsaid'["send"]
<1>1. ASSUME NEW e \in Ends, NEW b, unsaid' = [unsaid EXCEPT ![e] = unsaid[e] \/ b]
      PROVE  unsaid'["send"]
  BY <1>1 DEF IInv, TypeOK, Ends
<1>2. CASE DialFails \/ SendStreamFails \/ ReceiveStreamFails \/ \E e \in Ends : Killed(e)
  <2>1. PICK e \in Ends : unsaid' = [unsaid EXCEPT ![Peer(e)] = unsaid[Peer(e)] \/ conn[e] # "closed"]
    BY <1>2 DEF DialFails, SendStreamFails, ReceiveStreamFails, Fatal, Killed, Dies, Ends
  <2>. QED
    BY <1>1, <2>1, EndsOfPeers
<1>3. ASSUME NEW e \in Ends, Closing(e)
      PROVE  unsaid'["send"]
  <2>1. UNCHANGED unsaid \/ unsaid' = [unsaid EXCEPT ![Peer(e)] = TRUE]
    BY <1>3 DEF Closing, Cancel, CloseReader, CloseWriter, CloseConn, CloseSession, Exit,
                SaysEOS, CannotSay
  <2>. QED
    BY <2>1 DEF IInv, TypeOK, Ends
<1>4. ASSUME NEW m \in net, Lose(m) \/ Bounce(m)
      PROVE  unsaid'["send"]
  <2>1. m[1] \in Ends /\ unsaid' = [unsaid EXCEPT ![m[1]] = unsaid[m[1]] \/ m[2] = "eos"]
    BY <1>4 DEF Lose, Bounce, Forgets, IInv, TypeOK
  <2>. QED
    BY <1>1, <2>1
<1>5. CASE Opening \/ \E e \in Ends : SessionClosed(e) \/ SessionTimesOut(e)
  BY <1>5 DEF Opening, Listen, Dial, OpenUDP, Opened, wireVars, SessionClosed, SessionTimesOut
<1>. QED
  BY <1>2, <1>3, <1>4, <1>5, WireTouched

(* The sender dies of its stream only when the receiver has died without a *)
(* word, its word was lost, or there was an outage.                        *)
THEOREM SpreadOfDeath == SafeSpec => []FatalSpreads
<1>. DEFINE Inv == Dead /\ FatalSpreads
<1>1. Init => Inv
  BY DEF Init, Dead, FatalSpreads, Ends
<1>2. ASSUME IInv, Inv, [Next]_vars
      PROVE  Inv'
  <2>1. Dead'
    BY <1>2, DeathStep
  <2>2. CASE died["send"] = "fatal"
    <3>1. main["send"] = "exited"
      BY <1>2, <2>2 DEF Dead, Ends
    <3>2. conn'["send"] # "none" => conn["send"] # "none"
      BY <1>2, <3>1, OpensAtStart
    <3>. QED
      BY <1>2, <2>1, <2>2, <3>2, UnsaidRemains, TimeoutsRemain DEF FatalSpreads
  <2>3. CASE DialFails
    <3>1. conn["send"] = "none"
      BY <1>2, <2>3 DEF DialFails, IInv, ClosedWhenEnding, Ends
    <3>2. conn'["send"] = "none"
      BY <1>2, <2>3, <3>1 DEF DialFails, Dies, IInv, TypeOK, Ends
    <3>. QED
      BY <2>1, <3>2 DEF FatalSpreads
  <2>4. CASE SendStreamFails
    <3>1. unsaid["send"] \/ outage
      BY <1>2, <2>4 DEF SendStreamFails, IInv, CloseOnItsWay, Ends
    <3>. QED
      BY <1>2, <2>1, <3>1, UnsaidRemains, TimeoutsRemain DEF FatalSpreads
  <2>. QED
    BY <1>2, <2>1, <2>2, <2>3, <2>4, DeathStep DEF FatalSpreads
<1>. QED
  BY <1>1, <1>2, Invariance, PTL DEF SafeSpec

=============================================================================
