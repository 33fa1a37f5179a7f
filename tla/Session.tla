------------------------------- MODULE Session -------------------------------
(***************************************************************************)
(* The two processes and the transport between them, from opening to exit: *)
(* send and receive of main.go, transport/udp.go, transport/quic.go, and   *)
(* of Start, AcceptFeedback and Receive what they do with the transport.   *)
(* What happens inside an endpoint between its end being decided and its   *)
(* deferred calls is the subject of Sender and Receiver: here Start        *)
(* returns in one step, and Receive does so or hangs.                      *)
(*                                                                         *)
(* A deferred call that cannot do its work logs an error and the next one  *)
(* is made; the deferred calls of an endpoint are a stack.                 *)
(***************************************************************************)
EXTENDS Naturals, Sequences

Ends == {"send", "recv"}

CONSTANTS
  CCs,        \* the values of -cc that occur, ...
  Streams     \* ... and the sets of endpoints that have -stream

ASSUME SessionAssumption ==
  /\ CCs \subseteq {"nocc", "scream", "scream-infer"}
  /\ Streams \subseteq SUBSET Ends

Peer(e) == IF e = "send" THEN "recv" ELSE "send"

VARIABLES
  proto, cc, stream,    \* the flags of the command line
  main,        \* where send and receive are
  deferred,    \* the deferred calls left
  why,         \* what ended the endpoint
  died,        \* how the process died without its deferred calls
  conn,        \* its end of the connection
  net,         \* what is on its way: <<destination, message>>
  addr,        \* the receiver's UDP socket knows where the sender is
  refused,     \* the sender's UDP socket has an error for its next call
  bounced,     \* it had one, once
  unsaid,      \* the word of the peer's end that an endpoint will not get
  outage,      \* a session has timed out that neither side had given up
  bound,       \* Start has bound the reader of feedback
  feedback,    \* where AcceptFeedback is
  reader,      \* where the goroutine of Receive is
  heard,       \* SCReAM's receiver has packets to report on
  bulk         \* where the goroutine of -stream is

flags == <<proto, cc, stream>>
endVars == <<main, deferred, why, died>>
wireVars == <<conn, net, addr, refused, bounced, unsaid, outage>>
feedbackVars == <<bound, feedback>>
receiverVars == <<reader, heard>>

vars == <<flags, endVars, wireVars, feedbackVars, receiverVars, bulk>>

TypeOK ==
  /\ proto \in {"quic", "udp"}
  /\ cc \in CCs
  /\ stream \in Streams
  /\ main \in [Ends -> {"start", "listen", "open", "run", "closing", "hung",
                        "deferred", "exited"}]
  /\ deferred \in [Ends -> Seq({"cancel", "reader", "writer", "conn"})]
  /\ why \in [Ends -> {"none", "source", "signal", "peer", "error", "panic"}]
  /\ died \in [Ends -> {"no", "killed", "fatal"}]
  /\ conn \in [Ends -> {"none", "open", "closed", "eos", "timeout"}]
  /\ net \subseteq Ends \X {"rtp", "rtcp", "eos"}
  /\ {addr, refused, bounced, outage, bound, heard} \subseteq BOOLEAN
  /\ unsaid \in [Ends -> BOOLEAN]
  /\ feedback \in {"off", "conn", "rtcp", "eos", "err", "failed", "over"}
  /\ reader \in {"conn", "rtp", "eos", "failed", "over"}
  /\ bulk \in [Ends -> {"off", "open", "copy", "over"}]

Init ==
  /\ proto \in {"quic", "udp"}
  /\ cc \in CCs
  /\ stream \in Streams
  /\ proto = "udp" => stream = {}    \* without effect
  /\ main = [e \in Ends |-> "start"]
  /\ deferred = [e \in Ends |-> <<>>]
  /\ why = [e \in Ends |-> "none"]
  /\ died = [e \in Ends |-> "no"]
  /\ conn = [e \in Ends |-> "none"]
  /\ net = {}
  /\ addr = FALSE /\ refused = FALSE /\ bounced = FALSE
  /\ unsaid = [e \in Ends |-> FALSE] /\ outage = FALSE
  /\ bound = FALSE /\ feedback = "off"
  /\ reader = "conn" /\ heard = FALSE
  /\ bulk = [e \in Ends |-> "off"]

-----------------------------------------------------------------------------
(* Opening.                                                                *)

(* Fault: the calls are made in the order they were deferred in.           *)
DeferredAsWritten(e) ==
  (IF e = "send" THEN <<"conn", "writer", "reader">> ELSE <<"conn", "reader", "writer">>) \o
  (IF e \in stream THEN <<"cancel">> ELSE <<>>)

(* The calls in the order they will be made.                               *)
Deferred(e) ==
  (IF e \in stream THEN <<"cancel">> ELSE <<>>) \o
  (IF e = "send" THEN <<"reader", "writer", "conn">> ELSE <<"writer", "reader", "conn">>)

Opened(E) ==
  /\ main' = [e \in Ends |-> IF e \notin E THEN main[e]
                             ELSE IF e = "send" THEN "open" ELSE "run"]
  /\ conn' = [e \in Ends |-> IF e \in E THEN "open" ELSE conn[e]]
  /\ deferred' = [e \in Ends |-> IF e \in E THEN Deferred(e) ELSE deferred[e]]
  /\ bulk' = [e \in Ends |-> IF e \in E /\ e \in stream THEN "open" ELSE bulk[e]]
  /\ UNCHANGED <<flags, why, died, net, addr, refused, bounced, unsaid, outage,
                 feedbackVars, receiverVars>>

OpenUDP(e) ==
  /\ proto = "udp"
  /\ main[e] = "start"
  /\ Opened({e})

Listen ==
  /\ proto = "quic"
  /\ main["recv"] = "start"
  /\ main' = [main EXCEPT !["recv"] = "listen"]
  /\ UNCHANGED <<flags, deferred, why, died, wireVars, feedbackVars, receiverVars, bulk>>

Dial ==
  /\ proto = "quic"
  /\ main["send"] = "start" /\ main["recv"] = "listen"
  /\ Opened(Ends)

(* The goroutines end with their process.  What the sender's stream had    *)
(* come to is what the receiver's finds.                                   *)
Exits(e) ==
  /\ main' = [main EXCEPT ![e] = "exited"]
  /\ feedback' = IF e = "send" THEN "over" ELSE feedback
  /\ reader' = IF e = "recv" THEN "over" ELSE reader
  /\ heard' = (heard /\ e = "send")
  /\ bulk' = IF e = "recv" THEN [bulk EXCEPT !["recv"] = "over"] ELSE bulk
  /\ UNCHANGED <<flags, why, net, addr, refused, bounced, outage, bound>>

(* The process is killed, or ends itself with log.Fatal.  Its peer gets no *)
(* word of it.                                                             *)
Dies(e, how) ==
  /\ Exits(e)
  /\ died' = [died EXCEPT ![e] = how]
  /\ deferred' = [deferred EXCEPT ![e] = <<>>]
  /\ conn' = [conn EXCEPT ![e] = IF @ = "open" THEN "closed" ELSE @]
  /\ unsaid' = [unsaid EXCEPT ![Peer(e)] = @ \/ conn[e] # "closed"]

DialFails ==
  /\ proto = "quic"
  /\ main["send"] = "start"
  /\ Dies("send", "fatal")

Killed(e) ==
  /\ main[e] # "exited"
  /\ Dies(e, "killed")

-----------------------------------------------------------------------------
(* The sender runs.  AcceptFeedback is started before Start.               *)

AcceptFeedback ==
  /\ main["send"] = "open"
  /\ cc = "scream" /\ feedback = "off"
  /\ feedback' = "conn"
  /\ UNCHANGED <<flags, endVars, wireVars, bound, receiverVars, bulk>>

SenderReady ==
  /\ main["send"] = "open"
  /\ cc = "scream" => feedback # "off"
  /\ cc = "scream-infer" => proto = "quic"

(* Start is a goroutine: when a signal comes first it runs all the same,   *)
(* until the process exits.                                                *)
Start ==
  /\ ~bound
  /\ SenderReady \/ (main["send"] = "deferred" /\ why["send"] = "signal")
  /\ main' = [main EXCEPT !["send"] = IF @ = "open" THEN "run" ELSE @]
  /\ bound' = TRUE
  /\ UNCHANGED <<flags, deferred, why, died, wireVars, feedback, receiverVars, bulk>>

Ending(e, reason) ==
  /\ main' = [main EXCEPT ![e] = "deferred"]
  /\ why' = [why EXCEPT ![e] = reason]
  /\ UNCHANGED <<flags, deferred, died, wireVars, bound, receiverVars, bulk>>

(* -cc scream-infer needs a transport that tells of acknowledgements: with *)
(* UDP the type assertion panics, and the panic makes the deferred calls   *)
(* before the process dies.                                                *)
Panics ==
  /\ main["send"] = "open"
  /\ cc = "scream-infer" /\ proto = "udp"
  /\ Ending("send", "panic")
  /\ UNCHANGED feedback

(* After a signal the deferred calls are made while Start goes on.         *)
Sending ==
  /\ bound
  /\ \/ main["send"] = "run"
     \/ main["send"] = "deferred" /\ why["send"] = "signal"
  /\ conn["send"] = "open"

(* Fault: a write that fails closes the flow, and says so.                 *)
SendRTPCloses ==
  /\ Sending
  /\ net' = net \cup {<<"recv", IF refused THEN "eos" ELSE "rtp">>}
  /\ conn' = [conn EXCEPT !["send"] = IF refused THEN "closed" ELSE @]
  /\ refused' = FALSE
  /\ UNCHANGED <<flags, endVars, addr, bounced, unsaid, outage, feedbackVars, receiverVars, bulk>>

SendRTP ==
  /\ Sending
  /\ net' = IF refused THEN net ELSE net \cup {<<"recv", "rtp">>}
  /\ refused' = FALSE
  /\ UNCHANGED <<flags, endVars, conn, addr, bounced, unsaid, outage,
                 feedbackVars, receiverVars, bulk>>

(* What AcceptFeedback reads it passes to the reader that Start has bound. *)
Takes(m) == net' \in {net \ {m}} \cup (IF proto = "udp" THEN {net} ELSE {})

ReadFeedback ==
  /\ feedback = "conn"
  /\ conn["send"] = "open"
  /\ \E m \in {"rtcp"} \cup (IF proto = "udp" THEN {"eos"} ELSE {}) :
       /\ <<"send", m>> \in net
       /\ Takes(<<"send", m>>)
       /\ feedback' = m
  /\ UNCHANGED <<flags, endVars, conn, addr, refused, bounced, unsaid, outage,
                 bound, receiverVars, bulk>>

ReadFeedbackFails ==
  /\ feedback = "conn"
  /\ refused \/ conn["send"] # "open"
  /\ feedback' = "err"
  /\ refused' = FALSE
  /\ UNCHANGED <<flags, endVars, conn, net, addr, bounced, unsaid, outage,
                 bound, receiverVars, bulk>>

(* A read may also fail by a fault of the host.                            *)
ReadFeedbackBreaks ==
  /\ proto = "udp"
  /\ feedback = "conn"
  /\ feedback' = "failed"
  /\ UNCHANGED <<flags, endVars, wireVars, bound, receiverVars, bulk>>

(* Fault: an eos is no feedback, and is ignored.                           *)
UseFeedbackOnly ==
  /\ feedback \in {"rtcp", "eos"}
  /\ bound
  /\ feedback' = "conn"
  /\ UNCHANGED <<flags, endVars, wireVars, bound, receiverVars, bulk>>

(* The eos cannot be decoded, which is an error.                           *)
UseFeedback ==
  /\ feedback \in {"rtcp", "eos"}
  /\ bound
  /\ feedback' = IF feedback = "rtcp" THEN "conn" ELSE "err"
  /\ UNCHANGED <<flags, endVars, wireVars, bound, receiverVars, bulk>>

SourceEnds ==
  /\ main["send"] = "run"
  /\ Ending("send", "source")
  /\ UNCHANGED feedback

FeedbackError ==
  /\ main["send"] = "run"
  /\ \/ feedback = "err" /\ Ending("send", "peer")
     \/ feedback = "failed" /\ Ending("send", "error")
  /\ feedback' = "over"

Signal(e) ==
  /\ \/ e = "send" /\ SenderReady
     \/ main[e] \in {"run", "closing", "hung"}
  /\ Ending(e, "signal")
  /\ UNCHANGED feedback

-----------------------------------------------------------------------------
(* The receiver runs.  Reading a datagram is what tells it the address.    *)

Reading == main["recv"] \in {"run", "deferred"} /\ reader = "conn"

ReaderStep == UNCHANGED <<flags, endVars, conn, refused, bounced, unsaid, outage, feedbackVars, bulk>>

Read(m) ==
  /\ Reading
  /\ conn["recv"] = "open"
  /\ <<"recv", m>> \in net
  /\ Takes(<<"recv", m>>)
  /\ addr' = TRUE
  /\ reader' = m
  /\ UNCHANGED heard
  /\ ReaderStep

ReadRTP == Read("rtp")

ReadEOS == proto = "udp" /\ Read("eos")

(* A failed read, by a fault of the host, forgets the address.             *)
ReadFails ==
  /\ proto = "udp"
  /\ Reading
  /\ addr' = FALSE
  /\ reader' = "failed"
  /\ UNCHANGED <<net, heard>>
  /\ ReaderStep

(* The session has been closed, or has timed out.                          *)
ReadLost ==
  /\ proto = "quic"
  /\ Reading
  /\ conn["recv"] # "open"
  /\ reader' = "eos"
  /\ UNCHANGED <<net, addr, heard>>
  /\ ReaderStep

HandleRTP ==
  /\ reader = "rtp"
  /\ reader' = "conn"
  /\ heard' = TRUE
  /\ UNCHANGED <<net, addr>>
  /\ ReaderStep

(* SCReAM's loop runs until Receive has closed the chain.                  *)
Reporting ==
  \/ main["recv"] \in {"run", "closing"}
  \/ main["recv"] = "deferred" /\ why["recv"] = "signal"

(* Fault: the receiver reports whether it has heard of the sender or not.  *)
WriteReportUnheard ==
  /\ cc = "scream"
  /\ Reporting
  /\ conn["recv"] = "open"
  /\ net' = net \cup {<<"send", "rtcp">>}
  /\ UNCHANGED <<addr, reader, heard>>
  /\ ReaderStep

(* It has something to report only when there were packets.                *)
WriteReport ==
  /\ cc = "scream" /\ heard
  /\ Reporting
  /\ conn["recv"] = "open"
  /\ proto = "udp" => addr
  /\ net' = net \cup {<<"send", "rtcp">>}
  /\ UNCHANGED <<addr, reader, heard>>
  /\ ReaderStep

(* Receive has its reader's error and closes the chain, ...                *)
ReceiverEnds ==
  /\ main["recv"] = "run"
  /\ main' = [main EXCEPT !["recv"] = "closing"]
  /\ \/ reader = "eos" /\ why' = [why EXCEPT !["recv"] = "peer"]
     \/ reader = "failed" /\ why' = [why EXCEPT !["recv"] = "error"]
  /\ UNCHANGED <<flags, deferred, died, wireVars, feedbackVars, receiverVars, bulk>>

(* ... which returns, and main makes its deferred calls, ...               *)
ReceiveReturns ==
  /\ main["recv"] = "closing"
  /\ main' = [main EXCEPT !["recv"] = "deferred"]
  /\ UNCHANGED <<flags, deferred, why, died, wireVars, feedbackVars, receiverVars, bulk>>

(* ... or never does: SCReAM's loop has a report for the log that is       *)
(* closed (Receiver!HangsForGood).                                         *)
ReceiveHangs ==
  /\ main["recv"] = "closing"
  /\ cc = "scream" /\ heard
  /\ main' = [main EXCEPT !["recv"] = "hung"]
  /\ UNCHANGED <<flags, deferred, why, died, wireVars, feedbackVars, receiverVars, bulk>>

-----------------------------------------------------------------------------
(* -stream: a goroutine of each endpoint copies data over a QUIC stream.   *)
(* It gives up when the context is cancelled or its call fails, and what   *)
(* it takes for a failure ends the process.                                *)

Cancelled(e) ==
  /\ e \in stream
  /\ main[e] = "deferred"
  /\ \A i \in 1 .. Len(deferred[e]) : deferred[e][i] # "cancel"

BulkOver(e) ==
  /\ main[e] # "exited"
  /\ bulk' = [bulk EXCEPT ![e] = "over"]
  /\ UNCHANGED <<flags, endVars, wireVars, feedbackVars, receiverVars>>

Fatal(e) == main[e] # "exited" /\ Dies(e, "fatal")

(* The stream is there when the sender has opened it.                      *)
BulkOpens(e) ==
  /\ main[e] # "exited"
  /\ bulk[e] = "open"
  /\ conn[e] = "open"
  /\ e = "recv" => bulk["send"] \in {"copy", "over"}
  /\ bulk' = [bulk EXCEPT ![e] = "copy"]
  /\ UNCHANGED <<flags, endVars, wireVars, feedbackVars, receiverVars>>

(* sendStreamData is over when it sees that it is cancelled, or that the   *)
(* session was closed by either side; any other error is fatal.            *)
SendStreamOver ==
  /\ bulk["send"] \in {"open", "copy"}
  /\ \/ bulk["send"] = "copy" /\ Cancelled("send")
     \/ conn["send"] \in {"closed", "eos"}
  /\ BulkOver("send")

(* Fault: sendStreamData takes an eos for a failure as well.               *)
SendStreamFailsOnEOS ==
  /\ bulk["send"] \in {"open", "copy"}
  /\ conn["send"] \in {"closed", "eos", "timeout"}
  /\ Fatal("send")

SendStreamFails ==
  /\ bulk["send"] \in {"open", "copy"}
  /\ conn["send"] = "timeout"
  /\ Fatal("send")

ReceiveStreamOver ==
  /\ bulk["recv"] = "copy"
  /\ Cancelled("recv")
  /\ BulkOver("recv")

(* For receiveStreamData every error is fatal: the end of the stream, the  *)
(* end of the session, and the context cancelled while it waits for the    *)
(* stream.                                                                 *)
ReceiveStreamFails ==
  /\ \/ bulk["recv"] \in {"open", "copy"} /\ conn["recv"] # "open"
     \/ bulk["recv"] = "open" /\ Cancelled("recv")
     \/ bulk["recv"] = "copy" /\ bulk["send"] = "over"
  /\ Fatal("recv")

-----------------------------------------------------------------------------
(* The deferred calls.                                                     *)

Defer(e, c) ==
  /\ main[e] = "deferred"
  /\ deferred[e] # <<>>
  /\ Head(deferred[e]) = c
  /\ deferred' = [deferred EXCEPT ![e] = Tail(@)]
  /\ UNCHANGED <<flags, main, why, died, addr, bounced, outage, feedbackVars, receiverVars, bulk>>

Says(e, m) == net' = net \cup {<<Peer(e), m>>}

(* Sends eos and closes the socket.                                        *)
SaysEOS(e) ==
  /\ Says(e, "eos")
  /\ conn' = [conn EXCEPT ![e] = "closed"]
  /\ UNCHANGED <<refused, unsaid>>

(* The eos cannot be sent, and the socket stays open.                      *)
CannotSay(e) ==
  /\ unsaid' = [unsaid EXCEPT ![Peer(e)] = TRUE]
  /\ refused' = FALSE
  /\ UNCHANGED <<conn, net>>

Cancel(e) == Defer(e, "cancel") /\ UNCHANGED <<conn, net, refused, unsaid>>

(* WriteTo fails on the connected socket of the sender, ...                *)
CloseReader(e) ==
  /\ proto = "udp"
  /\ Defer(e, "reader")
  /\ IF e = "send" \/ conn[e] # "open" THEN UNCHANGED <<conn, net, refused, unsaid>>
     ELSE IF addr THEN SaysEOS(e) ELSE CannotSay(e)

(* ... and Write on the receiver's, which is not connected.                *)
CloseWriter(e) ==
  /\ proto = "udp"
  /\ Defer(e, "writer")
  /\ IF e = "recv" \/ conn[e] # "open" THEN UNCHANGED <<conn, net, refused, unsaid>>
     ELSE IF refused THEN CannotSay(e) ELSE SaysEOS(e)

CloseConn(e) ==
  /\ proto = "udp"
  /\ Defer(e, "conn")
  /\ conn' = [conn EXCEPT ![e] = "closed"]
  /\ UNCHANGED <<net, refused, unsaid>>

(* With QUIC all three close the session, and the first of them does.      *)
CloseSession(e) ==
  /\ proto = "quic"
  /\ \E c \in {"reader", "writer", "conn"} : Defer(e, c)
  /\ IF conn[e] = "open" THEN SaysEOS(e) ELSE UNCHANGED <<conn, net, refused, unsaid>>

Exit(e) ==
  /\ main[e] = "deferred"
  /\ deferred[e] = <<>>
  /\ Exits(e)
  /\ UNCHANGED <<deferred, died, conn, unsaid>>

-----------------------------------------------------------------------------
(* The network: datagrams get lost or come late, with UDP twice.           *)

Forgets(m) == unsaid' = [unsaid EXCEPT ![m[1]] = @ \/ m[2] = "eos"]

WireStep == UNCHANGED <<flags, endVars, addr, feedbackVars, receiverVars, bulk>>

Lose(m) ==
  /\ m \in net
  /\ net' = net \ {m}
  /\ Forgets(m)
  /\ UNCHANGED <<conn, refused, bounced, outage>>
  /\ WireStep

(* A datagram to a port without a socket may come back as an error for the *)
(* next call on the sender's.                                              *)
Bounce(m) ==
  /\ proto = "udp"
  /\ m \in net /\ m[1] = "recv"
  /\ conn["recv"] # "open" /\ conn["send"] = "open"
  /\ net' = net \ {m}
  /\ refused' = TRUE
  /\ bounced' = TRUE
  /\ Forgets(m)
  /\ UNCHANGED <<conn, outage>>
  /\ WireStep

(* The close of a QUIC session arrives, ...                                *)
SessionClosed(e) ==
  /\ proto = "quic"
  /\ <<e, "eos">> \in net
  /\ net' = net \ {<<e, "eos">>}
  /\ conn' = [conn EXCEPT ![e] = IF @ = "open" THEN "eos" ELSE @]
  /\ UNCHANGED <<refused, bounced, unsaid, outage>>
  /\ WireStep

(* ... or the session times out, as nothing has come from the peer for too *)
(* long, of which the peer gets no word.  The sessions are not kept alive: *)
(* an outage ends one though both ends live.                               *)
SessionTimesOut(e) ==
  /\ proto = "quic"
  /\ conn[e] = "open"
  /\ conn' = [conn EXCEPT ![e] = "timeout"]
  /\ outage' = (outage \/ conn[Peer(e)] = "open" \/ <<e, "eos">> \in net)
  /\ UNCHANGED <<net, refused, bounced, unsaid>>
  /\ WireStep

-----------------------------------------------------------------------------

Opening == Listen \/ Dial \/ \E e \in Ends : OpenUDP(e)

SenderSteps == AcceptFeedback \/ Start \/ Panics \/ UseFeedback \/ FeedbackError

FeedbackArrives == ReadFeedback \/ ReadFeedbackFails \/ ReadFeedbackBreaks

ReceiverSteps == ReadLost \/ HandleRTP \/ ReceiverEnds \/ ReceiveReturns

Closing(e) ==
  Cancel(e) \/ CloseReader(e) \/ CloseWriter(e) \/ CloseConn(e) \/ CloseSession(e) \/ Exit(e)

Next ==
  \/ Opening \/ DialFails
  \/ SenderSteps \/ SendRTP \/ FeedbackArrives \/ SourceEnds
  \/ ReceiverSteps \/ ReceiveHangs \/ ReadRTP \/ ReadEOS \/ ReadFails \/ WriteReport
  \/ SendStreamOver \/ SendStreamFails \/ ReceiveStreamOver \/ ReceiveStreamFails
  \/ \E e \in Ends :
       \/ Signal(e) \/ Killed(e) \/ BulkOpens(e) \/ Closing(e)
       \/ SessionClosed(e) \/ SessionTimesOut(e)
  \/ \E m \in net : Lose(m) \/ Bounce(m)

SafeSpec == Init /\ [][Next]_vars

(* Goroutines run while they can; a datagram that keeps being on its way   *)
(* arrives, even if others keep arriving; a session that the peer has left *)
(* is noticed to be closed or times out.  Nobody need open, send, end or   *)
(* kill anything.                                                          *)
Fairness ==
  /\ WF_vars(SenderSteps)
  /\ WF_vars(ReceiverSteps)
  /\ SF_vars(ReadFeedback /\ feedback' = "eos")
  /\ WF_vars(ReadFeedbackFails)
  /\ SF_vars(ReadEOS)
  /\ \A e \in Ends :
       /\ WF_vars(Closing(e))
       /\ WF_vars(SessionClosed(e) \/ (conn[Peer(e)] # "open" /\ SessionTimesOut(e)))

Spec == SafeSpec /\ Fairness

-----------------------------------------------------------------------------

(* Before Start has bound the reader that AcceptFeedback calls, no packet  *)
(* has been sent, and a receiver that has heard of the sender all the same *)
(* has heard of its end; so there is nothing to read.                      *)
FeedbackAfterBind ==
  \/ bound
  \/ /\ feedback \notin {"rtcp", "eos"}
     /\ reader # "rtp" /\ ~heard
     /\ net \cap {<<"recv", "rtp">>, <<"send", "rtcp">>} = {}
     /\ addr \/ (proto = "udp" /\ <<"send", "eos">> \in net) => conn["send"] = "closed"

(* An endpoint closes its end of the connection only when it is ending,    *)
(* and an eos comes from an end that was closed.                           *)
ClosedWhenEnding ==
  \A e \in Ends :
    /\ main[e] = "start" => conn[e] = "none"
    /\ conn[e] = "closed" => main[e] \in {"deferred", "exited"}
    /\ <<e, "eos">> \in net \/ conn[e] = "eos" => conn[Peer(e)] = "closed"

(* An endpoint that runs has a connection; a QUIC session has two ends,    *)
(* and nothing else times out.                                             *)
Connected ==
  /\ \A e \in Ends :
       /\ main[e] \notin {"start", "listen", "exited"} => conn[e] # "none"
       /\ conn[e] = "timeout" => proto = "quic"
  /\ proto = "quic" => (conn["send"] = "none" <=> conn["recv"] = "none")

(* The goroutines that read live while their endpoint does.                *)
ReadersLive ==
  /\ main["send"] \in {"start", "listen"} => feedback = "off"
  /\ main["send"] = "exited" => feedback = "over"
  /\ main["recv"] \in {"start", "listen"} => reader = "conn"
  /\ main["recv"] = "exited" => reader = "over"

(* The session of e timed out in an outage, or because the other end's had *)
(* done so.                                                                *)
TimedOut(e) == outage /\ conn[e] = "timeout"

(* What a reader has told of the peer's end is so, unless its own endpoint *)
(* had come to its end before, or there was an outage.                     *)
ReadersTold ==
  /\ reader = "eos" =>
       main["recv"] # "run" \/ conn["send"] = "closed" \/ TimedOut("recv")
  /\ feedback = "eos" => conn["recv"] = "closed"
  /\ feedback = "err" =>
       "closed" \in {conn["send"], conn["recv"]} \/ bounced \/ TimedOut("send")
  /\ refused => bounced

(* The close of a session is on its way or has been lost until it is       *)
(* noticed, and without an outage only a session whose close was lost      *)
(* times out.                                                              *)
CloseOnItsWay ==
  \A e \in Ends :
    /\ proto = "quic" /\ conn[e] = "open" /\ conn[Peer(e)] = "closed" =>
         <<e, "eos">> \in net \/ unsaid[e]
    /\ conn[e] = "timeout" /\ ~outage => conn[Peer(e)] = "closed" /\ unsaid[e]

IInv ==
  /\ TypeOK
  /\ FeedbackAfterBind
  /\ ClosedWhenEnding
  /\ Connected
  /\ ReadersLive
  /\ ReadersTold
  /\ CloseOnItsWay

(* An endpoint takes its peer for gone only when the peer is: it is making *)
(* its deferred calls or has exited.  There are two exceptions: its        *)
(* session has timed out in an outage, and, for the sender over UDP, a     *)
(* packet of its had found no socket at the peer's address.                *)
EndAnnounced ==
  /\ why["recv"] = "peer" =>
       main["send"] \in {"deferred", "exited"} \/ TimedOut("recv")
  /\ why["send"] = "peer" =>
       main["recv"] \in {"deferred", "exited"} \/ TimedOut("send") \/ bounced

(* The sender dies of its stream only when the receiver has died without a *)
(* word, its word was lost, or there was an outage.                        *)
FatalSpreads ==
  died["send"] = "fatal" /\ conn["send"] # "none" => unsaid["send"] \/ outage

(* With QUIC the receiver exits when the sender has, whatever happened to  *)
(* it, unless Receive hangs for good in closing its chain; with UDP when,  *)
(* besides, the sender could send its eos and it arrived.                  *)
ReceiverLearns ==
  main["recv"] = "run" /\ main["send"] = "exited"
    ~> main["recv"] \in {"exited", "hung"} \/ (proto = "udp" /\ unsaid["recv"])

(* A sender that accepts feedback exits when the receiver has, likewise.   *)
SenderLearns ==
  cc = "scream" /\ main["send"] = "run" /\ main["recv"] = "exited"
    ~> main["send"] = "exited" \/ (proto = "udp" /\ unsaid["send"])
=============================================================================
