# A formal model of rtq-go-endpoint

`rtq-go-endpoint` sends a video over RTP, on QUIC (RTQ) or UDP, and receives it.
A sender and a receiver endpoint are chains of *interceptors* (pion/interceptor)
between a GStreamer pipeline and a transport; the interceptors log packets and do
congestion control, with SCReAM from RTCP feedback (RFC 8888), with SCReAM from
QUIC acknowledgements, or with a naive controller that watches its queue.

This directory holds TLA+ modules of the parts of that program where goroutines
meet, the TLC configurations that check them, and TLAPS proofs. `PROJECT.json`
maps each definition to the lines it models and lists the runs, the faults each
property is tried on, the hazards, the findings and the theorems.

## 1. Inventory

| Component (source) | State | Operations | Interacts with | Hard about it | Must hold |
|---|---|---|---|---|---|
| SCReAM sender interceptor (`internal/scream/sender_interceptor.go`) | mutexes `m`, `rtpStreamsMu`; `close`; `wg`; map of streams, each with queue and `newFeedback` | bind a stream, write, send loop, read RTCP, target bitrate, close, unbind | the application writes, the transport below, the SCReAM object `tx` | two mutexes and an unbuffered channel, taken in different orders by five kinds of goroutine; polling loop; queue cleared by `tx` at any call | packets in order, once, none lost; nothing after Close; every call returns |
| Report scan (`extractSSRCs`, same file) | offset, SSRCs found | scan | reader of RTCP | offset arithmetic guarding slices | in bounds, ends, finds the sources |
| RTP queue (`internal/scream/rtp_queue.go`) | list, byte counter | Enqueue, Dequeue, Clear, queries | interceptor and `tx` | two representations of one fact | counter = bytes held |
| SCReAM receiver interceptor (`internal/scream/receiver_interceptor.go`) | `screamRx`, `receive`, `close`, `wg` | read, 10 ms feedback tick, close, unbind | reader of the connection, log, transport | blocking write in the loop that Close waits for | reports cover what was handled; Close returns |
| RTP log interceptor (`internal/utils/rtp_log_interceptor.go`) | four channels, `done`, `closed` | log a packet (4 ways), loop, close | every packet passes it, in every direction | unbuffered channels with no way out after close | no caller blocks for good; nothing logged after Close |
| RTC receiver (`rtc/receiver.go`) | `connErrC`, `closeC`, `eosC` | Receive, Close | transport, sink, chain | order of closing, timeouts | Receive returns |
| RTC sender (`rtc/sender.go`) | `feedbackErrC`, `closeC`, `eosC`, fields set by Start | Start, AcceptFeedback, inferFeedback, statistics, Write, Close | transport, source, chain | unsynchronised start, errors after the first, shutdown | Start returns, with everything stopped |
| Feedback inference (`rtc/feedback_inferer.go`) | `acked`, buffer, `received` | write with ack callback, buffer | QUIC acks, SCReAM receiver object, inferFeedback | one goroutine per ack, wrap of sequence numbers, blocking after cancel | each ack reported once |
| Naive adaption (`internal/utils/rate_adaption_interceptor.go`) | buffered queue per stream, bitrate step | bind, write, loop, unbind, close | application, transport | Unbind closes the queue under the loop; check-then-close | order, no loss; step within its table |
| UDP transport (`transport/udp.go`) | peer address, socket | read, write, close with `eos` | both endpoints | address learnt by reading, unsynchronised; lossy `eos` | a receiver learns of the end |
| QUIC transport (`transport/quic.go`) | session, flows | open, read, write, close | RTQ library | `eos` as an application error | as UDP |
| RTT tracer (`internal/utils/qlog_tracer.go`) | round trip times, counters | update field by field, read | quic-go, feedback inference | fields updated under separate critical sections | what is read makes sense |
| Main (`main.go`) | flags | send, receive, stream data | everything | deferred closes run while goroutines do | log files outlive their users |
| GStreamer glue (`internal/gstreamer-*`) | pipeline, EOS handler | start, stop, push, callbacks | sender, receiver | callbacks from C threads | — |
| Log writers, tools, link, containers | — | — | — | — | out of scope |

## 2. Modules

```
RTPPipe            what a congestion-controlling interceptor promises
  ^ refinement
ScreamSender       the SCReAM sender interceptor with its RTP queues
  MCScreamSender   instances for TLC
  ScreamSenderProofs
ExtractSSRCs       the scan of a report
  MCExtractSSRCs   packets and the wire format, for TLC
  ExtractSSRCsProofs
RTPLog             the goroutine of the RTP log
  ^ EXTENDS
Receiver           the receiving endpoint: Receive, log, SCReAM receiver, sink
  ReceiverProofs

ScreamSender, RTPLog
  ^ EXTENDS
Sender             the sending endpoint: send, Start, log, SCReAM, encoder, feedback
  MCSender         instances for TLC
  SenderProofs     EXTENDS ScreamSenderProofs, whose theorems carry over

NaiveAdaption      the naive rate adaption, a second implementation of RTPPipe
  NaiveAdaptionProofs

InferredFeedback   what feedback inference promises
  ^ refinement
FeedbackInference  acknowledgements, buffer, reports and inferFeedback
  FeedbackInferenceProofs
RTTTracer          the round trip times behind Metrics, with their proof

RTTTracer, FeedbackInference
  ^ EXTENDS
InferredTimes      feedback inference while the metrics it reads change
  MCInferredTimes  a clock that is set back, for TLC

Session            both processes, the transports between them, -stream, and the end
  SessionProofs
```

In several modules *faulty variants* stand before the definition they vary
(`EnqueueInFront` before `Enqueue`). No specification uses them. `PROJECT.json`
names, for each property of each passing run, the variant that breaks it.

### ScreamSender

One variable per shared object of `SenderInterceptor` and one program counter per
goroutine. Per stream `x` there is the media goroutine (`media[x]`: it calls
`BindLocalStream` and then the writer it got) and the send loop (`loop[x]`); there
is one RTCP reader (`reader`, with the SSRCs it has still to notify in `ssrcs`), one
statistics goroutine (`stats`) and one caller of Close (`closer`).

| Program point | in the code (`sender_interceptor.go`) |
|---|---|
| `media = "binding"` | 143-158, holds `m`, waits for `rtpStreamsMu` |
| `media = "newFrame"` | 178-179, queued, waits for `m` |
| `media = "notify"` | 183, offers `newFeedback` |
| `media = "bare"` | 140 or 147: was given back the bare writer |
| `loop = "start"` | 210, waits for `rtpStreamsMu` |
| `loop = "select"`, `"size"`, `"ok"`, `"dequeue"`, `"write"`, `"report"` | 217, 225, 229, 239, 244, 247 |
| `reader = "tx"`, `"next"`, `"notify"` | 90, 97, 100 (holding `rtpStreamsMu`) |
| `stats = "lookup"`, `"tx"` | 259, 266 |

A critical section without a blocking operation is one action, guarded by its lock
being free. A lock has a holder in the state only where the holder can block: `m`
across line 158, `rtpStreamsMu` across line 100. An offer on `newFeedback` is a
rendezvous: the loop's `WakeByWriter` or `WakeByReader` moves both goroutines. The
`default` of the select is taken only when no other case is ready, a ready case is
chosen at random, and `continue` leads back to the select, as in Go. `newFrame` and
the stream's `close` are nil or never used, so they have no action.

The SCReAM object `tx` is external. `IsOkToTransmit` grants or denies freely, except
that it grants only when the queue holds a packet; `NewMediaFrame` and
`IncomingStandardizedFeedback` may clear queues they know. Bitrates and windows
are not modelled. Packets of a stream are numbered as they are written;
`Offset[n]` is the size of the first `n` together, so that sizes are arbitrary and
byte sums need no recursion.

`sent`, `lastSent`, `cleared` and `produced` are history variables.

### RTPPipe

The promise: packets of a stream come out in the order they went in, at most once,
only those that went in; what is held may be thrown away (`SafeSpec`), or only at the
end (`LosslessSpec`, which has no Flush); nothing held comes out
after Close has returned; and (`Progress`) what is held does not stay for ever. A
stream that is not controlled is forwarded. `ScreamSender`, whose queues the library may
clear, implements the former under

    accepted <- produced            pending <- packet in the loop's hands, then queue
    last     <- lastSent            stopped <- closer = "closed"

### ExtractSSRCs

The scan as a state machine over a packet of 32-bit words, one step per block.
Counts are read modulo `Mod` (2^16) and the increment of an odd count wraps. The
packets are a constant set, `Reports` the layouts of the reports among them: the blocks,
each with its source and its count, and the word at which each begins. `Encodes(p, r)` is
the format that `CreateStandardizedFeedback` of the (external) library writes, and `Lists` what
it is to find the sources in the order in which they first occur; neither scans.
`FindsSources` states that the scan recovers from a report exactly its sources. It is for a
count of at most 65534: 65535, whose padding would wrap, takes a report of 128 KiB,
which no datagram holds. `MCExtractSSRCs` builds the reports, concatenating blocks, and assumes
(TLC checks) that each is one in the sense of `Encodes`.

### RTPLog and Receiver

`RTPLog` is the log's loop seen from outside: it takes an entry when it is at its
select; `Close` closes `done` and meets the loop's deferred send on `closed`.
Which of the four channels an entry comes by makes no difference and is left out.

`Receiver` composes it with `Receive`. The chain is the one `main.go` configures: the
log first, then SCReAM if `-cc scream`; a report goes loop -> log -> transport, a
packet goes connection -> pipeline -> log -> SCReAM, and closing goes log, SCReAM.
`main` is where Receive stands (select, closing the log, waiting for it, closing
SCReAM, waiting for it, waiting for the sink or three seconds, returned).
`screamRxMu` is contended by nobody once the streams are bound and has no variable.
A tick at which SCReAM has nothing new is a stutter. Packets arrive in sequence and
are counted; counters stand for sets of packets.

### Sender

The chain of the sending side is SCReAM first, the log second: the encoder's packet
goes log -> SCReAM's queue -> SCReAM's loop -> transport, a report goes
connection -> SCReAM -> log, and closing goes SCReAM, log. `Sender` takes the actions
of `ScreamSender` and `RTPLog` at the points where the endpoint takes them; `ssrc` is
its only stream.

| Variable | Goroutine | Values and where they are in the code |
|---|---|---|
| `start` | Start (`rtc/sender.go`) | `bind` 248-256, `select` 276, `closeScream`, `joinScream`, `closeLog`, `joinLog` all 288, `eos` 289, `returned` |
| `source`, `media[ssrc]` | the encoder's thread in `Sender.Write` | `source = "log"`: line 131 of the log interceptor; then `media` as in `ScreamSender` |
| `feedback`, `reader` | AcceptFeedback | `conn` 158, `scream` and `log` inside 162, `err` 160 or 163 |
| `stats`, `statsGone` | runSCReAMStats | line 182, returned |
| `main` | send (`main.go`) | `wait` 277, then the deferred calls: `deferred`, `filesClosed`, `exited` |

Until Start has bound the stream the encoder does not run. The encoder's thread brings
both the packets and the end of the stream, so that while a `Write` is blocked the end
does not come; Start then waits its three seconds (`Return(TRUE)`). An error of
AcceptFeedback is taken once; after it the goroutine may go on to the reader or fail again.
The statistics goroutine is in the interceptor or between two ticks. Nobody waits
for it, for AcceptFeedback, or, after a signal, for Start: send's deferred calls close
the sender, the files and the connection, and its return ends the process
(`Alive` guards every step).

### NaiveAdaption

Per stream a bounded channel (`queue`), a closed flag and the loop with its four
counters. `LoopTake` and `LoopSize` are separate because the writer may add to the
channel between the receive (line 150) and `len` (151). The code compares times that
the model does not have: each reading of a clock is a choice, `increaseDue` (line 156),
`decreaseDue` and `againDue` (174). What needs care is their coupling. The first and the
third rule compare with the same last increase, so what was due at 156 is due at 174 unless
the first rule has just increased, and what was not due may have become so. When it has
increased, half a second may have passed since line 160, so that both find it due: what
keeps the third rule from firing is then its counter, which the first one has reset.
A panic ends the process and is a state, `panicked`, from which nothing follows.
`NaiveAdaption` implements the *lossless* `RTPPipe`, the one without Flush, with the loop's
packet and the channel as `pending`: while the interceptor is open no packet that was
accepted is dropped. The return of Close and a panic are its Stop.

### InferredFeedback and FeedbackInference

With `-cc scream-infer` nobody sends reports: SCReAM's sender makes them itself from
QUIC's acknowledgements. `InferredFeedback` says what that must amount to. A packet
has at most one fate; an arrival is counted once; a report covers what has been
counted; reports are told in the order they were made, or dropped one by one.

`FeedbackInference` follows an acknowledgement through the goroutines:

    flying -> offered -> acked -> buf -> rx        received -> fb -> tx
    (quic-go) (one goroutine  (channel) (buffer)   (channel)  (inferFeedback)
               each)

The times are what the code makes of them. `sentTS` is the wall clock when the packet was
written (`tx.Unix`), counted from `t0` and any member of `Clocks` for each packet, since the clock
may be set. `ntpTime` is `getTimeBetweenNTP`: seconds as a float, in units of 2^-16, cut
to 32 bits (`TimeMod`); what a negative float becomes as a uint64 is the processor's choice, hence
`Saturates`. `InferredTS` adds half the round trip time and, as line 95, does not cut the sum.
So arrival times of one tick can go back in three ways, and `TimesInOrder` says in no other:
the sequence numbers have wrapped between two packets (`Wrapped`), the clock was set back
between them (`SetBack`), or the 32 bits have wrapped (`TimeWrapped`, every 18.2 hours).

`flying` to `rx` are sets, since nothing of the order in the channel survives the
sort; `received` is a sequence of reports, each the set of packets `rx` knew. `buffer`
is at its select (72), handing out (86), or at the report (103); a tick is one reading of the
metrics, one step per packet in the order of `seqNr`, and the report. Which of two packets with
the same number comes first is left open, as `sort.Slice` leaves it. `reader` is inferFeedback: at
its select (114), in SCReAM's reader, in the log's, or offering an error (117). The
metrics are any member of `RTTs`: what they are is the business of `RTTTracer` and `InferredTimes`. Start and
its chain are two states, since `Sender` has the rest: it takes an error or another of
its events and closes the chain, after which the log takes nothing. One `Close` closes
`closeC`, which Start, buffer and inferFeedback all watch. Whether `rx` has something to
report is left open, but every report has content.

### RTTTracer

quic-go keeps a minimum, an average and the latest round trip time (`rttStats`, external;
in whole microseconds, and without the rounding of its average, which may put that one a
microsecond off), takes a sample or not, and calls `UpdatedMetrics`, which copies field after field, each in a
critical section of its own and only if it is not zero. `Metrics` reads all in one, so
whatever it returns is a state of the model. RTTVar, the counters and the congestion
state stand alone and are left out.

### InferredTimes

The two modules before it composed: a tick of `buffer` takes its round trip time from what
`Metrics` returns then, the average or the latest, while quic-go and the tracer go on between the
packets of the tick. `MCInferredTimes` gives it the clocks.

### Session

Two processes, their flags, their connection and the network. It goes the other
way than `Sender` and `Receiver`: what is one step there (a read, the end) is spelt out here,
and how Start and Receive shut down is one step here (`Ending`, `ReceiveReturns`), since those
modules say when they return. `main[e]` goes from `start` (and `listen`, for a QUIC server)
through `open` (the sender has its transport and has not called Start yet) and `run` to
`deferred` and `exited`. In between the receiver is `closing`: Receive has its reader's error and
closes the chain. With `-cc scream`, once there is something to report, it may never come back
from that (finding 2); then it is `hung`, its deferred calls are not made, and only a signal or a
kill ends it. Start is a goroutine that a signal does not stop: it may bind and send during the
deferred calls. `deferred[e]` is the stack of deferred calls on the transport:

| | made first | then | then | then |
|---|---|---|---|---|
| sender | cancelCtx, with `-stream` | reader.Close | writer.Close | conn.Close |
| receiver | cancelCtx, with `-stream` | writer.Close | reader.Close | conn.Close |

On UDP reader.Close writes `eos` to the address that was read last and writer.Close writes it to
the connected peer, so each is an error on the wrong side: for the sender only the writer
says it, for the receiver only the reader. An error leaves the socket to the calls after it. On QUIC all three
close the session and the first does.

`net` is what is on its way: `rtp`, `rtcp` and `eos` by destination. `Lose` takes any of it, it is
read in any order, on UDP it may stay after it was read, and it may come
back as an error for the sender's next call (`Bounce`, `refused`); for QUIC `eos` stands
for CONNECTION_CLOSE. The sessions are not kept alive (`quic.go` 27, 62), so a session may time
out at any time, also when its peer lives and all that was lost was on its way (`SessionTimesOut`).
`outage` records that one has timed out which the peer had not closed, or whose close was still
to arrive; the other side is not told and may go on, until its own times out or for ever. `unsaid[e]`
records that the word of the peer's end will not come, or not surely: it died, could not say it, or it was
lost. A read of the sender's socket fails when a datagram came back, when the socket is closed, or by
a fault of the host (`ReadFeedbackBreaks`), one of the receiver's by such a fault (`ReadFails`). `reader` is the goroutine of Receive, `feedback` is AcceptFeedback, `bulk[e]` the goroutine
of `-stream`, whose log.Fatal (`Fatal`) ends the process like a kill (`Killed`): no
deferred call is made. With `-cc scream-infer` over UDP the sender panics in a type
assertion (`Panics`) and its deferred calls are made. `why`, `died`, `bounced`, `unsaid` and
`outage` are history.

Session assumes: both commands were given the same `-cc` and `-transport`; one of several
signals; a listener that nobody dials listens; opening a socket or a flow does not fail. It
lets the feedback loop report after a signal even when Receive had hung before, which allows
more than the code.

## 3. Runs

| Run | Instance | Shows |
|---|---|---|
| `sender_pair` | 2 streams, 2 packets each, SafeSpec | wait group and joins, byte counters, conservation, `OfferMeetsLoop` (a circular wait takes two streams), the inductive invariant, and that RTPPipe is implemented (about 1 million states) |
| `sender_liveness` | 1 stream, 3 packets, Spec | packets leave; write, read, bitrate request and Close return |
| `sender_bind_deadlock` | 2 streams, 1 packet each, Spec | finding 1, `BindReturns` fails |
| `receiver` | with and without SCReAM, 4 packets, Spec | `IInv`: reports cover only what was handled (`FeedbackCovered`), the loops are gone where the shutdown says so; quiet after Receive returned; Receive returns unless finding 2 |
| `receiver_hang` | as above, 2 packets | finding 2, `ReceiveReturns` fails |
| `extract_ssrcs` | all packets of at most 5 words over 0..4, all reports of at most 3 blocks, Mod = 4 | bounds, exact sources, termination |
| `sender` | the one stream, 2 packets | `UsesScreamSender` (every step is one of `ScreamSender`, on which the proofs rest); `ShutdownOrder`, `FilesOutliveLog`, `QuietAfterStart`; Start returns; the encoder passes unless the chain is closed |
| `naive` | 2 streams, one of which may be unbound, 3 packets, channel of 2 | the inductive `IInv` with the step within its table, one step per packet, the lossless RTPPipe with `Progress`, Close returns, all unless the process has panicked |
| `naive_unbind` | as above, 2 packets | finding 3, `UnbindIsSafe` fails |
| `feedback_inference` | 3 packets, numbers modulo 3, both channels of 1, round trip times 0 and 4, the clock standing still | the inductive `IInv`; `InferredFeedback` implemented; acknowledgements are counted and reports told while the sender runs; buffer returns, or the one reason why not |
| `feedback_times` | `InferredTimes`: round trip times 2 and 4, 3 packets, a clock that shows -1, 1 or 2, 32 bits being 3 units | the minimum read is there and not above the rest; arrival times of a tick in order but for the three exceptions (1.7 million states) |
| `session` | `-cc` scream and scream-infer, UDP and QUIC, `-stream` on none or both; Spec | the inductive `IInv`: nothing is read as feedback before Start has bound its reader (`FeedbackAfterBind`), a reader's word of the peer's end is so, a close is on its way or lost; an end is announced only by an end, a bounced datagram or an outage; the sender's stream is fatal only if the receiver's word failed or in an outage; receiver and sender learn of each other's end (620 000 states) |

**Bounds.** `MaxPackets` bounds what is written; nothing else in `ScreamSender` grows.
Two streams are enough for every conflict the code has, since a goroutine holds at
most one stream's channel and the locks are shared; with two packets per stream
one can be in the loop's hands while another is queued, appended or cleared. Three
packets in the liveness run let a loop be granted, denied and woken in between.
The proofs remove the bounds for the safety properties. Packets weigh 1, 2, 4 ...
bytes (`MCOffset`), so no two different sets of packets have the same size. In
`receiver`, four packets let two reports be made while others are under way. In
`sender`, two packets let one be in SCReAM while the encoder is blocked with the next. In
`naive`, a channel of two is filled and blocks the writer; three packets with limits 0 for
growing and 1 for shrinking (after the first rule has reset its counter, the third must find it at
no more than its limit), a table of three and `Short = 2` make each of the three rules fire, an increase by
shrinking without one by emptiness included, and the table end at both sides. With
three packets a channel longer than `Long` has always grown as well; the assumption
`Short <= Long + 1` (the code has 100 and 200) keeps that rule and the shrinking one
from meeting on one packet, however long the channel stays. In
`extract_ssrcs`, `Mod = 4` makes the wrapping count 3 occur, five words hold two blocks,
and three blocks allow a source to recur after another. In `feedback_inference`, three
packets with numbers modulo 3 wrap between the second and the third, and channels of
one are full while a goroutine waits on each; in `feedback_times` the clocks are on both sides of
`t0`, of two turns of the 32 bits, and can go forward, back, or stand still between packets. Each of
the three exceptions is needed: the run fails without it. The proofs remove the bounds. Two round trip times let a
sample be below, at and above what is there; inferFeedback and the end of the sender, which do not touch the
times, take no part in `feedback_times`, and its channel of reports holds all there can be. In
`session` nothing counts, so nothing is bounded but the flags: `-cc nocc` and `naive` open and
close as `scream-infer` does over QUIC, and `-stream` on one side only adds no step to those of
the other cases (all properties were also checked with it on one side, in runs that take longer).
No symmetry is used.

**Deadlock checking is off** everywhere because these systems do stop: after Close a
writer has no loop to wake and blocks on `newFeedback`, a reader blocks on the log,
and the bounds end the supply of packets. That the calls which should return do
return is stated as liveness instead, and the exceptions are in the formulas
(`... \/ close`).

**Fairness.** A goroutine that can run does (weak fairness of the steps inside a call
and of each loop). Strong fairness is assumed where the opportunity comes and goes:
taking a mutex that another goroutine takes repeatedly (Go's mutexes hand over to a
waiter after 1 ms), having an offer on a channel taken by a loop that comes back
to its select (senders queue in order; select picks a ready case at random), and
SCReAM granting a stream that keeps asking, which is an assumption about the
library. No fairness obliges the application to write, the peer to report, a
connection to fail, the sink to end, or anyone to call Close. In `Sender` it obliges
neither the encoder to end its stream nor anyone to send a signal, and `StartReturns`
is therefore conditional on one of the events Start waits for. In `NaiveAdaption` the
loop's select is offered `close` again and again while packets come; strong fairness
says that it takes it in the end, as Go's random choice does. In `FeedbackInference` the
same holds for the goroutines that offer to a channel that fills up again, and for `closeC`;
quic-go need not call back, and only Start's taking of an error and main's Close after Start has
closed the chain are obliged to happen. In `Session` an `eos` that stays on its way is read in the end
although other datagrams come in between; one that is lost is not, and the properties
say so by `unsaid`. A session that the peer has left is noticed to be closed or times out; none is
obliged to time out while the peer's end is open. Receive is not obliged to return: it may hang
instead. No one need end, signal or kill a process.

## 4. Findings

1. **Binding a second stream can deadlock the interceptor** (`sender_bind_deadlock`).
   `BindLocalStream` holds `m` and waits for `rtpStreamsMu` (lines 143, 158). The reader
   holds `rtpStreamsMu` and offers `newFeedback` to the first stream's loop (98-102). The
   loop has just sent a packet and waits for `m` (247). `rtc/sender.go` binds a single
   stream, so the endpoint as it is does not meet it (theorem `NoCircularWait`). For the
   same reason the liveness run has one stream.
2. **Receive may never return with SCReAM** (`receiver_hang`). The chain closes the log
   first; SCReAM's loop makes a report, blocks on the log's channel for good, and
   Close of the SCReAM interceptor waits for the loop. The three-second timeout of
   Receive is behind that wait. `ReceiveReturnsUnlessLogGone` shows in the passing run
   that nothing else keeps Receive from returning.
3. **Unbinding a stream of the naive adaption ends the process** (`naive_unbind`).
   `UnbindLocalStream` closes the stream's channel (line 112); the loop, which goes on,
   receives nil and dereferences it (152); a loop that had not started finds no
   stream (137, 150), and a writer sends on a closed channel (100). The comment above
   the method (105) calls it the place to clean up when a stream is removed. Nothing in the
   repository removes one.

Two more things met in `Session`, in its actions and not in a run of their own:

- **A receiver with `-stream` may die at every normal end** (`ReceiveStreamFails`):
  receiveStreamData returns the end of the stream and of the session as errors (`main.go`
  425-428), and the goroutine answers any error with log.Fatal (330), while Receive is
  finishing its file. The sender's goroutine has an exception for `eos` (161), the
  receiver's has not. `FatalSpreads` shows that this does not take the sender with it.
- **`-transport udp -cc scream-infer` panics** (`Panics`): the UDP writer has no
  WriteRTPNotify, which the type assertion of line 241 demands; the help texts (63-64) and
  the scripts offer the two flags independently.

## 5. Proofs

`ScreamSenderProofs` (for every finite set of streams, every bound on packets, every
sizes; assumptions `StreamsAssumption` and `SizesAssumption`) proves that `IInv` is
inductive, and from it `TypeCorrect`, `CloseJoins`, `BytesCorrect`, `PacketsConserved`
and `Refinement` (`SafeSpec => Pipe!SafeSpec`).

Why `IInv` has the parts it has: that Close joins every loop (`LoopsJoined`) follows
from the wait group only because it counts exactly the loops that run or that a bind
is about to start (`WaitGroupCounts`); that a bind cannot be half done when Close
gets `m` is `LocksHeld`; that a bind in progress has no loop yet, and so adds one to the
count, is `LoopsBound`. Conservation alone does not give order: `QueueInOrder` says that
the queue holds the last packets written without a gap and that what the loop took is
older, which makes the byte counter a difference of two offsets (`BytesMatchQueue`) and
each delivery later than the last. `NextIInv` has one step per action; the actions
that touch a queue have lemmas of their own (`WriteEnqueueKeepsQueues`,
`LoopDequeueKeepsQueues`, `LoopWriteKeepsQueues`, `ClearKeepsQueues`), and
`QueuesUntouched` serves the rest. `PipeStep` maps actions to the abstract ones:
`WriteEnqueue` to Accept, `WriteBare` to Forward, `LoopWrite` to Deliver, a clearing call
to Flush, `CloseReturn` to Stop; all others stutter.

`OffersMet` proves `OfferMeetsLoop`, the other side of finding 1: the reader holds `rtpStreamsMu`
until a loop takes its offer, and that loop waits for no lock unless another stream's bind
holds `m`. The loop's own look-up under `rtpStreamsMu` (line 210) would be a second way to
deadlock, within one stream; it is none because a report is on packets that were sent
(`ReportsHeard`) and a loop sends nothing before it has looked its stream up (`SendsStarted`).
`NoCircularWait` of `SenderProofs` is the theorem for the endpoint, which has one stream.

`ExtractSSRCsProofs` proves, for packets of any length and content, that the offset stays
a multiple of four (`PaddedEven`, `AdvanceAligned`), hence that the loop condition
leaves the eight bytes the body reads (`ScanInBounds`), that no SSRC is returned twice
(`ScanDistinct`) and that each block moves the scan on (`ScanAdvances`). The assumption
is that a packet is a sequence of 32-bit words. `ScanFinds` is what the scan is for: by
`FoundSoFar`, after `n` blocks of a report the scan stands where the layout puts the next and has
listed the sources of those `n`. It rests on three lemmas: collecting a source that is already
listed, or a new one, keeps the list in the order of first occurrence (`CollectLists`); the
code's padding of a count is the format's (`BlockLength`); and the loop condition is true
exactly while a block is left (`ReadsBlock`). So the count need not be followed by induction
over the report; that each block ends before the timestamp, which a sum over the blocks
would give, is part of `Encodes` instead.

`SenderProofs` shows that each step of `SenderNext` is a step of `ScreamSender` or leaves
its variables alone (`StepUsesScream`, `Composition`), so the theorems above hold in the
endpoint; `EndpointImplementsPipe` is the refinement restated for it. `ShutdownOrder` is
inductive by itself, given that a closed interceptor stays closed (`CloserMoves`):
`Shutdown`, and `FilesOutlive` follows. `Quiet` joins the two: by `CloseJoins` no loop lives
once the interceptor is closed, by `Shutdown` it is closed when Start has returned, and
only a loop hands packets to the transport (`OnlyLoopsSend`). The assumption
`SenderAssumption` says that the endpoint has one stream, which negotiated feedback.

`NaiveAdaptionProofs` proves, under `AdaptionAssumption`, that `IInv` is inductive: types,
the wait group counts the running loops, and none runs once Close has returned. `AdaptBounds`
shows that no two rules that move the target fire on one packet (an empty channel has not
grown; after the first rule the counter of the third is at most one, not above `ShrinkLimit`;
`Short <= Long + 1`), hence `OneStep`. `Refinement` (`SafeSpec => Pipe!LosslessSpec`) says that
no packet the writer has accepted is dropped while the interceptor is open, for every number of
streams and packets: it maps `Write` to Accept, `LoopWrite` to Deliver, a panic and the return
of Close to Stop, and no step but these touches what is held.

`ReceiverProofs` proves for every number of packets that `IInv` is inductive. `FeedbackCovered`
alone is not: that a packet logged is one pushed rests on where the reader is
(`InReadersHands`), and that nothing happens after Receive has returned (`Quiet`) on
`LoopsGone`: each stage of the shutdown is behind the loop it closes, which for SCReAM is what
the wait group says. `OneObstacle` and `HangsForGood` are about finding 2, in both directions: at each
of its waits Receive waits for a goroutine that can come, or the feedback loop is `Hung` on the
closed log (`ClosedBehind`: each channel is closed where Receive has passed its close); and from there
Receive never returns.

`FeedbackInferenceProofs` proves, under `InferenceAssumption` (sizes are numbers, `SeqNrs`
is not zero), that `IInv` is inductive: an acknowledgement is in one place (`OnePlace`), what
buffer still holds in a tick is not before what it handed out last (`SortedTick`), and a
report has content (`ReportsSomething`). `InOrder` follows from the second: the next packet has
a number no smaller, so it was either written later or the numbers have wrapped; when it was
written later, on a clock that was not set back, its reading is no smaller, within one turn of
the 32 bits neither is what is left of it (`RemainderGrows`, `SameTurnInOrder`; a negative time
that saturates becomes 0, which is below none), and the round trip time of the
tick is one. It is for any set of clock readings and either conversion. `KeepsPromise` needs the first (`Hand` is Count, which takes
the packet out of what has arrived) and the third (`SendReport` is Report); `TakeReport` moves a
report from the channel to inferFeedback and leaves the abstract sequence as it is
(`TakeReportKeeps`).

`RTTTracer` holds its own proof, of `Consistent`: quic-go's minimum never grows and is at most
its other values, and the tracer's minimum is written first, so that it is at most the
average and the latest value whether these are old or new.

`SessionProofs` proves, for every set of flags and without a bound on anything, that `IInv` of
`Session` is inductive (`Invariance`), and from it what the two processes learn of each other.
`FeedbackAfterBind` says that AcceptFeedback, which calls the reader that Start binds, has
nothing to read before: on UDP a receiver may forget the address it learnt (`ReadFails`), so
the clause about it also speaks of an `eos` that is already on its way. `ClosedWhenEnding` ties
an end that is closed to an endpoint that is ending, and an `eos` or a lost session to
an end that is closed. `ReadersTold` is needed because an endpoint does not end on the
datagram but on what its reader made of it. `Connected` is needed because a session that
times out, and a read that fails without an error of the network, blame the peer: they may
do so only if there was a connection. A session that times out in an outage blames a peer that lives,
which `TimedOut` exempts; that it stays exempt is `TimeoutsRemain` (by `WireTouched`, which lists the steps that touch the connection). `ReadersLive` is needed because no goroutine of a
process that has exited makes a step; without it the proof fails at `ReadFeedbackFails`. `CloseOnItsWay`
(a session's close is on its way or lost until it is noticed) is for the last theorem.
`NextIInv` has one lemma for each kind of step: opening, dying, ending, the sender's and the
receiver's goroutines, the deferred calls, the session, the datagrams.

`Announced` (`EndAnnounced`): an endpoint takes its peer's end for granted only on a reader's
word (`PeerTold`), by `ReadersTold` and `ClosedWhenEnding` that word is so when given, or comes from a
session that timed out in an outage or from a bounced datagram, and an end is for ever
(`EndsRemain`). That a time-out may come at any time and the readers cannot tell it from a close makes
this more than a guard: the theorem says that there is no other way to a false word. `SpreadOfDeath` (`FatalSpreads`): the sender dies of its own
only where it dials or where its stream fails (`DeathStep`); the first leaves it without a connection,
and a process that is dead opens none (`Dead`, `OpensAtStart`); at the second `CloseOnItsWay` says
that the receiver's word was lost, and so it stays (`UnsaidRemains`), or there was an outage.

Model-checked only: all liveness (TLAPS does not do fairness or ENABLED), including `Progress`
of the pipe, `Terminates` of the scan, of which `ScanAdvances` is the safety half, and
`ReceiverLearns` and `SenderLearns` of `Session`. Every invariant and every action property of
a passing run, and the safety part of every refinement, is a theorem.

## 6. Not modelled, and the plan

Every component with state of its own that runs concurrently has a module. Left out of
them:

- `UnbindLocalStream` of the SCReAM sender and `UnbindRemoteStream` of its receiver, which no
  code of the repository calls (unbinding is modelled for the naive adaption); a second
  Close of an interceptor, likewise.
- Two data races whose outcome lies in external objects, recorded as hazards only:
  `GetStatistics` calls `tx` without `m`, and `AddTransmitted` may come after the report on its packet.
- What fails before anything runs: flags, log files, addresses, a pipeline that cannot be
  built.
- The GStreamer C glue and media processing, the SCReAM, RTQ and QUIC libraries beyond their
  use here, `internal/utils/logging.go`, shell scripts, plots, link emulation, containers.

Next: the safety half of the other liveness arguments, as `OneObstacle` is for Receive (that a
goroutine which is waited for can move) for Start, Close of the naive adaption and the goroutines of
feedback inference; unbinding as an extension of `ScreamSender`.
