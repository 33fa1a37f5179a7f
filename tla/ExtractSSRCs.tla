---------------------------- MODULE ExtractSSRCs ----------------------------
(***************************************************************************)
(* extractSSRCs of internal/scream/sender_interceptor.go: the scan of a    *)
(* raw RTCP packet for the SSRCs of its report blocks, by which the RTCP   *)
(* reader finds the streams to wake.                                       *)
(*                                                                         *)
(* A packet is a sequence of 32-bit words, which pion's Unmarshal (it cuts *)
(* a raw packet at the length in its header) makes it.  Of the width of a  *)
(* word only its low half matters, read as a uint16 modulo Mod.            *)
(***************************************************************************)
EXTENDS Integers, Sequences

CONSTANTS
  Packets,   \* the packets that may arrive, reports or not
  Reports,   \* the layouts of the reports among them
  Mod        \* 2^16: the values of a uint16

(* A layout of a report has its blocks, each of a source and a number of   *)
(* packets that it reports on, and the word at which each of them begins;  *)
(* after the last begins the timestamp.                                    *)
ASSUME ExtractAssumption ==
  /\ Packets \subseteq Seq(Nat)
  /\ Mod \in Nat \ {0}
  /\ \A r \in Reports : /\ r.blocks \in Seq([ssrc : Nat, reports : Nat])
                       /\ r.at \in Seq(Nat)
                       /\ Len(r.at) = Len(r.blocks) + 1

VARIABLES packet, offset, ssrcs, done

vars == <<packet, offset, ssrcs, done>>

Init ==
  /\ packet \in Packets
  /\ offset = 8
  /\ ssrcs = <<>>
  /\ done = FALSE

Bytes == 4 * Len(packet)

(* The two reads of the loop body, the second at offset + 6.               *)
Uint32At(o) == packet[(o \div 4) + 1]
NumReports(o) == packet[(o \div 4) + 2] % Mod

(* The increment wraps where a uint16 does.                                *)
Padded(n) == IF n % 2 # 0 THEN (n + 1) % Mod ELSE n

(* Faults, by which the properties are tried: no padding; four bytes per   *)
(* report; the block's own eight bytes are forgotten.                      *)
AdvanceUnpadded(n) == 2 * n + 8
AdvanceByWords(n) == 4 * n + 8
AdvanceByReports(n) == 2 * Padded(n)

Advance(n) == 2 * Padded(n) + 8

Collect(s, ssrc) ==
  IF \E i \in 1..Len(s) : s[i] = ssrc THEN s ELSE Append(s, ssrc)

More == offset < Bytes - 4

Block ==
  /\ ~done
  /\ More
  /\ ssrcs' = Collect(ssrcs, Uint32At(offset))
  /\ offset' = offset + Advance(NumReports(offset))
  /\ UNCHANGED <<packet, done>>

Return ==
  /\ ~done
  /\ ~More
  /\ done' = TRUE
  /\ UNCHANGED <<packet, offset, ssrcs>>

Next == Block \/ Return

SafeSpec == Init /\ [][Next]_vars

Spec == SafeSpec /\ WF_vars(Next)

-----------------------------------------------------------------------------
(* Every variable has its type: the offset never becomes negative.         *)
TypeOK ==
  /\ packet \in Packets
  /\ offset \in Nat
  /\ ssrcs \in Seq(Nat)
  /\ done \in BOOLEAN

(* The loop condition leaves room for the eight bytes that the body reads, *)
(* whatever the packet holds: the scan never indexes beyond the packet.    *)
InBounds == More => offset + 8 <= Bytes

(* It does so only because the offset stays a multiple of four.            *)
Aligned == offset % 4 = 0

(* No SSRC is returned twice, or the reader would wait for a second        *)
(* wake-up of a loop on behalf of one report.                              *)
Distinct ==
  \A i, j \in 1..Len(ssrcs) : ssrcs[i] = ssrcs[j] => i = j

(* p is a report (RFC 8888, as scream.Rx encodes it) of layout r: after    *)
(* two header words each block has a word for its SSRC, a word that ends   *)
(* in num_reports, and 16 bits per packet padded to a word, and one last   *)
(* word is the timestamp.  num_reports has room for the padding, as in     *)
(* every report of less than 128 KiB.                                      *)
Encodes(p, r) ==
  /\ r.at[1] = 3
  /\ Len(p) = r.at[Len(r.at)]
  /\ \A i \in 1..Len(r.blocks) :
       LET b == r.blocks[i]
       IN  /\ b.reports < Mod - 1
           /\ r.at[i + 1] = r.at[i] + 2 + (b.reports + 1) \div 2
           /\ r.at[i + 1] <= Len(p)
           /\ p[r.at[i]] = b.ssrc
           /\ p[r.at[i] + 1] % Mod = b.reports

(* s lists the sources of the first n blocks, in the order in which they   *)
(* first occur.                                                            *)
Lists(s, blocks, n) ==
  /\ \A i \in 1..n : \E k \in 1..Len(s) : s[k] = blocks[i].ssrc
  /\ \A k \in 1..Len(s) : \E i \in 1..n : s[k] = blocks[i].ssrc
  /\ \A k, l \in 1..Len(s), i \in 1..n :
       k < l /\ s[l] = blocks[i].ssrc => \E j \in 1..i - 1 : s[k] = blocks[j].ssrc

(* Of a report, the scan returns exactly the sources, in their order: it   *)
(* neither misses a stream nor takes report data for an SSRC.              *)
FindsSources ==
  done => \A r \in Reports :
            Encodes(packet, r) => Lists(ssrcs, r.blocks, Len(r.blocks))

(* The scan ends on every packet.                                          *)
Terminates == <>done
=============================================================================
