--------------------------- MODULE MCExtractSSRCs ---------------------------
(* Instances of ExtractSSRCs for TLC, and the wire format it is to decode. *)
EXTENDS ExtractSSRCs, SequencesExt

CONSTANTS
  MaxWords,    \* bound: words of an arbitrary packet
  MaxBlocks,   \* bound: blocks of a report
  MaxReports   \* bound: packets that a block reports on

(* The wire format, block by block, and where the blocks of a report begin. *)
Block8888(b) ==
  <<b.ssrc, b.reports>> \o [i \in 1..(b.reports + 1) \div 2 |-> 9]

Encode(blocks) ==
  <<0, 0>> \o FlattenSeq([i \in 1..Len(blocks) |-> Block8888(blocks[i])]) \o <<9>>

Layout(blocks) ==
  [blocks |-> blocks,
   at |-> [i \in 1..Len(blocks) + 1 |-> Len(Encode(SubSeq(blocks, 1, i - 1)))]]

MCReports ==
  {Layout(s) : s \in SeqOf([ssrc : {1, 2, 3}, reports : 0..MaxReports], MaxBlocks)}

(* Arbitrary words take every residue modulo Mod, so that num_reports is   *)
(* zero, odd, and odd with an increment that wraps.                        *)
MCPackets == SeqOf(0..Mod, MaxWords) \cup {Encode(r.blocks) : r \in MCReports}

(* Every report is one of the packets, so that FindsSources speaks of it.  *)
ASSUME EncodedAssumption == \A r \in MCReports : Encodes(Encode(r.blocks), r)
=============================================================================
