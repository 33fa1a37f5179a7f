------------------------- MODULE ExtractSSRCsProofs -------------------------
(* Proofs about ExtractSSRCs, for packets of every length and content.     *)
EXTENDS ExtractSSRCs, SequenceTheorems, TLAPS

(* A count of reports, as read and as padded, is even where it is used:    *)
(* the increment of an odd uint16 is even or wraps to zero.                *)
LEMMA PaddedEven ==
  ASSUME NEW n \in 0..Mod - 1
  PROVE  Padded(n) \in Nat /\ Padded(n) % 2 = 0
<1>1. CASE n % 2 = 0
  BY <1>1, ExtractAssumption DEF Padded
<1>2. CASE n % 2 # 0 /\ n + 1 < Mod
  <2>1. (n + 1) % Mod = n + 1
    BY <1>2, ExtractAssumption
  <2> QED
    BY <1>2, <2>1, ExtractAssumption DEF Padded
<1>3. CASE n % 2 # 0 /\ n + 1 = Mod
  <2>1. (n + 1) % Mod = 0
    BY <1>3, ExtractAssumption
  <2> QED
    BY <1>3, <2>1, ExtractAssumption DEF Padded
<1> QED
  BY <1>1, <1>2, <1>3, ExtractAssumption

(* Each block is left by a positive multiple of four bytes.                *)
LEMMA AdvanceAligned ==
  ASSUME NEW n \in 0..Mod - 1
  PROVE  Advance(n) \in Nat /\ Advance(n) >= 8 /\ Advance(n) % 4 = 0
<1>1. PICK k \in Nat : Padded(n) = 2 * k
  <2>1. Padded(n) \div 2 \in Nat /\ Padded(n) = 2 * (Padded(n) \div 2)
    BY PaddedEven
  <2> QED
    BY <2>1
<1>2. Advance(n) = 4 * (k + 2)
  BY <1>1 DEF Advance
<1> QED
  BY <1>2

(* Collecting keeps the SSRCs distinct.                                    *)
LEMMA CollectDistinct ==
  ASSUME NEW s \in Seq(Nat), NEW ssrc \in Nat,
         \A i, j \in 1..Len(s) : s[i] = s[j] => i = j
  PROVE  /\ Collect(s, ssrc) \in Seq(Nat)
         /\ \A i, j \in 1..Len(Collect(s, ssrc)) :
              Collect(s, ssrc)[i] = Collect(s, ssrc)[j] => i = j
<1>1. CASE \E i \in 1..Len(s) : s[i] = ssrc
  BY <1>1 DEF Collect
<1>2. CASE ~ \E i \in 1..Len(s) : s[i] = ssrc
  <2>1. Collect(s, ssrc) = Append(s, ssrc)
    BY <1>2 DEF Collect
  <2> QED
    BY <1>2, <2>1
<1> QED
  BY <1>1, <1>2

(* The inductive invariant.                                                *)
IInv == TypeOK /\ Aligned /\ Distinct

(* Alignment is what makes the loop condition enough: of the four residues *)
(* of the offset only zero leaves eight bytes before Bytes - 4 is passed.  *)
LEMMA AlignedInBounds == IInv => InBounds
<1> SUFFICES ASSUME IInv, More
             PROVE  offset + 8 <= Bytes
  BY DEF InBounds
<1>1. Len(packet) \in Nat
  BY ExtractAssumption DEF IInv, TypeOK
<1>2. PICK k \in Nat : offset = 4 * k
  <2>1. offset \div 4 \in Nat /\ offset = 4 * (offset \div 4)
    BY DEF IInv, TypeOK, Aligned
  <2> QED
    BY <2>1
<1> QED
  BY <1>1, <1>2 DEF More, Bytes

(* A block is read inside the packet, so what is read are numbers.         *)
LEMMA BlockReads ==
  ASSUME IInv, More
  PROVE  Uint32At(offset) \in Nat /\ NumReports(offset) \in 0..Mod - 1
<1>1. packet \in Seq(Nat) /\ Len(packet) \in Nat
  BY ExtractAssumption DEF IInv, TypeOK
<1>2. offset + 8 <= Bytes
  BY AlignedInBounds DEF InBounds
<1>3. PICK k \in Nat : offset = 4 * k /\ offset \div 4 = k
  <2>1. offset \div 4 \in Nat /\ offset = 4 * (offset \div 4)
    BY DEF IInv, TypeOK, Aligned
  <2> QED
    BY <2>1
<1>4. k + 1 \in 1..Len(packet) /\ k + 2 \in 1..Len(packet)
  BY <1>1, <1>2, <1>3 DEF Bytes
<1>5. packet[k + 1] \in Nat /\ packet[k + 2] \in Nat
  BY <1>1, <1>4
<1> QED
  BY <1>3, <1>5, ExtractAssumption DEF Uint32At, NumReports

(* The scan starts at byte 8, with nothing found.                          *)
LEMMA InitInv == Init => IInv
<1> SUFFICES ASSUME Init
             PROVE  IInv
  OBVIOUS
<1>1. TypeOK
  <2>1. ssrcs = <<>> /\ <<>> \in Seq(Nat)
    BY DEF Init
  <2>2. done \in BOOLEAN /\ packet \in Packets /\ offset = 8 /\ 8 \in Nat
    BY DEF Init
  <2> QED
    BY <2>1, <2>2 DEF TypeOK
<1>2. Aligned
  BY DEF Init, Aligned
<1>3. Distinct
  BY DEF Init, Distinct
<1> QED
  BY <1>1, <1>2, <1>3 DEF IInv

(* The loop body keeps the alignment and the distinctness.                 *)
LEMMA NextInv == IInv /\ [Next]_vars => IInv'
<1> SUFFICES ASSUME IInv, [Next]_vars
             PROVE  IInv'
  OBVIOUS
<1>1. CASE Block
  <2>1. Uint32At(offset) \in Nat /\ NumReports(offset) \in 0..Mod - 1
    BY <1>1, BlockReads DEF Block
  <2> DEFINE a == Advance(NumReports(offset))
  <2>2. a \in Nat /\ a % 4 = 0
    BY <2>1, AdvanceAligned
  <2>3. offset' = offset + a /\ offset \in Nat /\ offset % 4 = 0
    BY <1>1 DEF Block, IInv, TypeOK, Aligned
  <2>4. offset' \in Nat /\ Aligned'
    <3> HIDE DEF a
    <3> QED
      BY <2>2, <2>3 DEF Aligned
  <2>5. ssrcs' \in Seq(Nat) /\ Distinct'
    BY <1>1, <2>1, CollectDistinct DEF Block, IInv, TypeOK, Distinct
  <2> QED
    BY <1>1, <2>4, <2>5 DEF Block, IInv, TypeOK
<1>2. CASE Return
  BY <1>2 DEF Return, IInv, TypeOK, Aligned, Distinct
<1>3. CASE UNCHANGED vars
  BY <1>3 DEF vars, IInv, TypeOK, Aligned, Distinct
<1> QED
  BY <1>1, <1>2, <1>3 DEF Next

(* Types, alignment and distinctness hold throughout the scan.             *)
THEOREM ScanInvariant == SafeSpec => []IInv
<1>1. Init => IInv
  BY InitInv
<1>2. IInv /\ [Next]_vars => IInv'
  BY NextInv
<1> QED
  BY <1>1, <1>2, PTL DEF SafeSpec

(* extractSSRCs never reads beyond its packet, of whatever length and      *)
(* content, provided only that the length is a multiple of four.           *)
THEOREM ScanInBounds == SafeSpec => []InBounds
BY ScanInvariant, AlignedInBounds, PTL

(* extractSSRCs never returns an SSRC twice.                               *)
THEOREM ScanDistinct == SafeSpec => []Distinct
<1>1. IInv => Distinct
  BY DEF IInv
<1> QED
  BY <1>1, ScanInvariant, PTL

(* Every step of the loop moves the offset forward, by eight bytes or      *)
(* more: from this the scan's end on every packet follows.                 *)
Advances == [][Block => offset' >= offset + 8]_vars

THEOREM ScanAdvances == SafeSpec => Advances
<1>1. IInv /\ [Next]_vars => [Block => offset' >= offset + 8]_vars
  <2> SUFFICES ASSUME IInv, Block
               PROVE  offset' >= offset + 8
    OBVIOUS
  <2>1. NumReports(offset) \in 0..Mod - 1
    BY BlockReads DEF Block
  <2>2. Advance(NumReports(offset)) \in Nat /\ Advance(NumReports(offset)) >= 8
    BY <2>1, AdvanceAligned
  <2> QED
    BY <2>2 DEF Block, IInv, TypeOK
<1> QED
  BY <1>1, ScanInvariant, PTL DEF SafeSpec, Advances

-----------------------------------------------------------------------------
(* What the scan finds in a report.                                        *)

(* After n blocks of a report the scan stands at the next of them, or at   *)
(* the timestamp, and has listed the sources of those n.                   *)
Scanned(r, n) ==
  /\ n \in 0..Len(r.blocks)
  /\ offset = 4 * (r.at[n + 1] - 1)
  /\ Lists(ssrcs, r.blocks, n)
  /\ done => n = Len(r.blocks)

FoundSoFar ==
  \A r \in Reports : Encodes(packet, r) => \E n \in Nat : Scanned(r, n)

(* Collecting the source of the next block lists the sources up to it.     *)
LEMMA CollectLists ==
  ASSUME NEW s \in Seq(Nat), NEW blocks \in Seq([ssrc : Nat, reports : Nat]),
         NEW n \in Nat, n + 1 \in 1..Len(blocks), Lists(s, blocks, n)
  PROVE  Lists(Collect(s, blocks[n + 1].ssrc), blocks, n + 1)
<1> DEFINE ssrc == blocks[n + 1].ssrc
           t == Collect(s, ssrc)
<1>1. ssrc \in Nat /\ Len(s) \in Nat
  <2>1. blocks[n + 1] \in [ssrc : Nat, reports : Nat]
    BY ElementOfSeq
  <2> QED
    BY <2>1
<1>4. \A i \in 1..n + 1 : i \in 1..n \/ i = n + 1
  OBVIOUS
<1>2. CASE \E i \in 1..Len(s) : s[i] = ssrc
  <2>1. t = s
    BY <1>2 DEF Collect
  <2>2. PICK m \in 1..n : blocks[m].ssrc = ssrc
    BY <1>2 DEF Lists
  <2>3. ASSUME NEW k \in 1..Len(s), NEW l \in 1..Len(s), NEW i \in 1..n + 1,
               k < l, s[l] = blocks[i].ssrc
        PROVE  \E j \in 1..i - 1 : s[k] = blocks[j].ssrc
    <3>1. CASE i \in 1..n
      BY <2>3, <3>1 DEF Lists
    <3>2. CASE i = n + 1
      <4>1. PICK j \in 1..m - 1 : s[k] = blocks[j].ssrc
        BY <2>2, <2>3, <3>2 DEF Lists
      <4> QED
        BY <3>2, <4>1
    <3> QED
      BY <1>4, <3>1, <3>2
  <2>4. \A i \in 1..n + 1 : \E k \in 1..Len(s) : s[k] = blocks[i].ssrc
    BY <1>2, <1>4 DEF Lists
  <2>5. \A k \in 1..Len(s) : \E i \in 1..n + 1 : s[k] = blocks[i].ssrc
    BY DEF Lists
  <2> QED
    BY <2>1, <2>3, <2>4, <2>5 DEF Lists
<1>3. CASE ~ \E i \in 1..Len(s) : s[i] = ssrc
  <2>1. /\ t = Append(s, ssrc)
        /\ Len(t) = Len(s) + 1 /\ t[Len(s) + 1] = ssrc
        /\ \A k \in 1..Len(s) : t[k] = s[k]
    BY <1>1, <1>3 DEF Collect
  <2> HIDE DEF ssrc, t
  <2>2. \A i \in 1..n + 1 : \E k \in 1..Len(t) : t[k] = blocks[i].ssrc
    <3>1. ASSUME NEW i \in 1..n
          PROVE  \E k \in 1..Len(t) : t[k] = blocks[i].ssrc
      BY <2>1 DEF Lists
    <3>2. t[Len(t)] = blocks[n + 1].ssrc /\ Len(t) \in 1..Len(t)
      BY <2>1 DEF ssrc
    <3> QED
      BY <1>4, <3>1, <3>2
  <2>3. \A k \in 1..Len(t) : \E i \in 1..n + 1 : t[k] = blocks[i].ssrc
    <3>1. ASSUME NEW k \in 1..Len(s)
          PROVE  \E i \in 1..n + 1 : t[k] = blocks[i].ssrc
      <4>1. PICK i \in 1..n : s[k] = blocks[i].ssrc
        BY DEF Lists
      <4> QED
        BY <2>1, <4>1
    <3>2. t[Len(s) + 1] = blocks[n + 1].ssrc /\ n + 1 \in 1..n + 1
      BY <2>1 DEF ssrc
    <3>3. \A k \in 1..Len(t) : k \in 1..Len(s) \/ k = Len(s) + 1
      BY <1>1, <2>1
    <3> QED
      BY <3>1, <3>2, <3>3
  <2>4. ASSUME NEW k \in 1..Len(t), NEW l \in 1..Len(t), NEW i \in 1..n + 1,
               k < l, t[l] = blocks[i].ssrc
        PROVE  \E j \in 1..i - 1 : t[k] = blocks[j].ssrc
    <3>0. k \in 1..Len(s) /\ t[k] = s[k] /\ (l \in 1..Len(s) \/ l = Len(s) + 1)
      <4>1. k \in 1..Len(s)
        BY <1>1, <2>1, <2>4
      <4>2. l \in 1..Len(s) \/ l = Len(s) + 1
        BY <1>1, <2>1
      <4> QED
        BY <2>1, <4>1, <4>2
    <3>1. CASE i \in 1..n /\ l \in 1..Len(s)
      BY <2>1, <2>4, <3>0, <3>1 DEF Lists
    <3>2. CASE i = n + 1
      <4>1. PICK j \in 1..n : s[k] = blocks[j].ssrc
        BY <3>0 DEF Lists
      <4> QED
        BY <3>0, <3>2, <4>1
    <3>3. CASE i \in 1..n /\ l = Len(s) + 1
      <4>1. PICK q \in 1..Len(s) : s[q] = blocks[i].ssrc
        BY <3>3 DEF Lists
      <4> QED
        BY <1>3, <2>1, <2>4, <3>3, <4>1
    <3> QED
      BY <1>4, <3>0, <3>1, <3>2, <3>3
  <2>5. Lists(t, blocks, n + 1)
    BY <2>2, <2>3, <2>4 DEF Lists
  <2> QED
    BY <2>5 DEF t, ssrc
<1> QED
  BY <1>2, <1>3

(* A block of a report is left by its own length: the padding of the code  *)
(* is that of the format.                                                  *)
LEMMA BlockLength ==
  ASSUME NEW n \in Nat, n < Mod - 1
  PROVE  Advance(n) = 4 * (2 + (n + 1) \div 2)
<1>1. CASE n % 2 = 0
  <2>1. PICK k \in Nat : n = 2 * k
    BY <1>1
  <2>2. (n + 1) \div 2 = k
    BY <2>1
  <2> QED
    BY <1>1, <2>1, <2>2 DEF Advance, Padded
<1>2. CASE n % 2 # 0
  <2>1. PICK k \in Nat : n = 2 * k + 1
    BY <1>2
  <2>2. (n + 1) \div 2 = k + 1
    BY <2>1
  <2>3. (n + 1) % Mod = n + 1
    BY ExtractAssumption
  <2> QED
    BY <1>2, <2>1, <2>2, <2>3 DEF Advance, Padded
<1> QED
  BY <1>1, <1>2

(* Where a block of a report is left of the scan, the loop goes on and     *)
(* reads it; where none is, the loop ends.                                 *)
LEMMA ReadsBlock ==
  ASSUME IInv, NEW r \in Reports, Encodes(packet, r), NEW n \in Nat, Scanned(r, n)
  PROVE  /\ More <=> n < Len(r.blocks)
         /\ n < Len(r.blocks) =>
              /\ Uint32At(offset) = r.blocks[n + 1].ssrc
              /\ offset + Advance(NumReports(offset)) = 4 * (r.at[n + 2] - 1)
<1>1. /\ r.blocks \in Seq([ssrc : Nat, reports : Nat]) /\ r.at \in Seq(Nat)
      /\ Len(r.at) = Len(r.blocks) + 1 /\ Len(packet) \in Nat
  BY ExtractAssumption DEF IInv, TypeOK
<1>2. n \in 0..Len(r.blocks) /\ r.at[n + 1] \in Nat /\ offset = 4 * (r.at[n + 1] - 1)
  <2>1. n \in 0..Len(r.blocks) /\ offset = 4 * (r.at[n + 1] - 1)
    BY DEF Scanned
  <2>2. n + 1 \in 1..Len(r.at)
    BY <1>1, <2>1
  <2> QED
    BY <1>1, <2>1, <2>2
<1>3. CASE n = Len(r.blocks)
  <2>1. r.at[n + 1] = Len(packet)
    BY <1>1, <1>3 DEF Encodes
  <2> QED
    BY <1>1, <1>2, <1>3, <2>1 DEF More, Bytes
<1>4. CASE n < Len(r.blocks)
  <2>1. n + 1 \in 1..Len(r.blocks) /\ n + 2 \in 1..Len(r.at)
    BY <1>1, <1>4
  <2>2. r.blocks[n + 1].reports \in Nat /\ r.at[n + 2] \in Nat
    <3>1. r.blocks[n + 1] \in [ssrc : Nat, reports : Nat]
      BY <1>1, <2>1, ElementOfSeq
    <3>2. r.at[n + 2] \in Nat
      BY <1>1, <2>1, ElementOfSeq
    <3> QED
      BY <3>1, <3>2
  <2> DEFINE b == r.blocks[n + 1]
             w == r.at[n + 1]
             x == r.at[n + 2]
  <2>3. /\ b.reports < Mod - 1
        /\ x = w + 2 + (b.reports + 1) \div 2 /\ x <= Len(packet)
        /\ packet[w] = b.ssrc /\ packet[w + 1] % Mod = b.reports
    <3>1. (n + 1) + 1 = n + 2
      OBVIOUS
    <3> QED
      BY <2>1, <3>1 DEF Encodes
  <2>4. offset \div 4 = w - 1
    <3>1. w \in Nat /\ offset = 4 * (w - 1)
      BY <1>2
    <3> HIDE DEF w
    <3> QED
      BY <3>1
  <2>5. Uint32At(offset) = b.ssrc /\ NumReports(offset) = b.reports
    <3>1. (w - 1) + 1 = w /\ (w - 1) + 2 = w + 1
      BY <1>2
    <3> QED
      BY <2>3, <2>4, <3>1 DEF Uint32At, NumReports
  <2>6. Advance(NumReports(offset)) = 4 * (2 + (b.reports + 1) \div 2)
    BY <2>2, <2>3, <2>5, BlockLength
  <2>7. (b.reports + 1) \div 2 \in Nat
    BY <2>2
  <2> HIDE DEF b, w, x
  <2>8. offset + Advance(NumReports(offset)) = 4 * (x - 1)
    <3>1. w \in Nat /\ offset = 4 * (w - 1)
      BY <1>2 DEF w
    <3> QED
      BY <2>3, <2>6, <2>7, <3>1
  <2>9. More
    <3>1. w \in Nat /\ offset = 4 * (w - 1)
      BY <1>2 DEF w
    <3> QED
      BY <1>1, <2>3, <2>7, <3>1 DEF More, Bytes
  <2> QED
    BY <1>4, <2>5, <2>8, <2>9 DEF b, x
<1> QED
  BY <1>2, <1>3, <1>4

(* Each turn of the loop scans one block more.                             *)
LEMMA NextFound == IInv /\ FoundSoFar /\ [Next]_vars => FoundSoFar'
<1> SUFFICES ASSUME IInv, FoundSoFar, [Next]_vars
             PROVE  FoundSoFar'
  OBVIOUS
<1>1. packet' = packet
  BY DEF Next, Block, Return, vars
<1> SUFFICES ASSUME NEW r \in Reports, Encodes(packet, r), NEW n \in Nat, Scanned(r, n)
             PROVE  \E m \in Nat : Scanned(r, m)'
  BY <1>1 DEF FoundSoFar, Encodes
<1>2. CASE Block
  <2>1. n < Len(r.blocks)
    BY <1>2, ReadsBlock DEF Block
  <2>2. r.blocks \in Seq([ssrc : Nat, reports : Nat]) /\ n + 1 \in 1..Len(r.blocks)
    BY <2>1, ExtractAssumption
  <2>3. offset' = 4 * (r.at[n + 2] - 1) /\ ssrcs' = Collect(ssrcs, r.blocks[n + 1].ssrc)
    BY <1>2, <2>1, ReadsBlock DEF Block
  <2>4. Lists(ssrcs', r.blocks, n + 1)
    BY <2>2, <2>3, CollectLists DEF Scanned, IInv, TypeOK
  <2>5. (n + 1) + 1 = n + 2 /\ n + 1 \in 0..Len(r.blocks) /\ ~done'
    BY <1>2, <2>2 DEF Block
  <2>6. Scanned(r, n + 1)'
    BY <2>3, <2>4, <2>5 DEF Scanned
  <2> QED
    BY <2>6
<1>3. CASE Return
  <2>1. n = Len(r.blocks)
    <3>1. Len(r.blocks) \in Nat
      BY ExtractAssumption
    <3> QED
      BY <1>3, <3>1, ReadsBlock DEF Return, Scanned
  <2>2. Scanned(r, n)'
    BY <1>3, <2>1 DEF Return, Scanned
  <2> QED
    BY <2>2
<1>4. CASE UNCHANGED vars
  <2>1. Scanned(r, n)'
    BY <1>4 DEF vars, Scanned
  <2> QED
    BY <2>1
<1> QED
  BY <1>2, <1>3, <1>4 DEF Next

(* Of every report the scan finds the sources of all blocks and nothing    *)
(* else, each once and in their order, however many blocks it has and      *)
(* whatever they report.                                                   *)
THEOREM ScanFinds == SafeSpec => []FindsSources
<1>1. Init => FoundSoFar
  <2> SUFFICES ASSUME Init, NEW r \in Reports, Encodes(packet, r)
               PROVE  Scanned(r, 0)
    BY DEF FoundSoFar
  <2>1. Len(r.blocks) \in Nat
    BY ExtractAssumption
  <2>2. Lists(ssrcs, r.blocks, 0)
    BY DEF Init, Lists
  <2> QED
    BY <2>1, <2>2 DEF Init, Encodes, Scanned
<1>2. FoundSoFar => FindsSources
  BY DEF FoundSoFar, FindsSources, Scanned
<1> QED
  BY <1>1, <1>2, NextFound, ScanInvariant, PTL DEF SafeSpec
=============================================================================
