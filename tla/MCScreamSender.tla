--------------------------- MODULE MCScreamSender ---------------------------
(* Instances of ScreamSender for TLC.                                      *)
EXTENDS ScreamSender

(* Packets of 1, 2, 4, 8 ... bytes: no two sets of packets weigh the same. *)
MCOffset == [n \in 0..MaxPackets |-> 2^n - 1]
=============================================================================
