------------------------------ MODULE MCSender ------------------------------
(* Instances of Sender for TLC.                                            *)
EXTENDS Sender

(* Packets of 1, 2, 4 ... bytes, as in MCScreamSender.                     *)
MCOffset == [n \in 0..MaxPackets |-> 2^n - 1]
=============================================================================
