-------------------------- MODULE InferredFeedback --------------------------
(***************************************************************************)
(* What feedback inference promises, in place of the receiver's reports:   *)
(* of the packets handed to the transport, those that it says have arrived *)
(* are told to SCReAM, each is taken into account once, and the reports    *)
(* come in the order they were made, each covering what the one before     *)
(* covered.                                                                *)
(***************************************************************************)
EXTENDS Naturals, Sequences

CONSTANT MaxPackets

VARIABLES
  written,     \* how many packets have been handed to the transport
  flying,      \* those whose fate the transport has not told
  arrived,     \* those it has told have arrived, not taken into account yet
  counted,     \* those taken into account
  reports,     \* what the reports on their way cover
  told         \* what SCReAM has been told

promiseVars == <<written, flying, arrived, counted, reports, told>>

Init ==
  /\ written = 0
  /\ flying = {}
  /\ arrived = {}
  /\ counted = {}
  /\ reports = <<>>
  /\ told = {}

Write ==
  /\ written < MaxPackets
  /\ written' = written + 1
  /\ flying' \in {flying, flying \cup {written'}}
  /\ UNCHANGED <<arrived, counted, reports, told>>

Lose(p) ==
  /\ p \in flying
  /\ flying' = flying \ {p}
  /\ UNCHANGED <<written, arrived, counted, reports, told>>

Arrive(p) ==
  /\ p \in flying
  /\ flying' = flying \ {p}
  /\ arrived' = arrived \cup {p}
  /\ UNCHANGED <<written, counted, reports, told>>

Count(p) ==
  /\ p \in arrived
  /\ arrived' = arrived \ {p}
  /\ counted' = counted \cup {p}
  /\ UNCHANGED <<written, flying, reports, told>>

Report ==
  /\ counted # {}
  /\ reports' = Append(reports, counted)
  /\ UNCHANGED <<written, flying, arrived, counted, told>>

Tell ==
  /\ reports # <<>>
  /\ told' = Head(reports)
  /\ reports' = Tail(reports)
  /\ UNCHANGED <<written, flying, arrived, counted>>

(* A report that the reader cannot decode is dropped.                      *)
Drop ==
  /\ reports # <<>>
  /\ reports' = Tail(reports)
  /\ UNCHANGED <<written, flying, arrived, counted, told>>

Next ==
  \/ Write \/ Report \/ Tell \/ Drop
  \/ \E p \in 1 .. MaxPackets : Lose(p) \/ Arrive(p) \/ Count(p)

Spec == Init /\ [][Next]_promiseVars
=============================================================================
