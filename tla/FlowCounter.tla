------------------------------ MODULE FlowCounter -----------------------------
(***************************************************************************)
(* What an AHeap promises its clients, whatever the insertion routine: an  *)
(* estimate per flow that never exceeds the true count, and a packet that  *)
(* takes counts away from at most one flow.                                *)
(***************************************************************************)
EXTENDS Integers

CONSTANT Flow

VARIABLES truth, est

Init ==
  /\ truth = [f \in Flow |-> 0]
  /\ est = [f \in Flow |-> 0]

Counted(f) == [est EXCEPT ![f] = @ + 1]

\* A packet of f is counted; then at most one flow, possibly f itself, is cut
\* back to some smaller estimate.
Observe(f) ==
  /\ truth' = [truth EXCEPT ![f] = @ + 1]
  /\ \E victim \in Flow : \E n \in 0..Counted(f)[victim] :
       est' = [Counted(f) EXCEPT ![victim] = n]

Next == \E f \in Flow : Observe(f)

Spec == Init /\ [][Next]_<<truth, est>>

\* No flow is ever reported larger than it is.
NeverOverestimates == \A f \in Flow : est[f] <= truth[f]
===============================================================================
