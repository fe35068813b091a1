------------------------------ MODULE MCAHeapGPU ------------------------------
(* Instances of AHeapGPU for TLC. *)
EXTENDS AHeapGPU

CONSTANTS a, b, c, d, e

\* a, b, c and d share a leaf, e has the other tree.
Rank == [f \in Flow |-> CASE f = a -> 0 [] f = b -> 1 [] f = c -> 2 [] f = d -> 3 [] OTHER -> 4]
MCHash == [f \in Flow |-> IF f = e THEN 9 ELSE FIRST_LAYER_BUCKET * Rank[f]]

\* Every trace of flows that share a leaf, one for each way to name them; and
\* two traces with a packet for the other tree.
MCTraces ==
  LET SameLeaf == {s \in [Thread -> {a, b, c, d}] :
                     \A t \in Thread : Rank[s[t]] = 0 \/
                       \E u \in 0..(t - 1) : Rank[s[u]] >= Rank[s[t]] - 1}
      TwoTrees == {[t \in Thread |-> IF t = x THEN e ELSE IF t < 2 THEN a ELSE b] : x \in {0, 3}}
  IN  SameLeaf \union TwoTrees

\* For the size of the mutex array: the last bucket of the real first layer.
MCLastHash == [f \in Flow |-> FIRST_LAYER_BUCKET - 1]
MCOneTrace == {[t \in Thread |-> a]}
===============================================================================
