------------------------------ MODULE MCAHeapOVS ------------------------------
(* Instances of AHeapOVS for TLC. *)
EXTENDS AHeapOVS, TLC

CONSTANTS a, b, d

\* Two trees (m = 2): a and b share a leaf of the first, d is in the second.
MCHash == [f \in Flow |-> CASE f = a -> 7 [] f = b -> 23 [] OTHER -> 8]

MCSymmetry == Permutations(Cpu) \union Permutations({a, b})
===============================================================================
