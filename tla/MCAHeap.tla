------------------------------- MODULE MCAHeap --------------------------------
(* Instances of AHeap for TLC. *)
EXTENDS AHeap, TLC

CONSTANTS a, b, c, d, e

\* One tree (m = 1): a, b and c share leaf 2, d and e leaf 3, and the two groups
\* meet in the second bucket of level 1.  A flow alone in its leaf would stay there.
MCHash == [f \in Flow |-> CASE f = a -> 2 [] f = b -> 10 [] f = c -> 18
                             [] f = d -> 3 [] OTHER -> 11]

\* The flows of a leaf may be renamed.
MCSymmetry == {p @@ q : p \in Permutations({a, b, c}), q \in Permutations({d, e})}
===============================================================================
