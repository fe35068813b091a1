----------------------------- MODULE MCWindowTasks -----------------------------
(* Instances of WindowTasks for TLC. *)
EXTENDS WindowTasks

CONSTANTS a, b, c, d, e

\* One tree: a, b, c and e share a leaf, d meets them on level 1.
MCHash == [f \in Flow |-> CASE f = a -> 2 [] f = b -> 10 [] f = c -> 18 [] f = e -> 26 [] OTHER -> 3]

\* Three windows of five packets: more than the four levels of a path can show.
MCtuples == << {a, b}, {b}, {c, d}, {d, e}, {e, a},
               {a}, {a, b}, {c, d}, {b, e}, {c, e},
               {a, d}, {b, e}, {c}, {d, a}, {b, e} >>

\* Two flows of one window can make it hard: a has no cell that it does not share
\* with b and two functions in one; b and c cannot be told apart by their cells; and
\* d has only bits that c has too.
MCw_iblt == 6
MCiblt_hash == [f \in Flow |-> CASE f = a -> <<0, 1, 1>> [] f = d -> <<2, 2, 0>> [] f = e -> <<4, 5, 3>> [] OTHER -> <<0, 1, 3>>]
MCbf_hash == [f \in Flow |-> CASE f = a -> {0, 1} [] f = b -> {1, 2} [] f = c -> {3, 4} [] f = e -> {5} [] OTHER -> {4}]

MCsrcIP == [f \in Flow |-> IF f \in {a, b} THEN 1 ELSE 2]
MCdstIP == [f \in Flow |-> IF f \in {a, d} THEN 3 ELSE 4]
===============================================================================
