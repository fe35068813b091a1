------------------------------- MODULE FlowRadar -------------------------------
(***************************************************************************)
(* FlowRadar, the baseline the tasks compare the AHeap with: an invertible *)
(* Bloom lookup table (insertable_iblt.h).  A flow is added to its cells   *)
(* when the Bloom filter has not seen it, its packets always.  The XOR of  *)
(* the keys in a cell is the set of the flows that are in it an odd number *)
(* of times.                                                               *)
(***************************************************************************)
EXTENDS Integers, FiniteSetsExt, SequencesExt

CONSTANTS
  w_iblt,    \* the number of cells
  bf_hash,   \* bf_hash[f]: the bits of f in the Bloom filter
  iblt_hash  \* iblt_hash[f]: the iblt_k cells of f, not always different ones

Node == [flow_sum |-> {}, flow_num |-> 0, packet_num |-> 0]

InsertableIBLT == [bf |-> {}, iblt |-> [i \in 0..(w_iblt - 1) |-> Node]]

clear(radar) == InsertableIBLT

\* How many of f's hash functions meet in cell i.
hits(f, i) == Cardinality({j \in DOMAIN iblt_hash[f] : iblt_hash[f][j] = i})

\* The cells after f was added n times (or taken away: -n) and p packets with it.
Added(iblt, f, n, p) ==
  [i \in DOMAIN iblt |->
     [flow_sum   |-> IF (n * hits(f, i)) % 2 = 0 THEN iblt[i].flow_sum
                     ELSE SymDiff(iblt[i].flow_sum, {f}),
      flow_num   |-> iblt[i].flow_num + n * hits(f, i),
      packet_num |-> iblt[i].packet_num + p * hits(f, i)]]

insert(radar, f) ==
  [bf   |-> radar.bf \union bf_hash[f],
   iblt |-> Added(radar.iblt, f, IF bf_hash[f] \subseteq radar.bf THEN 0 ELSE 1, 1)]

\* result[f] = n
Set(result, f, n) == [g \in {f} \union DOMAIN result |-> IF g = f THEN n ELSE result[g]]

\* Bug for a mutation run: the packets of a decoded flow stay in its cells.
peel_KeepsPackets(s, i) ==
  IF s.iblt[i].flow_num # 1 THEN s
  ELSE LET f == CHOOSE g \in s.iblt[i].flow_sum : TRUE
           n == s.iblt[i].packet_num
       IN  [iblt |-> Added(s.iblt, f, -1, 0), result |-> Set(s.result, f, n), flag |-> FALSE]

\* One turn of dump's inner loop: a cell with one flow gives its key and count.
peel(s, i) ==
  IF s.iblt[i].flow_num # 1 THEN s
  ELSE LET f == CHOOSE g \in s.iblt[i].flow_sum : TRUE
           n == s.iblt[i].packet_num
       IN  [iblt |-> Added(s.iblt, f, -1, -n), result |-> Set(s.result, f, n), flag |-> FALSE]

\* A round of dump's outer loop: the cells in order.
round(s) ==
  LET after[i \in 0..w_iblt] ==
        IF i = 0 THEN [iblt |-> s.iblt, result |-> s.result, flag |-> TRUE]
        ELSE peel(after[i - 1], i - 1)
  IN  after[w_iblt]

again(s) == IF s.flag THEN s ELSE round(s)

\* dump: rounds until one decodes nothing.  The others decode a flow each, so one more
\* than there are flows is enough.  The cells are changed.
dump(radar) ==
  LET after[n \in 0..(Cardinality(DOMAIN iblt_hash) + 1)] ==
        IF n = 0 THEN [iblt |-> radar.iblt, result |-> [f \in {} |-> 0], flag |-> FALSE]
        ELSE again(after[n - 1])
      s == after[Cardinality(DOMAIN iblt_hash) + 1]
  IN  [result |-> s.result, radar |-> [bf |-> radar.bf, iblt |-> s.iblt]]

------------------------------------------------------------------------------
(* What the properties speak of *)

\* No flow finds all its bits set by others.
BloomExact(flows) ==
  \A f \in flows : ~(bf_hash[f] \subseteq UNION {bf_hash[g] : g \in flows \ {f}})

\* What flow_num is in cell i when the flows are in the cells.
AllHits(flows, i) == MapThenSumSet(LAMBDA f : hits(f, i), flows)

\* The flows no dump can decode, of a set that is in the cells: they leave no cell
\* of any of them with a single flow.
Stuck(flows) ==
  UNION {s \in SUBSET flows : \A i \in 0..(w_iblt - 1) : AllHits(s, i) # 1}
===============================================================================
