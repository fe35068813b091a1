------------------------------ MODULE AHeapItems ------------------------------
(***************************************************************************)
(* What every insertion routine of the CPU AHeap shares besides the array: *)
(* the loop of the task that feeds it and keeps the reference counts, and  *)
(* the properties every routine has to have.                               *)
(***************************************************************************)
EXTENDS AHeapArray

CONSTANTS
  Word,          \* 2^32, the range of my_value_count and my_value_time
  MaxPackets     \* bound: the packets of a trace

ASSUME WordAssumption == MaxPackets \in Nat /\ Word \in Nat /\ MaxPackets < Word

VARIABLES
  cache,     \* MyCache
  now,       \* the packet number i of the task loop, stamped on the item
  truth,     \* history: packets of each flow so far (flowCount of the tasks)
  lastSeen   \* history: stamp of each flow's latest packet, -1 before it

vars == <<cache, now, truth, lastSeen>>

------------------------------------------------------------------------------
(* Packets and stamps *)

Packet(f) == [key |-> f, count |-> 1, time |-> now]

\* a - b on uint32_t, as the code subtracts stamps: an item older than the
\* resident it meets is not "negative", it is almost Word ticks newer.
Elapsed(a, b) == IF a >= b THEN a - b ELSE a - b + Word

------------------------------------------------------------------------------
(* The task loop around the insertion *)

Init ==
  /\ cache = [b \in Bucket |-> Empty]
  /\ now = 0
  /\ truth = [f \in Flow |-> 0]
  /\ lastSeen = [f \in Flow |-> -1]

\* One packet of flow f goes by: the loop of input() counts it in flowCount.
Arrive(f) ==
  /\ now < MaxPackets
  /\ now' = now + 1
  /\ truth' = [truth EXCEPT ![f] = @ + 1]
  /\ lastSeen' = [lastSeen EXCEPT ![f] = now]

------------------------------------------------------------------------------
(* Properties every insertion routine has *)

\* The values of the task's own state are of their types.
TypeOK ==
  /\ Typed(cache)
  /\ now \in 0..MaxPackets
  /\ truth \in [Flow -> Nat]
  /\ lastSeen \in [Flow -> Int]

\* check() accepts every resident: however often an item was kicked down, it is
\* in a bucket of its own flow's path.  The decoder discards anything else.
OnPath == WellPlaced(cache)

\* The counts left on a flow's path never add up to more than its packets, nor
\* can they leave uint32_t.
NeverOverestimates == \A f \in Flow : Recorded(cache, f) <= truth[f] /\ truth[f] < Word

\* Summing the whole array by key, as the tasks do, reads the path and only it:
\* no packet is counted in two buckets of a level.
MergeMatchesPath == \A f \in Flow : MergeSingleCache(cache, f) = Recorded(cache, f)

\* No stamp of a flow is later than its latest packet; and a flow that lost
\* no packet still carries the stamp of its latest one in some bucket, so the
\* maximum that rfTest takes over the flow's items is exact.
StampsTruthful ==
  \A f \in Flow :
    LET stamps == {cache[b].time : b \in {c \in Bucket : cache[c].key = f}}
    IN  /\ \A t \in stamps : t <= lastSeen[f]
        /\ truth[f] > 0 /\ Recorded(cache, f) = truth[f] => lastSeen[f] \in stamps

\* The flow of the latest packet is in the array, stamped with that packet:
\* a routine may drop what it kicks out, never what it has just been given.
LatestVisible ==
  \A f \in Flow :
    now > 0 /\ lastSeen[f] = now - 1 =>
      \E l \in Level : /\ cache[PathBucket(f, l)].key = f
                       /\ cache[PathBucket(f, l)].time = now - 1

\* A bucket of a later level is only used once one of its two children is:
\* the trees fill from the leaves.
FillOrder ==
  \A l \in 0..2 : \A i \in 0..(bucket_num - 1) :
    /\ level_start[l + 1] + i <= bucket_num - 1
    /\ l < 2 => level_start[l + 1] + i < level_start[l + 2]
    /\ ~Vacant(cache, level_start[l + 1] + i)
    => \E child \in {2 * i, 2 * i + 1} : ~Vacant(cache, level_start[l] + child)

\* A count is lost only by an insertion that found its whole path taken.
LossNeedsFullPath ==
  [][\A f, g \in Flow :
       /\ truth'[f] # truth[f]
       /\ truth'[g] - Recorded(cache', g) > truth[g] - Recorded(cache, g)
       => \A l \in Level : ~Vacant(cache, PathBucket(f, l))]_vars

\* The array implements the promise to clients: through all the exchanges of a
\* packet's cascade one flow at most loses counts, and nobody gains any.
Counter == INSTANCE FlowCounter WITH est <- [f \in Flow |-> Recorded(cache, f)]
ImplementsCounter == Counter!Spec
===============================================================================
