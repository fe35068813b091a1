------------------------------ MODULE AHeapArray ------------------------------
(***************************************************************************)
(* The bucket array of an AHeap (AHeap.h, Flow.h), without the program     *)
(* around it: the geometry, the items kept in it, the path of buckets a    *)
(* flow may use, the step an item takes through one level, and how the     *)
(* counts are read back.                                                   *)
(*                                                                         *)
(* The array has four levels of 8m, 4m, 2m and m buckets.  A flow hashes   *)
(* to one bucket of level 0 and from there falls through one bucket of     *)
(* each later level, its index halved at every step: the buckets form m    *)
(* binary trees whose leaves are level 0.                                  *)
(***************************************************************************)
EXTENDS Integers, FiniteSetsExt

CONSTANTS
  Flow,          \* the flow identifiers of the trace
  NoKey,         \* my_key = NULL of a bucket nobody wrote yet
  MinBucketNum,  \* min_bucket_num, the size of the last level
  Hash           \* hash[0]->run(key), one number for each flow

ASSUME FlowAssumption == NoKey \notin Flow
ASSUME SizeAssumption == MinBucketNum \in Nat \ {0}
ASSUME HashAssumption == Hash \in [Flow -> Nat]

------------------------------------------------------------------------------
(* Geometry *)

Level == 0..3

level_start == [l \in Level |-> MinBucketNum * (IF l = 0 THEN 0
                                                ELSE IF l = 1 THEN 8
                                                ELSE IF l = 2 THEN 12 ELSE 14)]

bucket_num == 15 * MinBucketNum

Bucket == 0..(bucket_num - 1)

\* The flow's index within each level.
PathIndex(f) ==
  LET i0 == Hash[f] % (level_start[1] - level_start[0])
      i1 == i0 \div 2
      i2 == i1 \div 2
      i3 == i2 \div 2
  IN  [l \in Level |-> IF l = 0 THEN i0
                       ELSE IF l = 1 THEN i1
                       ELSE IF l = 2 THEN i2 ELSE i3]

PathBucket(f, l) == level_start[l] + PathIndex(f)[l]

\* check(i, key): is bucket i one of the four the flow can be in?
check(i, f) == \E l \in Level : i = PathBucket(f, l)

------------------------------------------------------------------------------
(* Items *)

Item  == [key : Flow \union {NoKey}, count : Nat, time : Nat]
Empty == [key |-> NoKey, count |-> 0, time |-> 0]

Newer(s, t) == IF s > t THEN s ELSE t

\* comp_item: the heavier item wins, the fresher one on a tie.
comp_item(a, b) == a.count > b.count \/ (a.count = b.count /\ a.time >= b.time)

comp_item_by_time(a, b) == a.time > b.time

\* Bug for a mutation run: the resident keeps its old stamp.
incrementItem_OldStamp(new, old, n) == [old EXCEPT !.count = @ + n]

\* The old item after n packets of the new one are added to it.
incrementItem(new, old, n) ==
  [key |-> old.key, count |-> old.count + n, time |-> Newer(new.time, old.time)]

------------------------------------------------------------------------------
(***************************************************************************)
(* One level.  An outcome holds the array after the level, whether the     *)
(* insertion ended there ("done", a return of true) and an item: the one   *)
(* still carried to the next level, or, when done, what of the carried     *)
(* item was not stored (count 0 when all of it was).                       *)
(***************************************************************************)
Outcome(c, carried, d) == [cache |-> c, item |-> carried, done |-> d]

Vacant(c, at)          == c[at].count = 0
Holds(c, at, it)       == ~Vacant(c, at) /\ c[at].key = it.key

\* Bug for a mutation run: the key is not copied into the bucket.
Placed_KeyLost(c, it, at) ==
  Outcome([c EXCEPT ![at] = [it EXCEPT !.key = NoKey]], [it EXCEPT !.count = 0], TRUE)

\* insert_to_place, then return true.
Placed(c, it, at) ==
  Outcome([c EXCEPT ![at] = it], [it EXCEPT !.count = 0], TRUE)

\* n packets of the carried item go to its flow's resident; return true.
Merged(c, it, at, n) ==
  Outcome([c EXCEPT ![at] = incrementItem(it, @, n)],
          [it EXCEPT !.count = @ - n], TRUE)

\* Bug for a mutation run: exchange_item overwrites the resident, but the item
\* that goes on is a copy of the new one.
Exchanged_OneWay(c, it, at, d) == Outcome([c EXCEPT ![at] = it], it, d)

\* exchange_item, and d is returned: FALSE to carry the resident on.
Exchanged(c, it, at, d) == Outcome([c EXCEPT ![at] = it], c[at], d)

\* The resident stays and the carried item is unchanged.
Passed(c, it, d) == Outcome(c, it, d)

\* must_kick_level: the carried item always gets the bucket.
must_kick_level(c, it, at) ==
  IF Vacant(c, at)        THEN Placed(c, it, at)
  ELSE IF Holds(c, at, it) THEN Merged(c, it, at, 1)
  ELSE Exchanged(c, it, at, FALSE)

\* The last level: the winner of the contest keeps the bucket, the loser goes.
LastLevel(c, it, at, n, wins) ==
  IF Vacant(c, at)         THEN Placed(c, it, at)
  ELSE IF Holds(c, at, it) THEN Merged(c, it, at, n)
  ELSE IF wins             THEN Exchanged(c, it, at, TRUE)
  ELSE Passed(c, it, TRUE)

------------------------------------------------------------------------------
(* What is read back *)

\* What bucket number l of the flow's path contributes to its count.
Share(c, f, l) ==
  IF c[PathBucket(f, l)].key = f THEN c[PathBucket(f, l)].count ELSE 0

\* The count on the flow's path.
Recorded(c, f) == Share(c, f, 0) + Share(c, f, 1) + Share(c, f, 2) + Share(c, f, 3)

\* MergeSingleCache: the tasks scan the whole array and sum by key.
MergeSingleCache(c, f) ==
  MapThenSumSet(LAMBDA b : c[b].count, {b \in Bucket : c[b].key = f /\ c[b].count # 0})

------------------------------------------------------------------------------
(* A sound array *)

\* Values are of their C types; a bucket is vacant until it has a key (AHeap.h:97
\* reads "count == 0" as vacant, MyItem() starts with a NULL key).
Typed(c) ==
  /\ c \in [Bucket -> Item]
  /\ \A b \in Bucket : c[b].count = 0 <=> c[b].key = NoKey

\* Every resident is in a bucket of its own flow's path.
WellPlaced(c) == \A b \in Bucket : c[b].key \in Flow => check(b, c[b].key)
===============================================================================
