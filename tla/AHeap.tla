-------------------------------- MODULE AHeap ---------------------------------
(***************************************************************************)
(* AHeap::insert(flow_item, key, len), the insertion of the counting tasks *)
(* (flow size, heavy hitter, heavy change, distribution, entropy,          *)
(* cardinality, DDoS, spreader): two d-left levels, a level that always    *)
(* kicks, and a last level the heavier item wins.                          *)
(***************************************************************************)
EXTENDS AHeapItems

CONSTANTS
  aging,        \* the global aging; 0 in every task that calls this insert
  Byte,         \* 2^8, the range of the byte a bool is returned in
  OtherBuilds,  \* what d_left_level may return besides, if not built by demo/Makefile
  TestGone      \* whether such a build may have dropped the last test of d_left_level

ASSUME AgingAssumption == aging \in Nat
ASSUME BuildAssumption ==
  Byte \in Nat \ {0} /\ OtherBuilds \subseteq BOOLEAN /\ TestGone \in BOOLEAN

\* Bug for a mutation run: one packet too many still counts as small.
Exchangeable_TooEager(it, resident) == resident.count <= 2

\* The test under which d_left_level exchanges the two items.
Exchangeable(it, resident) ==
  IF aging # 0 THEN Elapsed(it.time, resident.time) > aging
               ELSE resident.count = 1

\* Bug for a mutation run: the exchange returns true, the kicked item is dropped.
d_left_level_DropsKicked(c, it, at) ==
  IF Vacant(c, at)         THEN {Placed(c, it, at)}
  ELSE IF Holds(c, at, it) THEN {Merged(c, it, at, 1)}
  ELSE {Exchanged(c, it, at, TRUE)}

(***************************************************************************)
(* When the resident of another flow is neither small nor old, the C++     *)
(* function ends without a return statement and its caller acts on what is *)
(* left in the result register.  As demo/Makefile builds it (g++, no -O)   *)
(* that is the number just compared: with a low byte of 1 the caller takes *)
(* it for true and drops the packet, else the packet goes on.  An          *)
(* optimising compiler may take the end for unreachable and exchange the   *)
(* items without a test.                                                   *)
(***************************************************************************)
FallOff(c, it, at) ==
  {Passed(c, it, d) :
     d \in {(IF aging # 0 THEN aging ELSE c[at].count) % Byte = 1} \union OtherBuilds}
  \union IF TestGone THEN {Exchanged(c, it, at, FALSE)} ELSE {}

\* d_left_level, one outcome for each result the build may give it.
d_left_level(c, it, at) ==
  IF Vacant(c, at)         THEN {Placed(c, it, at)}
  ELSE IF Holds(c, at, it) THEN {Merged(c, it, at, 1)}
  ELSE IF Exchangeable(it, c[at]) THEN {Exchanged(c, it, at, FALSE)}
  ELSE FallOff(c, it, at)

\* The last level of insert: the carried count is added in full.
winner_level(c, it, at) == LastLevel(c, it, at, it.count, comp_item(it, c[at]))

\* Bug for a mutation run: the index is not halved on the way to level 1.
insert_IndexNotHalved(f) ==
  \E r0 \in d_left_level(cache, Packet(f), PathBucket(f, 0)) :
  \E r1 \in IF r0.done THEN {r0}
            ELSE d_left_level(r0.cache, r0.item, level_start[1] + PathIndex(f)[0]) :
  LET r2 == IF r1.done THEN r1 ELSE must_kick_level(r1.cache, r1.item, PathBucket(f, 2))
      r3 == IF r2.done THEN r2 ELSE winner_level(r2.cache, r2.item, PathBucket(f, 3))
  IN  cache' = r3.cache

\* Bug for a mutation run: level 1 is left out.
insert_LevelSkipped(f) ==
  \E r0 \in d_left_level(cache, Packet(f), PathBucket(f, 0)) :
  LET r2 == IF r0.done THEN r0 ELSE must_kick_level(r0.cache, r0.item, PathBucket(f, 2))
      r3 == IF r2.done THEN r2 ELSE winner_level(r2.cache, r2.item, PathBucket(f, 3))
  IN  cache' = r3.cache

\* insert: level by level until one of them is done.
insert(f) ==
  \E r0 \in d_left_level(cache, Packet(f), PathBucket(f, 0)) :
  \E r1 \in IF r0.done THEN {r0} ELSE d_left_level(r0.cache, r0.item, PathBucket(f, 1)) :
  LET r2 == IF r1.done THEN r1 ELSE must_kick_level(r1.cache, r1.item, PathBucket(f, 2))
      r3 == IF r2.done THEN r2 ELSE winner_level(r2.cache, r2.item, PathBucket(f, 3))
  IN  cache' = r3.cache

Insert(f) == Arrive(f) /\ insert(f)

Next == \E f \in Flow : Insert(f)

Spec == Init /\ [][Next]_vars

------------------------------------------------------------------------------
(* Properties of this routine *)

\* Without aging, a flow counted twice or more in a d-left bucket stays there,
\* its count growing, and the count of a last-level bucket never shrinks: the
\* structure exists to keep such flows.
ElephantsKept ==
  [][\A b \in Bucket :
       /\ b < level_start[2] /\ cache[b].count >= 2 => cache'[b].key = cache[b].key
       /\ b < level_start[2] \/ b >= level_start[3] => cache'[b].count >= cache[b].count
     ]_vars
===============================================================================
