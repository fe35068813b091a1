------------------------------- MODULE AHeapKV --------------------------------
(***************************************************************************)
(* The insertions of the key-value tasks (AHeap_KVTasks.h), which look at  *)
(* the stamps: insert with two thresholds (persistentTest),                *)
(* insert_for_recent (rfTest) and insert_aging_by_time (flowletTest).  A   *)
(* program runs one task, and so one of the three, on an array.            *)
(***************************************************************************)
EXTENDS AHeapItems

CONSTANTS
  time_thre,    \* PACKET_PER_W in persistentTest; insert_for_recent gets 1
  counter_thre  \* 1 in persistentTest; insert_for_recent passes 0

ASSUME ThresholdAssumption == time_thre \in Nat /\ counter_thre \in Nat

VARIABLE task

Tasks == {"persistent", "recent", "flowlet"}

------------------------------------------------------------------------------
(* The levels *)

\* Bug for a mutation run: the stamps must differ by more than the threshold.
Kickable_Strict(it, resident, tthre, cthre) ==
  resident.count <= cthre \/ Elapsed(it.time, resident.time) > tthre

\* The d_left_level with thresholds (an overload): a small or old resident is
\* exchanged, and in every case of two different flows the item in hand goes on.
Kickable(it, resident, tthre, cthre) ==
  resident.count <= cthre \/ Elapsed(it.time, resident.time) >= tthre

\* Bug for a mutation run: a resident that stays ends the insertion.
d_left_level_by_thre_DropsPacket(c, it, at, tthre, cthre) ==
  IF Vacant(c, at)         THEN Placed(c, it, at)
  ELSE IF Holds(c, at, it) THEN Merged(c, it, at, it.count)
  ELSE IF Kickable(it, c[at], tthre, cthre) THEN Exchanged(c, it, at, FALSE)
  ELSE Passed(c, it, TRUE)

d_left_level_by_thre(c, it, at, tthre, cthre) ==
  IF Vacant(c, at)         THEN Placed(c, it, at)
  ELSE IF Holds(c, at, it) THEN Merged(c, it, at, it.count)
  ELSE IF Kickable(it, c[at], tthre, cthre) THEN Exchanged(c, it, at, FALSE)
  ELSE Passed(c, it, FALSE)

\* Bug for a mutation run: the stamps are not compared.
d_left_level_by_time_AlwaysKicks(c, it, at) ==
  IF Vacant(c, at)         THEN Placed(c, it, at)
  ELSE IF Holds(c, at, it) THEN Merged(c, it, at, 1)
  ELSE Exchanged(c, it, at, FALSE)

\* d_left_level_by_time: the resident is exchanged if it is the older one, and
\* a merge counts one packet whatever the carried count.
d_left_level_by_time(c, it, at) ==
  IF Vacant(c, at)         THEN Placed(c, it, at)
  ELSE IF Holds(c, at, it) THEN Merged(c, it, at, 1)
  ELSE IF comp_item_by_time(it, c[at]) THEN Exchanged(c, it, at, FALSE)
  ELSE Passed(c, it, FALSE)

------------------------------------------------------------------------------
(* The three routines; each is the cascade of its levels *)

insert_by_thre(f) ==
  LET r0 == d_left_level_by_thre(cache, Packet(f), PathBucket(f, 0), time_thre, counter_thre)
      r1 == IF r0.done THEN r0
            ELSE d_left_level_by_thre(r0.cache, r0.item, PathBucket(f, 1), time_thre, counter_thre)
      r2 == IF r1.done THEN r1 ELSE must_kick_level(r1.cache, r1.item, PathBucket(f, 2))
      at == PathBucket(f, 3)
      r3 == IF r2.done THEN r2
            ELSE LastLevel(r2.cache, r2.item, at, r2.item.count, comp_item(r2.item, r2.cache[at]))
  IN  cache' = r3.cache

insert_for_recent(f, tthre) ==
  LET r0 == d_left_level_by_thre(cache, Packet(f), PathBucket(f, 0), tthre, 0)
      r1 == IF r0.done THEN r0
            ELSE d_left_level_by_thre(r0.cache, r0.item, PathBucket(f, 1), tthre, 0)
      r2 == IF r1.done THEN r1 ELSE must_kick_level(r1.cache, r1.item, PathBucket(f, 2))
      at == PathBucket(f, 3)
      r3 == IF r2.done THEN r2
            ELSE LastLevel(r2.cache, r2.item, at, r2.item.count,
                           Elapsed(r2.item.time, r2.cache[at].time) >= tthre)
  IN  cache' = r3.cache

insert_aging_by_time(f) ==
  LET r0 == d_left_level_by_time(cache, Packet(f), PathBucket(f, 0))
      r1 == IF r0.done THEN r0 ELSE d_left_level_by_time(r0.cache, r0.item, PathBucket(f, 1))
      r2 == IF r1.done THEN r1 ELSE must_kick_level(r1.cache, r1.item, PathBucket(f, 2))
      at == PathBucket(f, 3)
      r3 == IF r2.done THEN r2
            ELSE LastLevel(r2.cache, r2.item, at, 1, comp_item_by_time(r2.item, r2.cache[at]))
  IN  cache' = r3.cache

------------------------------------------------------------------------------
(* The task loops *)

InsertPersistent(f) == task = "persistent" /\ Arrive(f) /\ insert_by_thre(f) /\ UNCHANGED task
InsertRecent(f)     == task = "recent" /\ Arrive(f) /\ insert_for_recent(f, 1) /\ UNCHANGED task
InsertFlowlet(f)    == task = "flowlet" /\ Arrive(f) /\ insert_aging_by_time(f) /\ UNCHANGED task

kvVars == <<vars, task>>

KVInit == Init /\ task \in Tasks

KVNext == \E f \in Flow : InsertPersistent(f) \/ InsertRecent(f) \/ InsertFlowlet(f)

KVSpec == KVInit /\ [][KVNext]_kvVars

------------------------------------------------------------------------------
(* Properties *)

\* For the recent and the flowlet task, a leaf always holds the flow of the
\* latest packet that hashed to it, with that packet's stamp: a newer packet
\* always gets the leaf.
LeafIsLatest ==
  task \in {"recent", "flowlet"} =>
    \A f \in Flow :
      LET rivals == {g \in Flow : PathIndex(g)[0] = PathIndex(f)[0]}
          leaf   == cache[PathBucket(f, 0)]
      IN  lastSeen[f] >= 0 /\ (\A g \in rivals : lastSeen[g] <= lastSeen[f])
            => leaf.key = f /\ leaf.time = lastSeen[f]

\* In the flowlet task no bucket of a level that compares stamps ever goes back
\* in time, although items are carried down to them in any order.
StampsNeverGoBack ==
  [][task = "flowlet" =>
       \A b \in Bucket :
         b < level_start[2] \/ b >= level_start[3] => cache'[b].time >= cache[b].time]_kvVars

\* A persistent flow whose bucket is young and not small keeps its d-left
\* bucket: the residents kicked from levels 0 and 1 had at most counter_thre
\* packets, or a stamp at least time_thre older than the flow that replaces it.
KicksSmallOrOld ==
  [][task = "persistent" =>
       \A b \in Bucket :
         b < level_start[2] /\ cache[b].count > 0 /\ cache'[b].key # cache[b].key =>
           \/ cache[b].count <= counter_thre
           \/ cache'[b].time >= cache[b].time + time_thre]_kvVars

\* Whichever of the three routines runs, the counts on the paths implement the
\* promise to clients: never too high, and a packet cuts back one flow at most.
KVImplementsCounter == ImplementsCounter
===============================================================================
