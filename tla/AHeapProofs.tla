----------------------------- MODULE AHeapProofs ------------------------------
(***************************************************************************)
(* The five CPU insertions keep their promises for every set of flows,     *)
(* size and hash.  First what they share: lemmas about the outcomes of a   *)
(* level and about cascades of levels; then the plain insertion, the three *)
(* of the key-value tasks, and the one for bursts.                         *)
(***************************************************************************)
EXTENDS AHeap, AHeapKV, AHeapBurst, AHeapArrayProofs

------------------------------------------------------------------------------
(* A packet's insertion *)

\* The packet enters at the leaf of its own path.
LEMMA PacketCarried ==
  ASSUME NEW f \in Flow, now \in Nat
  PROVE  Packet(f) \in Carried /\ Packet(f).count = 1 /\ OnBranch(Packet(f), f, 0)
BY DEF Packet, Carried, OnBranch

\* One packet of f was added and n packets of one flow v were cut.
OneLoser(c, d, f) ==
  \E v \in Flow, n \in Nat :
    \A g \in Flow :
      Recorded(d, g) = Recorded(c, g) + (IF g = f THEN 1 ELSE 0) - (IF g = v THEN n ELSE 0)

\* A cascade that ended and accounted for its packet cut back one flow at most:
\* the flow of the item it did not store.
LEMMA AccountsGiveOneLoser ==
  ASSUME NEW c, Typed(c), NEW r, NEW f \in Flow, NEW l \in Level,
         Accounted(c, Packet(f), r, f, l)
  PROVE  Sound(r.cache) /\ OneLoser(c, r.cache, f)
<1> DEFINE v == r.item.key
           n == r.item.count
<1>1. v \in Flow /\ n \in Nat
  BY DEF Accounted, Carried
<1>2. Typed(r.cache) /\ Sound(r.cache)
  BY DEF Accounted, Sound
<1>3. ASSUME NEW g \in Flow
      PROVE  Recorded(r.cache, g) =
               Recorded(c, g) + (IF g = f THEN 1 ELSE 0) - (IF g = v THEN n ELSE 0)
  <2>1. Held(r.cache, r.item, g) = Held(c, Packet(f), g)
    BY DEF Accounted
  <2>2. /\ PartOf(r.item, g) = IF g = v THEN n ELSE 0
        /\ PartOf(Packet(f), g) = IF g = f THEN 1 ELSE 0
    BY DEF PartOf, Packet
  <2>3. Recorded(r.cache, g) \in Nat /\ Recorded(c, g) \in Nat
    BY <1>2, RecordedType
  <2> HIDE DEF v, n
  <2>4. QED
    BY <1>1, <2>1, <2>2, <2>3 DEF Held
<1> HIDE DEF v, n
<1>4. QED
  BY <1>1, <1>2, <1>3 DEF OneLoser

------------------------------------------------------------------------------
(***************************************************************************)
(* The inductive invariant of every routine: OnPath is needed, for a kick  *)
(* moves a count to a bucket where it is read only if the resident was on  *)
(* its own path; and the packets so far bound every flow's truth.          *)
(***************************************************************************)
ItemsInv ==
  /\ TypeOK
  /\ OnPath
  /\ NeverOverestimates
  /\ \A f \in Flow : truth[f] <= now

\* The empty array has the inductive invariant.
LEMMA InitItemsInv == Init => ItemsInv
<1> SUFFICES ASSUME Init PROVE ItemsInv
  OBVIOUS
<1>1. Typed(cache) /\ \A b \in Bucket : cache[b] = Empty
  BY DEF Init, Typed, Item, Empty
<1>2. TypeOK
  BY <1>1, WordAssumption DEF Init, TypeOK
<1>3. OnPath
  BY <1>1, FlowAssumption DEF OnPath, WellPlaced, Empty
<1>4. ASSUME NEW f \in Flow PROVE Recorded(cache, f) = 0
  <2>1. \A l \in Level : Share(cache, f, l) = 0
    BY <1>1, PathInArray DEF Share, Empty
  <2>2. QED
    BY <2>1 DEF Recorded, Level
<1>5. NeverOverestimates
  BY <1>4, WordAssumption DEF Init, NeverOverestimates
<1>6. QED
  BY <1>2, <1>3, <1>5 DEF ItemsInv, Init

(***************************************************************************)
(* Four levels that each keep the accounts make a whole insertion: r1, r2  *)
(* and r3 start from what the level before left, or repeat it when it was  *)
(* done.                                                                   *)
(***************************************************************************)
LEMMA CascadeOneLoser ==
  ASSUME ItemsInv, NEW f \in Flow, NEW r0, NEW r1, NEW r2, NEW r3,
         Accounted(cache, Packet(f), r0, f, 0),
         r0.done => r1 = r0,
         ~r0.done => Accounted(r0.cache, r0.item, r1, f, 1),
         r1.done => r2 = r1,
         ~r1.done => Accounted(r1.cache, r1.item, r2, f, 2),
         r2.done => r3 = r2,
         ~r2.done => Accounted(r2.cache, r2.item, r3, f, 3)
  PROVE  Sound(r3.cache) /\ OneLoser(cache, r3.cache, f)
<1>1. Accounted(cache, Packet(f), r1, f, 0 + 1)
  BY AccountsCompose
<1>2. Accounted(cache, Packet(f), r2, f, 1 + 1)
  BY <1>1, AccountsCompose
<1>3. Accounted(cache, Packet(f), r3, f, 2 + 1)
  BY <1>2, AccountsCompose
<1>4. Typed(cache)
  BY DEF ItemsInv, TypeOK
<1>5. QED
  BY <1>3, <1>4, AccountsGiveOneLoser DEF Level

\* A level writes into its own bucket only.
Writes(c, r, f, l) == \A b \in Bucket : b # PathBucket(f, l) => r.cache[b] = c[b]

\* Four levels that each write, or repeat what the level before left.
Written(f, r0, r1, r2, r3) ==
  /\ Writes(cache, r0, f, 0)
  /\ IF r0.done THEN r1 = r0 ELSE Writes(r0.cache, r1, f, 1)
  /\ IF r1.done THEN r2 = r1 ELSE Writes(r1.cache, r2, f, 2)
  /\ IF r2.done THEN r3 = r2 ELSE Writes(r2.cache, r3, f, 3)

\* Bucket b is left alone, or belongs to one of the levels: that level found in
\* it what was there before the packet, and left what is there after it.
Once(b, f, r0, r1, r2, r3) ==
  \/ r3.cache[b] = cache[b]
  \/ b = PathBucket(f, 0) /\ r3.cache[b] = r0.cache[b]
  \/ ~r0.done /\ b = PathBucket(f, 1) /\ r0.cache[b] = cache[b] /\ r3.cache[b] = r1.cache[b]
  \/ ~r1.done /\ b = PathBucket(f, 2) /\ r1.cache[b] = cache[b] /\ r3.cache[b] = r2.cache[b]
  \/ ~r2.done /\ b = PathBucket(f, 3) /\ r2.cache[b] = cache[b]

\* An insertion writes a bucket once at most.
LEMMA CascadeWritesOnce ==
  ASSUME NEW f \in Flow, NEW r0, NEW r1, NEW r2, NEW r3, Written(f, r0, r1, r2, r3),
         NEW b \in Bucket
  PROVE  Once(b, f, r0, r1, r2, r3)
<1>1. \A j, l \in Level : PathBucket(f, j) = PathBucket(f, l) => j = l
  BY LevelsDisjoint
<1>2. 0 \in Level /\ 1 \in Level /\ 2 \in Level /\ 3 \in Level
  BY DEF Level
<1>3. b # PathBucket(f, 0) => r0.cache[b] = cache[b]
  BY DEF Written, Writes
<1>4. b # PathBucket(f, 1) => r1.cache[b] = r0.cache[b]
  BY DEF Written, Writes
<1>5. b # PathBucket(f, 2) => r2.cache[b] = r1.cache[b]
  BY DEF Written, Writes
<1>6. b # PathBucket(f, 3) => r3.cache[b] = r2.cache[b]
  BY DEF Written, Writes
<1>7. CASE b = PathBucket(f, 0)
  BY <1>1, <1>2, <1>4, <1>5, <1>6, <1>7 DEF Once, Written
<1>8. CASE b = PathBucket(f, 1)
  BY <1>1, <1>2, <1>3, <1>5, <1>6, <1>8 DEF Once, Written
<1>9. CASE b = PathBucket(f, 2)
  BY <1>1, <1>2, <1>3, <1>4, <1>6, <1>9 DEF Once, Written
<1>10. CASE b = PathBucket(f, 3)
  BY <1>1, <1>2, <1>3, <1>4, <1>5, <1>10 DEF Once, Written
<1>11. QED
  BY <1>3, <1>4, <1>5, <1>6, <1>7, <1>8, <1>9, <1>10 DEF Once, Written

\* What a level left in its bucket stays there for the rest of the insertion.
LEMMA LaterLevelsElsewhere ==
  ASSUME NEW f \in Flow, NEW r0, NEW r1, NEW r2, NEW r3, Written(f, r0, r1, r2, r3)
  PROVE  /\ r3.cache[PathBucket(f, 0)] = r0.cache[PathBucket(f, 0)]
         /\ r3.cache[PathBucket(f, 1)] = r1.cache[PathBucket(f, 1)]
         /\ r3.cache[PathBucket(f, 2)] = r2.cache[PathBucket(f, 2)]
<1>1. /\ 0 \in Level /\ 1 \in Level /\ 2 \in Level /\ 3 \in Level
      /\ \A j, l \in Level : PathBucket(f, j) = PathBucket(f, l) => j = l
      /\ \A l \in Level : PathBucket(f, l) \in Bucket
  BY LevelsDisjoint, PathInArray DEF Level
<1>2. \A b \in Bucket : b # PathBucket(f, 1) => r1.cache[b] = r0.cache[b]
  BY DEF Written, Writes
<1>3. \A b \in Bucket : b # PathBucket(f, 2) => r2.cache[b] = r1.cache[b]
  BY DEF Written, Writes
<1>4. \A b \in Bucket : b # PathBucket(f, 3) => r3.cache[b] = r2.cache[b]
  BY DEF Written, Writes
<1>5. QED
  BY <1>1, <1>2, <1>3, <1>4

\* What a level needs, from the level before; used by all three routines.
LEMMA Handed ==
  ASSUME NEW c, NEW it, NEW r, NEW f \in Flow, NEW l \in 0..2,
         Accounted(c, it, r, f, l), ~r.done
  PROVE  /\ Sound(r.cache) /\ r.item \in Carried /\ r.item.count > 0
         /\ OnBranch(r.item, f, l + 1)
         /\ r.item.count \in Nat /\ r.item.count <= r.item.count /\ 1 <= r.item.count
BY CarriedDown DEF Carried

\* The packet and the array an insertion starts with.
LEMMA Start ==
  ASSUME ItemsInv, NEW f \in Flow
  PROVE  /\ Sound(cache) /\ Packet(f) \in Carried /\ Packet(f).count > 0
         /\ OnBranch(Packet(f), f, 0)
<1>1. Sound(cache) /\ now \in Nat
  BY WordAssumption DEF ItemsInv, TypeOK, OnPath, Sound
<1>2. QED
  BY <1>1, PacketCarried

\* A routine that keeps the array sound and cuts one flow at most keeps it.
LEMMA StepItemsInv ==
  ASSUME ItemsInv, NEW f \in Flow, Arrive(f),
         Sound(cache'), OneLoser(cache, cache', f)
  PROVE  ItemsInv'
<1>1. TypeOK'
  <2>1. truth' \in [Flow -> Nat] /\ lastSeen' \in [Flow -> Int] /\ now' \in 0..MaxPackets
    BY WordAssumption DEF ItemsInv, TypeOK, Arrive
  <2>2. Typed(cache')
    BY DEF Sound
  <2>3. Typed(cache)'
    BY <2>2 DEF Typed
  <2>4. QED
    BY <2>1, <2>3 DEF TypeOK
<1>2. OnPath'
  BY DEF Sound, OnPath, WellPlaced
<1>3. \A g \in Flow : truth'[g] = truth[g] + (IF g = f THEN 1 ELSE 0)
  BY DEF ItemsInv, TypeOK, Arrive
<1>4. now \in Nat /\ now' = now + 1 /\ now' \in 0..MaxPackets
  BY WordAssumption DEF Arrive, ItemsInv, TypeOK
<1>5. \A g \in Flow : truth[g] \in Nat /\ truth[g] <= now
  BY DEF ItemsInv, TypeOK
<1>6. \A g \in Flow : truth'[g] <= now'
  BY <1>3, <1>4, <1>5
<1>7. NeverOverestimates'
  <2>1. PICK v \in Flow, n \in Nat :
          \A g \in Flow : Recorded(cache', g) = Recorded(cache, g)
                            + (IF g = f THEN 1 ELSE 0) - (IF g = v THEN n ELSE 0)
    BY DEF OneLoser
  <2>2. \A g \in Flow : Recorded(cache, g) \in Nat /\ Recorded(cache, g) <= truth[g]
    BY RecordedType DEF ItemsInv, TypeOK, NeverOverestimates
  <2>3. \A g \in Flow : Recorded(cache', g) <= truth'[g]
    BY <1>3, <1>5, <2>1, <2>2
  <2>4. \A g \in Flow : truth'[g] < Word
    BY <1>3, <1>4, <1>5, <1>6, WordAssumption
  <2>5. QED
    BY <2>3, <2>4 DEF NeverOverestimates
<1>8. QED
  BY <1>1, <1>2, <1>6, <1>7 DEF ItemsInv

\* So does an array nobody touches.
LEMMA StutterItemsInv == ItemsInv /\ UNCHANGED vars => ItemsInv'
<1> SUFFICES ASSUME ItemsInv, UNCHANGED vars PROVE ItemsInv'
  OBVIOUS
<1>1. QED
  BY DEF ItemsInv, TypeOK, Typed, OnPath, WellPlaced, NeverOverestimates, Recorded, Share, vars

\* Such a step is a step of the abstract counter.
LEMMA StepImplementsCounter ==
  ASSUME ItemsInv, NEW f \in Flow, Arrive(f),
         Sound(cache'), OneLoser(cache, cache', f)
  PROVE  Counter!Observe(f)
<1> DEFINE est == [g \in Flow |-> Recorded(cache, g)]
           counted == [est EXCEPT ![f] = @ + 1]
<1>1. truth' = [truth EXCEPT ![f] = @ + 1]
  BY DEF Arrive
<1>2. PICK v \in Flow, n \in Nat :
        \A g \in Flow : Recorded(cache', g) = Recorded(cache, g)
                          + (IF g = f THEN 1 ELSE 0) - (IF g = v THEN n ELSE 0)
  BY DEF OneLoser
<1>3. \A g \in Flow : Recorded(cache, g) \in Nat /\ Recorded(cache', g) \in Nat
  BY RecordedType DEF ItemsInv, TypeOK, Sound
<1>4. \A g \in Flow : counted[g] = Recorded(cache, g) + (IF g = f THEN 1 ELSE 0)
  BY <1>3
<1>5. Recorded(cache', v) \in 0..counted[v]
  BY <1>2, <1>3, <1>4
<1>6. [g \in Flow |-> Recorded(cache', g)] = [counted EXCEPT ![v] = Recorded(cache', v)]
  <2>1. counted \in [Flow -> Nat]
    BY <1>3
  <2>2. ASSUME NEW g \in Flow
        PROVE  Recorded(cache', g) = [counted EXCEPT ![v] = Recorded(cache', v)][g]
    <3> HIDE DEF est, counted
    <3>1. CASE g = v
      BY <2>1, <3>1
    <3>2. CASE g # v
      BY <1>2, <1>3, <1>4, <2>1, <3>2
    <3>3. QED
      BY <3>1, <3>2
  <2>3. QED
    BY <2>1, <2>2
<1>7. QED
  BY <1>1, <1>5, <1>6 DEF Counter!Observe, Counter!Counted

\* The empty array is the abstract counter's initial state.
LEMMA InitImplementsCounter == Init => Counter!Init
<1> SUFFICES ASSUME Init PROVE Counter!Init
  OBVIOUS
<1>1. ASSUME NEW f \in Flow PROVE Recorded(cache, f) = 0
  <2>1. \A l \in Level : Share(cache, f, l) = 0
    BY PathInArray DEF Init, Share, Empty
  <2>2. QED
    BY <2>1 DEF Recorded, Level
<1>2. QED
  BY <1>1 DEF Init, Counter!Init

------------------------------------------------------------------------------
(* What every implementation of FlowCounter inherits *)

\* What FlowCounter is told of the array.
Estimates == [f \in Flow |-> Recorded(cache, f)]

\* The inductive invariant of the abstract counter: no estimate exceeds the truth,
\* both being numbers.
CounterInv ==
  /\ truth \in [Flow -> Nat]
  /\ Estimates \in [Flow -> Nat]
  /\ Counter!NeverOverestimates

\* An observed packet raises the truth of its flow before anything is read, so
\* neither its own flow nor the one cut back can overtake it.
LEMMA ObserveKeepsInv ==
  ASSUME CounterInv, NEW f \in Flow, Counter!Observe(f)
  PROVE  CounterInv'
<1> DEFINE counted == [Estimates EXCEPT ![f] = @ + 1]
<1>0. PICK victim \in Flow :
        \E n \in 0..counted[victim] : Estimates' = [counted EXCEPT ![victim] = n]
  BY DEF Counter!Observe, Counter!Counted, Estimates
<1>1. PICK n \in 0..counted[victim] : Estimates' = [counted EXCEPT ![victim] = n]
  BY <1>0
<1>2. truth' = [truth EXCEPT ![f] = @ + 1]
  BY DEF Counter!Observe
<1>3. \A g \in Flow : Estimates[g] \in Nat /\ Estimates[g] <= truth[g] /\ truth[g] \in Nat
  BY DEF CounterInv, Counter!NeverOverestimates, Estimates
<1>4. \A g \in Flow : counted[g] \in Nat /\ counted[g] <= truth'[g] /\ truth'[g] \in Nat
  BY <1>2, <1>3 DEF CounterInv
<1>5. n \in Nat /\ n <= counted[victim]
  BY <1>1, <1>4
<1>6. counted = [g \in Flow |-> counted[g]]
  BY DEF Estimates
<1> HIDE DEF counted
<1>7. \A g \in Flow : Estimates'[g] = IF g = victim THEN n ELSE counted[g]
  BY <1>1, <1>6
<1>8. \A g \in Flow : Estimates'[g] \in Nat /\ Estimates'[g] <= truth'[g]
  BY <1>4, <1>5, <1>7
<1>9. Estimates' = [g \in Flow |-> Estimates'[g]]
  BY DEF Estimates
<1>10. truth' \in [Flow -> Nat]
  BY <1>2 DEF CounterInv
<1>11. Counter!NeverOverestimates'
  BY <1>8 DEF Counter!NeverOverestimates, Estimates
<1>12. Estimates' \in [Flow -> Nat]
  <2> HIDE DEF Estimates
  <2>1. QED
    BY <1>8, <1>9
<1>13. QED
  BY <1>10, <1>11, <1>12 DEF CounterInv

\* Whatever implements FlowCounter never reports a flow larger than it is: the
\* one-sided error every counting task relies on.
THEOREM CounterNeverOverestimates == ImplementsCounter => []Counter!NeverOverestimates
<1>1. Counter!Init => CounterInv
  <2> SUFFICES ASSUME Counter!Init PROVE CounterInv
    OBVIOUS
  <2>1. truth = [f \in Flow |-> 0] /\ Estimates = [f \in Flow |-> 0]
    BY DEF Counter!Init, Estimates
  <2>2. \A f \in Flow : Estimates[f] <= truth[f]
    BY <2>1
  <2>3. QED
    BY <2>1, <2>2 DEF CounterInv, Counter!NeverOverestimates, Estimates
<1>2. CounterInv /\ [Counter!Next]_<<truth, [f \in Flow |-> Recorded(cache, f)]>> => CounterInv'
  <2> SUFFICES ASSUME CounterInv, [Counter!Next]_<<truth, [f \in Flow |-> Recorded(cache, f)]>>
               PROVE  CounterInv'
    OBVIOUS
  <2>1. CASE Counter!Next
    BY <2>1, ObserveKeepsInv DEF Counter!Next
  <2>2. CASE UNCHANGED <<truth, [f \in Flow |-> Recorded(cache, f)]>>
    BY <2>2 DEF CounterInv, Counter!NeverOverestimates, Estimates
  <2>3. QED
    BY <2>1, <2>2
<1>3. CounterInv => Counter!NeverOverestimates
  BY DEF CounterInv
<1>4. QED
  BY <1>1, <1>2, <1>3, PTL DEF ImplementsCounter, Counter!Spec
------------------------------------------------------------------------------
(***************************************************************************)
(* Stamps.  ls holds the stamp of each flow's latest packet.  Dated: no    *)
(* item is later than that.  Shows: the flow's latest packet has left its  *)
(* stamp in the array or is in hand.                                       *)
(***************************************************************************)
Dated(c, it, ls) ==
  /\ it.time <= ls[it.key]
  /\ \A b \in Bucket : c[b].key \in Flow => c[b].time <= ls[c[b].key]

Shows(c, it, ls, g) ==
  \/ \E b \in Bucket : c[b].key = g /\ c[b].time = ls[g]
  \/ it.count > 0 /\ it.key = g /\ it.time = ls[g]

\* What every level does with stamps: none gets too late, no latest one is lost
\* without its packet.
KeepsStamps(c, it, r, ls) ==
  Dated(c, it, ls) =>
    /\ Dated(r.cache, r.item, ls)
    /\ \A g \in Flow : Shows(c, it, ls, g) => Shows(r.cache, r.item, ls, g)

\* A vacant bucket gets the item with its stamp.
LEMMA PlacedKeepsStamps ==
  ASSUME NEW c, Typed(c), NEW at \in Bucket, NEW it \in Carried,
         Vacant(c, at), NEW ls \in [Flow -> Int]
  PROVE  KeepsStamps(c, it, Placed(c, it, at), ls)
<1> DEFINE r == Placed(c, it, at)
<1>1. /\ r.cache = [c EXCEPT ![at] = it] /\ r.item = [it EXCEPT !.count = 0]
      /\ c \in [Bucket -> Item] /\ c[at].key \notin Flow
      /\ it.key \in Flow /\ it.time \in Nat /\ it.count \in Nat
  BY FlowAssumption DEF Placed, Outcome, Typed, Vacant, Carried
<1>2. /\ r.cache[at] = it /\ \A b \in Bucket \ {at} : r.cache[b] = c[b]
      /\ r.item.key = it.key /\ r.item.time = it.time
  BY <1>1 DEF Carried
<1> HIDE DEF r
<1>3. ASSUME NEW g \in Flow, Shows(c, it, ls, g) PROVE Shows(r.cache, r.item, ls, g)
  <2>1. CASE \E b \in Bucket : c[b].key = g /\ c[b].time = ls[g]
    BY <1>1, <1>2, <2>1 DEF Shows
  <2>2. CASE it.key = g /\ it.time = ls[g]
    BY <1>2, <2>2 DEF Shows
  <2>3. QED
    BY <1>3, <2>1, <2>2 DEF Shows
<1>4. Dated(c, it, ls) => Dated(r.cache, r.item, ls)
  BY <1>2 DEF Dated
<1>5. QED
  BY <1>3, <1>4 DEF KeepsStamps, r

\* The flow's resident takes the later of the two stamps.
LEMMA MergedKeepsStamps ==
  ASSUME NEW c, Typed(c), NEW at \in Bucket, NEW it \in Carried,
         Holds(c, at, it), NEW n \in Nat, NEW ls \in [Flow -> Int]
  PROVE  KeepsStamps(c, it, Merged(c, it, at, n), ls)
<1> DEFINE r == Merged(c, it, at, n)
           x == incrementItem(it, c[at], n)
<1>1. /\ r.cache = [c EXCEPT ![at] = x] /\ r.item = [it EXCEPT !.count = it.count - n]
      /\ c \in [Bucket -> Item] /\ c[at].key = it.key /\ c[at].time \in Nat
      /\ it.key \in Flow /\ it.time \in Nat
  BY DEF Merged, Outcome, Typed, Holds, Carried, Item
<1>2. /\ x.key = it.key /\ x.time = Newer(it.time, c[at].time)
  BY <1>1 DEF incrementItem
<1> HIDE DEF x
<1>3. /\ r.cache[at] = x /\ \A b \in Bucket \ {at} : r.cache[b] = c[b]
      /\ r.item.key = it.key /\ r.item.time = it.time
  BY <1>1 DEF Carried
<1> HIDE DEF r
<1>4. ls[it.key] \in Int
  BY <1>1
<1>5. ASSUME Dated(c, it, ls)
      PROVE  Dated(r.cache, r.item, ls)
             /\ \A g \in Flow : Shows(c, it, ls, g) => Shows(r.cache, r.item, ls, g)
  <2>1. it.time <= ls[it.key] /\ c[at].time <= ls[it.key]
    BY <1>1, <1>5 DEF Dated
  <2>2. /\ x.time <= ls[it.key]
        /\ it.time = ls[it.key] \/ c[at].time = ls[it.key] => x.time = ls[it.key]
    BY <1>1, <1>2, <1>4, <2>1 DEF Newer
  <2>3. Dated(r.cache, r.item, ls)
    BY <1>2, <1>3, <1>5, <2>1, <2>2 DEF Dated
  <2>4. ASSUME NEW g \in Flow, Shows(c, it, ls, g) PROVE Shows(r.cache, r.item, ls, g)
    <3>1. CASE it.key = g /\ it.time = ls[g]
      BY <1>2, <1>3, <2>2, <3>1 DEF Shows
    <3>2. CASE \E b \in Bucket : c[b].key = g /\ c[b].time = ls[g]
      <4>1. PICK b \in Bucket : c[b].key = g /\ c[b].time = ls[g]
        BY <3>2
      <4>2. CASE b = at
        BY <1>1, <1>2, <1>3, <2>2, <4>1, <4>2 DEF Shows
      <4>3. CASE b # at
        BY <1>3, <4>1, <4>3 DEF Shows
      <4>4. QED
        BY <4>2, <4>3
    <3>3. QED
      BY <2>4, <3>1, <3>2 DEF Shows
  <2>5. QED
    BY <2>3, <2>4
<1>6. QED
  BY <1>5 DEF KeepsStamps, r

\* The two items change places with their stamps.
LEMMA ExchangedKeepsStamps ==
  ASSUME NEW c, Typed(c), NEW at \in Bucket, NEW it \in Carried,
         ~Vacant(c, at), NEW ls \in [Flow -> Int], NEW d \in BOOLEAN
  PROVE  KeepsStamps(c, it, Exchanged(c, it, at, d), ls)
<1> DEFINE r == Exchanged(c, it, at, d)
<1>1. /\ r.cache = [c EXCEPT ![at] = it] /\ r.item = c[at]
      /\ c \in [Bucket -> Item] /\ c[at].key \in Flow /\ c[at].count > 0
  BY DEF Exchanged, Outcome, Typed, Vacant, Item
<1>2. r.cache[at] = it /\ \A b \in Bucket \ {at} : r.cache[b] = c[b]
  BY <1>1
<1> HIDE DEF r
<1>3. ASSUME NEW g \in Flow, Shows(c, it, ls, g) PROVE Shows(r.cache, r.item, ls, g)
  <2>1. CASE it.key = g /\ it.time = ls[g]
    BY <1>2, <2>1 DEF Shows
  <2>2. CASE \E b \in Bucket : c[b].key = g /\ c[b].time = ls[g]
    <3>1. PICK b \in Bucket : c[b].key = g /\ c[b].time = ls[g]
      BY <2>2
    <3>2. CASE b = at
      BY <1>1, <3>1, <3>2 DEF Shows
    <3>3. CASE b # at
      BY <1>2, <3>1, <3>3 DEF Shows
    <3>4. QED
      BY <3>2, <3>3
  <2>3. QED
    BY <1>3, <2>1, <2>2 DEF Shows
<1>4. Dated(c, it, ls) => Dated(r.cache, r.item, ls)
  BY <1>1, <1>2 DEF Dated, Carried
<1>5. QED
  BY <1>3, <1>4 DEF KeepsStamps, r

\* Nothing changes.
LEMMA PassedKeepsStamps ==
  ASSUME NEW c, NEW it, NEW ls, NEW d
  PROVE  KeepsStamps(c, it, Passed(c, it, d), ls)
BY DEF KeepsStamps, Passed, Outcome

\* The two levels all routines share.
LEMMA UpperLevelsKeepStamps ==
  ASSUME NEW c, Typed(c), NEW at \in Bucket, NEW it \in Carried,
         NEW ls \in [Flow -> Int], NEW n \in Nat, NEW wins \in BOOLEAN
  PROVE  /\ KeepsStamps(c, it, must_kick_level(c, it, at), ls)
         /\ KeepsStamps(c, it, LastLevel(c, it, at, n, wins), ls)
<1>1. CASE Vacant(c, at)
  BY <1>1, PlacedKeepsStamps DEF must_kick_level, LastLevel
<1>2. CASE Holds(c, at, it)
  BY <1>2, MergedKeepsStamps DEF must_kick_level, LastLevel, Holds
<1>3. CASE ~Vacant(c, at) /\ ~Holds(c, at, it)
  <2>1. KeepsStamps(c, it, must_kick_level(c, it, at), ls)
    BY <1>3, ExchangedKeepsStamps DEF must_kick_level
  <2>2. CASE wins
    BY <1>3, <2>1, <2>2, ExchangedKeepsStamps DEF LastLevel
  <2>3. CASE ~wins
    BY <1>3, <2>1, <2>3, PassedKeepsStamps DEF LastLevel
  <2>4. QED
    BY <2>2, <2>3
<1>4. QED
  BY <1>1, <1>2, <1>3

\* Four levels that each keep the stamps, or repeat what the level before left.
StampedLevels(f, ls, r0, r1, r2, r3) ==
  /\ KeepsStamps(cache, Packet(f), r0, ls)
  /\ IF r0.done THEN r1 = r0 ELSE KeepsStamps(r0.cache, r0.item, r1, ls)
  /\ IF r1.done THEN r2 = r1 ELSE KeepsStamps(r1.cache, r1.item, r2, ls)
  /\ IF r2.done THEN r3 = r2 ELSE KeepsStamps(r2.cache, r2.item, r3, ls)

\* Together they keep them.
LEMMA CascadeKeepsStamps ==
  ASSUME NEW f \in Flow, NEW ls, NEW r0, NEW r1, NEW r2, NEW r3,
         StampedLevels(f, ls, r0, r1, r2, r3)
  PROVE  KeepsStamps(cache, Packet(f), r3, ls)
<1>1. KeepsStamps(cache, Packet(f), r0, ls)
  BY DEF StampedLevels
<1>2. KeepsStamps(cache, Packet(f), r1, ls)
  BY <1>1 DEF StampedLevels, KeepsStamps
<1>3. KeepsStamps(cache, Packet(f), r2, ls)
  BY <1>2 DEF StampedLevels, KeepsStamps
<1>4. QED
  BY <1>3 DEF StampedLevels, KeepsStamps

(***************************************************************************)
(* The invariant of stamps: packets are stamped in order, no resident is   *)
(* later than its flow, and a flow that lost nothing shows its latest      *)
(* packet.                                                                 *)
(***************************************************************************)
StampsInv ==
  /\ \A f \in Flow : lastSeen[f] < now
  /\ \A b \in Bucket : cache[b].key \in Flow => cache[b].time <= lastSeen[cache[b].key]
  /\ \A f \in Flow : truth[f] > 0 /\ Recorded(cache, f) = truth[f]
       => \E b \in Bucket : cache[b].key = f /\ cache[b].time = lastSeen[f]

\* It is what StampsTruthful says, and more.
LEMMA StampsInvTruthful == StampsInv => StampsTruthful
BY DEF StampsInv, StampsTruthful

\* The empty array has it.
LEMMA InitStampsInv == Init => StampsInv
BY FlowAssumption DEF Init, StampsInv, Empty

\* So does an array nobody touches.
LEMMA StutterStampsInv == StampsInv /\ UNCHANGED vars => StampsInv'
<1> SUFFICES ASSUME StampsInv, UNCHANGED vars PROVE StampsInv'
  OBVIOUS
<1>1. QED
  BY DEF StampsInv, Recorded, Share, vars

\* An insertion that keeps the accounts and the stamps keeps it: what is not in
\* the array at the end was lost, and only then may a latest stamp be.
LEMMA StepStampsInv ==
  ASSUME ItemsInv, StampsInv, NEW f \in Flow, Arrive(f), NEW r, cache' = r.cache,
         Accounted(cache, Packet(f), r, f, 3), KeepsStamps(cache, Packet(f), r, lastSeen')
  PROVE  StampsInv'
<1>1. /\ now \in Nat /\ now' = now + 1
      /\ lastSeen \in [Flow -> Int] /\ lastSeen' = [lastSeen EXCEPT ![f] = now]
      /\ truth \in [Flow -> Nat] /\ truth' = [truth EXCEPT ![f] = @ + 1]
      /\ \A g \in Flow : lastSeen[g] < now
  BY WordAssumption DEF ItemsInv, TypeOK, Arrive, StampsInv
<1>2. \A g \in Flow : lastSeen'[g] < now'
  BY <1>1
<1>3. Packet(f).key = f /\ Packet(f).time = now /\ Packet(f).count = 1
  BY DEF Packet
<1>4. \A b \in Bucket : cache[b].key \in Flow => cache[b].time \in Nat
  BY DEF ItemsInv, TypeOK, Typed, Item
<1>5. Dated(cache, Packet(f), lastSeen')
  <2>1. ASSUME NEW b \in Bucket, cache[b].key \in Flow
        PROVE  cache[b].time <= lastSeen'[cache[b].key]
    <3>1. cache[b].time <= lastSeen[cache[b].key]
      BY <2>1 DEF StampsInv
    <3>2. lastSeen[cache[b].key] <= lastSeen'[cache[b].key]
      BY <1>1, <2>1
    <3>3. QED
      BY <1>1, <1>4, <2>1, <3>1, <3>2
  <2>2. QED
    BY <1>1, <1>3, <2>1 DEF Dated
<1>6. /\ Dated(r.cache, r.item, lastSeen')
      /\ \A g \in Flow : Shows(cache, Packet(f), lastSeen', g)
                           => Shows(r.cache, r.item, lastSeen', g)
  BY <1>5 DEF KeepsStamps
<1>7. \A b \in Bucket : cache'[b].key \in Flow => cache'[b].time <= lastSeen'[cache'[b].key]
  BY <1>6 DEF Dated
<1>8. ASSUME NEW g \in Flow, truth'[g] > 0, Recorded(cache', g) = truth'[g]
      PROVE  \E b \in Bucket : cache'[b].key = g /\ cache'[b].time = lastSeen'[g]
  <2>1. Held(r.cache, r.item, g) = Held(cache, Packet(f), g)
    BY DEF Accounted
  <2>2. Typed(cache) /\ Typed(r.cache) /\ r.item.count \in Nat
    BY DEF ItemsInv, TypeOK, Accounted, Sound, Carried
  <2>3. /\ Recorded(cache, g) \in Nat /\ Recorded(r.cache, g) \in Nat
        /\ PartOf(r.item, g) \in Nat /\ Recorded(cache, g) <= truth[g]
    BY <2>2, RecordedType DEF PartOf, ItemsInv, NeverOverestimates
  <2>4. PartOf(Packet(f), g) = (IF g = f THEN 1 ELSE 0) /\ truth'[g] = truth[g] + (IF g = f THEN 1 ELSE 0)
    BY <1>1, <1>3 DEF PartOf
  <2>5. Recorded(r.cache, g) + PartOf(r.item, g) = Recorded(cache, g) + (IF g = f THEN 1 ELSE 0)
    BY <2>1, <2>4 DEF Held
  <2>6. truth[g] \in Nat /\ Recorded(r.cache, g) = truth[g] + (IF g = f THEN 1 ELSE 0)
    BY <1>1, <1>8, <2>4
  <2>7. PartOf(r.item, g) = 0 /\ Recorded(cache, g) = truth[g]
    BY <2>3, <2>5, <2>6
  <2>8. Shows(cache, Packet(f), lastSeen', g)
    <3>1. CASE g = f
      BY <1>1, <1>3, <3>1 DEF Shows
    <3>2. CASE g # f
      <4>1. truth[g] > 0
        BY <1>8, <2>4, <2>6, <3>2
      <4>2. PICK b \in Bucket : cache[b].key = g /\ cache[b].time = lastSeen[g]
        BY <2>7, <4>1 DEF StampsInv
      <4>3. lastSeen'[g] = lastSeen[g]
        BY <1>1, <3>2
      <4>4. QED
        BY <4>2, <4>3 DEF Shows
    <3>3. QED
      BY <3>1, <3>2
  <2>9. ~(r.item.count > 0 /\ r.item.key = g)
    BY <2>7 DEF PartOf
  <2>10. QED
    BY <1>6, <2>8, <2>9 DEF Shows
<1>9. \A g \in Flow : Recorded(cache, g)' = Recorded(cache', g)
  BY DEF Recorded, Share
<1>10. QED
  BY <1>2, <1>7, <1>8, <1>9 DEF StampsInv
------------------------------------------------------------------------------
(***************************************************************************)
(* The trees fill from the leaves: a level is only reached through a       *)
(* bucket of the level before that is taken, and no level vacates one.     *)
(***************************************************************************)

\* Four levels of one insertion.
Cascade(f, r0, r1, r2, r3) ==
  /\ Possible(cache, Packet(f), PathBucket(f, 0), r0)
  /\ IF r0.done THEN r1 = r0 ELSE Possible(r0.cache, r0.item, PathBucket(f, 1), r1)
  /\ IF r1.done THEN r2 = r1 ELSE Possible(r1.cache, r1.item, PathBucket(f, 2), r2)
  /\ IF r2.done THEN r3 = r2 ELSE Possible(r2.cache, r2.item, PathBucket(f, 3), r3)

\* What a level does to vacancy.
Fills(c, r, f, l) ==
  /\ \A b \in Bucket : ~Vacant(c, b) => ~Vacant(r.cache, b)
  /\ \A b \in Bucket : b # PathBucket(f, l) => r.cache[b] = c[b]
  /\ ~r.done => ~Vacant(r.cache, PathBucket(f, l)) /\ ~Vacant(c, PathBucket(f, l))

\* A level stores items that count something, and goes on from a taken bucket.
LEMMA LevelFills ==
  ASSUME NEW c, Sound(c), NEW f \in Flow, NEW l \in Level,
         NEW it \in Carried, it.count > 0, NEW r, Possible(c, it, PathBucket(f, l), r)
  PROVE  Fills(c, r, f, l)
<1> DEFINE at == PathBucket(f, l)
<1>1. /\ at \in Bucket /\ c \in [Bucket -> Item]
      /\ \A b \in Bucket : c[b].count \in Nat
      /\ it.count \in Nat /\ it.count # 0
  BY PathInArray DEF Sound, Typed, Item, Carried
<1> HIDE DEF at
<1>2. CASE Vacant(c, at) /\ r = Placed(c, it, at)
  <2>1. r.cache = [c EXCEPT ![at] = it] /\ r.done
    BY <1>2 DEF Placed, Outcome
  <2>2. QED
    BY <1>1, <2>1 DEF Fills, Vacant, at
<1>3. ASSUME Holds(c, at, it), NEW n \in Nat, r = Merged(c, it, at, n)
      PROVE  Fills(c, r, f, l)
  <2>1. r.cache = [c EXCEPT ![at] = incrementItem(it, c[at], n)] /\ r.done
    BY <1>1, <1>3 DEF Merged, Outcome
  <2>2. incrementItem(it, c[at], n).count = c[at].count + n
    BY DEF incrementItem
  <2>3. QED
    BY <1>1, <1>3, <2>1, <2>2 DEF Fills, Vacant, Holds, at
<1>4. ASSUME ~Vacant(c, at), NEW d \in BOOLEAN, r = Exchanged(c, it, at, d)
      PROVE  Fills(c, r, f, l)
  <2>1. r.cache = [c EXCEPT ![at] = it]
    BY <1>4 DEF Exchanged, Outcome
  <2>2. QED
    BY <1>1, <1>4, <2>1 DEF Fills, Vacant, at
<1>5. ASSUME ~Vacant(c, at), NEW d \in BOOLEAN, r = Passed(c, it, d)
      PROVE  Fills(c, r, f, l)
  <2>1. r.cache = c
    BY <1>5 DEF Passed, Outcome
  <2>2. QED
    BY <1>5, <2>1 DEF Fills, at
<1>6. QED
  BY <1>2, <1>3, <1>4, <1>5 DEF Possible, at

\* The levels of an insertion fill, as long as they keep the accounts.
LEMMA CascadeFills ==
  ASSUME ItemsInv, NEW f \in Flow, NEW r0, NEW r1, NEW r2, NEW r3,
         Cascade(f, r0, r1, r2, r3),
         Accounted(cache, Packet(f), r0, f, 0),
         Accounted(cache, Packet(f), r1, f, 1),
         Accounted(cache, Packet(f), r2, f, 2)
  PROVE  /\ Fills(cache, r0, f, 0)
         /\ IF r0.done THEN r1 = r0 ELSE Fills(r0.cache, r1, f, 1)
         /\ IF r1.done THEN r2 = r1 ELSE Fills(r1.cache, r2, f, 2)
         /\ IF r2.done THEN r3 = r2 ELSE Fills(r2.cache, r3, f, 3)
<1>1. 0 \in Level /\ 1 \in Level /\ 2 \in Level /\ 3 \in Level
  BY DEF Level
<1>2. Sound(cache) /\ Packet(f) \in Carried /\ Packet(f).count > 0
  BY Start
<1>3. /\ ~r0.done => Sound(r0.cache) /\ r0.item \in Carried /\ r0.item.count > 0
      /\ ~r1.done => Sound(r1.cache) /\ r1.item \in Carried /\ r1.item.count > 0
      /\ ~r2.done => Sound(r2.cache) /\ r2.item \in Carried /\ r2.item.count > 0
  BY DEF Accounted
<1>4. Fills(cache, r0, f, 0)
  BY <1>1, <1>2, LevelFills DEF Cascade
<1>5. ~r0.done => Fills(r0.cache, r1, f, 1)
  BY <1>1, <1>3, LevelFills DEF Cascade
<1>6. ~r1.done => Fills(r1.cache, r2, f, 2)
  BY <1>1, <1>3, LevelFills DEF Cascade
<1>7. ~r2.done => Fills(r2.cache, r3, f, 3)
  BY <1>1, <1>3, LevelFills DEF Cascade
<1>8. QED
  BY <1>4, <1>5, <1>6, <1>7 DEF Cascade

\* The bucket an insertion comes from is a child of the one it goes to.
LEMMA ParentOfPath ==
  ASSUME NEW f \in Flow, NEW l \in 0..2, NEW i \in Nat,
         level_start[l + 1] + i = PathBucket(f, l + 1)
  PROVE  PathBucket(f, l) \in {level_start[l] + 2 * i, level_start[l] + (2 * i + 1)}
<1>1. /\ \A j \in Level : PathIndex(f)[j] \in Nat /\ level_start[j] \in Nat
      /\ l \in Level /\ l + 1 \in Level
  BY IndexBounds, SizeAssumption DEF Level, level_start
<1>2. i = PathIndex(f)[l + 1]
  BY <1>1 DEF PathBucket
<1>3. PathIndex(f)[l + 1] = PathIndex(f)[l] \div 2
  BY DEF PathIndex, Level
<1>4. PathIndex(f)[l] \in {2 * i, 2 * i + 1}
  BY <1>1, <1>2, <1>3
<1>5. QED
  BY <1>1, <1>4 DEF PathBucket

\* A bucket of level j is not one of level l.
LEMMA IndexApart ==
  ASSUME NEW f \in Flow, NEW l \in 0..2, NEW j \in Level, NEW i \in 0..(bucket_num - 1),
         level_start[l + 1] + i <= bucket_num - 1,
         l < 2 => level_start[l + 1] + i < level_start[l + 2],
         level_start[l + 1] + i = PathBucket(f, j)
  PROVE  j = l + 1
<1>1. /\ PathBucket(f, 0) \in 0..(8 * MinBucketNum - 1)
      /\ PathBucket(f, 1) \in (8 * MinBucketNum)..(12 * MinBucketNum - 1)
      /\ PathBucket(f, 2) \in (12 * MinBucketNum)..(14 * MinBucketNum - 1)
      /\ PathBucket(f, 3) \in (14 * MinBucketNum)..(15 * MinBucketNum - 1)
  BY BucketBounds
<1>2. /\ level_start[1] = MinBucketNum * 8 /\ level_start[2] = MinBucketNum * 12
      /\ level_start[3] = MinBucketNum * 14 /\ bucket_num = 15 * MinBucketNum
  BY DEF level_start, Level, bucket_num
<1>3. MinBucketNum \in Nat
  BY SizeAssumption
<1> HIDE DEF PathBucket
<1>4. QED
  BY <1>1, <1>2, <1>3 DEF Level

\* A bucket of a later level has two children in the level before.
LEMMA ChildrenInArray ==
  ASSUME NEW l \in 0..2, NEW i \in 0..(bucket_num - 1),
         level_start[l + 1] + i <= bucket_num - 1,
         l < 2 => level_start[l + 1] + i < level_start[l + 2]
  PROVE  /\ level_start[l + 1] + i \in Bucket
         /\ level_start[l] + 2 * i \in Bucket
         /\ level_start[l] + (2 * i + 1) \in Bucket
<1>1. /\ level_start[0] = MinBucketNum * 0 /\ level_start[1] = MinBucketNum * 8
      /\ level_start[2] = MinBucketNum * 12 /\ level_start[3] = MinBucketNum * 14
      /\ bucket_num = 15 * MinBucketNum
  BY DEF level_start, Level, bucket_num
<1>2. MinBucketNum \in Nat
  BY SizeAssumption
<1>3. QED
  BY <1>1, <1>2 DEF Bucket

\* FillOrder, of any array.
Filled(c) ==
  \A l \in 0..2 : \A i \in 0..(bucket_num - 1) :
    /\ level_start[l + 1] + i <= bucket_num - 1
    /\ l < 2 => level_start[l + 1] + i < level_start[l + 2]
    /\ ~Vacant(c, level_start[l + 1] + i)
    => \E child \in {2 * i, 2 * i + 1} : ~Vacant(c, level_start[l] + child)

\* A level that is only reached from a taken bucket keeps the order.
LEMMA LevelKeepsOrder ==
  ASSUME NEW c, NEW r, NEW f \in Flow, NEW l \in Level, Fills(c, r, f, l), Filled(c),
         l # 0 => ~Vacant(c, PathBucket(f, l - 1))
  PROVE  Filled(r.cache)
<1> SUFFICES ASSUME NEW m \in 0..2, NEW i \in 0..(bucket_num - 1),
                    level_start[m + 1] + i <= bucket_num - 1,
                    m < 2 => level_start[m + 1] + i < level_start[m + 2],
                    ~Vacant(r.cache, level_start[m + 1] + i)
             PROVE  \E child \in {2 * i, 2 * i + 1} : ~Vacant(r.cache, level_start[m] + child)
  BY DEF Filled
<1>1. /\ level_start[m + 1] + i \in Bucket
      /\ \A child \in {2 * i, 2 * i + 1} : level_start[m] + child \in Bucket
  BY ChildrenInArray
<1>2. CASE ~Vacant(c, level_start[m + 1] + i)
  <2>1. PICK child \in {2 * i, 2 * i + 1} : ~Vacant(c, level_start[m] + child)
    BY <1>2 DEF Filled
  <2>2. QED
    BY <1>1, <2>1 DEF Fills
<1>3. CASE Vacant(c, level_start[m + 1] + i)
  <2>1. level_start[m + 1] + i = PathBucket(f, l)
    BY <1>1, <1>3 DEF Fills, Vacant
  <2>2. l = m + 1 /\ l # 0 /\ l - 1 = m
    BY <2>1, IndexApart
  <2>3. PathBucket(f, m) \in {level_start[m] + 2 * i, level_start[m] + (2 * i + 1)}
    <3>1. i \in Nat
      OBVIOUS
    <3>2. QED
      BY <2>1, <2>2, <3>1, ParentOfPath
  <2>4. ~Vacant(c, PathBucket(f, m))
    BY <2>2
  <2>5. PathBucket(f, m) \in Bucket
    BY PathInArray DEF Level
  <2>6. ~Vacant(r.cache, PathBucket(f, m))
    BY <2>4, <2>5 DEF Fills
  <2>7. QED
    BY <2>3, <2>6
<1>4. QED
  BY <1>2, <1>3

\* So does an insertion of four levels.
LEMMA CascadeKeepsOrder ==
  ASSUME ItemsInv, FillOrder, NEW f \in Flow, NEW r0, NEW r1, NEW r2, NEW r3,
         Cascade(f, r0, r1, r2, r3), cache' = r3.cache,
         Accounted(cache, Packet(f), r0, f, 0),
         Accounted(cache, Packet(f), r1, f, 1),
         Accounted(cache, Packet(f), r2, f, 2)
  PROVE  FillOrder'
<1>1. /\ Fills(cache, r0, f, 0)
      /\ IF r0.done THEN r1 = r0 ELSE Fills(r0.cache, r1, f, 1)
      /\ IF r1.done THEN r2 = r1 ELSE Fills(r1.cache, r2, f, 2)
      /\ IF r2.done THEN r3 = r2 ELSE Fills(r2.cache, r3, f, 3)
  BY CascadeFills
<1>2. /\ ~r0.done => ~Vacant(r0.cache, PathBucket(f, 1 - 1))
      /\ ~r1.done => ~Vacant(r1.cache, PathBucket(f, 2 - 1))
      /\ ~r2.done => ~Vacant(r2.cache, PathBucket(f, 3 - 1))
  <2>1. ~r0.done => ~Vacant(r0.cache, PathBucket(f, 0))
    BY <1>1 DEF Fills
  <2>2. ~r1.done => ~Vacant(r1.cache, PathBucket(f, 1))
    BY <1>1 DEF Fills
  <2>3. ~r2.done => ~Vacant(r2.cache, PathBucket(f, 2))
    BY <1>1 DEF Fills
  <2>4. QED
    BY <2>1, <2>2, <2>3
<1>3. 0 \in Level /\ 1 \in Level /\ 2 \in Level /\ 3 \in Level
  BY DEF Level
<1>4. Filled(cache)
  BY DEF FillOrder, Filled
<1>5. Filled(r0.cache)
  BY <1>1, <1>3, <1>4, LevelKeepsOrder
<1>6. Filled(r1.cache)
  BY <1>1, <1>2, <1>3, <1>5, LevelKeepsOrder
<1>7. Filled(r2.cache)
  BY <1>1, <1>2, <1>3, <1>6, LevelKeepsOrder
<1>8. Filled(r3.cache)
  BY <1>1, <1>2, <1>3, <1>7, LevelKeepsOrder
<1>9. QED
  BY <1>8 DEF FillOrder, Filled

\* The empty array is in order, and one nobody touches stays so.
LEMMA InitFillOrder == Init => FillOrder
<1> SUFFICES ASSUME Init PROVE FillOrder
  OBVIOUS
<1>1. \A b \in Bucket : Vacant(cache, b)
  BY DEF Init, Vacant, Empty
<1>2. QED
  BY <1>1, ChildrenInArray DEF FillOrder

LEMMA StutterFillOrder == FillOrder /\ UNCHANGED vars => FillOrder'
BY DEF FillOrder, Vacant, vars

\* A level writes its own bucket only.
LEMMA CascadeWrites ==
  ASSUME ItemsInv, NEW f \in Flow, NEW r0, NEW r1, NEW r2, NEW r3,
         Cascade(f, r0, r1, r2, r3),
         Accounted(cache, Packet(f), r0, f, 0),
         Accounted(cache, Packet(f), r1, f, 1),
         Accounted(cache, Packet(f), r2, f, 2)
  PROVE  Written(f, r0, r1, r2, r3)
BY CascadeFills DEF Fills, Writes, Written

\* No bucket counts more than the packets so far.
LEMMA CountsBounded ==
  ASSUME ItemsInv, NEW b \in Bucket
  PROVE  cache[b].count \in Nat /\ cache[b].count <= now /\ now \in Nat /\ now <= MaxPackets
<1>1. /\ cache[b] \in Item /\ now \in Nat /\ now <= MaxPackets
      /\ cache[b].count = 0 <=> cache[b].key = NoKey
  BY WordAssumption DEF ItemsInv, TypeOK, Typed
<1>2. CASE cache[b].key = NoKey
  BY <1>1, <1>2
<1>3. CASE cache[b].key # NoKey
  <2> DEFINE f == cache[b].key
  <2>1. f \in Flow
    BY <1>1, <1>3 DEF Item
  <2>2. PICK l \in Level : b = PathBucket(f, l)
    BY <2>1 DEF ItemsInv, OnPath, WellPlaced, check
  <2>3. Share(cache, f, l) = cache[b].count
    BY <2>2 DEF Share
  <2>4. \A j \in Level : Share(cache, f, j) \in Nat
    BY <2>1, ShareType DEF ItemsInv, TypeOK
  <2>5. Recorded(cache, f) >= Share(cache, f, l) /\ Recorded(cache, f) \in Nat
    BY <2>4 DEF Recorded, Level
  <2>6. Recorded(cache, f) <= truth[f] /\ truth[f] <= now /\ truth[f] \in Nat
    BY <2>1 DEF ItemsInv, TypeOK, NeverOverestimates
  <2> HIDE DEF f
  <2>7. QED
    BY <1>1, <2>3, <2>5, <2>6 DEF Item
<1>4. QED
  BY <1>2, <1>3

------------------------------------------------------------------------------
(* The latest packet *)

\* Bucket at holds flow f with the stamp of the packet that just came.
Newest(c, at, f) == c[at].key = f /\ c[at].time = now

\* Whatever stores the packet stores its stamp: a resident of its flow is older.
LEMMA StoredIsNewest ==
  ASSUME ItemsInv, StampsInv, NEW f \in Flow, NEW at \in Bucket, NEW r,
         \/ r = Placed(cache, Packet(f), at)
         \/ Holds(cache, at, Packet(f)) /\ r = Merged(cache, Packet(f), at, 1)
         \/ r = Exchanged(cache, Packet(f), at, FALSE)
  PROVE  Newest(r.cache, at, f)
<1>1. /\ cache \in [Bucket -> Item] /\ now \in Nat /\ cache[at].time \in Nat
      /\ Packet(f) = [key |-> f, count |-> 1, time |-> now]
      /\ \A g \in Flow : lastSeen[g] \in Int /\ lastSeen[g] < now
  BY WordAssumption DEF ItemsInv, TypeOK, Typed, Item, Packet, StampsInv
<1>2. CASE r.cache = [cache EXCEPT ![at] = Packet(f)]
  <2>1. r.cache[at] = Packet(f)
    BY <1>1, <1>2
  <2>2. QED
    BY <1>1, <2>1 DEF Newest
<1>3. CASE Holds(cache, at, Packet(f)) /\ r = Merged(cache, Packet(f), at, 1)
  <2>1. cache[at].key = f
    BY <1>1, <1>3 DEF Holds
  <2>2. cache[at].time <= lastSeen[f]
    BY <2>1 DEF StampsInv
  <2>3. Newer(now, cache[at].time) = now
    BY <1>1, <2>2 DEF Newer
  <2>4. r.cache = [cache EXCEPT ![at] = incrementItem(Packet(f), cache[at], 1)]
    BY <1>1, <1>3 DEF Merged, Outcome
  <2>5. r.cache[at] = incrementItem(Packet(f), cache[at], 1)
    BY <1>1, <2>4
  <2>6. QED
    BY <1>1, <2>1, <2>3, <2>5 DEF incrementItem, Newest
<1>4. QED
  BY <1>2, <1>3 DEF Placed, Exchanged, Outcome

------------------------------------------------------------------------------
(***************************************************************************)
(* The insertion of the counting tasks, for every aging and whatever       *)
(* d_left_level returns when it runs off its end.                          *)
(***************************************************************************)
\* What comes of a bucket whose resident is another flow's and too large to kick.
LEMMA FallOffOutcomes ==
  ASSUME NEW c, NEW it, NEW at, NEW r \in FallOff(c, it, at)
  PROVE  \/ \E d \in BOOLEAN : r = Passed(c, it, d)
         \/ TestGone /\ r = Exchanged(c, it, at, FALSE)
BY BuildAssumption DEF FallOff

\* Either d-left level keeps the accounts.
LEMMA DLeftAccounted ==
  ASSUME NEW c, Sound(c), NEW f \in Flow, NEW l \in Level,
         NEW it \in Carried, it.count > 0, OnBranch(it, f, l),
         NEW r \in d_left_level(c, it, PathBucket(f, l))
  PROVE  Accounted(c, it, r, f, l)
<1> DEFINE at == PathBucket(f, l)
<1>0. 1 <= it.count
  BY DEF Carried
<1>1. CASE Vacant(c, at)
  <2>1. r = Placed(c, it, at)
    BY <1>1 DEF d_left_level
  <2>2. QED
    BY <1>1, <2>1, PlacedAccounted
<1>2. CASE Holds(c, at, it)
  <2>1. r = Merged(c, it, at, 1)
    BY <1>2 DEF d_left_level, Holds
  <2>2. QED
    BY <1>0, <1>2, <2>1, MergedAccounted
<1>3. CASE ~Vacant(c, at) /\ ~Holds(c, at, it) /\ Exchangeable(it, c[at])
  <2>1. r = Exchanged(c, it, at, FALSE)
    BY <1>3 DEF d_left_level
  <2>2. QED
    BY <1>3, <2>1, ExchangedAccounted
<1>4. CASE ~Vacant(c, at) /\ ~Holds(c, at, it) /\ ~Exchangeable(it, c[at])
  <2>1. r \in FallOff(c, it, at)
    BY <1>4 DEF d_left_level
  <2>2. CASE \E d \in BOOLEAN : r = Passed(c, it, d)
    BY <2>2, PassedAccounted
  <2>3. CASE r = Exchanged(c, it, at, FALSE)
    BY <1>4, <2>3, ExchangedAccounted
  <2>4. QED
    BY <2>1, <2>2, <2>3, FallOffOutcomes
<1>5. QED
  BY <1>1, <1>2, <1>3, <1>4

\* The four levels of one insertion and what each of them was handed.
Levels(f, r0, r1, r2, r3) ==
  /\ r0 \in d_left_level(cache, Packet(f), PathBucket(f, 0))
  /\ IF r0.done THEN r1 = r0 ELSE r1 \in d_left_level(r0.cache, r0.item, PathBucket(f, 1))
  /\ IF r1.done THEN r2 = r1 ELSE r2 = must_kick_level(r1.cache, r1.item, PathBucket(f, 2))
  /\ IF r2.done THEN r3 = r2 ELSE r3 = winner_level(r2.cache, r2.item, PathBucket(f, 3))

\* insert goes through such levels.
LEMMA InsertHasLevels ==
  ASSUME NEW f \in Flow, insert(f)
  PROVE  \E r0, r1, r2, r3 : Levels(f, r0, r1, r2, r3) /\ cache' = r3.cache
<1>1. PICK r0 \in d_left_level(cache, Packet(f), PathBucket(f, 0)) :
      \E r1 \in IF r0.done THEN {r0} ELSE d_left_level(r0.cache, r0.item, PathBucket(f, 1)) :
      LET r2 == IF r1.done THEN r1 ELSE must_kick_level(r1.cache, r1.item, PathBucket(f, 2))
          r3 == IF r2.done THEN r2 ELSE winner_level(r2.cache, r2.item, PathBucket(f, 3))
      IN  cache' = r3.cache
  BY DEF insert
<1>2. PICK r1 \in IF r0.done THEN {r0} ELSE d_left_level(r0.cache, r0.item, PathBucket(f, 1)) :
      LET r2 == IF r1.done THEN r1 ELSE must_kick_level(r1.cache, r1.item, PathBucket(f, 2))
          r3 == IF r2.done THEN r2 ELSE winner_level(r2.cache, r2.item, PathBucket(f, 3))
      IN  cache' = r3.cache
  BY <1>1
<1> DEFINE r2 == IF r1.done THEN r1 ELSE must_kick_level(r1.cache, r1.item, PathBucket(f, 2))
           r3 == IF r2.done THEN r2 ELSE winner_level(r2.cache, r2.item, PathBucket(f, 3))
<1>3. cache' = r3.cache
  BY <1>2
<1>4. Levels(f, r0, r1, r2, r3)
  BY <1>1, <1>2 DEF Levels
<1> HIDE DEF r2, r3
<1>5. QED
  BY <1>3, <1>4

\* Each of them keeps the accounts.
LEMMA LevelsAccounted ==
  ASSUME ItemsInv, NEW f \in Flow, NEW r0, NEW r1, NEW r2, NEW r3,
         Levels(f, r0, r1, r2, r3)
  PROVE  /\ Accounted(cache, Packet(f), r0, f, 0)
         /\ r0.done => r1 = r0
         /\ ~r0.done => Accounted(r0.cache, r0.item, r1, f, 1)
         /\ r1.done => r2 = r1
         /\ ~r1.done => Accounted(r1.cache, r1.item, r2, f, 2)
         /\ r2.done => r3 = r2
         /\ ~r2.done => Accounted(r2.cache, r2.item, r3, f, 3)
         /\ Accounted(cache, Packet(f), r1, f, 1)
         /\ Accounted(cache, Packet(f), r2, f, 2)
         /\ Accounted(cache, Packet(f), r3, f, 3)
<1>1. Accounted(cache, Packet(f), r0, f, 0)
  BY Start, DLeftAccounted DEF Level, Levels
<1>2. ~r0.done => Accounted(r0.cache, r0.item, r1, f, 1)
  BY <1>1, Handed, DLeftAccounted DEF Level, Levels
<1>3. r0.done => r1 = r0
  BY DEF Levels
<1>4. Accounted(cache, Packet(f), r1, f, 0 + 1)
  BY <1>1, <1>2, <1>3, AccountsCompose
<1>5. ~r1.done => Accounted(r1.cache, r1.item, r2, f, 2)
  BY <1>4, Handed, MustKickAccounted DEF Levels
<1>6. r1.done => r2 = r1
  BY DEF Levels
<1>7. Accounted(cache, Packet(f), r2, f, 1 + 1)
  BY <1>4, <1>5, <1>6, AccountsCompose
<1>8. ~r2.done => Accounted(r2.cache, r2.item, r3, f, 3)
  <2>1. comp_item(r2.item, r2.cache[PathBucket(f, 3)]) \in BOOLEAN
    BY DEF comp_item
  <2>2. QED
    BY <1>7, <2>1, Handed, LastLevelAccounted DEF Levels, winner_level
<1>9. r2.done => r3 = r2
  BY DEF Levels
<1>10. Accounted(cache, Packet(f), r3, f, 2 + 1)
  BY <1>7, <1>8, <1>9, AccountsCompose
<1>11. QED
  BY <1>1, <1>2, <1>3, <1>4, <1>5, <1>6, <1>7, <1>8, <1>9, <1>10

\* insert keeps the array sound and costs at most one flow some of its count.
LEMMA InsertOneLoser ==
  ASSUME ItemsInv, NEW f \in Flow, insert(f)
  PROVE  Sound(cache') /\ OneLoser(cache, cache', f)
<1>1. PICK r0, r1, r2, r3 : Levels(f, r0, r1, r2, r3) /\ cache' = r3.cache
  BY InsertHasLevels
<1>2. QED
  BY <1>1, LevelsAccounted, CascadeOneLoser

------------------------------------------------------------------------------
(* The theorems *)

\* The strengthened invariant holds: Init gives it and every step keeps it.
THEOREM AHeapInvariant == Spec => []ItemsInv
<1>1. Init => ItemsInv
  BY InitItemsInv
<1>2. ItemsInv /\ [Next]_vars => ItemsInv'
  <2> SUFFICES ASSUME ItemsInv, [Next]_vars PROVE ItemsInv'
    OBVIOUS
  <2>1. ASSUME NEW f \in Flow, Insert(f) PROVE ItemsInv'
    <3>1. Sound(cache') /\ OneLoser(cache, cache', f)
      BY <2>1, InsertOneLoser DEF Insert
    <3>2. QED
      BY <2>1, <3>1, StepItemsInv DEF Insert
  <2>2. CASE UNCHANGED vars
    BY <2>2, StutterItemsInv
  <2>3. QED
    BY <2>1, <2>2 DEF Next
<1>3. QED
  BY <1>1, <1>2, PTL DEF Spec

\* Every bucket, stamp and count stays of its type (AHeap.h:31, Flow.h:14-31).
THEOREM AHeapTypeCorrect == Spec => []TypeOK
BY AHeapInvariant, PTL DEF ItemsInv

\* check() accepts every resident, however it got where it is (AHeap.h:376-388).
THEOREM AHeapOnPath == Spec => []OnPath
BY AHeapInvariant, PTL DEF ItemsInv

\* No flow is recorded with more packets than it sent, and no counter leaves
\* uint32_t as long as the trace does not (AHeap.h:159-203).
THEOREM AHeapNeverOverestimates == Spec => []NeverOverestimates
BY AHeapInvariant, PTL DEF ItemsInv

\* insert implements the abstract counter: a packet costs at most one flow.
THEOREM AHeapImplementsCounter == Spec => ImplementsCounter
<1>1. Init => Counter!Init
  BY InitImplementsCounter
<1>2. ItemsInv /\ [Next]_vars => [Counter!Next]_<<truth, [f \in Flow |-> Recorded(cache, f)]>>
  <2> SUFFICES ASSUME ItemsInv, [Next]_vars
               PROVE  [Counter!Next]_<<truth, [f \in Flow |-> Recorded(cache, f)]>>
    OBVIOUS
  <2>1. ASSUME NEW f \in Flow, Insert(f) PROVE Counter!Next
    <3>1. Sound(cache') /\ OneLoser(cache, cache', f)
      BY <2>1, InsertOneLoser DEF Insert
    <3>2. Counter!Observe(f)
      BY <2>1, <3>1, StepImplementsCounter DEF Insert
    <3>3. QED
      BY <3>2 DEF Counter!Next
  <2>2. CASE UNCHANGED vars
    BY <2>2 DEF vars, Recorded, Share
  <2>3. QED
    BY <2>1, <2>2 DEF Next
<1>3. QED
  BY <1>1, <1>2, AHeapInvariant, PTL DEF Spec, ImplementsCounter, Counter!Spec
------------------------------------------------------------------------------
(* The elephants *)

\* Without aging a d-left level that has its test lets nothing of two packets or
\* more go, and its bucket's count only grows: what it kicks has one packet, and
\* what it stores one at least.
LEMMA DLeftKeeps ==
  ASSUME aging = 0, ~TestGone, NEW c, Sound(c), NEW f \in Flow, NEW l \in Level,
         NEW it \in Carried, it.count > 0,
         NEW r \in d_left_level(c, it, PathBucket(f, l))
  PROVE  /\ Writes(c, r, f, l)
         /\ r.cache[PathBucket(f, l)].count >= c[PathBucket(f, l)].count
         /\ c[PathBucket(f, l)].count >= 2
              => r.cache[PathBucket(f, l)].key = c[PathBucket(f, l)].key
<1> DEFINE at == PathBucket(f, l)
<1>1. /\ at \in Bucket /\ c \in [Bucket -> Item] /\ c[at].count \in Nat
      /\ it.count \in Nat /\ it.count > 0
  BY PathInArray DEF Sound, Typed, Item, Carried
<1> HIDE DEF at
<1>2. CASE Vacant(c, at)
  <2>1. r.cache = [c EXCEPT ![at] = it] /\ c[at].count = 0
    BY <1>2 DEF d_left_level, Placed, Outcome, Vacant, at
  <2>2. QED
    BY <1>1, <2>1 DEF Writes, at
<1>3. CASE Holds(c, at, it)
  <2>1. r.cache = [c EXCEPT ![at] = incrementItem(it, c[at], 1)]
    BY <1>1, <1>3 DEF d_left_level, Merged, Outcome, Holds, at
  <2>2. QED
    BY <1>1, <2>1 DEF Writes, incrementItem, at
<1>4. CASE ~Vacant(c, at) /\ ~Holds(c, at, it) /\ Exchangeable(it, c[at])
  <2>1. r.cache = [c EXCEPT ![at] = it] /\ c[at].count = 1
    BY <1>4 DEF d_left_level, Exchanged, Outcome, Exchangeable, at
  <2>2. QED
    BY <1>1, <2>1 DEF Writes, at
<1>5. CASE ~Vacant(c, at) /\ ~Holds(c, at, it) /\ ~Exchangeable(it, c[at])
  <2>1. r.cache = c
    <3>1. r \in FallOff(c, it, at)
      BY <1>5 DEF d_left_level, at
    <3>2. PICK d \in BOOLEAN : r = Passed(c, it, d)
      BY <3>1, FallOffOutcomes
    <3>3. QED
      BY <3>2 DEF Passed, Outcome
  <2>2. QED
    BY <1>1, <2>1 DEF Writes, at
<1>6. QED
  BY <1>2, <1>3, <1>4, <1>5

\* The contest of the last level is won by the heavier item: its count only
\* grows.  The level before it writes into its own bucket.
LEMMA UpperLevelsKeep ==
  ASSUME NEW c, Sound(c), NEW f \in Flow, NEW it \in Carried, it.count > 0
  PROVE  /\ Writes(c, must_kick_level(c, it, PathBucket(f, 2)), f, 2)
         /\ Writes(c, winner_level(c, it, PathBucket(f, 3)), f, 3)
         /\ winner_level(c, it, PathBucket(f, 3)).cache[PathBucket(f, 3)].count
              >= c[PathBucket(f, 3)].count
<1> DEFINE at == PathBucket(f, 3)
<1>1. /\ at \in Bucket /\ c \in [Bucket -> Item] /\ c[at].count \in Nat
      /\ it.count \in Nat /\ it.count > 0
  BY PathInArray DEF Sound, Typed, Item, Carried, Level
<1>2. Writes(c, must_kick_level(c, it, PathBucket(f, 2)), f, 2)
  BY <1>1 DEF Writes, must_kick_level, Placed, Merged, Exchanged, Outcome
<1>3. Writes(c, winner_level(c, it, at), f, 3)
  BY <1>1 DEF Writes, winner_level, LastLevel, Placed, Merged, Exchanged, Passed, Outcome
<1> HIDE DEF at
<1>4. winner_level(c, it, at).cache[at].count >= c[at].count
  <2>1. CASE Vacant(c, at)
    BY <1>1, <2>1 DEF winner_level, LastLevel, Placed, Outcome, Vacant
  <2>2. CASE Holds(c, at, it)
    <3>1. winner_level(c, it, at).cache = [c EXCEPT ![at] = incrementItem(it, c[at], it.count)]
      BY <1>1, <2>2 DEF winner_level, LastLevel, Merged, Outcome, Holds
    <3>2. QED
      BY <1>1, <3>1 DEF incrementItem
  <2>3. CASE ~Vacant(c, at) /\ ~Holds(c, at, it) /\ comp_item(it, c[at])
    <3>1. winner_level(c, it, at).cache = [c EXCEPT ![at] = it]
      BY <2>3 DEF winner_level, LastLevel, Exchanged, Outcome
    <3>2. it.count >= c[at].count
      BY <1>1, <2>3 DEF comp_item
    <3>3. QED
      BY <1>1, <3>1, <3>2
  <2>4. CASE ~Vacant(c, at) /\ ~Holds(c, at, it) /\ ~comp_item(it, c[at])
    BY <1>1, <2>4 DEF winner_level, LastLevel, Passed, Outcome
  <2>5. QED
    BY <2>1, <2>2, <2>3, <2>4
<1>5. QED
  BY <1>2, <1>3, <1>4 DEF at

\* What ElephantsKept says of one bucket and one step.
Kept(b) ==
  /\ b < level_start[2] /\ cache[b].count >= 2 => cache'[b].key = cache[b].key
  /\ b < level_start[2] \/ b >= level_start[3] => cache'[b].count >= cache[b].count

\* An insertion without aging keeps the elephants.
LEMMA InsertKeepsElephants ==
  ASSUME aging = 0, ~TestGone, ItemsInv, NEW f \in Flow, insert(f), NEW b \in Bucket
  PROVE  Kept(b)
<1>1. PICK r0, r1, r2, r3 : Levels(f, r0, r1, r2, r3) /\ cache' = r3.cache
  BY InsertHasLevels
<1>2. Sound(cache) /\ Packet(f) \in Carried /\ Packet(f).count > 0
  BY Start
<1>3. Accounted(cache, Packet(f), r0, f, 0) /\ Accounted(cache, Packet(f), r1, f, 1)
      /\ Accounted(cache, Packet(f), r2, f, 2)
  BY <1>1, LevelsAccounted
<1>4. /\ ~r0.done => Sound(r0.cache) /\ r0.item \in Carried /\ r0.item.count > 0
      /\ ~r1.done => Sound(r1.cache) /\ r1.item \in Carried /\ r1.item.count > 0
      /\ ~r2.done => Sound(r2.cache) /\ r2.item \in Carried /\ r2.item.count > 0
  BY <1>3 DEF Accounted
<1>5. /\ Writes(cache, r0, f, 0)
      /\ r0.cache[PathBucket(f, 0)].count >= cache[PathBucket(f, 0)].count
      /\ cache[PathBucket(f, 0)].count >= 2
           => r0.cache[PathBucket(f, 0)].key = cache[PathBucket(f, 0)].key
  BY <1>1, <1>2, DLeftKeeps DEF Level, Levels
<1>6. ~r0.done =>
      /\ Writes(r0.cache, r1, f, 1)
      /\ r1.cache[PathBucket(f, 1)].count >= r0.cache[PathBucket(f, 1)].count
      /\ r0.cache[PathBucket(f, 1)].count >= 2
           => r1.cache[PathBucket(f, 1)].key = r0.cache[PathBucket(f, 1)].key
  BY <1>1, <1>4, DLeftKeeps DEF Level, Levels
<1>7. ~r1.done => Writes(r1.cache, r2, f, 2)
  BY <1>1, <1>4, UpperLevelsKeep DEF Levels
<1>8. ~r2.done =>
      /\ Writes(r2.cache, r3, f, 3)
      /\ r3.cache[PathBucket(f, 3)].count >= r2.cache[PathBucket(f, 3)].count
  BY <1>1, <1>4, UpperLevelsKeep DEF Levels
<1>9. cache[b].count \in Nat
  BY <1>2 DEF Sound, Typed, Item
<1>10. Once(b, f, r0, r1, r2, r3)
  <2>1. Written(f, r0, r1, r2, r3)
    BY <1>1, <1>5, <1>6, <1>7, <1>8 DEF Written, Levels
  <2>2. QED
    BY <2>1, CascadeWritesOnce
<1>11. /\ ~(PathBucket(f, 2) < level_start[2]) /\ ~(PathBucket(f, 2) >= level_start[3])
       /\ ~(PathBucket(f, 3) < level_start[2])
  <2>1. level_start[2] = MinBucketNum * 12 /\ level_start[3] = MinBucketNum * 14
    BY DEF level_start, Level
  <2>2. /\ PathBucket(f, 2) \in (12 * MinBucketNum)..(14 * MinBucketNum - 1)
        /\ PathBucket(f, 3) \in (14 * MinBucketNum)..(15 * MinBucketNum - 1)
    BY BucketBounds
  <2>3. QED
    BY <2>1, <2>2, SizeAssumption
<1>12. CASE r3.cache[b] = cache[b]
  BY <1>1, <1>9, <1>12 DEF Kept
<1>13. CASE b = PathBucket(f, 0) /\ r3.cache[b] = r0.cache[b]
  BY <1>1, <1>5, <1>13 DEF Kept
<1>14. CASE ~r0.done /\ b = PathBucket(f, 1) /\ r0.cache[b] = cache[b] /\ r3.cache[b] = r1.cache[b]
  BY <1>1, <1>6, <1>14 DEF Kept
<1>15. CASE b = PathBucket(f, 2)
  BY <1>11, <1>15 DEF Kept
<1>16. CASE ~r2.done /\ b = PathBucket(f, 3) /\ r2.cache[b] = cache[b]
  BY <1>1, <1>8, <1>11, <1>16 DEF Kept
<1>17. QED
  BY <1>10, <1>12, <1>13, <1>14, <1>15, <1>16 DEF Once

\* Without aging, and in a build that has not dropped the test, a flow counted twice in
\* a d-left bucket is never kicked and no count shrinks but in the level that always
\* kicks (AHeap.h:97-203).
THEOREM AHeapElephantsKept ==
  ASSUME aging = 0, ~TestGone
  PROVE  Spec => ElephantsKept
<1> DEFINE Step == \A b \in Bucket :
       /\ b < level_start[2] /\ cache[b].count >= 2 => cache'[b].key = cache[b].key
       /\ b < level_start[2] \/ b >= level_start[3] => cache'[b].count >= cache[b].count
<1>1. ItemsInv /\ [Next]_vars => Step
  <2> SUFFICES ASSUME ItemsInv, [Next]_vars PROVE Step
    OBVIOUS
  <2>1. ASSUME NEW f \in Flow, Insert(f) PROVE Step
    BY <2>1, InsertKeepsElephants DEF Insert, Kept
  <2>2. CASE UNCHANGED vars
    <3>1. \A b \in Bucket : cache[b].count \in Nat
      BY DEF ItemsInv, TypeOK, Typed, Item
    <3>2. QED
      BY <2>2, <3>1 DEF vars
  <2>3. QED
    BY <2>1, <2>2 DEF Next
<1>2. QED
  BY <1>1, AHeapInvariant, PTL DEF Spec, ElephantsKept
------------------------------------------------------------------------------
(* Stamps *)

\* A d-left level keeps the stamps, whatever it returns.
LEMMA DLeftKeepsStamps ==
  ASSUME NEW c, Typed(c), NEW at \in Bucket, NEW it \in Carried,
         NEW ls \in [Flow -> Int], NEW r \in d_left_level(c, it, at)
  PROVE  KeepsStamps(c, it, r, ls)
<1>1. CASE Vacant(c, at)
  BY <1>1, PlacedKeepsStamps DEF d_left_level
<1>2. CASE Holds(c, at, it)
  BY <1>2, MergedKeepsStamps DEF d_left_level, Holds
<1>3. CASE ~Vacant(c, at) /\ ~Holds(c, at, it) /\ Exchangeable(it, c[at])
  BY <1>3, ExchangedKeepsStamps DEF d_left_level
<1>4. CASE ~Vacant(c, at) /\ ~Holds(c, at, it) /\ ~Exchangeable(it, c[at])
  <2>1. r \in FallOff(c, it, at)
    BY <1>4 DEF d_left_level
  <2>2. CASE \E d \in BOOLEAN : r = Passed(c, it, d)
    BY <2>2, PassedKeepsStamps
  <2>3. CASE r = Exchanged(c, it, at, FALSE)
    BY <1>4, <2>3, ExchangedKeepsStamps
  <2>4. QED
    BY <2>1, <2>2, <2>3, FallOffOutcomes
<1>5. QED
  BY <1>1, <1>2, <1>3, <1>4

\* And so does the insertion.
LEMMA InsertKeepsStamps ==
  ASSUME ItemsInv, StampsInv, NEW f \in Flow, Insert(f)
  PROVE  StampsInv'
<1>1. PICK r0, r1, r2, r3 : Levels(f, r0, r1, r2, r3) /\ cache' = r3.cache
  BY InsertHasLevels DEF Insert
<1>2. /\ Accounted(cache, Packet(f), r0, f, 0) /\ Accounted(cache, Packet(f), r1, f, 1)
      /\ Accounted(cache, Packet(f), r2, f, 2) /\ Accounted(cache, Packet(f), r3, f, 3)
  BY <1>1, LevelsAccounted
<1>3. /\ Typed(cache) /\ Packet(f) \in Carried
      /\ Typed(r0.cache) /\ r0.item \in Carried
      /\ Typed(r1.cache) /\ r1.item \in Carried
      /\ Typed(r2.cache) /\ r2.item \in Carried /\ r2.item.count \in Nat
  BY <1>2, Start DEF Accounted, Sound, Carried
<1>4. /\ PathBucket(f, 0) \in Bucket /\ PathBucket(f, 1) \in Bucket
      /\ PathBucket(f, 2) \in Bucket /\ PathBucket(f, 3) \in Bucket
  BY PathInArray DEF Level
<1>5. lastSeen' \in [Flow -> Int]
  BY DEF Insert, Arrive, ItemsInv, TypeOK
<1>6. KeepsStamps(cache, Packet(f), r0, lastSeen')
  BY <1>1, <1>3, <1>4, <1>5, DLeftKeepsStamps DEF Levels
<1>7. ~r0.done => KeepsStamps(r0.cache, r0.item, r1, lastSeen')
  BY <1>1, <1>3, <1>4, <1>5, DLeftKeepsStamps DEF Levels
<1>8. ~r1.done => KeepsStamps(r1.cache, r1.item, r2, lastSeen')
  BY <1>1, <1>3, <1>4, <1>5, UpperLevelsKeepStamps DEF Levels
<1>9. ~r2.done => KeepsStamps(r2.cache, r2.item, r3, lastSeen')
  <2>1. comp_item(r2.item, r2.cache[PathBucket(f, 3)]) \in BOOLEAN
    BY DEF comp_item
  <2>2. QED
    BY <1>1, <1>3, <1>4, <1>5, <2>1, UpperLevelsKeepStamps DEF Levels, winner_level
<1>10. StampedLevels(f, lastSeen', r0, r1, r2, r3)
  BY <1>1, <1>6, <1>7, <1>8, <1>9 DEF StampedLevels, Levels
<1>11. QED
  BY <1>1, <1>2, <1>10, CascadeKeepsStamps, StepStampsInv DEF Insert

\* The invariant of stamps holds.
LEMMA AHeapStampsInvariant == Spec => []StampsInv
<1>1. Init => StampsInv
  BY InitStampsInv
<1>2. ItemsInv /\ StampsInv /\ [Next]_vars => StampsInv'
  BY InsertKeepsStamps, StutterStampsInv DEF Next
<1>3. QED
  BY <1>1, <1>2, AHeapInvariant, PTL DEF Spec

\* No resident is stamped later than its flow, and a flow that lost no packet
\* carries the stamp of its latest one (AHeap.h:97-264).
THEOREM AHeapStampsTruthful == Spec => []StampsTruthful
BY AHeapStampsInvariant, StampsInvTruthful, PTL

------------------------------------------------------------------------------
(* Reading back, and the order of filling *)

\* The levels do what levels may do.
LEMMA LevelsCascade ==
  ASSUME ItemsInv, NEW f \in Flow, NEW r0, NEW r1, NEW r2, NEW r3,
         Levels(f, r0, r1, r2, r3)
  PROVE  Cascade(f, r0, r1, r2, r3)
<1>1. \A c, it, at : \A r \in d_left_level(c, it, at) : Possible(c, it, at, r)
  <2> SUFFICES ASSUME NEW c, NEW it, NEW at, NEW r \in d_left_level(c, it, at)
               PROVE  Possible(c, it, at, r)
    OBVIOUS
  <2>1. CASE Vacant(c, at) \/ Holds(c, at, it) \/ Exchangeable(it, c[at])
    BY <2>1 DEF d_left_level, Possible, Holds
  <2>2. CASE ~Vacant(c, at) /\ r \in FallOff(c, it, at)
    BY <2>2, FallOffOutcomes DEF Possible
  <2>3. QED
    BY <2>1, <2>2 DEF d_left_level
<1>2. \A c, it, at : Possible(c, it, at, must_kick_level(c, it, at))
  <2>1. 1 \in Nat /\ TRUE \in BOOLEAN
    OBVIOUS
  <2>2. QED
    BY <2>1, UpperLevelsPossible
<1>3. ~r2.done => Possible(r2.cache, r2.item, PathBucket(f, 3), r3)
  <2>1. comp_item(r2.item, r2.cache[PathBucket(f, 3)]) \in BOOLEAN
    BY DEF comp_item
  <2>2. r2.item.count \in Nat
    BY LevelsAccounted DEF Accounted, Carried
  <2>3. QED
    BY <2>1, <2>2, UpperLevelsPossible DEF Levels, winner_level
<1>4. QED
  BY <1>1, <1>2, <1>3 DEF Levels, Cascade

\* The sum over the whole array by key, as every task reads it, is what is on the
\* path of the flow (Util.h:103-118).
THEOREM AHeapMergeMatchesPath == Spec => []MergeMatchesPath
<1>1. ItemsInv => MergeMatchesPath
  BY MergeIsRecorded DEF ItemsInv, TypeOK, OnPath, MergeMatchesPath
<1>2. QED
  BY <1>1, AHeapInvariant, PTL

\* The trees fill from the leaves, in every build: d_left_level may return true
\* by mistake, but only of a bucket that is taken (AHeap.h:92-203).
THEOREM AHeapFillOrder == Spec => []FillOrder
<1>1. Init => FillOrder
  BY InitFillOrder
<1>2. ItemsInv /\ FillOrder /\ [Next]_vars => FillOrder'
  <2> SUFFICES ASSUME ItemsInv, FillOrder, [Next]_vars PROVE FillOrder'
    OBVIOUS
  <2>1. ASSUME NEW f \in Flow, Insert(f) PROVE FillOrder'
    <3>1. PICK r0, r1, r2, r3 : Levels(f, r0, r1, r2, r3) /\ cache' = r3.cache
      BY <2>1, InsertHasLevels DEF Insert
    <3>2. /\ Accounted(cache, Packet(f), r0, f, 0) /\ Accounted(cache, Packet(f), r1, f, 1)
          /\ Accounted(cache, Packet(f), r2, f, 2)
      BY <3>1, LevelsAccounted
    <3>3. QED
      BY <3>1, <3>2, LevelsCascade, CascadeKeepsOrder
  <2>2. CASE UNCHANGED vars
    BY <2>2, StutterFillOrder
  <2>3. QED
    BY <2>1, <2>2 DEF Next
<1>3. QED
  BY <1>1, <1>2, AHeapInvariant, PTL DEF Spec

------------------------------------------------------------------------------
(***************************************************************************)
(* Where the missing return does no harm: without aging, as long as no     *)
(* trace gets a count to Byte + 1, the first above 1 that is taken for     *)
(* true, and if no other build returns true or has dropped the test.       *)
(***************************************************************************)
Harmless == aging = 0 /\ MaxPackets <= Byte /\ OtherBuilds \subseteq {FALSE} /\ ~TestGone

\* What is left of a d-left level then: it goes on whenever it did not store.
GoesOn(c, it, at, r) ==
  \/ Vacant(c, at) /\ r = Placed(c, it, at)
  \/ Holds(c, at, it) /\ r = Merged(c, it, at, 1)
  \/ /\ ~Vacant(c, at) /\ ~Holds(c, at, it) /\ c[at].count = 1
     /\ r = Exchanged(c, it, at, FALSE)
  \/ ~Vacant(c, at) /\ ~Holds(c, at, it) /\ r = Passed(c, it, FALSE)

\* The return register never reads as true.
LEMMA DLeftGoesOn ==
  ASSUME Harmless, NEW c, NEW it, NEW at, c[at].count \in Nat, c[at].count <= MaxPackets,
         NEW r \in d_left_level(c, it, at)
  PROVE  GoesOn(c, it, at, r)
<1>1. CASE Vacant(c, at) \/ Holds(c, at, it) \/ c[at].count = 1
  BY <1>1 DEF Harmless, GoesOn, d_left_level, Exchangeable, Holds
<1>2. CASE ~(Vacant(c, at) \/ Holds(c, at, it) \/ c[at].count = 1)
  <2>1. FallOff(c, it, at) \subseteq {Passed(c, it, FALSE)}
    <3>1. c[at].count % Byte # 1
      <4>1. Byte \in Nat /\ Byte > 0 /\ c[at].count > 1 /\ c[at].count <= Byte
        BY <1>2, BuildAssumption, WordAssumption DEF Harmless, Vacant
      <4>2. CASE c[at].count < Byte
        BY <4>1, <4>2
      <4>3. CASE c[at].count = Byte
        BY <4>1, <4>3
      <4>4. QED
        BY <4>1, <4>2, <4>3
    <3>2. QED
      BY <3>1 DEF FallOff, Harmless
  <2>2. r \in FallOff(c, it, at)
    BY <1>2 DEF d_left_level, Exchangeable, Harmless
  <2>3. QED
    BY <1>2, <2>1, <2>2 DEF GoesOn
<1>3. QED
  BY <1>1, <1>2

\* Both d-left levels of an insertion go on.
LEMMA LevelsGoOn ==
  ASSUME Harmless, ItemsInv, NEW f \in Flow, NEW r0, NEW r1, NEW r2, NEW r3,
         Levels(f, r0, r1, r2, r3)
  PROVE  /\ GoesOn(cache, Packet(f), PathBucket(f, 0), r0)
         /\ ~r0.done => GoesOn(r0.cache, r0.item, PathBucket(f, 1), r1)
<1>1. /\ PathBucket(f, 0) \in Bucket /\ PathBucket(f, 1) \in Bucket
      /\ PathBucket(f, 0) # PathBucket(f, 1)
  BY PathInArray, LevelsDisjoint DEF Level
<1>2. Fills(cache, r0, f, 0)
  BY LevelsCascade, LevelsAccounted, CascadeFills
<1>3. r0.cache[PathBucket(f, 1)] = cache[PathBucket(f, 1)]
  BY <1>1, <1>2 DEF Fills
<1>4. \A b \in Bucket : cache[b].count \in Nat /\ cache[b].count <= MaxPackets
  <2> SUFFICES ASSUME NEW b \in Bucket
               PROVE  cache[b].count \in Nat /\ cache[b].count <= MaxPackets
    OBVIOUS
  <2>1. cache[b].count \in Nat /\ cache[b].count <= now /\ now \in Nat /\ now <= MaxPackets
    BY CountsBounded
  <2>2. QED
    BY <2>1, WordAssumption
<1>5. GoesOn(cache, Packet(f), PathBucket(f, 0), r0)
  BY <1>1, <1>4, DLeftGoesOn DEF Levels
<1>6. ~r0.done => GoesOn(r0.cache, r0.item, PathBucket(f, 1), r1)
  BY <1>1, <1>3, <1>4, DLeftGoesOn DEF Levels
<1>7. QED
  BY <1>5, <1>6

\* A level that is handed one packet stores it, or hands one packet on.
LEMMA OnePacketOn ==
  ASSUME NEW c, NEW it \in Carried, it.count = 1, NEW at, NEW r,
         GoesOn(c, it, at, r) \/ r = must_kick_level(c, it, at), r.done
  PROVE  r.item.count = 0
<1>1. CASE Vacant(c, at)
  BY <1>1 DEF Carried, GoesOn, must_kick_level, Placed, Outcome, Holds
<1>2. CASE Holds(c, at, it)
  <2>1. r = Merged(c, it, at, 1)
    BY <1>2 DEF GoesOn, must_kick_level, Holds
  <2>2. r.item = [it EXCEPT !.count = @ - 1]
    BY <2>1 DEF Merged, Outcome
  <2>3. r.item.count = it.count - 1
    BY <2>2 DEF Carried
  <2>4. QED
    BY <2>3
<1>3. CASE ~Vacant(c, at) /\ ~Holds(c, at, it)
  BY <1>3 DEF GoesOn, must_kick_level, Exchanged, Passed, Outcome
<1>4. QED
  BY <1>1, <1>2, <1>3

LEMMA OnePacketDown ==
  ASSUME NEW c, NEW it \in Carried, it.count = 1, NEW at, NEW r,
         GoesOn(c, it, at, r), ~r.done
  PROVE  r.item.count = 1
BY DEF GoesOn, Placed, Merged, Exchanged, Passed, Outcome

\* Where something is left over, every level went on.
LEMMA LeftoverNeedsFullPath ==
  ASSUME Harmless, ItemsInv, NEW f \in Flow, NEW r0, NEW r1, NEW r2, NEW r3,
         Levels(f, r0, r1, r2, r3), r3.item.count # 0
  PROVE  \A l \in Level : ~Vacant(cache, PathBucket(f, l))
<1>0. /\ Packet(f) \in Carried /\ Packet(f).count = 1
      /\ r0.item \in Carried /\ r1.item \in Carried /\ r2.item \in Carried
  BY Start, LevelsAccounted DEF Accounted, Packet
<1>1. /\ GoesOn(cache, Packet(f), PathBucket(f, 0), r0)
      /\ ~r0.done => GoesOn(r0.cache, r0.item, PathBucket(f, 1), r1)
  BY LevelsGoOn
<1>2. /\ r0.done => r0.item.count = 0
      /\ ~r0.done => r0.item.count = 1
  BY <1>0, <1>1, OnePacketOn, OnePacketDown
<1>3. /\ r1.done => r1.item.count = 0
      /\ ~r1.done => ~r0.done /\ r1.item.count = 1
  BY <1>0, <1>1, <1>2, OnePacketOn, OnePacketDown DEF Levels
<1>4. /\ r2.done => r2.item.count = 0
      /\ ~r2.done => ~r1.done
  BY <1>0, <1>3, OnePacketOn DEF Levels
<1>5. ~r2.done /\ ~r1.done /\ ~r0.done
  BY <1>3, <1>4 DEF Levels
<1>6. /\ Fills(cache, r0, f, 0) /\ Fills(r0.cache, r1, f, 1) /\ Fills(r1.cache, r2, f, 2)
  BY <1>5, LevelsCascade, LevelsAccounted, CascadeFills
<1>7. ~Vacant(r2.cache, PathBucket(f, 3))
  <2> DEFINE at == PathBucket(f, 3)
  <2>1. CASE Vacant(r2.cache, at)
    <3>1. r3.item = [r2.item EXCEPT !.count = 0]
      BY <1>5, <2>1 DEF Levels, winner_level, LastLevel, Placed, Outcome
    <3>2. QED
      BY <1>0, <3>1 DEF Carried
  <2>2. QED
    BY <2>1
<1>8. \A l \in Level : PathBucket(f, l) \in Bucket
  BY PathInArray
<1>9. \A j, l \in Level : PathBucket(f, j) = PathBucket(f, l) => j = l
  BY LevelsDisjoint
<1>10. 0 \in Level /\ 1 \in Level /\ 2 \in Level /\ 3 \in Level
  BY DEF Level
<1>11. ~Vacant(cache, PathBucket(f, 0))
  BY <1>5, <1>6 DEF Fills
<1>12. ~Vacant(cache, PathBucket(f, 1))
  BY <1>5, <1>6, <1>8, <1>9, <1>10 DEF Fills, Vacant
<1>13. ~Vacant(cache, PathBucket(f, 2))
  BY <1>5, <1>6, <1>8, <1>9, <1>10 DEF Fills, Vacant
<1>14. ~Vacant(cache, PathBucket(f, 3))
  BY <1>6, <1>7, <1>8, <1>9, <1>10 DEF Fills, Vacant
<1>15. QED
  BY <1>11, <1>12, <1>13, <1>14 DEF Level

\* Where the missing return does no harm, a count is lost only by an insertion
\* that found its whole path taken (AHeap.h:97-203).
THEOREM AHeapLossNeedsFullPath ==
  ASSUME Harmless
  PROVE  Spec => LossNeedsFullPath
<1> DEFINE Needs == \A f, g \in Flow :
                      /\ truth'[f] # truth[f]
                      /\ truth'[g] - Recorded(cache', g) > truth[g] - Recorded(cache, g)
                      => \A l \in Level : ~Vacant(cache, PathBucket(f, l))
<1>1. ItemsInv /\ ItemsInv' /\ [Next]_vars => Needs
  <2> SUFFICES ASSUME ItemsInv, ItemsInv', [Next]_vars,
                      NEW f \in Flow, NEW g \in Flow, truth'[f] # truth[f],
                      truth'[g] - Recorded(cache', g) > truth[g] - Recorded(cache, g)
               PROVE  \A l \in Level : ~Vacant(cache, PathBucket(f, l))
    OBVIOUS
  <2>1. ~UNCHANGED vars
    BY DEF vars
  <2>2. PICK h \in Flow : Arrive(h) /\ insert(h)
    BY <2>1 DEF Next, Insert
  <2>3. /\ truth \in [Flow -> Nat] /\ truth' = [truth EXCEPT ![h] = @ + 1]
        /\ Typed(cache) /\ Typed(cache')
    BY <2>2 DEF Arrive, ItemsInv, TypeOK
  <2>4. f = h /\ truth'[g] = truth[g] + PartOf(Packet(f), g) /\ truth[g] \in Nat
    BY <2>3 DEF PartOf, Packet
  <2>5. PICK r0, r1, r2, r3 : Levels(f, r0, r1, r2, r3) /\ cache' = r3.cache
    BY <2>2, <2>4, InsertHasLevels
  <2>6. Recorded(cache', g) + PartOf(r3.item, g) = Recorded(cache, g) + PartOf(Packet(f), g)
    BY <2>5, LevelsAccounted DEF Accounted, Held
  <2>7. /\ Recorded(cache', g) \in Nat /\ Recorded(cache, g) \in Nat
        /\ PartOf(r3.item, g) \in Nat /\ PartOf(Packet(f), g) \in Nat
    BY <2>3, <2>5, RecordedType, LevelsAccounted DEF Accounted, Carried, PartOf, Packet
  <2>8. PartOf(r3.item, g) # 0
    BY <2>4, <2>6, <2>7
  <2>9. QED
    BY <2>5, <2>8, LeftoverNeedsFullPath DEF PartOf
<1>2. QED
  BY <1>1, AHeapInvariant, PTL DEF Spec, LossNeedsFullPath

\* At a level that goes on, the packet is in the bucket afterwards or goes on
\* as it came; a kicking level always takes it.
LEMMA PacketStoredOrPassed ==
  ASSUME ItemsInv, StampsInv, NEW f \in Flow, NEW at \in Bucket
  PROVE  /\ \A r : GoesOn(cache, Packet(f), at, r) =>
              \/ Newest(r.cache, at, f)
              \/ ~r.done /\ r.cache = cache /\ r.item = Packet(f)
         /\ Newest(must_kick_level(cache, Packet(f), at).cache, at, f)
<1>1. ASSUME NEW r, GoesOn(cache, Packet(f), at, r)
      PROVE  \/ Newest(r.cache, at, f)
             \/ ~r.done /\ r.cache = cache /\ r.item = Packet(f)
  <2>1. CASE r = Passed(cache, Packet(f), FALSE)
    BY <2>1 DEF Passed, Outcome
  <2>2. CASE r # Passed(cache, Packet(f), FALSE)
    BY <1>1, <2>2, StoredIsNewest DEF GoesOn
  <2>3. QED
    BY <2>1, <2>2
<1>2. Newest(must_kick_level(cache, Packet(f), at).cache, at, f)
  BY StoredIsNewest DEF must_kick_level, Holds
<1>3. QED
  BY <1>1, <1>2

\* The packet is in one of the first three buckets of its path then.
LEMMA LevelsShowPacket ==
  ASSUME Harmless, ItemsInv, StampsInv, NEW f \in Flow, NEW r0, NEW r1, NEW r2, NEW r3,
         Levels(f, r0, r1, r2, r3)
  PROVE  \E l \in Level : Newest(r3.cache, PathBucket(f, l), f)
<1>1. /\ PathBucket(f, 0) \in Bucket /\ PathBucket(f, 1) \in Bucket
      /\ PathBucket(f, 2) \in Bucket /\ 0 \in Level /\ 1 \in Level /\ 2 \in Level
  BY PathInArray DEF Level
<1>2. /\ r3.cache[PathBucket(f, 0)] = r0.cache[PathBucket(f, 0)]
      /\ r3.cache[PathBucket(f, 1)] = r1.cache[PathBucket(f, 1)]
      /\ r3.cache[PathBucket(f, 2)] = r2.cache[PathBucket(f, 2)]
  BY LevelsCascade, LevelsAccounted, CascadeWrites, LaterLevelsElsewhere
<1>3. /\ GoesOn(cache, Packet(f), PathBucket(f, 0), r0)
      /\ ~r0.done => GoesOn(r0.cache, r0.item, PathBucket(f, 1), r1)
  BY LevelsGoOn
<1>4. CASE Newest(r0.cache, PathBucket(f, 0), f)
  BY <1>1, <1>2, <1>4 DEF Newest
<1>5. CASE Newest(r1.cache, PathBucket(f, 1), f)
  BY <1>1, <1>2, <1>5 DEF Newest
<1>6. CASE ~Newest(r0.cache, PathBucket(f, 0), f) /\ ~Newest(r1.cache, PathBucket(f, 1), f)
  <2>1. ~r0.done /\ r0.cache = cache /\ r0.item = Packet(f)
    BY <1>1, <1>3, <1>6, PacketStoredOrPassed
  <2>2. ~r1.done /\ r1.cache = cache /\ r1.item = Packet(f)
    BY <1>1, <1>3, <1>6, <2>1, PacketStoredOrPassed
  <2>3. r2 = must_kick_level(cache, Packet(f), PathBucket(f, 2))
    BY <2>2 DEF Levels
  <2>4. Newest(r2.cache, PathBucket(f, 2), f)
    BY <1>1, <2>3, PacketStoredOrPassed
  <2>5. QED
    BY <1>1, <1>2, <2>4 DEF Newest
<1>7. QED
  BY <1>4, <1>5, <1>6

\* Where the missing return does no harm, the flow of the latest packet is in
\* the array with that packet's stamp (AHeap.h:97-203).
THEOREM AHeapLatestVisible ==
  ASSUME Harmless
  PROVE  Spec => []LatestVisible
<1>1. Init => LatestVisible
  BY DEF Init, LatestVisible
<1>2. ItemsInv /\ StampsInv /\ LatestVisible /\ [Next]_vars => LatestVisible'
  <2> SUFFICES ASSUME ItemsInv, StampsInv, LatestVisible, [Next]_vars
               PROVE  LatestVisible'
    OBVIOUS
  <2>1. ASSUME NEW f \in Flow, Insert(f) PROVE LatestVisible'
    <3>1. PICK r0, r1, r2, r3 : Levels(f, r0, r1, r2, r3) /\ cache' = r3.cache
      BY <2>1, InsertHasLevels DEF Insert
    <3>2. PICK l \in Level : Newest(cache', PathBucket(f, l), f)
      BY <3>1, LevelsShowPacket
    <3>3. /\ now \in Nat /\ now' = now + 1
          /\ lastSeen \in [Flow -> Int] /\ lastSeen' = [lastSeen EXCEPT ![f] = now]
          /\ \A g \in Flow : lastSeen[g] < now
      BY <2>1, WordAssumption DEF Insert, Arrive, ItemsInv, TypeOK, StampsInv
    <3>4. ASSUME NEW g \in Flow, lastSeen'[g] = now' - 1
          PROVE  \E j \in Level : /\ cache'[PathBucket(g, j)].key = g
                                  /\ cache'[PathBucket(g, j)].time = now' - 1
      <4>1. g = f /\ now' - 1 = now
        BY <3>3, <3>4
      <4>2. QED
        BY <3>2, <4>1 DEF Newest
    <3>5. QED
      BY <3>4 DEF LatestVisible
  <2>2. CASE UNCHANGED vars
    BY <2>2 DEF vars, LatestVisible
  <2>3. QED
    BY <2>1, <2>2 DEF Next
<1>3. QED
  BY <1>1, <1>2, AHeapInvariant, AHeapStampsInvariant, PTL DEF Spec

------------------------------------------------------------------------------
(***************************************************************************)
(* The three insertions that look at stamps keep the promises of the       *)
(* abstract counter too, for every set of flows, size, hash and threshold: *)
(* stamps decide who is kicked, never what a flow is recorded with.        *)
(***************************************************************************)

USE ThresholdAssumption

------------------------------------------------------------------------------
(* What the three routines have in common *)

\* What a d-left level may do with an item: fill, merge one packet or all of
\* them, exchange, or pass; in the last two the insertion goes on.
LevelOutcome(c, it, at, r) ==
  \/ Vacant(c, at) /\ r = Placed(c, it, at)
  \/ Holds(c, at, it) /\ \E n \in {1, it.count} : r = Merged(c, it, at, n)
  \/ /\ ~Vacant(c, at) /\ ~Holds(c, at, it)
     /\ r = Exchanged(c, it, at, FALSE) \/ r = Passed(c, it, FALSE)

\* The four levels of one insertion and what each of them was handed.
KVLevels(f, r0, r1, r2, r3) ==
  /\ LevelOutcome(cache, Packet(f), PathBucket(f, 0), r0)
  /\ IF r0.done THEN r1 = r0 ELSE LevelOutcome(r0.cache, r0.item, PathBucket(f, 1), r1)
  /\ IF r1.done THEN r2 = r1 ELSE r2 = must_kick_level(r1.cache, r1.item, PathBucket(f, 2))
  /\ IF r2.done THEN r3 = r2
     ELSE \E n \in {1, r2.item.count}, wins \in BOOLEAN :
            r3 = LastLevel(r2.cache, r2.item, PathBucket(f, 3), n, wins)

\* Both forms of a d-left level do no more than that.
LEMMA DLeftOutcome ==
  ASSUME NEW c, NEW it, NEW at
  PROVE  /\ \A tthre, cthre : LevelOutcome(c, it, at, d_left_level_by_thre(c, it, at, tthre, cthre))
         /\ LevelOutcome(c, it, at, d_left_level_by_time(c, it, at))
<1>1. ASSUME NEW tthre, NEW cthre
      PROVE  LevelOutcome(c, it, at, d_left_level_by_thre(c, it, at, tthre, cthre))
  BY DEF LevelOutcome, d_left_level_by_thre, Holds
<1>2. LevelOutcome(c, it, at, d_left_level_by_time(c, it, at))
  BY DEF LevelOutcome, d_left_level_by_time, Holds
<1>3. QED
  BY <1>1, <1>2

\* The insertion with thresholds goes through such levels.
LEMMA PersistentHasLevels ==
  ASSUME NEW f \in Flow, insert_by_thre(f)
  PROVE  \E r0, r1, r2, r3 : KVLevels(f, r0, r1, r2, r3) /\ cache' = r3.cache
<1> DEFINE r0 == d_left_level_by_thre(cache, Packet(f), PathBucket(f, 0), time_thre, counter_thre)
           r1 == IF r0.done THEN r0
                 ELSE d_left_level_by_thre(r0.cache, r0.item, PathBucket(f, 1), time_thre, counter_thre)
           r2 == IF r1.done THEN r1 ELSE must_kick_level(r1.cache, r1.item, PathBucket(f, 2))
           wins == comp_item(r2.item, r2.cache[PathBucket(f, 3)])
           r3 == IF r2.done THEN r2
                 ELSE LastLevel(r2.cache, r2.item, PathBucket(f, 3), r2.item.count, wins)
<1>1. cache' = r3.cache
  BY DEF insert_by_thre
<1>2. LevelOutcome(cache, Packet(f), PathBucket(f, 0), r0)
  BY DLeftOutcome
<1> HIDE DEF r0
<1>3. IF r0.done THEN r1 = r0 ELSE LevelOutcome(r0.cache, r0.item, PathBucket(f, 1), r1)
  BY DLeftOutcome
<1> HIDE DEF r1
<1>4. wins \in BOOLEAN
  BY DEF comp_item
<1> HIDE DEF wins
<1>5. KVLevels(f, r0, r1, r2, r3)
  BY <1>2, <1>3, <1>4 DEF KVLevels
<1> HIDE DEF r2, r3
<1>6. QED
  BY <1>1, <1>5

\* insert_for_recent does, whatever its threshold.
LEMMA RecentHasLevels ==
  ASSUME NEW f \in Flow, NEW tthre, insert_for_recent(f, tthre)
  PROVE  \E r0, r1, r2, r3 :
           /\ r0 = d_left_level_by_thre(cache, Packet(f), PathBucket(f, 0), tthre, 0)
           /\ KVLevels(f, r0, r1, r2, r3) /\ cache' = r3.cache
<1> DEFINE r0 == d_left_level_by_thre(cache, Packet(f), PathBucket(f, 0), tthre, 0)
           r1 == IF r0.done THEN r0
                 ELSE d_left_level_by_thre(r0.cache, r0.item, PathBucket(f, 1), tthre, 0)
           r2 == IF r1.done THEN r1 ELSE must_kick_level(r1.cache, r1.item, PathBucket(f, 2))
           wins == Elapsed(r2.item.time, r2.cache[PathBucket(f, 3)].time) >= tthre
           r3 == IF r2.done THEN r2
                 ELSE LastLevel(r2.cache, r2.item, PathBucket(f, 3), r2.item.count, wins)
<1>1. cache' = r3.cache
  BY DEF insert_for_recent
<1>2. r0 = d_left_level_by_thre(cache, Packet(f), PathBucket(f, 0), tthre, 0)
  OBVIOUS
<1>3. LevelOutcome(cache, Packet(f), PathBucket(f, 0), r0)
  BY DLeftOutcome
<1> HIDE DEF r0
<1>4. IF r0.done THEN r1 = r0 ELSE LevelOutcome(r0.cache, r0.item, PathBucket(f, 1), r1)
  BY DLeftOutcome
<1> HIDE DEF r1
<1>5. wins \in BOOLEAN
  OBVIOUS
<1> HIDE DEF wins
<1>6. KVLevels(f, r0, r1, r2, r3)
  BY <1>3, <1>4, <1>5 DEF KVLevels
<1> HIDE DEF r2, r3
<1>7. QED
  BY <1>1, <1>2, <1>6

\* So does insert_aging_by_time, whose last level merges one packet of a carried
\* item that may have more.
LEMMA FlowletHasLevels ==
  ASSUME NEW f \in Flow, insert_aging_by_time(f)
  PROVE  \E r0, r1, r2, r3 :
           /\ r0 = d_left_level_by_time(cache, Packet(f), PathBucket(f, 0))
           /\ ~r0.done => r1 = d_left_level_by_time(r0.cache, r0.item, PathBucket(f, 1))
           /\ ~r2.done => r3 = LastLevel(r2.cache, r2.item, PathBucket(f, 3), 1,
                                         comp_item_by_time(r2.item, r2.cache[PathBucket(f, 3)]))
           /\ KVLevels(f, r0, r1, r2, r3) /\ cache' = r3.cache
<1> DEFINE r0 == d_left_level_by_time(cache, Packet(f), PathBucket(f, 0))
           r1 == IF r0.done THEN r0
                 ELSE d_left_level_by_time(r0.cache, r0.item, PathBucket(f, 1))
           r2 == IF r1.done THEN r1 ELSE must_kick_level(r1.cache, r1.item, PathBucket(f, 2))
           wins == comp_item_by_time(r2.item, r2.cache[PathBucket(f, 3)])
           r3 == IF r2.done THEN r2
                 ELSE LastLevel(r2.cache, r2.item, PathBucket(f, 3), 1, wins)
<1>1. cache' = r3.cache
  BY DEF insert_aging_by_time
<1>2. r0 = d_left_level_by_time(cache, Packet(f), PathBucket(f, 0))
  OBVIOUS
<1>3. LevelOutcome(cache, Packet(f), PathBucket(f, 0), r0)
  BY DLeftOutcome
<1> HIDE DEF r0
<1>4. /\ ~r0.done => r1 = d_left_level_by_time(r0.cache, r0.item, PathBucket(f, 1))
      /\ IF r0.done THEN r1 = r0 ELSE LevelOutcome(r0.cache, r0.item, PathBucket(f, 1), r1)
  BY DLeftOutcome
<1> HIDE DEF r1
<1>5. wins \in BOOLEAN
  BY DEF comp_item_by_time
<1>6. ~r2.done => r3 = LastLevel(r2.cache, r2.item, PathBucket(f, 3), 1,
                                 comp_item_by_time(r2.item, r2.cache[PathBucket(f, 3)]))
  OBVIOUS
<1> HIDE DEF wins
<1>7. KVLevels(f, r0, r1, r2, r3)
  BY <1>3, <1>4, <1>5 DEF KVLevels
<1> HIDE DEF r2, r3
<1>8. QED
  BY <1>1, <1>2, <1>4, <1>6, <1>7

------------------------------------------------------------------------------
(* The accounts *)

\* A d-left level keeps the accounts.
LEMMA LevelAccounted ==
  ASSUME NEW c, Sound(c), NEW f \in Flow, NEW l \in Level,
         NEW it \in Carried, it.count > 0, OnBranch(it, f, l),
         NEW r, LevelOutcome(c, it, PathBucket(f, l), r)
  PROVE  Accounted(c, it, r, f, l)
<1> DEFINE at == PathBucket(f, l)
<1>0. it.count \in Nat /\ it.count <= it.count /\ 1 <= it.count
  BY DEF Carried
<1>1. CASE Vacant(c, at) /\ r = Placed(c, it, at)
  BY <1>1, PlacedAccounted
<1>2. CASE Holds(c, at, it) /\ \E n \in {1, it.count} : r = Merged(c, it, at, n)
  BY <1>0, <1>2, MergedAccounted
<1>3. CASE ~Vacant(c, at) /\ r = Exchanged(c, it, at, FALSE)
  BY <1>3, ExchangedAccounted
<1>4. CASE r = Passed(c, it, FALSE)
  BY <1>4, PassedAccounted
<1>5. QED
  BY <1>1, <1>2, <1>3, <1>4 DEF LevelOutcome

\* Each of the four levels keeps the accounts.
LEMMA KVLevelsAccounted ==
  ASSUME ItemsInv, NEW f \in Flow, NEW r0, NEW r1, NEW r2, NEW r3,
         KVLevels(f, r0, r1, r2, r3)
  PROVE  /\ Accounted(cache, Packet(f), r0, f, 0)
         /\ r0.done => r1 = r0
         /\ ~r0.done => Accounted(r0.cache, r0.item, r1, f, 1)
         /\ r1.done => r2 = r1
         /\ ~r1.done => Accounted(r1.cache, r1.item, r2, f, 2)
         /\ r2.done => r3 = r2
         /\ ~r2.done => Accounted(r2.cache, r2.item, r3, f, 3)
         /\ Accounted(cache, Packet(f), r1, f, 1)
         /\ Accounted(cache, Packet(f), r2, f, 2)
         /\ Accounted(cache, Packet(f), r3, f, 3)
<1>1. Accounted(cache, Packet(f), r0, f, 0)
  BY Start, LevelAccounted DEF Level, KVLevels
<1>2. ~r0.done => Accounted(r0.cache, r0.item, r1, f, 1)
  BY <1>1, Handed, LevelAccounted DEF Level, KVLevels
<1>3. r0.done => r1 = r0
  BY DEF KVLevels
<1>4. Accounted(cache, Packet(f), r1, f, 0 + 1)
  BY <1>1, <1>2, <1>3, AccountsCompose
<1>5. ~r1.done => Accounted(r1.cache, r1.item, r2, f, 2)
  BY <1>4, Handed, MustKickAccounted DEF KVLevels
<1>6. r1.done => r2 = r1
  BY DEF KVLevels
<1>7. Accounted(cache, Packet(f), r2, f, 1 + 1)
  BY <1>4, <1>5, <1>6, AccountsCompose
<1>8. ~r2.done => Accounted(r2.cache, r2.item, r3, f, 3)
  <2> SUFFICES ASSUME ~r2.done PROVE Accounted(r2.cache, r2.item, r3, f, 3)
    OBVIOUS
  <2>1. PICK n \in {1, r2.item.count}, wins \in BOOLEAN :
          r3 = LastLevel(r2.cache, r2.item, PathBucket(f, 3), n, wins)
    BY DEF KVLevels
  <2>2. /\ Sound(r2.cache) /\ r2.item \in Carried /\ r2.item.count > 0
        /\ OnBranch(r2.item, f, 3) /\ n \in Nat /\ n <= r2.item.count
    BY <1>7, Handed
  <2>3. QED
    BY <2>1, <2>2, LastLevelAccounted
<1>9. r2.done => r3 = r2
  BY DEF KVLevels
<1>10. Accounted(cache, Packet(f), r3, f, 2 + 1)
  BY <1>7, <1>8, <1>9, AccountsCompose
<1>11. QED
  BY <1>1, <1>2, <1>3, <1>4, <1>5, <1>6, <1>7, <1>8, <1>9, <1>10

\* So an insertion costs at most one flow some of its count.
LEMMA LevelsOneLoser ==
  ASSUME ItemsInv, NEW f \in Flow, NEW r0, NEW r1, NEW r2, NEW r3,
         KVLevels(f, r0, r1, r2, r3), cache' = r3.cache
  PROVE  Sound(cache') /\ OneLoser(cache, cache', f)
BY KVLevelsAccounted, CascadeOneLoser

------------------------------------------------------------------------------
(* The theorems *)

\* A step of any task is one packet that goes through four levels.
LEMMA KVStepLevels ==
  ASSUME KVNext
  PROVE  \E f \in Flow : \E r0, r1, r2, r3 :
           Arrive(f) /\ KVLevels(f, r0, r1, r2, r3) /\ cache' = r3.cache
<1>1. PICK f \in Flow : InsertPersistent(f) \/ InsertRecent(f) \/ InsertFlowlet(f)
  BY DEF KVNext
<1>2. CASE InsertPersistent(f)
  BY <1>2, PersistentHasLevels DEF InsertPersistent
<1>3. CASE InsertRecent(f)
  <2>1. \E r0, r1, r2, r3 : KVLevels(f, r0, r1, r2, r3) /\ cache' = r3.cache
    BY <1>3, RecentHasLevels DEF InsertRecent
  <2>2. QED
    BY <1>3, <2>1 DEF InsertRecent
<1>4. CASE InsertFlowlet(f)
  <2>1. \E r0, r1, r2, r3 : KVLevels(f, r0, r1, r2, r3) /\ cache' = r3.cache
    BY <1>4, FlowletHasLevels DEF InsertFlowlet
  <2>2. QED
    BY <1>4, <2>1 DEF InsertFlowlet
<1>5. QED
  BY <1>1, <1>2, <1>3, <1>4

\* It costs at most one flow.
LEMMA KVStepOneLoser ==
  ASSUME ItemsInv, KVNext
  PROVE  \E f \in Flow : Arrive(f) /\ Sound(cache') /\ OneLoser(cache, cache', f)
BY KVStepLevels, LevelsOneLoser

\* The strengthened invariant of the insertions holds for all three tasks.
THEOREM KVInvariant == KVSpec => []ItemsInv
<1>1. KVInit => ItemsInv
  BY InitItemsInv DEF KVInit
<1>2. ItemsInv /\ [KVNext]_kvVars => ItemsInv'
  <2> SUFFICES ASSUME ItemsInv, [KVNext]_kvVars PROVE ItemsInv'
    OBVIOUS
  <2>1. CASE KVNext
    BY <2>1, KVStepOneLoser, StepItemsInv
  <2>2. CASE UNCHANGED kvVars
    BY <2>2, StutterItemsInv DEF kvVars
  <2>3. QED
    BY <2>1, <2>2
<1>3. QED
  BY <1>1, <1>2, PTL DEF KVSpec

\* Every bucket, stamp and count stays of its type (AHeap.h:267-373).
THEOREM KVTypeCorrect == KVSpec => []TypeOK
BY KVInvariant, PTL DEF ItemsInv

\* Kicks driven by stamps never move an item off its path (AHeap.h:376-388).
THEOREM KVOnPath == KVSpec => []OnPath
BY KVInvariant, PTL DEF ItemsInv

\* Nor does any of the three routines record more packets than a flow sent.
THEOREM KVNeverOverestimates == KVSpec => []NeverOverestimates
BY KVInvariant, PTL DEF ItemsInv

\* The three routines implement the abstract counter (AHeap.h:267-373).
THEOREM KVArrayImplementsCounter == KVSpec => KVImplementsCounter
<1>1. KVInit => Counter!Init
  BY InitImplementsCounter DEF KVInit
<1>2. ItemsInv /\ [KVNext]_kvVars
        => [Counter!Next]_<<truth, [f \in Flow |-> Recorded(cache, f)]>>
  <2> SUFFICES ASSUME ItemsInv, [KVNext]_kvVars
               PROVE  [Counter!Next]_<<truth, [f \in Flow |-> Recorded(cache, f)]>>
    OBVIOUS
  <2>1. CASE KVNext
    <3>1. PICK f \in Flow : Arrive(f) /\ Sound(cache') /\ OneLoser(cache, cache', f)
      BY <2>1, KVStepOneLoser
    <3>2. Counter!Observe(f)
      BY <3>1, StepImplementsCounter
    <3>3. QED
      BY <3>2 DEF Counter!Next
  <2>2. CASE UNCHANGED kvVars
    BY <2>2 DEF kvVars, vars, Recorded, Share
  <2>3. QED
    BY <2>1, <2>2
<1>3. QED
  BY <1>1, <1>2, KVInvariant, PTL DEF KVSpec, KVImplementsCounter, ImplementsCounter, Counter!Spec
------------------------------------------------------------------------------
(* Stamps of the flowlet task *)

\* The flowlet task never writes an empty item: a vacant bucket was never
\* filled, and has no stamp.
Blank == task = "flowlet" => \A b \in Bucket : cache[b].count = 0 => cache[b].time = 0

\* A level that compares stamps writes into its own bucket, fills it or leaves
\* it, and does not let its stamp go back.
LEMMA DLeftByTimeForward ==
  ASSUME NEW c, Sound(c), NEW f \in Flow, NEW l \in Level,
         NEW it \in Carried, it.count > 0,
         NEW r, r = d_left_level_by_time(c, it, PathBucket(f, l)),
         NEW at, at = PathBucket(f, l)
  PROVE  /\ Writes(c, r, f, l)
         /\ r.cache[at] = c[at] \/ r.cache[at].count # 0
         /\ (c[at].count = 0 => c[at].time = 0) => r.cache[at].time >= c[at].time
<1>1. /\ at \in Bucket /\ c \in [Bucket -> Item] /\ c[at].count \in Nat /\ c[at].time \in Nat
      /\ it.count \in Nat /\ it.count > 0 /\ it.time \in Nat
  BY PathInArray DEF Sound, Typed, Item, Carried
<1>2. CASE Vacant(c, at)
  <2>1. r.cache = [c EXCEPT ![at] = it] /\ c[at].count = 0
    BY <1>2 DEF d_left_level_by_time, Placed, Outcome, Vacant
  <2>2. QED
    BY <1>1, <2>1 DEF Writes
<1>3. CASE Holds(c, at, it)
  <2>1. r.cache = [c EXCEPT ![at] = incrementItem(it, c[at], 1)]
    BY <1>1, <1>3 DEF d_left_level_by_time, Merged, Outcome, Holds
  <2>2. /\ incrementItem(it, c[at], 1).count # 0
        /\ incrementItem(it, c[at], 1).time >= c[at].time
    BY <1>1 DEF incrementItem, Newer
  <2>3. QED
    BY <1>1, <2>1, <2>2 DEF Writes
<1>4. CASE ~Vacant(c, at) /\ ~Holds(c, at, it) /\ comp_item_by_time(it, c[at])
  <2>1. r.cache = [c EXCEPT ![at] = it] /\ it.time > c[at].time
    BY <1>4 DEF d_left_level_by_time, Exchanged, Outcome, comp_item_by_time
  <2>2. QED
    BY <1>1, <2>1 DEF Writes
<1>5. CASE ~Vacant(c, at) /\ ~Holds(c, at, it) /\ ~comp_item_by_time(it, c[at])
  <2>1. r.cache = c
    BY <1>5 DEF d_left_level_by_time, Passed, Outcome
  <2>2. QED
    BY <1>1, <2>1 DEF Writes
<1>6. QED
  BY <1>2, <1>3, <1>4, <1>5

\* The level that always kicks fills its bucket, whatever the stamps.
LEMMA MustKickFills ==
  ASSUME NEW c, Sound(c), NEW f \in Flow, NEW it \in Carried, it.count > 0,
         NEW r, r = must_kick_level(c, it, PathBucket(f, 2)),
         NEW at, at = PathBucket(f, 2)
  PROVE  Writes(c, r, f, 2) /\ r.cache[at].count # 0
<1>1. /\ at \in Bucket /\ c \in [Bucket -> Item] /\ c[at].count \in Nat
      /\ it.count \in Nat /\ it.count > 0
  BY PathInArray DEF Sound, Typed, Item, Carried, Level
<1>2. \/ r.cache = [c EXCEPT ![at] = it]
      \/ r.cache = [c EXCEPT ![at] = incrementItem(it, c[at], 1)]
  BY <1>1 DEF must_kick_level, Placed, Merged, Exchanged, Outcome
<1>3. incrementItem(it, c[at], 1).count # 0
  BY <1>1 DEF incrementItem
<1>4. r.cache[at].count # 0
  <2>1. r.cache[at] = it \/ r.cache[at] = incrementItem(it, c[at], 1)
    BY <1>1, <1>2
  <2>2. QED
    BY <1>1, <1>3, <2>1
<1>5. \A b \in Bucket : b # at => r.cache[b] = c[b]
  BY <1>1, <1>2
<1>6. QED
  BY <1>4, <1>5 DEF Writes

\* The last level fills its bucket or leaves it, and the later stamp wins.
LEMMA LastByTimeForward ==
  ASSUME NEW c, Sound(c), NEW f \in Flow, NEW it \in Carried, it.count > 0,
         NEW at, at = PathBucket(f, 3),
         NEW r, r = LastLevel(c, it, at, 1, comp_item_by_time(it, c[at]))
  PROVE  /\ Writes(c, r, f, 3)
         /\ r.cache[at] = c[at] \/ r.cache[at].count # 0
         /\ (c[at].count = 0 => c[at].time = 0) => r.cache[at].time >= c[at].time
<1>1. /\ at \in Bucket /\ c \in [Bucket -> Item] /\ c[at].count \in Nat /\ c[at].time \in Nat
      /\ it.count \in Nat /\ it.count > 0 /\ it.time \in Nat
  BY PathInArray DEF Sound, Typed, Item, Carried, Level
<1>2. CASE Vacant(c, at)
  <2>1. r.cache = [c EXCEPT ![at] = it] /\ c[at].count = 0
    BY <1>2 DEF LastLevel, Placed, Outcome, Vacant
  <2>2. r.cache[at] = it
    BY <1>1, <2>1
  <2>3. \A b \in Bucket : b # at => r.cache[b] = c[b]
    BY <1>1, <2>1
  <2>4. QED
    BY <1>1, <2>1, <2>2, <2>3 DEF Writes
<1>3. CASE Holds(c, at, it)
  <2>1. r.cache = [c EXCEPT ![at] = incrementItem(it, c[at], 1)]
    BY <1>1, <1>3 DEF LastLevel, Merged, Outcome, Holds
  <2>2. /\ incrementItem(it, c[at], 1).count # 0
        /\ incrementItem(it, c[at], 1).time >= c[at].time
    BY <1>1 DEF incrementItem, Newer
  <2>3. QED
    BY <1>1, <2>1, <2>2 DEF Writes
<1>4. CASE ~Vacant(c, at) /\ ~Holds(c, at, it) /\ comp_item_by_time(it, c[at])
  <2>1. r.cache = [c EXCEPT ![at] = it]
    BY <1>4 DEF LastLevel, Exchanged, Outcome
  <2>2. it.time > c[at].time
    BY <1>4 DEF comp_item_by_time
  <2>3. r.cache[at] = it
    BY <1>1, <2>1
  <2>4. \A b \in Bucket : b # at => r.cache[b] = c[b]
    BY <1>1, <2>1
  <2>5. QED
    BY <1>1, <2>2, <2>3, <2>4 DEF Writes
<1>5. CASE ~Vacant(c, at) /\ ~Holds(c, at, it) /\ ~comp_item_by_time(it, c[at])
  <2>1. r.cache = c
    BY <1>5 DEF LastLevel, Passed, Outcome
  <2>2. QED
    BY <1>1, <2>1 DEF Writes
<1>6. QED
  BY <1>2, <1>3, <1>4, <1>5

\* What one flowlet packet does to one bucket.
Forward(b) ==
  /\ cache'[b].count = 0 => cache'[b].time = 0
  /\ b < level_start[2] \/ b >= level_start[3] => cache'[b].time >= cache[b].time

\* Where an insertion writes once, a bucket of a level that compares stamps does
\* not go back, if none of the three such levels lets it.
LEMMA FlowletForward ==
  ASSUME ItemsInv, NEW f \in Flow, insert_aging_by_time(f),
         \A b \in Bucket : cache[b].count = 0 => cache[b].time = 0,
         NEW b \in Bucket
  PROVE  Forward(b)
<1>1. PICK r0, r1, r2, r3 :
           /\ r0 = d_left_level_by_time(cache, Packet(f), PathBucket(f, 0))
           /\ ~r0.done => r1 = d_left_level_by_time(r0.cache, r0.item, PathBucket(f, 1))
           /\ ~r2.done => r3 = LastLevel(r2.cache, r2.item, PathBucket(f, 3), 1,
                                         comp_item_by_time(r2.item, r2.cache[PathBucket(f, 3)]))
           /\ KVLevels(f, r0, r1, r2, r3) /\ cache' = r3.cache
  BY FlowletHasLevels
<1>2. Sound(cache) /\ Packet(f) \in Carried /\ Packet(f).count > 0
  BY Start
<1>3. /\ Accounted(cache, Packet(f), r0, f, 0) /\ Accounted(cache, Packet(f), r1, f, 1)
      /\ Accounted(cache, Packet(f), r2, f, 2)
  BY <1>1, KVLevelsAccounted
<1>4. /\ ~r0.done => Sound(r0.cache) /\ r0.item \in Carried /\ r0.item.count > 0
      /\ ~r1.done => Sound(r1.cache) /\ r1.item \in Carried /\ r1.item.count > 0
      /\ ~r2.done => Sound(r2.cache) /\ r2.item \in Carried /\ r2.item.count > 0
  BY <1>3 DEF Accounted
<1>5. /\ Writes(cache, r0, f, 0)
      /\ LET at == PathBucket(f, 0) IN
           /\ r0.cache[at] = cache[at] \/ r0.cache[at].count # 0
           /\ (cache[at].count = 0 => cache[at].time = 0) => r0.cache[at].time >= cache[at].time
  BY <1>1, <1>2, DLeftByTimeForward DEF Level
<1>6. IF r0.done THEN r1 = r0 ELSE
      /\ Writes(r0.cache, r1, f, 1)
      /\ LET at == PathBucket(f, 1) IN
           /\ r1.cache[at] = r0.cache[at] \/ r1.cache[at].count # 0
           /\ (r0.cache[at].count = 0 => r0.cache[at].time = 0)
                => r1.cache[at].time >= r0.cache[at].time
  BY <1>1, <1>4, DLeftByTimeForward DEF Level, KVLevels
<1>7. IF r1.done THEN r2 = r1
       ELSE Writes(r1.cache, r2, f, 2) /\ r2.cache[PathBucket(f, 2)].count # 0
  BY <1>1, <1>4, MustKickFills DEF KVLevels
<1>8. IF r2.done THEN r3 = r2 ELSE
       /\ Writes(r2.cache, r3, f, 3)
       /\ LET at == PathBucket(f, 3) IN
            /\ r3.cache[at] = r2.cache[at] \/ r3.cache[at].count # 0
            /\ (r2.cache[at].count = 0 => r2.cache[at].time = 0)
                 => r3.cache[at].time >= r2.cache[at].time
  BY <1>1, <1>4, LastByTimeForward DEF KVLevels
<1>9. Written(f, r0, r1, r2, r3)
  BY <1>5, <1>6, <1>7, <1>8 DEF Written
<1>10. Once(b, f, r0, r1, r2, r3)
  BY <1>9, CascadeWritesOnce
<1>11. cache[b].time \in Nat /\ (cache[b].count = 0 => cache[b].time = 0)
  BY <1>2 DEF Sound, Typed, Item
<1>12. ~(PathBucket(f, 2) < level_start[2]) /\ ~(PathBucket(f, 2) >= level_start[3])
  <2>1. level_start[2] = MinBucketNum * 12 /\ level_start[3] = MinBucketNum * 14
    BY DEF level_start, Level
  <2>2. PathBucket(f, 2) \in (12 * MinBucketNum)..(14 * MinBucketNum - 1)
    BY BucketBounds
  <2>3. QED
    BY <2>1, <2>2, SizeAssumption
<1>13. CASE r3.cache[b] = cache[b]
  BY <1>1, <1>11, <1>13 DEF Forward
<1>14. CASE b = PathBucket(f, 0) /\ r3.cache[b] = r0.cache[b]
  BY <1>1, <1>5, <1>11, <1>14 DEF Forward
<1>15. CASE ~r0.done /\ b = PathBucket(f, 1) /\ r0.cache[b] = cache[b] /\ r3.cache[b] = r1.cache[b]
  BY <1>1, <1>6, <1>11, <1>15 DEF Forward
<1>16. CASE ~r1.done /\ b = PathBucket(f, 2) /\ r1.cache[b] = cache[b] /\ r3.cache[b] = r2.cache[b]
  BY <1>1, <1>7, <1>12, <1>16 DEF Forward
<1>17. CASE ~r2.done /\ b = PathBucket(f, 3) /\ r2.cache[b] = cache[b]
  BY <1>1, <1>8, <1>11, <1>17 DEF Forward
<1>18. QED
  BY <1>10, <1>13, <1>14, <1>15, <1>16, <1>17 DEF Once

\* In the flowlet task no stamp goes back in a level that compares them, in
\* whatever order items are carried down (AHeap.h:336-373).
THEOREM KVStampsNeverGoBack == KVSpec => StampsNeverGoBack
<1> DEFINE Step == task = "flowlet" =>
       \A b \in Bucket :
         b < level_start[2] \/ b >= level_start[3] => cache'[b].time >= cache[b].time
<1>1. KVInit => Blank
  BY DEF KVInit, Init, Blank, Empty
<1>2. ItemsInv /\ Blank /\ [KVNext]_kvVars => Blank' /\ Step
  <2> SUFFICES ASSUME ItemsInv, Blank, [KVNext]_kvVars PROVE Blank' /\ Step
    OBVIOUS
  <2>1. CASE KVNext
    <3>1. PICK f \in Flow : InsertPersistent(f) \/ InsertRecent(f) \/ InsertFlowlet(f)
      BY <2>1 DEF KVNext
    <3>2. CASE InsertPersistent(f) \/ InsertRecent(f)
      BY <3>2 DEF InsertPersistent, InsertRecent, Blank
    <3>3. CASE InsertFlowlet(f)
      <4>1. \A b \in Bucket : Forward(b)
        BY <3>3, FlowletForward DEF InsertFlowlet, Blank
      <4>2. QED
        BY <4>1 DEF Forward, Blank
    <3>4. QED
      BY <3>1, <3>2, <3>3
  <2>2. CASE UNCHANGED kvVars
    <3>1. \A b \in Bucket : cache[b].time \in Nat
      BY DEF ItemsInv, TypeOK, Typed, Item
    <3>2. QED
      BY <2>2, <3>1 DEF kvVars, vars, Blank
  <2>3. QED
    BY <2>1, <2>2
<1>3. QED
  BY <1>1, <1>2, KVInvariant, PTL DEF KVSpec, StampsNeverGoBack
------------------------------------------------------------------------------
(* What stamps say *)

\* A d-left level keeps the stamps.
LEMMA LevelKeepsStamps ==
  ASSUME NEW c, Typed(c), NEW at \in Bucket, NEW it \in Carried,
         NEW ls \in [Flow -> Int], NEW r, LevelOutcome(c, it, at, r)
  PROVE  KeepsStamps(c, it, r, ls)
<1>0. it.count \in Nat
  BY DEF Carried
<1>1. CASE Vacant(c, at) /\ r = Placed(c, it, at)
  BY <1>1, PlacedKeepsStamps
<1>2. CASE Holds(c, at, it) /\ \E n \in {1, it.count} : r = Merged(c, it, at, n)
  BY <1>0, <1>2, MergedKeepsStamps
<1>3. CASE ~Vacant(c, at) /\ r = Exchanged(c, it, at, FALSE)
  BY <1>3, ExchangedKeepsStamps
<1>4. CASE r = Passed(c, it, FALSE)
  BY <1>4, PassedKeepsStamps
<1>5. QED
  BY <1>1, <1>2, <1>3, <1>4 DEF LevelOutcome

\* And so does an insertion.
LEMMA LevelsKeepStamps ==
  ASSUME ItemsInv, StampsInv, NEW f \in Flow, Arrive(f),
         NEW r0, NEW r1, NEW r2, NEW r3, KVLevels(f, r0, r1, r2, r3), cache' = r3.cache
  PROVE  StampsInv'
<1>1. /\ Accounted(cache, Packet(f), r0, f, 0) /\ Accounted(cache, Packet(f), r1, f, 1)
      /\ Accounted(cache, Packet(f), r2, f, 2) /\ Accounted(cache, Packet(f), r3, f, 3)
  BY KVLevelsAccounted
<1>2. /\ Typed(cache) /\ Packet(f) \in Carried
      /\ Typed(r0.cache) /\ r0.item \in Carried
      /\ Typed(r1.cache) /\ r1.item \in Carried
      /\ Typed(r2.cache) /\ r2.item \in Carried /\ r2.item.count \in Nat
  BY <1>1, Start DEF Accounted, Sound, Carried
<1>3. /\ PathBucket(f, 0) \in Bucket /\ PathBucket(f, 1) \in Bucket
      /\ PathBucket(f, 2) \in Bucket /\ PathBucket(f, 3) \in Bucket
  BY PathInArray DEF Level
<1>4. lastSeen' \in [Flow -> Int]
  BY DEF Arrive, ItemsInv, TypeOK
<1>5. KeepsStamps(cache, Packet(f), r0, lastSeen')
  BY <1>2, <1>3, <1>4, LevelKeepsStamps DEF KVLevels
<1>6. ~r0.done => KeepsStamps(r0.cache, r0.item, r1, lastSeen')
  BY <1>2, <1>3, <1>4, LevelKeepsStamps DEF KVLevels
<1>7. ~r1.done => KeepsStamps(r1.cache, r1.item, r2, lastSeen')
  BY <1>2, <1>3, <1>4, UpperLevelsKeepStamps DEF KVLevels
<1>8. ~r2.done => KeepsStamps(r2.cache, r2.item, r3, lastSeen')
  <2> SUFFICES ASSUME ~r2.done PROVE KeepsStamps(r2.cache, r2.item, r3, lastSeen')
    OBVIOUS
  <2>1. PICK n \in {1, r2.item.count}, wins \in BOOLEAN :
          r3 = LastLevel(r2.cache, r2.item, PathBucket(f, 3), n, wins)
    BY DEF KVLevels
  <2>2. n \in Nat
    BY <1>2
  <2>3. QED
    BY <1>2, <1>3, <1>4, <2>1, <2>2, UpperLevelsKeepStamps
<1>9. StampedLevels(f, lastSeen', r0, r1, r2, r3)
  BY <1>5, <1>6, <1>7, <1>8 DEF StampedLevels, KVLevels
<1>10. QED
  BY <1>1, <1>9, CascadeKeepsStamps, StepStampsInv

\* The stamps stay truthful, whichever routine runs.
LEMMA KVStampsInvariant == KVSpec => []StampsInv
<1>1. KVInit => StampsInv
  BY InitStampsInv DEF KVInit
<1>2. ItemsInv /\ StampsInv /\ [KVNext]_kvVars => StampsInv'
  <2> SUFFICES ASSUME ItemsInv, StampsInv, [KVNext]_kvVars PROVE StampsInv'
    OBVIOUS
  <2>1. CASE KVNext
    BY <2>1, KVStepLevels, LevelsKeepStamps
  <2>2. CASE UNCHANGED kvVars
    BY <2>2, StutterStampsInv DEF kvVars
  <2>3. QED
    BY <2>1, <2>2
<1>3. QED
  BY <1>1, <1>2, KVInvariant, PTL DEF KVSpec

\* No resident is stamped later than its flow, and the maximum rfTest takes over
\* the items of a flow that lost nothing is exact (AHeap.h:207-373,
\* AHeap_KVTasks.h:536-538).
THEOREM KVStampsTruthful == KVSpec => []StampsTruthful
BY KVStampsInvariant, StampsInvTruthful, PTL

------------------------------------------------------------------------------
(* The latest packet *)

\* A d-left level stores the packet, or hands it on as it is; the level that
\* always kicks stores it.
LEMMA KVPacketStoredOrPassed ==
  ASSUME ItemsInv, StampsInv, NEW f \in Flow, NEW at \in Bucket
  PROVE  /\ \A r : LevelOutcome(cache, Packet(f), at, r) =>
              \/ Newest(r.cache, at, f)
              \/ ~r.done /\ r.cache = cache /\ r.item = Packet(f)
         /\ Newest(must_kick_level(cache, Packet(f), at).cache, at, f)
<1>1. Packet(f).count = 1
  BY DEF Packet
<1>2. ASSUME NEW r, LevelOutcome(cache, Packet(f), at, r)
      PROVE  \/ Newest(r.cache, at, f)
             \/ ~r.done /\ r.cache = cache /\ r.item = Packet(f)
  <2>1. CASE r = Passed(cache, Packet(f), FALSE)
    BY <2>1 DEF Passed, Outcome
  <2>2. CASE r # Passed(cache, Packet(f), FALSE)
    BY <1>1, <1>2, <2>2, StoredIsNewest DEF LevelOutcome
  <2>3. QED
    BY <2>1, <2>2
<1>3. Newest(must_kick_level(cache, Packet(f), at).cache, at, f)
  BY StoredIsNewest DEF must_kick_level, Holds
<1>4. QED
  BY <1>2, <1>3

\* The levels do what levels may do.
LEMMA KVLevelsCascade ==
  ASSUME ItemsInv, NEW f \in Flow, NEW r0, NEW r1, NEW r2, NEW r3,
         KVLevels(f, r0, r1, r2, r3)
  PROVE  Cascade(f, r0, r1, r2, r3)
<1>1. \A c, at, r : \A it \in Carried : LevelOutcome(c, it, at, r) => Possible(c, it, at, r)
  <2> SUFFICES ASSUME NEW c, NEW at, NEW r, NEW it \in Carried, LevelOutcome(c, it, at, r)
               PROVE  Possible(c, it, at, r)
    OBVIOUS
  <2>1. 1 \in Nat /\ it.count \in Nat /\ FALSE \in BOOLEAN
    BY DEF Carried
  <2>2. QED
    BY <2>1 DEF LevelOutcome, Possible
<1>2. /\ Packet(f) \in Carried
      /\ Accounted(cache, Packet(f), r0, f, 0) /\ Accounted(cache, Packet(f), r1, f, 1)
      /\ Accounted(cache, Packet(f), r2, f, 2)
  BY Start, KVLevelsAccounted
<1>3. /\ r0.item \in Carried /\ r1.item \in Carried
      /\ r2.item \in Carried /\ r2.item.count \in Nat
  BY <1>2 DEF Accounted, Carried
<1>4. ~r1.done => Possible(r1.cache, r1.item, PathBucket(f, 2), r2)
  <2>1. 1 \in Nat /\ TRUE \in BOOLEAN
    OBVIOUS
  <2>2. QED
    BY <2>1, UpperLevelsPossible DEF KVLevels
<1>5. ~r2.done => Possible(r2.cache, r2.item, PathBucket(f, 3), r3)
  <2> SUFFICES ASSUME ~r2.done PROVE Possible(r2.cache, r2.item, PathBucket(f, 3), r3)
    OBVIOUS
  <2>1. PICK n \in {1, r2.item.count}, wins \in BOOLEAN :
          r3 = LastLevel(r2.cache, r2.item, PathBucket(f, 3), n, wins)
    BY DEF KVLevels
  <2>2. n \in Nat
    BY <1>3
  <2>3. QED
    BY <2>1, <2>2, UpperLevelsPossible
<1>6. QED
  BY <1>1, <1>2, <1>3, <1>4, <1>5 DEF KVLevels, Cascade

\* Every level writes into its own bucket.
LEMMA LevelsWrite ==
  ASSUME ItemsInv, NEW f \in Flow, NEW r0, NEW r1, NEW r2, NEW r3,
         KVLevels(f, r0, r1, r2, r3)
  PROVE  Written(f, r0, r1, r2, r3)
BY KVLevelsCascade, KVLevelsAccounted, CascadeWrites

\* After an insertion the packet is in one of the first three buckets of its
\* path: no later level touches it again.
LEMMA KVLevelsShowPacket ==
  ASSUME ItemsInv, StampsInv, NEW f \in Flow, NEW r0, NEW r1, NEW r2, NEW r3,
         KVLevels(f, r0, r1, r2, r3)
  PROVE  \E l \in Level : Newest(r3.cache, PathBucket(f, l), f)
<1>1. /\ PathBucket(f, 0) \in Bucket /\ PathBucket(f, 1) \in Bucket
      /\ PathBucket(f, 2) \in Bucket /\ 0 \in Level /\ 1 \in Level /\ 2 \in Level
  BY PathInArray DEF Level
<1>2. /\ r3.cache[PathBucket(f, 0)] = r0.cache[PathBucket(f, 0)]
      /\ r3.cache[PathBucket(f, 1)] = r1.cache[PathBucket(f, 1)]
      /\ r3.cache[PathBucket(f, 2)] = r2.cache[PathBucket(f, 2)]
  BY LevelsWrite, LaterLevelsElsewhere
<1>3. CASE Newest(r0.cache, PathBucket(f, 0), f)
  BY <1>1, <1>2, <1>3 DEF Newest
<1>4. CASE ~Newest(r0.cache, PathBucket(f, 0), f)
  <2>1. ~r0.done /\ r0.cache = cache /\ r0.item = Packet(f)
    BY <1>1, <1>4, KVPacketStoredOrPassed DEF KVLevels
  <2>2. LevelOutcome(cache, Packet(f), PathBucket(f, 1), r1)
    BY <2>1 DEF KVLevels
  <2>3. CASE Newest(r1.cache, PathBucket(f, 1), f)
    BY <1>1, <1>2, <2>3 DEF Newest
  <2>4. CASE ~Newest(r1.cache, PathBucket(f, 1), f)
    <3>1. ~r1.done /\ r1.cache = cache /\ r1.item = Packet(f)
      BY <1>1, <2>2, <2>4, KVPacketStoredOrPassed
    <3>2. r2 = must_kick_level(cache, Packet(f), PathBucket(f, 2))
      BY <3>1 DEF KVLevels
    <3>3. Newest(r2.cache, PathBucket(f, 2), f)
      BY <1>1, <3>2, KVPacketStoredOrPassed
    <3>4. QED
      BY <1>1, <1>2, <3>3 DEF Newest
  <2>5. QED
    BY <2>3, <2>4
<1>5. QED
  BY <1>3, <1>4

\* The flow of the latest packet is in the array with that packet's stamp,
\* whichever of the three routines runs (AHeap.h:267-373).
THEOREM KVLatestVisible == KVSpec => []LatestVisible
<1>1. KVInit => LatestVisible
  BY DEF KVInit, Init, LatestVisible
<1>2. ItemsInv /\ StampsInv /\ LatestVisible /\ [KVNext]_kvVars => LatestVisible'
  <2> SUFFICES ASSUME ItemsInv, StampsInv, LatestVisible, [KVNext]_kvVars
               PROVE  LatestVisible'
    OBVIOUS
  <2>1. CASE KVNext
    <3>1. PICK f \in Flow : \E r0, r1, r2, r3 :
             Arrive(f) /\ KVLevels(f, r0, r1, r2, r3) /\ cache' = r3.cache
      BY <2>1, KVStepLevels
    <3>2. PICK l \in Level : Newest(cache', PathBucket(f, l), f)
      BY <3>1, KVLevelsShowPacket
    <3>3. /\ now \in Nat /\ now' = now + 1
          /\ lastSeen \in [Flow -> Int] /\ lastSeen' = [lastSeen EXCEPT ![f] = now]
          /\ \A g \in Flow : lastSeen[g] < now
      BY <3>1, WordAssumption DEF Arrive, ItemsInv, TypeOK, StampsInv
    <3>4. ASSUME NEW g \in Flow, lastSeen'[g] = now' - 1
          PROVE  \E j \in Level : /\ cache'[PathBucket(g, j)].key = g
                                  /\ cache'[PathBucket(g, j)].time = now' - 1
      <4>1. g = f /\ now' - 1 = now
        BY <3>3, <3>4
      <4>2. QED
        BY <3>2, <4>1 DEF Newest
    <3>5. QED
      BY <3>4 DEF LatestVisible
  <2>2. CASE UNCHANGED kvVars
    BY <2>2 DEF kvVars, vars, LatestVisible
  <2>3. QED
    BY <2>1, <2>2
<1>3. QED
  BY <1>1, <1>2, KVInvariant, KVStampsInvariant, PTL DEF KVSpec

\* The recent and the flowlet task always give the leaf to the packet: whoever
\* is in it is older.
LEMMA LeafTaken ==
  ASSUME ItemsInv, StampsInv, KVNext, task \in {"recent", "flowlet"}
  PROVE  /\ task' = task
         /\ \E f \in Flow : \E r0, r1, r2, r3 :
              /\ Arrive(f) /\ KVLevels(f, r0, r1, r2, r3) /\ cache' = r3.cache
              /\ Newest(cache', PathBucket(f, 0), f)
<1>1. PICK f \in Flow : InsertRecent(f) \/ InsertFlowlet(f)
  BY DEF KVNext, InsertPersistent
<1> DEFINE at == PathBucket(f, 0)
<1>2. at \in Bucket
  BY PathInArray DEF Level
<1>3. ~Vacant(cache, at) =>
        /\ cache[at].time \in Nat /\ now \in Nat /\ Packet(f).time = now
        /\ cache[at].time < now
  <2>1. SUFFICES ASSUME ~Vacant(cache, at)
                 PROVE  /\ cache[at].time \in Nat /\ now \in Nat /\ Packet(f).time = now
                        /\ cache[at].time < now
    OBVIOUS
  <2>2. cache[at].key \in Flow /\ cache[at].time \in Nat /\ now \in Nat
    BY <1>2, <2>1, WordAssumption DEF ItemsInv, TypeOK, Typed, Item, Vacant
  <2>3. /\ cache[at].time <= lastSeen[cache[at].key] /\ lastSeen[cache[at].key] < now
        /\ lastSeen[cache[at].key] \in Int
    BY <1>2, <2>2 DEF StampsInv, ItemsInv, TypeOK
  <2> HIDE DEF at
  <2>4. QED
    BY <2>2, <2>3 DEF Packet
<1>4. Newest(d_left_level_by_thre(cache, Packet(f), at, 1, 0).cache, at, f)
  <2>1. ~Vacant(cache, at) => Kickable(Packet(f), cache[at], 1, 0)
    BY <1>3 DEF Kickable, Elapsed
  <2>2. Packet(f).count = 1
    BY DEF Packet
  <2>3. QED
    BY <1>2, <2>1, <2>2, StoredIsNewest DEF d_left_level_by_thre, Holds
<1>5. Newest(d_left_level_by_time(cache, Packet(f), at).cache, at, f)
  <2>1. ~Vacant(cache, at) => comp_item_by_time(Packet(f), cache[at])
    BY <1>3 DEF comp_item_by_time
  <2>2. QED
    BY <1>2, <2>1, StoredIsNewest DEF d_left_level_by_time, Holds
<1> HIDE DEF at
<1>6. CASE InsertRecent(f)
  <2>1. PICK r0, r1, r2, r3 :
           /\ r0 = d_left_level_by_thre(cache, Packet(f), PathBucket(f, 0), 1, 0)
           /\ KVLevels(f, r0, r1, r2, r3) /\ cache' = r3.cache
    BY <1>6, RecentHasLevels DEF InsertRecent
  <2>2. r3.cache[PathBucket(f, 0)] = r0.cache[PathBucket(f, 0)]
    BY <2>1, LevelsWrite, LaterLevelsElsewhere
  <2>3. Newest(cache', PathBucket(f, 0), f)
    BY <1>4, <2>1, <2>2 DEF Newest, at
  <2>4. QED
    BY <1>6, <2>1, <2>3 DEF InsertRecent
<1>7. CASE InsertFlowlet(f)
  <2>1. PICK r0, r1, r2, r3 :
           /\ r0 = d_left_level_by_time(cache, Packet(f), PathBucket(f, 0))
           /\ KVLevels(f, r0, r1, r2, r3) /\ cache' = r3.cache
    BY <1>7, FlowletHasLevels DEF InsertFlowlet
  <2>2. r3.cache[PathBucket(f, 0)] = r0.cache[PathBucket(f, 0)]
    BY <2>1, LevelsWrite, LaterLevelsElsewhere
  <2>3. Newest(cache', PathBucket(f, 0), f)
    BY <1>5, <2>1, <2>2 DEF Newest, at
  <2>4. QED
    BY <1>7, <2>1, <2>3 DEF InsertFlowlet
<1>8. QED
  BY <1>1, <1>6, <1>7

\* For those two tasks a leaf always holds the latest of the flows that hash to
\* it, with the stamp of its latest packet (AHeap.h:301-373).
THEOREM KVLeafIsLatest == KVSpec => []LeafIsLatest
<1>1. KVInit => LeafIsLatest
  BY DEF KVInit, Init, LeafIsLatest
<1>2. ItemsInv /\ StampsInv /\ LeafIsLatest /\ [KVNext]_kvVars => LeafIsLatest'
  <2> SUFFICES ASSUME ItemsInv, StampsInv, LeafIsLatest, [KVNext]_kvVars
               PROVE  LeafIsLatest'
    OBVIOUS
  <2>1. CASE KVNext /\ task \in {"recent", "flowlet"}
    <3>1. PICK f \in Flow : \E r0, r1, r2, r3 :
             /\ Arrive(f) /\ KVLevels(f, r0, r1, r2, r3) /\ cache' = r3.cache
             /\ Newest(cache', PathBucket(f, 0), f)
      BY <2>1, LeafTaken
    <3>2. /\ now \in Nat /\ lastSeen \in [Flow -> Int]
          /\ lastSeen' = [lastSeen EXCEPT ![f] = now]
          /\ \A g \in Flow : lastSeen[g] < now
      BY <3>1, WordAssumption DEF Arrive, ItemsInv, TypeOK, StampsInv
    <3>3. SUFFICES ASSUME NEW g \in Flow, lastSeen'[g] >= 0,
                          \A h \in Flow : PathIndex(h)[0] = PathIndex(g)[0]
                                            => lastSeen'[h] <= lastSeen'[g]
                   PROVE  /\ cache'[PathBucket(g, 0)].key = g
                          /\ cache'[PathBucket(g, 0)].time = lastSeen'[g]
      BY DEF LeafIsLatest
    <3>4. CASE g = f
      BY <3>1, <3>2, <3>4 DEF Newest
    <3>5. CASE g # f
      <4>1. PathIndex(f)[0] # PathIndex(g)[0] /\ lastSeen'[g] = lastSeen[g]
        BY <3>2, <3>3, <3>5
      <4>2. PathBucket(g, 0) # PathBucket(f, 0)
        <5>1. level_start[0] = 0
          BY SizeAssumption DEF level_start, Level
        <5>2. PathIndex(f)[0] \in Nat /\ PathIndex(g)[0] \in Nat
          BY IndexBounds
        <5>3. QED
          BY <4>1, <5>1, <5>2 DEF PathBucket
      <4>3. cache'[PathBucket(g, 0)] = cache[PathBucket(g, 0)]
        <5>1. PICK r0, r1, r2, r3 : KVLevels(f, r0, r1, r2, r3) /\ cache' = r3.cache
          BY <3>1
        <5>2. PathBucket(g, 0) \in Bucket
          BY PathInArray DEF Level
        <5>3. Once(PathBucket(g, 0), f, r0, r1, r2, r3)
          BY <5>1, <5>2, LevelsWrite, CascadeWritesOnce
        <5>4. \A l \in {1, 2, 3} : PathBucket(g, 0) # PathBucket(f, l)
          BY LevelsDisjoint DEF Level
        <5>5. QED
          BY <4>2, <5>1, <5>3, <5>4 DEF Once
      <4>4. \A h \in Flow : PathIndex(h)[0] = PathIndex(g)[0] => lastSeen'[h] = lastSeen[h]
        BY <3>2, <4>1
      <4>5. \A h \in Flow : PathIndex(h)[0] = PathIndex(g)[0] => lastSeen[h] <= lastSeen[g]
        BY <3>3, <4>1, <4>4
      <4>6. /\ cache[PathBucket(g, 0)].key = g
            /\ cache[PathBucket(g, 0)].time = lastSeen[g]
        BY <2>1, <3>3, <4>1, <4>5 DEF LeafIsLatest
      <4>7. QED
        BY <4>1, <4>3, <4>6
    <3>6. QED
      BY <3>4, <3>5
  <2>2. CASE KVNext /\ task \notin {"recent", "flowlet"}
    <3>1. task' = task
      BY <2>2 DEF KVNext, InsertPersistent, InsertRecent, InsertFlowlet
    <3>2. QED
      BY <2>2, <3>1 DEF LeafIsLatest
  <2>3. CASE UNCHANGED kvVars
    BY <2>3 DEF kvVars, vars, LeafIsLatest
  <2>4. QED
    BY <2>1, <2>2, <2>3
<1>3. QED
  BY <1>1, <1>2, KVInvariant, KVStampsInvariant, PTL DEF KVSpec

------------------------------------------------------------------------------
(* Reading back, and the order of filling *)

\* The sum over the whole array by key reads the path and only it
\* (Util.h:103-118).
THEOREM KVMergeMatchesPath == KVSpec => []MergeMatchesPath
<1>1. ItemsInv => MergeMatchesPath
  BY MergeIsRecorded DEF ItemsInv, TypeOK, OnPath, MergeMatchesPath
<1>2. QED
  BY <1>1, KVInvariant, PTL

\* Kicks driven by stamps fill the trees from the leaves too (AHeap.h:267-373).
THEOREM KVFillOrder == KVSpec => []FillOrder
<1>1. KVInit => FillOrder
  BY InitFillOrder DEF KVInit
<1>2. ItemsInv /\ FillOrder /\ [KVNext]_kvVars => FillOrder'
  <2> SUFFICES ASSUME ItemsInv, FillOrder, [KVNext]_kvVars PROVE FillOrder'
    OBVIOUS
  <2>1. CASE KVNext
    <3>1. PICK f \in Flow : \E r0, r1, r2, r3 : KVLevels(f, r0, r1, r2, r3) /\ cache' = r3.cache
      BY <2>1, KVStepLevels
    <3>2. PICK r0, r1, r2, r3 : KVLevels(f, r0, r1, r2, r3) /\ cache' = r3.cache
      BY <3>1
    <3>3. /\ Accounted(cache, Packet(f), r0, f, 0) /\ Accounted(cache, Packet(f), r1, f, 1)
          /\ Accounted(cache, Packet(f), r2, f, 2)
      BY <3>2, KVLevelsAccounted
    <3>4. QED
      BY <3>2, <3>3, KVLevelsCascade, CascadeKeepsOrder
  <2>2. CASE UNCHANGED kvVars
    BY <2>2, StutterFillOrder DEF kvVars
  <2>3. QED
    BY <2>1, <2>2
<1>3. QED
  BY <1>1, <1>2, KVInvariant, PTL DEF KVSpec

------------------------------------------------------------------------------
(***************************************************************************)
(* insert_for_burst for every set of flows, size, hash and EIGHT: it never *)
(* reports a burst of a flow that sent fewer than EIGHT packets, and what  *)
(* it records implements the abstract counter.                             *)
(***************************************************************************)

USE BurstAssumption

\* The bursty fields b of the array c are backed by its counts.
Fielded(c, b) ==
  /\ b \in [Bucket -> 0..EIGHT]
  /\ \A k \in Bucket : /\ c[k].count = 0 <=> b[k] = 0
                       /\ b[k] <= c[k].count

\* What a level of the burst insertion owes to the next.
BurstAccounted(c, it, r, f, l) ==
  /\ Accounted(c, it, r, f, l)
  /\ Fielded(r.cache, r.bursty)
  /\ r.found \in {0, 1}

\* The field advances by one and stops at EIGHT.
LEMMA IncrementBursty ==
  ASSUME NEW n \in 0..EIGHT
  PROVE  /\ increment_bursty(n) \in 1..EIGHT
         /\ increment_bursty(n) <= n + 1
BY DEF increment_bursty

\* A level keeps the accounts and the fields backed: a merge adds at least one
\* packet and at most one to the field, a store or exchange sets the field to one.
LEMMA BurstLevel ==
  ASSUME NEW c, Sound(c), NEW b, Fielded(c, b), NEW f \in Flow, NEW l \in Level,
         NEW it \in Carried, it.count > 0, OnBranch(it, f, l),
         NEW kicks \in BOOLEAN, NEW d \in BOOLEAN
  PROVE  BurstAccounted(c, it, level(c, b, it, PathBucket(f, l), kicks, d), f, l)
<1> DEFINE at == PathBucket(f, l)
           r == level(c, b, it, at, kicks, d)
<1>0. /\ at \in Bucket /\ it.count \in Nat /\ it.count <= it.count /\ it.count >= 1
      /\ c \in [Bucket -> Item] /\ b \in [Bucket -> 0..EIGHT]
      /\ c[at] \in Item /\ c[at].count \in Nat /\ b[at] \in 0..EIGHT
  BY PathInArray DEF Carried, Sound, Typed, Item, Fielded
<1>1. CASE Vacant(c, at)
  <2>1. r = With(Placed(c, it, at), Restarted(b, at), 0)
    BY <1>1 DEF level
  <2>2. /\ r.cache = Placed(c, it, at).cache /\ r.item = Placed(c, it, at).item
        /\ r.done = Placed(c, it, at).done /\ r.bursty = Restarted(b, at) /\ r.found = 0
    BY <2>1 DEF With
  <2> HIDE DEF r
  <2>3. Accounted(c, it, r, f, l)
    BY <1>1, <2>2, PlacedAccounted DEF Accounted
  <2>4. r.cache = [c EXCEPT ![at] = it] /\ r.bursty = [b EXCEPT ![at] = 1]
    BY <2>2 DEF Placed, Outcome, Restarted
  <2>5. Fielded(r.cache, r.bursty)
    BY <1>0, <2>4 DEF Fielded
  <2>6. QED
    BY <2>2, <2>3, <2>5 DEF BurstAccounted, r
<1>2. CASE Holds(c, at, it)
  <2> DEFINE m == Merged(c, it, at, it.count)
             n == increment_bursty(b[at])
  <2>1. /\ r.cache = m.cache /\ r.item = m.item /\ r.done = m.done
        /\ r.bursty = [b EXCEPT ![at] = n] /\ r.found \in {0, 1}
    <3>1. r = increment_same_key(c, b, it, at)
      BY <1>2 DEF level, Holds
    <3>2. (IF b[at] = EIGHT THEN 1 ELSE 0) \in {0, 1}
      OBVIOUS
    <3> HIDE DEF r
    <3>3. QED
      BY <1>0, <3>1, <3>2 DEF increment_same_key, With
  <2> HIDE DEF r
  <2>2. Accounted(c, it, r, f, l)
    BY <1>0, <1>2, <2>1, MergedAccounted DEF Accounted
  <2>3. r.cache = [c EXCEPT ![at] = incrementItem(it, c[at], it.count)]
    BY <2>1 DEF Merged, Outcome, Sound, Typed
  <2>4. incrementItem(it, c[at], it.count).count = c[at].count + it.count
    BY DEF incrementItem
  <2>5. n \in 1..EIGHT /\ n <= b[at] + 1 /\ b[at] <= c[at].count
    BY <1>0, IncrementBursty DEF Fielded
  <2> HIDE DEF n
  <2>6. Fielded(r.cache, r.bursty)
    BY <1>0, <2>1, <2>3, <2>4, <2>5 DEF Fielded
  <2>7. QED
    BY <2>1, <2>2, <2>6 DEF BurstAccounted, r
<1>3. CASE ~Vacant(c, at) /\ ~Holds(c, at, it) /\ kicks
  <2>1. r = With(Exchanged(c, it, at, d), Restarted(b, at), 0)
    BY <1>3 DEF level
  <2>2. /\ r.cache = Exchanged(c, it, at, d).cache /\ r.item = Exchanged(c, it, at, d).item
        /\ r.done = Exchanged(c, it, at, d).done /\ r.bursty = Restarted(b, at) /\ r.found = 0
    BY <2>1 DEF With
  <2> HIDE DEF r
  <2>3. Accounted(c, it, r, f, l)
    BY <1>3, <2>2, ExchangedAccounted DEF Accounted
  <2>4. r.cache = [c EXCEPT ![at] = it] /\ r.bursty = [b EXCEPT ![at] = 1]
    BY <2>2 DEF Exchanged, Outcome, Restarted
  <2>5. Fielded(r.cache, r.bursty)
    BY <1>0, <2>4 DEF Fielded
  <2>6. QED
    BY <2>2, <2>3, <2>5 DEF BurstAccounted, r
<1>4. CASE ~Vacant(c, at) /\ ~Holds(c, at, it) /\ ~kicks
  <2>1. r = With(Passed(c, it, d), b, 0)
    BY <1>4 DEF level
  <2>2. /\ r.cache = Passed(c, it, d).cache /\ r.item = Passed(c, it, d).item
        /\ r.done = Passed(c, it, d).done /\ r.bursty = b /\ r.found = 0
    BY <2>1 DEF With
  <2> HIDE DEF r
  <2>3. Accounted(c, it, r, f, l)
    BY <2>2, PassedAccounted DEF Accounted
  <2>4. r.cache = c
    BY <2>2 DEF Passed, Outcome
  <2>5. QED
    BY <2>2, <2>3, <2>4 DEF BurstAccounted, r
<1>5. QED
  BY <1>1, <1>2, <1>3, <1>4

\* The first level differs in the value returned only.
LEMMA BurstLeaf ==
  ASSUME NEW c, Sound(c), NEW b, Fielded(c, b), NEW f \in Flow,
         NEW it \in Carried, it.count > 0, OnBranch(it, f, 0)
  PROVE  BurstAccounted(c, it, leaf_level(c, b, it, PathBucket(f, 0)), f, 0)
<1> DEFINE small == c[PathBucket(f, 0)].count = 1
           s == level(c, b, it, PathBucket(f, 0), small, FALSE)
           r == leaf_level(c, b, it, PathBucket(f, 0))
<1>1. BurstAccounted(c, it, s, f, 0)
  <2>1. small \in BOOLEAN
    OBVIOUS
  <2> HIDE DEF small
  <2>2. 0 \in Level /\ FALSE \in BOOLEAN
    BY DEF Level
  <2>3. QED
    BY <2>1, <2>2, BurstLevel, Zenon
<1>2. /\ r.cache = s.cache /\ r.item = s.item /\ r.done = s.done
      /\ r.bursty = s.bursty /\ r.found = 0
  BY DEF leaf_level, With
<1> HIDE DEF r, s
<1>3. Accounted(c, it, r, f, 0)
  BY <1>1, <1>2 DEF Accounted, BurstAccounted
<1>4. QED
  BY <1>1, <1>2, <1>3 DEF BurstAccounted, r

\* The inductive invariant of the burst insertion.
BurstInv ==
  /\ ItemsInv
  /\ Fielded(cache, bursty)
  /\ found \in {0, 1}
  /\ run \in Nat

\* The four levels of one insertion and what each of them was handed.
BurstLevels(f, r0, r1, r2, r3) ==
  /\ r0 = leaf_level(cache, bursty, Packet(f), PathBucket(f, 0))
  /\ r1 = IF r0.done THEN r0
          ELSE level(r0.cache, r0.bursty, r0.item, PathBucket(f, 1),
                     r0.cache[PathBucket(f, 1)].count = 1, FALSE)
  /\ r2 = IF r1.done THEN r1
          ELSE level(r1.cache, r1.bursty, r1.item, PathBucket(f, 2), TRUE, FALSE)
  /\ r3 = IF r2.done THEN r2
          ELSE level(r2.cache, r2.bursty, r2.item, PathBucket(f, 3),
                     r2.cache[PathBucket(f, 3)].count < r2.item.count, TRUE)

\* insert_for_burst goes through such levels.
LEMMA InsertHasBurstLevels ==
  ASSUME NEW f \in Flow, insert_for_burst(f)
  PROVE  \E r0, r1, r2, r3 :
           /\ BurstLevels(f, r0, r1, r2, r3)
           /\ cache' = r3.cache /\ bursty' = r3.bursty /\ found' = r3.found
<1> DEFINE r0 == leaf_level(cache, bursty, Packet(f), PathBucket(f, 0))
           r1 == IF r0.done THEN r0
                 ELSE level(r0.cache, r0.bursty, r0.item, PathBucket(f, 1),
                            r0.cache[PathBucket(f, 1)].count = 1, FALSE)
           r2 == IF r1.done THEN r1
                 ELSE level(r1.cache, r1.bursty, r1.item, PathBucket(f, 2), TRUE, FALSE)
           r3 == IF r2.done THEN r2
                 ELSE level(r2.cache, r2.bursty, r2.item, PathBucket(f, 3),
                            r2.cache[PathBucket(f, 3)].count < r2.item.count, TRUE)
<1>1. cache' = r3.cache /\ bursty' = r3.bursty /\ found' = r3.found
  BY DEF insert_for_burst
<1>2. r0 = leaf_level(cache, bursty, Packet(f), PathBucket(f, 0))
  OBVIOUS
<1> HIDE DEF r0
<1>3. r1 = IF r0.done THEN r0
           ELSE level(r0.cache, r0.bursty, r0.item, PathBucket(f, 1),
                      r0.cache[PathBucket(f, 1)].count = 1, FALSE)
  OBVIOUS
<1> HIDE DEF r1
<1>4. r2 = IF r1.done THEN r1
           ELSE level(r1.cache, r1.bursty, r1.item, PathBucket(f, 2), TRUE, FALSE)
  OBVIOUS
<1> HIDE DEF r2
<1>5. r3 = IF r2.done THEN r2
           ELSE level(r2.cache, r2.bursty, r2.item, PathBucket(f, 3),
                      r2.cache[PathBucket(f, 3)].count < r2.item.count, TRUE)
  OBVIOUS
<1> HIDE DEF r3
<1>6. BurstLevels(f, r0, r1, r2, r3)
  BY <1>2, <1>3, <1>4, <1>5 DEF BurstLevels
<1>7. QED
  BY <1>1, <1>6

\* Each of them keeps the accounts and the fields backed.
LEMMA BurstLevelsAccounted ==
  ASSUME BurstInv, NEW f \in Flow, NEW r0, NEW r1, NEW r2, NEW r3,
         BurstLevels(f, r0, r1, r2, r3)
  PROVE  /\ BurstAccounted(cache, Packet(f), r0, f, 0)
         /\ r0.done => r1 = r0
         /\ ~r0.done => BurstAccounted(r0.cache, r0.item, r1, f, 1)
         /\ r1.done => r2 = r1
         /\ ~r1.done => BurstAccounted(r1.cache, r1.item, r2, f, 2)
         /\ r2.done => r3 = r2
         /\ ~r2.done => BurstAccounted(r2.cache, r2.item, r3, f, 3)
         /\ BurstAccounted(cache, Packet(f), r1, f, 1)
         /\ BurstAccounted(cache, Packet(f), r2, f, 2)
         /\ BurstAccounted(cache, Packet(f), r3, f, 3)
<1>1. /\ r0.done => r1 = r0
      /\ r1.done => r2 = r1
      /\ r2.done => r3 = r2
  BY DEF BurstLevels
<1>2. BurstAccounted(cache, Packet(f), r0, f, 0)
  BY Start, BurstLeaf DEF BurstInv, BurstLevels
<1>3. ~r0.done => BurstAccounted(r0.cache, r0.item, r1, f, 1)
  <2> SUFFICES ASSUME ~r0.done
               PROVE  BurstAccounted(r0.cache, r0.item, r1, f, 1)
    OBVIOUS
  <2> DEFINE kicks == r0.cache[PathBucket(f, 1)].count = 1
  <2>1. /\ Sound(r0.cache) /\ r0.item \in Carried /\ r0.item.count > 0
        /\ OnBranch(r0.item, f, 1) /\ Fielded(r0.cache, r0.bursty)
    BY <1>2, Handed DEF BurstAccounted
  <2>2. 1 \in Level /\ kicks \in BOOLEAN /\ FALSE \in BOOLEAN
    BY DEF Level
  <2>3. r1 = level(r0.cache, r0.bursty, r0.item, PathBucket(f, 1), kicks, FALSE)
    BY DEF BurstLevels
  <2> HIDE DEF kicks
  <2>4. QED
    BY <2>1, <2>2, <2>3, BurstLevel, Zenon
<1>4. BurstAccounted(cache, Packet(f), r1, f, 0 + 1)
  BY <1>1, <1>2, <1>3, AccountsCompose DEF BurstAccounted
<1>5. ~r1.done => BurstAccounted(r1.cache, r1.item, r2, f, 2)
  <2> SUFFICES ASSUME ~r1.done
               PROVE  BurstAccounted(r1.cache, r1.item, r2, f, 2)
    OBVIOUS
  <2>1. /\ Sound(r1.cache) /\ r1.item \in Carried /\ r1.item.count > 0
        /\ OnBranch(r1.item, f, 2) /\ Fielded(r1.cache, r1.bursty)
    BY <1>4, Handed DEF BurstAccounted
  <2>2. 2 \in Level /\ TRUE \in BOOLEAN /\ FALSE \in BOOLEAN
    BY DEF Level
  <2>3. r2 = level(r1.cache, r1.bursty, r1.item, PathBucket(f, 2), TRUE, FALSE)
    BY DEF BurstLevels
  <2>4. QED
    BY <2>1, <2>2, <2>3, BurstLevel, Zenon
<1>6. BurstAccounted(cache, Packet(f), r2, f, 1 + 1)
  BY <1>1, <1>4, <1>5, AccountsCompose DEF BurstAccounted
<1>7. ~r2.done => BurstAccounted(r2.cache, r2.item, r3, f, 3)
  <2> SUFFICES ASSUME ~r2.done
               PROVE  BurstAccounted(r2.cache, r2.item, r3, f, 3)
    OBVIOUS
  <2> DEFINE kicks == r2.cache[PathBucket(f, 3)].count < r2.item.count
  <2>1. /\ Sound(r2.cache) /\ r2.item \in Carried /\ r2.item.count > 0
        /\ OnBranch(r2.item, f, 3) /\ Fielded(r2.cache, r2.bursty)
    BY <1>6, Handed DEF BurstAccounted
  <2>2. 3 \in Level /\ kicks \in BOOLEAN /\ TRUE \in BOOLEAN
    BY DEF Level
  <2>3. r3 = level(r2.cache, r2.bursty, r2.item, PathBucket(f, 3), kicks, TRUE)
    BY DEF BurstLevels
  <2> HIDE DEF kicks
  <2>4. QED
    BY <2>1, <2>2, <2>3, BurstLevel, Zenon
<1>8. BurstAccounted(cache, Packet(f), r3, f, 2 + 1)
  BY <1>1, <1>6, <1>7, AccountsCompose DEF BurstAccounted
<1>9. QED
  BY <1>1, <1>2, <1>3, <1>4, <1>5, <1>6, <1>7, <1>8

\* A whole insertion: one loser, and the fields are backed.
LEMMA InsertBurstOneLoser ==
  ASSUME BurstInv, NEW f \in Flow, insert_for_burst(f)
  PROVE  /\ Sound(cache') /\ OneLoser(cache, cache', f)
         /\ Fielded(cache', bursty') /\ found' \in {0, 1}
<1>1. PICK r0, r1, r2, r3 :
         /\ BurstLevels(f, r0, r1, r2, r3)
         /\ cache' = r3.cache /\ bursty' = r3.bursty /\ found' = r3.found
  BY InsertHasBurstLevels
<1>2. BurstAccounted(cache, Packet(f), r3, f, 3)
  BY <1>1, BurstLevelsAccounted
<1>3. 3 \in Level /\ Typed(cache)
  BY DEF Level, BurstInv, ItemsInv, TypeOK
<1>4. QED
  BY <1>1, <1>2, <1>3, AccountsGiveOneLoser DEF BurstAccounted

------------------------------------------------------------------------------
(* The theorems *)

\* The strengthened invariant: the accounts and the backing of every field.
THEOREM BurstInvariant == BurstSpec => []BurstInv
<1>1. BurstInit => BurstInv
  <2> SUFFICES ASSUME BurstInit PROVE BurstInv
    OBVIOUS
  <2>1. ItemsInv
    BY InitItemsInv DEF BurstInit
  <2>2. Fielded(cache, bursty)
    BY DEF BurstInit, Init, Fielded, Empty
  <2>3. QED
    BY <2>1, <2>2 DEF BurstInv, BurstInit
<1>2. BurstInv /\ [BurstNext]_burstVars => BurstInv'
  <2> SUFFICES ASSUME BurstInv, [BurstNext]_burstVars PROVE BurstInv'
    OBVIOUS
  <2>1. ASSUME NEW f \in Flow, InsertBurst(f) PROVE BurstInv'
    <3>1. /\ Sound(cache') /\ OneLoser(cache, cache', f)
          /\ Fielded(cache', bursty') /\ found' \in {0, 1}
      BY <2>1, InsertBurstOneLoser DEF InsertBurst
    <3>2. ItemsInv'
      BY <2>1, <3>1, StepItemsInv DEF InsertBurst, BurstInv
    <3>3. Fielded(cache, bursty)'
      BY <3>1 DEF Fielded
    <3>4. run' \in Nat
      BY <2>1 DEF InsertBurst, BurstInv
    <3>5. QED
      BY <3>1, <3>2, <3>3, <3>4 DEF BurstInv
  <2>2. CASE UNCHANGED burstVars
    <3>1. ItemsInv'
      BY <2>2, StutterItemsInv DEF burstVars, BurstInv
    <3>2. QED
      BY <2>2, <3>1 DEF burstVars, vars, BurstInv, Fielded
  <2>3. QED
    BY <2>1, <2>2 DEF BurstNext
<1>3. QED
  BY <1>1, <1>2, PTL DEF BurstSpec

\* Counts, stamps and bursty fields stay of their types (AHeap.h:397-475).
THEOREM BurstTypeCorrect == BurstSpec => []BurstTypeOK
<1>1. BurstInv => BurstTypeOK
  BY DEF BurstInv, ItemsInv, Fielded, BurstTypeOK
<1>2. QED
  BY <1>1, BurstInvariant, PTL

\* burstTest reports no flow of fewer than EIGHT packets: the field of a bucket
\* is at most its count, the bucket is on the flow's path, and the counts there
\* never exceed the flow's packets (AHeap.h:466-475, Burst.h:34-66).
THEOREM BurstNoFalseBurst == BurstSpec => []NoFalseBurst
<1>1. BurstInv => NoFalseBurst
  <2> SUFFICES ASSUME BurstInv, NEW f \in Flow, NEW b \in Bucket,
                      cache[b].key = f, bursty[b] = EIGHT
               PROVE  truth[f] >= EIGHT
    BY DEF NoFalseBurst, Reported, BurstInv, Fielded
  <2>1. Typed(cache) /\ WellPlaced(cache) /\ truth[f] \in Nat /\ Recorded(cache, f) <= truth[f]
    BY DEF BurstInv, ItemsInv, TypeOK, OnPath, NeverOverestimates
  <2>2. cache[b].count >= EIGHT /\ cache[b].count \in Nat
    BY <2>1 DEF BurstInv, Fielded, Typed, Item
  <2>3. PICK l \in Level : b = PathBucket(f, l)
    BY <2>1 DEF WellPlaced, check
  <2>4. Share(cache, f, l) = cache[b].count
    BY <2>3 DEF Share
  <2>5. \A j \in Level : Share(cache, f, j) \in Nat
    BY <2>1, ShareType
  <2>6. Recorded(cache, f) >= Share(cache, f, l) /\ Recorded(cache, f) \in Nat
    BY <2>5 DEF Recorded, Level
  <2>7. QED
    BY <2>1, <2>2, <2>4, <2>6
<1>2. QED
  BY <1>1, BurstInvariant, PTL

\* insert_for_burst implements the abstract counter (AHeap.h:397-463).
THEOREM BurstArrayImplementsCounter == BurstSpec => BurstImplementsCounter
<1>1. BurstInit => Counter!Init
  BY InitImplementsCounter DEF BurstInit
<1>2. BurstInv /\ [BurstNext]_burstVars
        => [Counter!Next]_<<truth, [f \in Flow |-> Recorded(cache, f)]>>
  <2> SUFFICES ASSUME BurstInv, [BurstNext]_burstVars
               PROVE  [Counter!Next]_<<truth, [f \in Flow |-> Recorded(cache, f)]>>
    OBVIOUS
  <2>1. ASSUME NEW f \in Flow, InsertBurst(f) PROVE Counter!Next
    <3>1. Sound(cache') /\ OneLoser(cache, cache', f)
      BY <2>1, InsertBurstOneLoser DEF InsertBurst
    <3>2. Counter!Observe(f)
      BY <2>1, <3>1, StepImplementsCounter DEF InsertBurst, BurstInv
    <3>3. QED
      BY <3>2 DEF Counter!Next
  <2>2. CASE UNCHANGED burstVars
    BY <2>2 DEF burstVars, vars, Recorded, Share
  <2>3. QED
    BY <2>1, <2>2 DEF BurstNext
<1>3. QED
  BY <1>1, <1>2, BurstInvariant, PTL DEF BurstSpec, BurstImplementsCounter, ImplementsCounter, Counter!Spec

------------------------------------------------------------------------------
(***************************************************************************)
(* A run of packets of one flow: the first finds the topmost of the first  *)
(* three buckets of its path that it can enter, and puts the flow there;   *)
(* those that follow pass by the buckets above it again and count in it.   *)
(***************************************************************************)

\* Bucket number l of the path takes a packet of f: it is vacant, it is f's own, or
\* its resident has one packet.
Enters(c, f, l) ==
  LET at == PathBucket(f, l)
  IN  Vacant(c, at) \/ c[at].key = f \/ c[at].count = 1

\* No bucket of the path before number l does.
Below(c, f, l) == \A j \in 0..(l - 1) : ~Enters(c, f, j)

Capped(n) == IF n < EIGHT THEN n ELSE EIGHT

\* f is in the bucket its next packet will get to, with a field of n or more.
Streak(f, n) ==
  \E l \in 0..2 : /\ Below(cache, f, l)
                  /\ cache[PathBucket(f, l)].key = f
                  /\ bursty[PathBucket(f, l)] >= Capped(n)

\* The inductive invariant: the flow of the latest packet is so placed, with its run.
StreakInv ==
  /\ \A f \in Flow : lastSeen[f] < now
  /\ \A f \in Flow : now > 0 /\ lastSeen[f] = now - 1 => Streak(f, run)

\* Of the array and the fields, only those of the level's own bucket changed.
OnlyHere(c, b, r, f, l) ==
  \A k \in Bucket : k # PathBucket(f, l) => r.cache[k] = c[k] /\ r.bursty[k] = b[k]

\* A level writes into its own bucket only, the field included.
LEMMA LevelOnlyHere ==
  ASSUME NEW c \in [Bucket -> Item], NEW b \in [Bucket -> 0..EIGHT], NEW it,
         NEW f \in Flow, NEW l \in Level, NEW kicks \in BOOLEAN, NEW d \in BOOLEAN
  PROVE  OnlyHere(c, b, level(c, b, it, PathBucket(f, l), kicks, d), f, l)
<1> DEFINE at == PathBucket(f, l)
           r == level(c, b, it, at, kicks, d)
<1>1. \/ r = With(Placed(c, it, at), Restarted(b, at), 0)
      \/ r = increment_same_key(c, b, it, at)
      \/ r = With(Exchanged(c, it, at, d), Restarted(b, at), 0)
      \/ r = With(Passed(c, it, d), b, 0)
  BY DEF level
<1> SUFFICES ASSUME NEW k \in Bucket, k # at
             PROVE  r.cache[k] = c[k] /\ r.bursty[k] = b[k]
  BY DEF OnlyHere
<1> HIDE DEF r, at
<1>2. CASE r = With(Placed(c, it, at), Restarted(b, at), 0)
  BY <1>2 DEF With, Placed, Outcome, Restarted
<1>3. CASE r = increment_same_key(c, b, it, at)
  <2>1. /\ r.cache = Merged(c, it, at, it.count).cache
        /\ r.bursty = [b EXCEPT ![at] = increment_bursty(b[at])]
    BY <1>3 DEF increment_same_key, With
  <2>2. QED
    BY <2>1 DEF Merged, Outcome
<1>4. CASE r = With(Exchanged(c, it, at, d), Restarted(b, at), 0)
  BY <1>4 DEF With, Exchanged, Outcome, Restarted
<1>5. CASE r = With(Passed(c, it, d), b, 0)
  BY <1>5 DEF With, Passed, Outcome
<1>6. QED
  BY <1>1, <1>2, <1>3, <1>4, <1>5

\* What the first levels left in their buckets stays there for the rest of the
\* insertion.
LEMMA BurstElsewhere ==
  ASSUME BurstInv, NEW f \in Flow, NEW r0, NEW r1, NEW r2, NEW r3,
         BurstLevels(f, r0, r1, r2, r3)
  PROVE  /\ r3.cache[PathBucket(f, 0)] = r0.cache[PathBucket(f, 0)]
         /\ r3.bursty[PathBucket(f, 0)] = r0.bursty[PathBucket(f, 0)]
         /\ r3.cache[PathBucket(f, 1)] = r1.cache[PathBucket(f, 1)]
         /\ r3.bursty[PathBucket(f, 1)] = r1.bursty[PathBucket(f, 1)]
         /\ r3.cache[PathBucket(f, 2)] = r2.cache[PathBucket(f, 2)]
         /\ r3.bursty[PathBucket(f, 2)] = r2.bursty[PathBucket(f, 2)]
<1>1. /\ 0 \in Level /\ 1 \in Level /\ 2 \in Level /\ 3 \in Level
      /\ \A j, l \in Level : PathBucket(f, j) = PathBucket(f, l) => j = l
      /\ \A l \in Level : PathBucket(f, l) \in Bucket
  BY LevelsDisjoint, PathInArray DEF Level
<1>2. /\ r0.cache \in [Bucket -> Item] /\ r0.bursty \in [Bucket -> 0..EIGHT]
      /\ r1.cache \in [Bucket -> Item] /\ r1.bursty \in [Bucket -> 0..EIGHT]
      /\ r2.cache \in [Bucket -> Item] /\ r2.bursty \in [Bucket -> 0..EIGHT]
  BY BurstLevelsAccounted DEF BurstAccounted, Accounted, Sound, Typed, Fielded
<1>3. ~r0.done => OnlyHere(r0.cache, r0.bursty, r1, f, 1)
  <2> SUFFICES ASSUME ~r0.done PROVE OnlyHere(r0.cache, r0.bursty, r1, f, 1)
    OBVIOUS
  <2> DEFINE kicks == r0.cache[PathBucket(f, 1)].count = 1
  <2>1. r1 = level(r0.cache, r0.bursty, r0.item, PathBucket(f, 1), kicks, FALSE)
    BY DEF BurstLevels
  <2>2. /\ 1 \in Level /\ kicks \in BOOLEAN /\ FALSE \in BOOLEAN
        /\ r0.cache \in [Bucket -> Item] /\ r0.bursty \in [Bucket -> 0..EIGHT]
    BY <1>1, <1>2
  <2> HIDE DEF kicks
  <2>3. QED
    BY <2>1, <2>2, LevelOnlyHere, Zenon
<1>4. ~r1.done => OnlyHere(r1.cache, r1.bursty, r2, f, 2)
  <2> SUFFICES ASSUME ~r1.done PROVE OnlyHere(r1.cache, r1.bursty, r2, f, 2)
    OBVIOUS
  <2>1. r2 = level(r1.cache, r1.bursty, r1.item, PathBucket(f, 2), TRUE, FALSE)
    BY DEF BurstLevels
  <2>2. /\ 2 \in Level /\ TRUE \in BOOLEAN /\ FALSE \in BOOLEAN
        /\ r1.cache \in [Bucket -> Item] /\ r1.bursty \in [Bucket -> 0..EIGHT]
    BY <1>1, <1>2
  <2>3. QED
    BY <2>1, <2>2, LevelOnlyHere, Zenon
<1>5. ~r2.done => OnlyHere(r2.cache, r2.bursty, r3, f, 3)
  <2> SUFFICES ASSUME ~r2.done PROVE OnlyHere(r2.cache, r2.bursty, r3, f, 3)
    OBVIOUS
  <2> DEFINE kicks == r2.cache[PathBucket(f, 3)].count < r2.item.count
  <2>1. r3 = level(r2.cache, r2.bursty, r2.item, PathBucket(f, 3), kicks, TRUE)
    BY DEF BurstLevels
  <2>2. /\ 3 \in Level /\ kicks \in BOOLEAN /\ TRUE \in BOOLEAN
        /\ r2.cache \in [Bucket -> Item] /\ r2.bursty \in [Bucket -> 0..EIGHT]
    BY <1>1, <1>2
  <2> HIDE DEF kicks
  <2>3. QED
    BY <2>1, <2>2, LevelOnlyHere, Zenon
<1>6. /\ r0.done => r1 = r0
      /\ r1.done => r2 = r1
      /\ r2.done => r3 = r2
  BY DEF BurstLevels
<1>7. QED
  BY <1>1, <1>3, <1>4, <1>5, <1>6 DEF OnlyHere

\* Flow f is in the bucket of r, and a resident of its own had its field advanced.
Entered(r, f, at) ==
  /\ r.cache[at].key = f
  /\ r.bursty[at] >= 1
  /\ cache[at].key = f => r.bursty[at] = increment_bursty(bursty[at])

\* A packet enters the bucket of a level, or goes on as it came.
EntersOrPasses(r, f, at, kicks) ==
  IF Vacant(cache, at) \/ cache[at].key = f \/ kicks
  THEN Entered(r, f, at)
  ELSE r.cache = cache /\ r.bursty = bursty /\ r.item = Packet(f) /\ ~r.done

LEMMA PacketEnters ==
  ASSUME BurstInv, NEW f \in Flow, NEW at \in Bucket, NEW kicks \in BOOLEAN
  PROVE  EntersOrPasses(level(cache, bursty, Packet(f), at, kicks, FALSE), f, at, kicks)
<1> DEFINE r == level(cache, bursty, Packet(f), at, kicks, FALSE)
<1> SUFFICES EntersOrPasses(r, f, at, kicks)
  OBVIOUS
<1>1. /\ cache \in [Bucket -> Item] /\ bursty \in [Bucket -> 0..EIGHT]
      /\ cache[at].count = 0 <=> cache[at].key = NoKey
      /\ bursty[at] \in 0..EIGHT /\ Packet(f).key = f
  BY DEF BurstInv, ItemsInv, TypeOK, Typed, Fielded, Packet
<1>2. CASE Vacant(cache, at)
  <2>1. r = With(Placed(cache, Packet(f), at), Restarted(bursty, at), 0)
    BY <1>2 DEF level
  <2> HIDE DEF r
  <2>2. r.cache = [cache EXCEPT ![at] = Packet(f)] /\ r.bursty = [bursty EXCEPT ![at] = 1]
    BY <2>1 DEF With, Restarted, Placed, Outcome
  <2>3. cache[at].key # f
    BY <1>1, <1>2, FlowAssumption DEF Vacant
  <2>4. Entered(r, f, at)
    BY <1>1, <2>2, <2>3 DEF Entered
  <2>5. QED
    BY <1>2, <2>4 DEF EntersOrPasses
<1>3. CASE ~Vacant(cache, at) /\ cache[at].key = f
  <2>1. r = increment_same_key(cache, bursty, Packet(f), at)
    BY <1>1, <1>3 DEF level, Holds
  <2> HIDE DEF r
  <2>2. /\ r.cache = Merged(cache, Packet(f), at, Packet(f).count).cache
        /\ r.bursty = [bursty EXCEPT ![at] = increment_bursty(bursty[at])]
    BY <2>1 DEF increment_same_key, With
  <2>3. r.cache[at] = incrementItem(Packet(f), cache[at], Packet(f).count)
    BY <1>1, <2>2 DEF Merged, Outcome
  <2>4. r.cache[at].key = f
    BY <1>3, <2>3 DEF incrementItem
  <2>5. r.bursty[at] = increment_bursty(bursty[at]) /\ increment_bursty(bursty[at]) >= 1
    BY <1>1, <2>2, IncrementBursty
  <2>6. Entered(r, f, at)
    BY <2>4, <2>5 DEF Entered
  <2>7. QED
    BY <1>3, <2>6 DEF EntersOrPasses
<1>4. CASE ~Vacant(cache, at) /\ cache[at].key # f /\ kicks
  <2>1. r = With(Exchanged(cache, Packet(f), at, FALSE), Restarted(bursty, at), 0)
    BY <1>1, <1>4 DEF level, Holds
  <2> HIDE DEF r
  <2>2. r.cache = [cache EXCEPT ![at] = Packet(f)] /\ r.bursty = [bursty EXCEPT ![at] = 1]
    BY <2>1 DEF With, Restarted, Exchanged, Outcome
  <2>3. Entered(r, f, at)
    BY <1>1, <1>4, <2>2 DEF Entered
  <2>4. QED
    BY <1>4, <2>3 DEF EntersOrPasses
<1>5. CASE ~Vacant(cache, at) /\ cache[at].key # f /\ ~kicks
  <2>1. r = With(Passed(cache, Packet(f), FALSE), bursty, 0)
    BY <1>1, <1>5 DEF level, Holds
  <2> HIDE DEF r
  <2>2. r.cache = cache /\ r.bursty = bursty /\ r.item = Packet(f) /\ ~r.done
    BY <2>1 DEF With, Passed, Outcome
  <2>3. QED
    BY <1>5, <2>2 DEF EntersOrPasses
<1>6. QED
  BY <1>2, <1>3, <1>4, <1>5

\* A packet gets to the topmost bucket that takes it, or to the kicking level.
LEMMA PacketSettles ==
  ASSUME BurstInv, NEW f \in Flow, NEW r0, NEW r1, NEW r2, NEW r3,
         BurstLevels(f, r0, r1, r2, r3)
  PROVE  \E l \in 0..2 : /\ Below(cache, f, l) /\ (l = 2 \/ Enters(cache, f, l))
                         /\ Below(r3.cache, f, l)
                         /\ Entered(r3, f, PathBucket(f, l))
<1>1. \A l \in Level : PathBucket(f, l) \in Bucket
  BY PathInArray
<1>2. 0 \in Level /\ 1 \in Level /\ 2 \in Level
  BY DEF Level
<1>3. /\ r3.cache[PathBucket(f, 0)] = r0.cache[PathBucket(f, 0)]
      /\ r3.bursty[PathBucket(f, 0)] = r0.bursty[PathBucket(f, 0)]
      /\ r3.cache[PathBucket(f, 1)] = r1.cache[PathBucket(f, 1)]
      /\ r3.bursty[PathBucket(f, 1)] = r1.bursty[PathBucket(f, 1)]
      /\ r3.cache[PathBucket(f, 2)] = r2.cache[PathBucket(f, 2)]
      /\ r3.bursty[PathBucket(f, 2)] = r2.bursty[PathBucket(f, 2)]
  BY BurstElsewhere
<1>4. IF Enters(cache, f, 0)
      THEN Entered(r0, f, PathBucket(f, 0))
      ELSE r0.cache = cache /\ r0.bursty = bursty /\ r0.item = Packet(f) /\ ~r0.done
  <2> DEFINE at == PathBucket(f, 0)
             kicks == cache[at].count = 1
             s == level(cache, bursty, Packet(f), at, kicks, FALSE)
  <2>1. /\ r0.cache = s.cache /\ r0.bursty = s.bursty /\ r0.item = s.item /\ r0.done = s.done
    BY DEF BurstLevels, leaf_level, With
  <2>2. EntersOrPasses(s, f, at, kicks)
    <3>1. kicks \in BOOLEAN /\ at \in Bucket
      BY <1>1, <1>2
    <3> HIDE DEF kicks, at
    <3>2. QED
      BY <3>1, PacketEnters, Zenon
  <2> HIDE DEF s
  <2>3. QED
    BY <2>1, <2>2 DEF EntersOrPasses, Enters, Entered
<1>5. ASSUME ~Enters(cache, f, 0)
      PROVE  IF Enters(cache, f, 1)
             THEN Entered(r1, f, PathBucket(f, 1))
             ELSE r1.cache = cache /\ r1.bursty = bursty /\ r1.item = Packet(f) /\ ~r1.done
  <2> DEFINE at == PathBucket(f, 1)
             kicks == cache[at].count = 1
  <2>1. r1 = level(cache, bursty, Packet(f), at, kicks, FALSE)
    BY <1>4, <1>5 DEF BurstLevels
  <2>2. EntersOrPasses(r1, f, at, kicks)
    <3>1. kicks \in BOOLEAN /\ at \in Bucket
      BY <1>1, <1>2
    <3> HIDE DEF kicks, at
    <3>2. QED
      BY <2>1, <3>1, PacketEnters, Zenon
  <2>3. QED
    BY <2>2 DEF EntersOrPasses, Enters
<1>6. CASE Enters(cache, f, 0)
  BY <1>3, <1>4, <1>6 DEF Below, Entered
<1>7. CASE ~Enters(cache, f, 0) /\ Enters(cache, f, 1)
  <2>1. Entered(r3, f, PathBucket(f, 1))
    BY <1>3, <1>5, <1>7 DEF Entered
  <2>2. \A j \in 0..(1 - 1) : j = 0
    OBVIOUS
  <2>3. r3.cache[PathBucket(f, 0)] = cache[PathBucket(f, 0)]
    BY <1>3, <1>4, <1>7
  <2>4. Below(cache, f, 1) /\ Below(r3.cache, f, 1)
    BY <1>7, <2>2, <2>3 DEF Below, Enters, Vacant
  <2>5. QED
    BY <1>7, <2>1, <2>4
<1>8. CASE ~Enters(cache, f, 0) /\ ~Enters(cache, f, 1)
  <2>1. r2 = level(cache, bursty, Packet(f), PathBucket(f, 2), TRUE, FALSE)
    BY <1>5, <1>8 DEF BurstLevels
  <2>2. Entered(r2, f, PathBucket(f, 2))
    <3>1. PathBucket(f, 2) \in Bucket /\ TRUE \in BOOLEAN
      BY <1>1, <1>2
    <3>2. EntersOrPasses(r2, f, PathBucket(f, 2), TRUE)
      BY <2>1, <3>1, PacketEnters, Zenon
    <3>3. QED
      BY <3>2 DEF EntersOrPasses
  <2>3. Entered(r3, f, PathBucket(f, 2))
    BY <1>3, <2>2 DEF Entered
  <2>4. \A j \in 0..(2 - 1) : j = 0 \/ j = 1
    OBVIOUS
  <2>5. /\ r3.cache[PathBucket(f, 0)] = cache[PathBucket(f, 0)]
        /\ r3.cache[PathBucket(f, 1)] = cache[PathBucket(f, 1)]
    BY <1>3, <1>4, <1>5, <1>8
  <2>6. Below(cache, f, 2) /\ Below(r3.cache, f, 2)
    BY <1>8, <2>4, <2>5 DEF Below, Enters, Vacant
  <2>7. QED
    BY <2>3, <2>6
<1>9. QED
  BY <1>6, <1>7, <1>8

\* A packet starts a streak, and the next one carries it on.
LEMMA InsertKeepsStreak ==
  ASSUME BurstInv, StreakInv, NEW f \in Flow, InsertBurst(f)
  PROVE  StreakInv'
<1>1. PICK r0, r1, r2, r3 :
         BurstLevels(f, r0, r1, r2, r3) /\ cache' = r3.cache /\ bursty' = r3.bursty
  BY InsertHasBurstLevels DEF InsertBurst
<1>2. PICK l \in 0..2 : /\ Below(cache, f, l) /\ (l = 2 \/ Enters(cache, f, l))
                        /\ Below(r3.cache, f, l)
                        /\ Entered(r3, f, PathBucket(f, l))
  BY <1>1, PacketSettles
<1>3. /\ now \in Nat /\ now' = now + 1 /\ run \in Nat
      /\ lastSeen \in [Flow -> Int] /\ lastSeen' = [lastSeen EXCEPT ![f] = now]
      /\ \A g \in Flow : lastSeen[g] < now
      /\ run' = IF now > 0 /\ lastSeen[f] = now - 1 THEN run + 1 ELSE 1
  BY WordAssumption DEF InsertBurst, Arrive, BurstInv, ItemsInv, TypeOK, StreakInv
<1>4. r3.bursty[PathBucket(f, l)] >= Capped(run')
  <2> DEFINE at == PathBucket(f, l)
  <2>1. at \in Bucket /\ bursty[at] \in 0..EIGHT
    BY PathInArray DEF Level, BurstInv, Fielded
  <2>2. CASE now > 0 /\ lastSeen[f] = now - 1
    <3>1. PICK m \in 0..2 : /\ Below(cache, f, m)
                            /\ cache[PathBucket(f, m)].key = f
                            /\ bursty[PathBucket(f, m)] >= Capped(run)
      BY <2>2 DEF StreakInv, Streak
    <3>2. Enters(cache, f, m)
      BY <3>1 DEF Enters
    <3>3. ~(m < l)
      BY <1>2, <3>2 DEF Below
    <3>4. ~(l < m)
      BY <1>2, <3>1 DEF Below
    <3>5. l = m
      BY <3>3, <3>4
    <3>6. r3.bursty[at] = increment_bursty(bursty[at]) /\ bursty[at] >= Capped(run)
      BY <1>2, <3>1, <3>5 DEF Entered
    <3>7. run' = run + 1
      BY <1>3, <2>2
    <3> HIDE DEF at
    <3>8. increment_bursty(bursty[at]) >= Capped(run + 1)
      BY <1>3, <2>1, <3>6 DEF increment_bursty, Capped
    <3>9. QED
      BY <3>6, <3>7, <3>8 DEF at
  <2>3. CASE ~(now > 0 /\ lastSeen[f] = now - 1)
    BY <1>2, <1>3, <2>3 DEF Entered, Capped
  <2>4. QED
    BY <2>2, <2>3
<1>5. /\ Below(cache', f, l)
      /\ cache'[PathBucket(f, l)].key = f
      /\ bursty'[PathBucket(f, l)] >= Capped(run')
  BY <1>1, <1>2, <1>4 DEF Entered
<1>6. Streak(f, run)'
  BY <1>5 DEF Streak, Below, Enters, Vacant
<1>7. \A g \in Flow : lastSeen'[g] < now' /\ (lastSeen'[g] = now' - 1 => g = f)
  BY <1>3
<1>8. QED
  BY <1>6, <1>7 DEF StreakInv

\* EIGHT packets of a flow in a row are reported as long as the flow is the latest
\* (AHeap.h:397-463, Burst.h:34-66): the field of the bucket they count in has
\* advanced with every one of them.
THEOREM BurstBackToBackFound == BurstSpec => []BackToBackFound
<1>1. BurstInit => StreakInv
  BY DEF BurstInit, Init, StreakInv
<1>2. BurstInv /\ StreakInv /\ [BurstNext]_burstVars => StreakInv'
  <2> SUFFICES ASSUME BurstInv, StreakInv, [BurstNext]_burstVars PROVE StreakInv'
    OBVIOUS
  <2>1. CASE UNCHANGED burstVars
    BY <2>1 DEF burstVars, vars, StreakInv, Streak, Below, Enters, Vacant
  <2>2. QED
    BY <2>1, InsertKeepsStreak DEF BurstNext
<1>3. BurstInv /\ StreakInv => BackToBackFound
  <2> SUFFICES ASSUME BurstInv, NEW f \in Flow, run >= EIGHT, Streak(f, run)
               PROVE  Reported(f)
    BY DEF StreakInv, BackToBackFound
  <2>1. PICK l \in 0..2 : /\ cache[PathBucket(f, l)].key = f
                          /\ bursty[PathBucket(f, l)] >= Capped(run)
    BY DEF Streak
  <2>2. PathBucket(f, l) \in Bucket
    BY PathInArray DEF Level
  <2>3. bursty[PathBucket(f, l)] \in 0..EIGHT /\ run \in Nat
    BY <2>2 DEF BurstInv, Fielded
  <2>4. bursty[PathBucket(f, l)] = EIGHT
    BY <2>1, <2>3 DEF Capped
  <2>5. QED
    BY <2>1, <2>2, <2>4 DEF Reported
<1>4. QED
  BY <1>1, <1>2, <1>3, BurstInvariant, PTL DEF BurstSpec

------------------------------------------------------------------------------
(* Reading back *)

\* The sum over the whole array by key, the bursty fields masked out, is what is on
\* the path of the flow (Util.h:103-118).
THEOREM BurstMergeMatchesPath == BurstSpec => []MergeMatchesPath
<1>1. BurstInv => MergeMatchesPath
  BY MergeIsRecorded DEF BurstInv, ItemsInv, TypeOK, OnPath, MergeMatchesPath
<1>2. QED
  BY <1>1, BurstInvariant, PTL
===============================================================================
