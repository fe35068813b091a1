--------------------------- MODULE CodedTasksProofs ---------------------------
(***************************************************************************)
(* For every code, size and hash: both forms of the counting tasks go      *)
(* through the same exchanges, decoding gives back what the arrays kept,   *)
(* and the reports of the tasks follow from these two and from what the    *)
(* whole keys record.                                                      *)
(***************************************************************************)
EXTENDS CodedTasks, FragmentCodeProofs

------------------------------------------------------------------------------
(***************************************************************************)
(* The inductive invariant.  LockStep alone is not inductive: that two     *)
(* equal fragments in a bucket are of one flow needs every resident to be  *)
(* on its own path and to be a flow that came.  And decoding needs every   *)
(* used bucket to hold a fragment, of whatever flow.                       *)
(***************************************************************************)
Mirrors(w) == \A id \in Cacheid : TellsApart(id, Came(w)) => coded[w][id] = Image(id, ah[w])

TraceInv(w) ==
  /\ Sound(ah[w])
  /\ Knows(ah[w], Came(w))
  /\ IsFiniteSet(Came(w))
  /\ \A g \in Flow : Recorded(ah[w], g) <= flowCount[w][g]
  /\ AllCoded(coded[w])
  /\ Mirrors(w)

CodedInv ==
  /\ ah \in [Trace -> [Bucket -> Item]]
  /\ coded = [w \in Trace |-> coded[w]]
  /\ flowCount \in [Trace -> [Flow -> Nat]]
  /\ packet_cnt \in [Trace -> Nat]
  /\ \A w \in Trace : TraceInv(w)

\* Initially all arrays are empty, and nobody came.
LEMMA CodedInit == Init => CodedInv
<1> SUFFICES ASSUME Init PROVE CodedInv
  OBVIOUS
<1> DEFINE none == [b \in Bucket |-> Empty]
<1>1. none \in [Bucket -> Item] /\ (\A b \in Bucket : none[b] = Empty)
  BY DEF Item, Empty
<1>2. Empty.key = NoKey /\ Empty.count = 0
  BY DEF Empty
<1>3. Sound(none)
  BY <1>1, <1>2, FlowAssumption DEF Sound, Typed, WellPlaced
<1>4. ASSUME NEW g \in Flow PROVE Recorded(none, g) = 0
  <2>1. \A l \in Level : PathBucket(g, l) \in Bucket
    BY PathInArray
  <2>2. \A l \in Level : Share(none, g, l) = 0
    BY <1>1, <1>2, <2>1 DEF Share
  <2>3. QED
    BY <2>2 DEF Recorded, Level
<1>5. \A S : Knows(none, S)
  BY <1>1, <1>2 DEF Knows, Vacant
<1>6. \A id \in Cacheid : Image(id, none) = none
  BY <1>1, <1>2 DEF Image, Vacant
<1>7. ah = [w \in Trace |-> none] /\ coded = [w \in Trace |-> [id \in Cacheid |-> none]]
  BY DEF Init
<1> HIDE DEF none
<1>8. \A w \in Trace : Came(w) = {} /\ \A g \in Flow : flowCount[w][g] = 0
  BY DEF Init, Came
<1>9. ASSUME NEW w \in Trace PROVE TraceInv(w)
  <2>1. ah[w] = none /\ \A id \in Cacheid : coded[w][id] = none
    BY <1>7
  <2>2. IsFiniteSet(Came(w))
    BY <1>8, FS_EmptySet
  <2>3. Mirrors(w)
    BY <1>6, <2>1 DEF Mirrors
  <2>4. AllCoded(coded[w])
    <3>1. \A id : Coded(id, none)
      BY <1>1, <1>2 DEF Coded, Vacant, Empty, none
    <3>2. QED
      BY <2>1, <3>1 DEF AllCoded
  <2>5. QED
    BY <1>3, <1>4, <1>5, <1>8, <2>1, <2>2, <2>3, <2>4 DEF TraceInv
<1>10. flowCount \in [Trace -> [Flow -> Nat]] /\ packet_cnt \in [Trace -> Nat]
  BY DEF Init
<1>11. ah \in [Trace -> [Bucket -> Item]] /\ coded = [w \in Trace |-> coded[w]]
  BY <1>1, <1>7
<1>12. QED
  BY <1>9, <1>10, <1>11 DEF CodedInv

\* One packet: the arrays of its trace stay sound and keep mirroring each other.
LEMMA InputKeepsTrace ==
  ASSUME CodedInv, NEW w \in Trace, NEW f \in Flow, input(w, f)
  PROVE  TraceInv(w)'
<1> DEFINE it == [key |-> f, count |-> 1, time |-> packet_cnt[w]]
           c == ah[w]
           S == Came(w) \union {f}
           r == Down3(c, it, f)
<1>1. /\ Sound(c) /\ Knows(c, Came(w)) /\ IsFiniteSet(Came(w)) /\ Mirrors(w)
      /\ \A g \in Flow : Recorded(c, g) <= flowCount[w][g]
  BY DEF CodedInv, TraceInv
<1>2. it \in Carried /\ it.key = f /\ it.count = 1
  BY DEF CodedInv, Carried
<1>3. ah'[w] = insert(c, it, f)
  BY DEF input, CodedInv
<1>4. \A id \in Cacheid : coded'[w][id] = AHeapInsert(coded[w][id], id, f, packet_cnt[w])
  <2>1. coded'[w] = [id \in Cacheid |-> AHeapInsert(coded[w][id], id, f, packet_cnt[w])]
    BY DEF input, CodedInv
  <2>2. QED
    BY <2>1
<1>5. flowCount'[w] = [flowCount[w] EXCEPT ![f] = @ + 1] /\ flowCount[w] \in [Flow -> Nat]
  BY DEF input, CodedInv
<1>6. Came(w)' = S
  BY <1>5 DEF Came
<1> HIDE DEF it, c
<1>7. S \subseteq Flow /\ f \in S /\ Knows(c, S)
  BY <1>1 DEF Came, Knows
<1> HIDE DEF S
<1>8. Handled(c, it, r, f, 3, S) /\ ah'[w] = r.cache
  <2>1. it.count > 0 /\ it.key \in S
    BY <1>2, <1>7
  <2>2. QED
    BY <1>1, <1>2, <1>3, <1>7, <2>1, DownHandled, InsertGoesDown
<1> HIDE DEF r
<1>9. Sound(ah'[w]) /\ Knows(ah'[w], S)
  BY <1>8 DEF Handled, Accounted
<1>10. IsFiniteSet(S)
  BY <1>1, FS_AddElement DEF S
<1>11. ASSUME NEW g \in Flow PROVE Recorded(ah'[w], g) <= flowCount'[w][g]
  <2>1. Held(r.cache, r.item, g) = Held(c, it, g) /\ r.item \in Carried /\ Typed(r.cache)
    BY <1>8 DEF Handled, Accounted, Sound
  <2>2. Recorded(r.cache, g) \in Nat /\ Recorded(c, g) \in Nat
    BY <1>1, <2>1, RecordedType DEF Sound
  <2>3. PartOf(r.item, g) \in Nat /\ PartOf(it, g) = IF g = f THEN 1 ELSE 0
    BY <1>2, <2>1 DEF PartOf, Carried
  <2>4. Recorded(r.cache, g) <= Recorded(c, g) + (IF g = f THEN 1 ELSE 0)
    BY <2>1, <2>2, <2>3 DEF Held
  <2>5. flowCount'[w][g] = flowCount[w][g] + (IF g = f THEN 1 ELSE 0)
    BY <1>5
  <2>6. flowCount[w][g] \in Nat /\ Recorded(c, g) <= flowCount[w][g]
    BY <1>1, <1>5
  <2>7. QED
    BY <1>8, <2>2, <2>4, <2>5, <2>6
<1>12. ASSUME NEW id \in Cacheid, TellsApart(id, S)
       PROVE  coded'[w][id] = Image(id, ah'[w])
  <2>1. TellsApart(id, Came(w))
    BY <1>12 DEF TellsApart, S
  <2>2. coded[w][id] = Image(id, c)
    BY <1>1, <2>1 DEF Mirrors, c
  <2>3. Fragment(id, f, packet_cnt[w]) = FragmentOf(id, it)
    BY DEF Fragment, FragmentOf, it
  <2>4. it.count > 0 /\ it.key \in S
    BY <1>2, <1>7
  <2>5. insert(Image(id, c), FragmentOf(id, it), f) = Image(id, insert(c, it, f))
    BY <1>1, <1>2, <1>7, <1>12, <2>4, InsertMirrored
  <2>6. QED
    BY <1>3, <1>4, <2>2, <2>3, <2>5 DEF AHeapInsert
<1>13. Mirrors(w)'
  <2>1. Mirrors(w)' <=> \A id \in Cacheid : TellsApart(id, Came(w)')
                                              => coded'[w][id] = Image(id, ah'[w])
    BY DEF Mirrors, TellsApart, Image, Vacant, FragmentOf
  <2>2. QED
    BY <1>6, <1>12, <2>1
<1>14. AllCoded(coded[w])'
  <2>1. ASSUME NEW id \in Cacheid PROVE Coded(id, coded'[w][id])
    <3>1. Coded(id, coded[w][id])
      BY DEF CodedInv, TraceInv, AllCoded
    <3>2. packet_cnt[w] \in Nat
      BY DEF CodedInv
    <3>3. Fragment(id, f, packet_cnt[w]) \in Parts(id)
      BY <3>2 DEF Fragment, Parts, Fragments
    <3>4. QED
      BY <1>4, <3>1, <3>3, InsertCoded DEF AHeapInsert
  <2>2. QED
    BY <2>1 DEF AllCoded, Coded, Vacant
<1>15. QED
  BY <1>6, <1>9, <1>10, <1>11, <1>13, <1>14 DEF TraceInv

\* The arrays of the other trace are not touched.
LEMMA CodedStep ==
  ASSUME CodedInv, [Next]_vars
  PROVE  CodedInv'
<1>1. ASSUME NEW w \in Trace, NEW f \in Sent, input(w, f)
      PROVE  CodedInv'
  <2>0. f \in Flow
    BY SentAssumption
  <2>1. TraceInv(w)'
    BY <1>1, <2>0, InputKeepsTrace
  <2>2. ASSUME NEW v \in Trace, v # w
        PROVE  TraceInv(v)'
    <3>1. ah'[v] = ah[v] /\ coded'[v] = coded[v] /\ flowCount'[v] = flowCount[v]
      BY <1>1, <2>2 DEF input, CodedInv
    <3>2. Came(v)' = Came(v)
      BY <3>1 DEF Came
    <3>3. TraceInv(v)
      BY DEF CodedInv
    <3>4. QED
      BY <3>1, <3>2, <3>3 DEF TraceInv, Mirrors
  <2>3. ah' \in [Trace -> [Bucket -> Item]]
    <3>1. ah'[w] \in [Bucket -> Item]
      BY <2>1 DEF TraceInv, Sound, Typed
    <3>2. \A v \in Trace : v # w => ah'[v] = ah[v]
      BY <1>1 DEF input, CodedInv
    <3>3. ah' = [v \in Trace |-> ah'[v]]
      BY <1>1 DEF input, CodedInv
    <3>4. \A v \in Trace : ah'[v] \in [Bucket -> Item]
      BY <3>1, <3>2 DEF CodedInv
    <3>5. QED
      BY <3>3, <3>4
  <2>4. coded' = [v \in Trace |-> coded'[v]]
    BY <1>1 DEF input, CodedInv
  <2>5. flowCount' \in [Trace -> [Flow -> Nat]]
    BY <1>1, <2>0 DEF input, CodedInv
  <2>6. packet_cnt' \in [Trace -> Nat]
    BY <1>1 DEF input, CodedInv
  <2>7. \A v \in Trace : TraceInv(v)'
    BY <2>1, <2>2
  <2>8. QED
    BY <2>3, <2>4, <2>5, <2>6, <2>7 DEF CodedInv
<1>2. CASE UNCHANGED vars
  BY <1>2 DEF vars, CodedInv, TraceInv, Mirrors, Came
<1>3. QED
  BY <1>1, <1>2 DEF Next

\* Every reachable state satisfies the inductive invariant: arrays of whole keys
\* that are sound and never overestimate, and arrays of fragments that mirror them.
THEOREM CodedInvariant == Spec => []CodedInv
<1>1. Init => CodedInv
  BY CodedInit
<1>2. CodedInv /\ [Next]_vars => CodedInv'
  BY CodedStep
<1>3. QED
  BY <1>1, <1>2, PTL DEF Spec

\* An array that can tell the flows of a tree apart by their fragments goes through
\* the same exchanges, merges and evictions as the array of whole keys, packet by
\* packet (AHeap::insert against AHeapInsert of Util.h).
THEOREM CodedLockStep == Spec => []LockStep
<1>1. CodedInv => LockStep
  <2> SUFFICES ASSUME CodedInv, NEW w \in Trace, NEW id \in Cacheid, Distinct(w, id)
               PROVE  coded[w][id] = [b \in Bucket |->
                                        IF Vacant(ah[w], b) THEN Empty
                                        ELSE [ah[w][b] EXCEPT !.key = encode(id, @)]]
    BY DEF LockStep
  <2>1. TellsApart(id, Came(w))
    BY DEF Distinct, Shared, TellsApart
  <2>2. coded[w][id] = Image(id, ah[w])
    BY <2>1 DEF CodedInv, TraceInv, Mirrors
  <2>3. QED
    BY <2>2 DEF Image, FragmentOf
<1>2. QED
  BY <1>1, CodedInvariant, PTL

------------------------------------------------------------------------------
(* What the tasks report *)

\* The tables the tasks start from never show a flow larger than it is.
LEMMA TablesTrue ==
  ASSUME CodedInv, NEW w \in Trace, NEW f \in Flow
  PROVE  /\ PlainSum(w)[f] = Recorded(ah[w], f)
         /\ PlainSum(w)[f] \in Nat /\ flowCount[w][f] \in Nat
         /\ PlainSum(w)[f] <= flowCount[w][f]
<1>1. Typed(ah[w]) /\ WellPlaced(ah[w]) /\ Recorded(ah[w], f) <= flowCount[w][f]
  BY DEF CodedInv, TraceInv, Sound
<1>2. PlainSum(w)[f] = Recorded(ah[w], f)
  BY <1>1, MergeIsRecorded DEF PlainSum
<1>3. flowCount[w][f] \in Nat
  BY DEF CodedInv
<1>4. QED
  BY <1>1, <1>2, <1>3, RecordedType

\* Counting the addresses of a table never gives more when the counts are smaller.
LEMMA CountIPMonotone ==
  ASSUME NEW e1, NEW e2, DOMAIN e1 = Flow, DOMAIN e2 = Flow,
         \A f \in Flow : e1[f] \in Nat /\ e2[f] \in Nat /\ e1[f] <= e2[f],
         IsFiniteSet({f \in Flow : e2[f] > 0}), NEW key, NEW val
  PROVE  CountIP(e1, key, val, thre) \subseteq CountIP(e2, key, val, thre)
<1> SUFFICES ASSUME NEW ip \in CountIP(e1, key, val, thre)
             PROVE  ip \in CountIP(e2, key, val, thre)
  OBVIOUS
<1> DEFINE few == {g \in Flow : e1[g] > 0 /\ key[g] = ip}
           many == {g \in Flow : e2[g] > 0 /\ key[g] = ip}
           A == {val[f] : f \in few}
           B == {val[f] : f \in many}
<1>1. ip \in {key[f] : f \in Flow} /\ Cardinality(A) >= thre
  BY DEF CountIP
<1>2. IsFiniteSet(many)
  <2>1. many \in SUBSET {f \in Flow : e2[f] > 0}
    OBVIOUS
  <2> HIDE DEF many
  <2>2. QED
    BY <2>1, FS_Subset
<1>3. IsFiniteSet(B)
  <2> DEFINE map == [g \in many |-> val[g]]
  <2>1. map \in Surjection(many, B)
    <3> HIDE DEF many
    <3>1. QED
      BY DEF Surjection
  <2> HIDE DEF many, B, map
  <2>2. QED
    BY <1>2, <2>1, FS_Surjection
<1>4. A \subseteq B
  <2>1. few \subseteq many
    OBVIOUS
  <2> HIDE DEF few, many
  <2>2. QED
    BY <2>1
<1>5. Cardinality(B) >= thre
  <2> HIDE DEF A, B
  <2>1. Cardinality(A) <= Cardinality(B) /\ Cardinality(A) \in Nat /\ Cardinality(B) \in Nat
    BY <1>3, <1>4, FS_Subset, FS_CardinalityType
  <2>2. QED
    BY <1>1, <2>1, ThresholdAssumption
<1>6. QED
  BY <1>1, <1>5 DEF CountIP

\* The plain tasks report nothing that is not there, and what they miss of a heavy
\* change was lost.
LEMMA PlainTasks == CodedInv => PlainReportsTrue
<1> SUFFICES ASSUME CodedInv PROVE PlainReportsTrue
  OBVIOUS
<1>0. 1 \in Trace /\ 2 \in Trace /\ thre \in Nat
  BY ThresholdAssumption DEF Trace
<1>1. \A w \in Trace : DOMAIN PlainSum(w) = Flow /\ DOMAIN flowCount[w] = Flow
  BY DEF PlainSum, CodedInv
<1>2. \A w \in Trace : \A f \in Flow :
        /\ PlainSum(w)[f] \in Nat /\ flowCount[w][f] \in Nat
        /\ PlainSum(w)[f] <= flowCount[w][f]
  BY TablesTrue
<1>3. IsFiniteSet({f \in Flow : flowCount[1][f] > 0})
  BY <1>0 DEF CodedInv, TraceInv, Came
<1>4. hhTest \subseteq HeavyHitters(flowCount[1], thre)
  BY <1>0, <1>1, <1>2 DEF hhTest, HeavyHitters
<1>5. ddosTest \subseteq CountIP(flowCount[1], dstIP, srcIP, thre)
  BY <1>0, <1>1, <1>2, <1>3, CountIPMonotone DEF ddosTest
<1>6. spreaderTest \subseteq CountIP(flowCount[1], srcIP, dstIP, thre)
  BY <1>0, <1>1, <1>2, <1>3, CountIPMonotone DEF spreaderTest
<1>7. ASSUME NEW f \in SymDiff(hcTest, HeavyChanges(flowCount[1], flowCount[2], thre))
      PROVE  \E w \in Trace : PlainSum(w)[f] < flowCount[w][f]
  <2>1. f \in Flow
    BY <1>0, <1>1, <1>7 DEF SymDiff, hcTest, HeavyChanges
  <2>2. PlainSum(1)[f] # flowCount[1][f] \/ PlainSum(2)[f] # flowCount[2][f]
    BY <1>0, <1>1, <1>7 DEF SymDiff, hcTest, HeavyChanges
  <2>3. QED
    BY <1>0, <1>2, <2>1, <2>2
<1>8. QED
  BY <1>4, <1>5, <1>6, <1>7 DEF PlainReportsTrue

------------------------------------------------------------------------------
(* What the coded tasks report *)

\* AllRes[0] is there: some id is the least.
LEMMA LeastId ==
  LET id == CHOOSE id \in Cacheid : \A x \in Cacheid : id <= x IN id \in Cacheid
BY LeastOf, IdAssumption

\* So decoding gives back exactly what the arrays kept.
LEMMA Decoding == CodedInv => DecodeExact
<1> SUFFICES ASSUME CodedInv, NEW w \in Trace, NEW id \in Cacheid
             PROVE  /\ \A b \in Used(un_map(coded[w], id)) : check(b, un_map(coded[w], id)[b].key)
                    /\ Unmixed(coded[w], Came(w)) =>
                         \A f \in Flow :
                           f \notin Came(w) \/ ~Shared(id, f, Came(w)) =>
                             MergeSingleCache(un_map(coded[w], id), f) =
                               IF f \in Came(w) /\ \A k \in Cacheid : Kept(coded[w][k], k, f) > 0
                               THEN Kept(coded[w][id], id, f) ELSE 0
  BY DEF DecodeExact
<1>1. AllCoded(coded[w])
  BY DEF CodedInv, TraceInv
<1> DEFINE map == un_map(coded[w], id)
<1>2. Sound(map)
  BY <1>1, UnMapSound
<1>3. ASSUME NEW b \in Used(map) PROVE check(b, map[b].key)
  <2> HIDE DEF map
  <2>1. b \in Bucket /\ map[b] \in Item /\ map[b].count # 0
    BY <1>2 DEF Used, Vacant, Sound, Typed
  <2>2. map[b].key \in Flow
    BY <1>2, <2>1 DEF Sound, Typed, Item
  <2>3. QED
    BY <1>2, <2>1, <2>2 DEF Sound, WellPlaced
<1>4. Came(w) \subseteq Flow
  BY DEF Came
<1>5. QED
  BY <1>1, <1>3, <1>4, DecodedCount

\* Where no fragments are shared or mixed the decoded table is the table of whole
\* keys.
LEMMA TablesAgree ==
  ASSUME CodedInv, NEW w \in Trace, Unmixed(coded[w], Came(w)),
         \A id \in Cacheid : Distinct(w, id)
  PROVE  CodedSum(w) = PlainSum(w)
<1> DEFINE least == CHOOSE id \in Cacheid : \A x \in Cacheid : id <= x
           held(f) == f \in Came(w) /\ \A id \in Cacheid : Kept(coded[w][id], id, f) > 0
           map == un_map(coded[w], least)
<1>1. least \in Cacheid
  BY LeastId
<1>2. CodedSum(w) = [f \in Flow |-> MergeSingleCache(map, f)]
  BY DEF CodedSum, DecodeCache
<1>3. \A f \in Flow : ~Shared(least, f, Came(w)) \/ f \notin Came(w) =>
        MergeSingleCache(map, f) = IF held(f) THEN Kept(coded[w][least], least, f) ELSE 0
  BY <1>1, Decoding DEF DecodeExact
<1>4. ASSUME NEW id \in Cacheid, NEW f \in Came(w)
      PROVE  Kept(coded[w][id], id, f) = Recorded(ah[w], f)
  <2>1. TellsApart(id, Came(w))
    BY DEF Distinct, Shared, TellsApart
  <2>2. coded[w][id] = Image(id, ah[w]) /\ Sound(ah[w]) /\ Knows(ah[w], Came(w))
    BY <2>1 DEF CodedInv, TraceInv, Mirrors
  <2>3. Came(w) \subseteq Flow
    BY DEF Came
  <2>4. QED
    BY <2>1, <2>2, <2>3, KeptIsRecorded
<1> HIDE DEF least, map
<1>5. ASSUME NEW f \in Flow PROVE MergeSingleCache(map, f) = PlainSum(w)[f]
  <2>1. /\ PlainSum(w)[f] = Recorded(ah[w], f) /\ Recorded(ah[w], f) \in Nat
        /\ flowCount[w][f] \in Nat /\ Recorded(ah[w], f) <= flowCount[w][f]
    BY TablesTrue
  <2>2. CASE f \notin Came(w)
    <3>1. Recorded(ah[w], f) = 0
      BY <2>1, <2>2 DEF Came
    <3>2. MergeSingleCache(map, f) = 0
      BY <1>3, <2>2
    <3>3. QED
      BY <2>1, <3>1, <3>2
  <2>3. CASE f \in Came(w)
    <3>1. ~Shared(least, f, Came(w))
      BY <1>1, <2>3 DEF Distinct
    <3>2. held(f) <=> Recorded(ah[w], f) > 0
      BY <1>1, <1>4, <2>3
    <3>3. MergeSingleCache(map, f) = IF held(f) THEN Recorded(ah[w], f) ELSE 0
      BY <1>1, <1>3, <1>4, <2>3, <3>1
    <3> HIDE DEF held
    <3>4. QED
      BY <2>1, <3>2, <3>3
  <2>4. QED
    BY <2>2, <2>3
<1>6. PlainSum(w) = [f \in Flow |-> PlainSum(w)[f]]
  BY DEF PlainSum
<1>7. QED
  BY <1>2, <1>5, <1>6

\* DecodeCaches is exact for every code, hash and size: a decoded bucket is on the
\* path of its flow, and unless fragments of different flows made up an acceptable
\* key, a flow that all arrays hold is decoded in full and no other is (Util.h).
THEOREM CodedDecodeExact == Spec => []DecodeExact
BY Decoding, CodedInvariant, PTL

\* The tasks with code mechanism report what the plain ones do, when no fragments are
\* shared or mixed, and those report what is there.
THEOREM CodedTasksTrue == Spec => []ReportsTrue
<1>1. CodedInv => ReportsTrue
  <2> SUFFICES ASSUME CodedInv PROVE ReportsTrue
    OBVIOUS
  <2>1. PlainReportsTrue
    BY PlainTasks
  <2>2. ASSUME \A w \in Trace : /\ Unmixed(coded[w], Came(w))
                               /\ \A id \in Cacheid : Distinct(w, id)
        PROVE  CodedSum(1) = PlainSum(1) /\ CodedSum(2) = PlainSum(2)
    <3>1. \A w \in Trace : CodedSum(w) = PlainSum(w)
      BY <2>2, TablesAgree
    <3>2. QED
      BY <3>1 DEF Trace
  <2>3. QED
    BY <2>1, <2>2 DEF ReportsTrue, hhTest, hhTest_coded, hcTest, hcTest_coded, fsdTest,
                      fsdTest_coded, ddosTest, ddosTest_coded, spreaderTest,
                      spreaderTest_coded
<1>2. QED
  BY <1>1, CodedInvariant, PTL
===============================================================================
