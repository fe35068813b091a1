----------------------------- MODULE FragmentCode -----------------------------
(***************************************************************************)
(* Network-wide AHeap: every switch on a flow's path keeps, instead of the *)
(* flow's key, one fragment of an erasure code of it (CODEC.h), in the     *)
(* bucket the whole key hashes to.  Who has the arrays of as many switches *)
(* as the key has source fragments puts the keys together again, trying    *)
(* every combination of buckets one flow could have filled (Util.h).       *)
(*                                                                         *)
(* Every caller decodes k = 3 arrays with k source fragments, so a         *)
(* combination takes one bucket of each array.  The field arithmetic of    *)
(* the code is abstracted to what it guarantees, CodeAssumption.           *)
(***************************************************************************)
EXTENDS AHeapArray

CONSTANTS
  Cacheid,   \* the ids of the arrays: array id holds the id-th fragment
  FullKey,   \* what a key padded to full_len bytes can be
  full_key,  \* full_key[f]: the key of f, padded with its own first bytes
  real_key,  \* real_key[k]: a decoded key without its padding
  seg,       \* seg[id][k]: fragment number id of the padded key k
  Byte,      \* 2^8, the range of the byte a bool is returned in
  Mistaken,  \* the bytes that are taken for true if d_left_level runs off its end
  TestGone   \* whether the compiler, taking that for impossible, dropped the last test

ASSUME IdAssumption == IsFiniteSet(Cacheid) /\ Cacheid \subseteq Nat /\ Cacheid # {}

ASSUME KeyAssumption ==
  /\ full_key \in [Flow -> FullKey] /\ real_key \in [FullKey -> Flow]
  /\ \A f \in Flow : real_key[full_key[f]] = f

\* One fragment of each array, of whatever keys, are the fragments of one key.
ASSUME CodeAssumption ==
  \A g \in [Cacheid -> FullKey] :
    \E k \in FullKey : {j \in FullKey : \A id \in Cacheid : seg[id][j] = seg[id][g[id]]} = {k}

\* Mistaken is {1} as demo/Makefile builds the program (g++, no -O): the number just
\* compared is left in the register.  It is {} for the copy of the ns-2 experiment,
\* which has the return.
ASSUME BuildAssumption ==
  Byte \in Nat \ {0} /\ Mistaken \subseteq 0..(Byte - 1) /\ TestGone \in BOOLEAN

------------------------------------------------------------------------------
(* Insertion *)

\* encode: the fragment of f that array id keeps.
encode(id, f) == seg[id][full_key[f]]

\* Above a larger resident of another flow the CPU's copy of d_left_level ends without
\* a return: is what the caller finds taken for true?
TakenForTrue(resident) == resident.count % Byte \in Mistaken

\* Bug for a mutation run: the kicked item is not the resident but a copy of the
\* new one.
d_left_level_OneWay(c, it, at) ==
  IF Vacant(c, at)         THEN Placed(c, it, at)
  ELSE IF Holds(c, at, it) THEN Merged(c, it, at, 1)
  ELSE IF c[at].count = 1 \/ TestGone THEN Exchanged_OneWay(c, it, at, FALSE)
  ELSE Passed(c, it, TakenForTrue(c[at]))

d_left_level(c, it, at) ==
  IF Vacant(c, at)         THEN Placed(c, it, at)
  ELSE IF Holds(c, at, it) THEN Merged(c, it, at, 1)
  ELSE IF c[at].count = 1 \/ TestGone THEN Exchanged(c, it, at, FALSE)
  ELSE Passed(c, it, TakenForTrue(c[at]))

\* The array c after an item whose path is f's.
insert(c, it, f) ==
  LET r0 == d_left_level(c, it, PathBucket(f, 0))
      r1 == IF r0.done THEN r0 ELSE d_left_level(r0.cache, r0.item, PathBucket(f, 1))
      r2 == IF r1.done THEN r1 ELSE must_kick_level(r1.cache, r1.item, PathBucket(f, 2))
      x  == r2.item
      at == PathBucket(f, 3)
      r3 == IF r2.done THEN r2
            ELSE LastLevel(r2.cache, x, at, x.count, comp_item(x, r2.cache[at]))
  IN  r3.cache

Fragment(id, f, t) == [key |-> encode(id, f), count |-> 1, time |-> t]

\* Bug for a mutation run: the fragment is hashed, not the key.
AHeapInsert_HashesFragment(c, id, f, t) ==
  insert(c, Fragment(id, f, t), CHOOSE g \in Flow : encode(id, g) = encode(id, f))

AHeapInsert(c, id, f, t) == insert(c, Fragment(id, f, t), f)

------------------------------------------------------------------------------
(* Decoding: caches[id] is the array of switch id *)

level_of ==
  [b \in Bucket |-> CHOOSE l \in Level : /\ level_start[l] <= b
                                         /\ l < 3 => b < level_start[l + 1]]

\* The place on level l under (or at) bucket b.
under(b, l) == level_start[l] + (b - level_start[level_of[b]]) \div 2^(l - level_of[b])

\* Bug for a mutation run: the other fragments are only looked for further down.
places_Below == [b \in Bucket |-> {under(b, l) : l \in (level_of[b] + 1)..3}]

\* Where else a flow may be that is in bucket b, from b on down.
places == [b \in Bucket |-> {under(b, l) : l \in level_of[b]..3}]

Used(c) == {b \in Bucket : ~Vacant(c, b)}

\* The loops start from a bucket b of array id, level by level, in the order of
\* the ids; the other buckets of a combination come later.
Starts(at, id) ==
  \A other \in Cacheid \ {id} :
    LET l == level_of[at[id]]
        m == level_of[at[other]]
    IN  l < m \/ (l = m /\ id < other)

first(at) == CHOOSE id \in Cacheid : Starts(at, id)

\* All combinations the loops try: no empty bucket, all on one way down.
Combinations(caches) ==
  {at \in [Cacheid -> UNION {Used(caches[id]) : id \in Cacheid}] :
     /\ \A id \in Cacheid : at[id] \in Used(caches[id])
     /\ \A id \in Cacheid : at[id] \in places[at[first(at)]]}

\* decode: the key with these fragments.
decode(caches, at) ==
  CHOOSE k \in FullKey : \A id \in Cacheid : seg[id][k] = caches[id][at[id]].key

DecodedKey(caches, at) == real_key[decode(caches, at)]

\* Accepted when the first bucket is on the path of the key.
Accepted(caches) ==
  {at \in Combinations(caches) : check(at[first(at)], DecodedKey(caches, at))}

\* When the loops reach a combination: by the level, the array and the bucket they
\* start from, then by the levels of the others, the last array's foremost.
Turn(at) ==
  LET rank(id) == Cardinality({x \in Cacheid : x < id})
      l0 == level_of[at[first(at)]]
  IN  ((l0 * Cardinality(Cacheid) + rank(first(at))) * bucket_num + at[first(at)])
        * 4^Cardinality(Cacheid)
      + MapThenSumSet(LAMBDA id : (level_of[at[id]] - l0) * 4^rank(id), Cacheid)

Latest(ats) == CHOOSE at \in ats : \A x \in ats : Turn(x) <= Turn(at)

\* _DecodeCaches, array id: one accepted combination after the other puts its key
\* into its buckets, over what an earlier one left there.
un_map(caches, id) ==
  MapThenFoldSet(
    LAMBDA at, map : [map EXCEPT ![at[id]] =
                        [caches[id][at[id]] EXCEPT !.key = DecodedKey(caches, at)]],
    [b \in Bucket |-> Empty],
    LAMBDA at : at, Latest, Accepted(caches))

\* DecodeCaches: the keys and counts of array id, as MergeSingleCache reads them.
DecodeCache(caches, id) ==
  LET map == un_map(caches, id) IN [f \in Flow |-> MergeSingleCache(map, f)]

------------------------------------------------------------------------------
(* What the properties speak of *)

\* The count array c of switch id has of f's fragment on f's path.
Kept(c, id, f) ==
  LET on(l) == PathBucket(f, l)
  IN  MapThenSumSet(LAMBDA l : IF c[on(l)].key = encode(id, f) THEN c[on(l)].count ELSE 0, Level)

Tree(f) == PathIndex(f)[3]

\* Two flows of one tree that array id cannot tell apart.
Shared(id, f, flows) ==
  \E g \in flows \ {f} : Tree(g) = Tree(f) /\ encode(id, g) = encode(id, f)

\* Every accepted combination is of the fragments of one of these flows.
Unmixed(caches, flows) ==
  \A at \in Accepted(caches) : decode(caches, at) \in {full_key[f] : f \in flows}
===============================================================================
