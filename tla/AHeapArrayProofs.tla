--------------------------- MODULE AHeapArrayProofs ---------------------------
(***************************************************************************)
(* Lemmas about the geometry of AHeapArray and about the outcomes of its   *)
(* levels, for every number of flows, every size and every hash, and what  *)
(* they need about finite sets.                                            *)
(***************************************************************************)
EXTENDS AHeapArray, FiniteSetTheorems, TLAPS

USE SizeAssumption, HashAssumption, FlowAssumption

------------------------------------------------------------------------------
(* Geometry *)

\* Halving an index of a level of 2n buckets gives an index of a level of n.
LEMMA HalfBound ==
  ASSUME NEW i \in Nat, NEW n \in Nat, i < 2 * n
  PROVE  i \div 2 \in Nat /\ i \div 2 < n
OBVIOUS

\* A flow's index is within the level it is an index of.
LEMMA IndexBounds ==
  ASSUME NEW f \in Flow
  PROVE  /\ PathIndex(f)[0] \in Nat /\ PathIndex(f)[0] < 8 * MinBucketNum
         /\ PathIndex(f)[1] \in Nat /\ PathIndex(f)[1] < 4 * MinBucketNum
         /\ PathIndex(f)[2] \in Nat /\ PathIndex(f)[2] < 2 * MinBucketNum
         /\ PathIndex(f)[3] \in Nat /\ PathIndex(f)[3] < MinBucketNum
<1> DEFINE i0 == Hash[f] % (8 * MinBucketNum)
<1>0. level_start[1] - level_start[0] = 8 * MinBucketNum
  BY DEF level_start, Level
<1>1. i0 \in Nat /\ i0 < 2 * (4 * MinBucketNum)
  OBVIOUS
<1> HIDE DEF i0
<1>2. i0 \div 2 \in Nat /\ i0 \div 2 < 2 * (2 * MinBucketNum)
  BY <1>1, HalfBound
<1>3. (i0 \div 2) \div 2 \in Nat /\ (i0 \div 2) \div 2 < 2 * MinBucketNum
  BY <1>2, HalfBound
<1>4. ((i0 \div 2) \div 2) \div 2 \in Nat /\ ((i0 \div 2) \div 2) \div 2 < MinBucketNum
  BY <1>3, HalfBound
<1>5. /\ PathIndex(f)[0] = i0
      /\ PathIndex(f)[1] = i0 \div 2
      /\ PathIndex(f)[2] = (i0 \div 2) \div 2
      /\ PathIndex(f)[3] = ((i0 \div 2) \div 2) \div 2
  BY <1>0 DEF PathIndex, i0, Level
<1>6. QED
  BY <1>1, <1>2, <1>3, <1>4, <1>5

\* The four buckets of a path, each within its level.
LEMMA BucketBounds ==
  ASSUME NEW f \in Flow
  PROVE  /\ PathBucket(f, 0) \in 0..(8 * MinBucketNum - 1)
         /\ PathBucket(f, 1) \in (8 * MinBucketNum)..(12 * MinBucketNum - 1)
         /\ PathBucket(f, 2) \in (12 * MinBucketNum)..(14 * MinBucketNum - 1)
         /\ PathBucket(f, 3) \in (14 * MinBucketNum)..(15 * MinBucketNum - 1)
BY IndexBounds DEF PathBucket, level_start, Level

\* They are buckets of the array.
LEMMA PathInArray ==
  ASSUME NEW f \in Flow, NEW l \in Level
  PROVE  PathBucket(f, l) \in Bucket
BY BucketBounds DEF Level, Bucket, bucket_num

\* Buckets of two levels are never the same one.
LEMMA LevelsDisjoint ==
  ASSUME NEW f \in Flow, NEW g \in Flow, NEW j \in Level, NEW l \in Level,
         PathBucket(f, j) = PathBucket(g, l)
  PROVE  j = l
<1>1. /\ PathBucket(f, 0) \in 0..(8 * MinBucketNum - 1)
      /\ PathBucket(f, 1) \in (8 * MinBucketNum)..(12 * MinBucketNum - 1)
      /\ PathBucket(f, 2) \in (12 * MinBucketNum)..(14 * MinBucketNum - 1)
      /\ PathBucket(f, 3) \in (14 * MinBucketNum)..(15 * MinBucketNum - 1)
  BY BucketBounds
<1>2. /\ PathBucket(g, 0) \in 0..(8 * MinBucketNum - 1)
      /\ PathBucket(g, 1) \in (8 * MinBucketNum)..(12 * MinBucketNum - 1)
      /\ PathBucket(g, 2) \in (12 * MinBucketNum)..(14 * MinBucketNum - 1)
      /\ PathBucket(g, 3) \in (14 * MinBucketNum)..(15 * MinBucketNum - 1)
  BY BucketBounds
<1> HIDE DEF PathBucket
<1>3. QED
  BY <1>1, <1>2 DEF Level

\* Two paths that meet stay together from there on: a kicked item can follow
\* the flow that kicked it.
LEMMA PathsMerge ==
  ASSUME NEW f \in Flow, NEW g \in Flow, NEW l \in 0..2,
         PathBucket(f, l) = PathBucket(g, l)
  PROVE  PathBucket(f, l + 1) = PathBucket(g, l + 1)
<1>1. PathIndex(f)[l] = PathIndex(g)[l]
  BY IndexBounds DEF PathBucket, level_start, Level
<1>2. PathIndex(f)[l + 1] = PathIndex(g)[l + 1]
  BY <1>1 DEF PathIndex, Level
<1>3. QED
  BY <1>2 DEF PathBucket

------------------------------------------------------------------------------
(***************************************************************************)
(* Induction over the subsets of a finite set, and the existence of a      *)
(* recursive function on them.  A set of natural numbers has a least       *)
(* element (WFMin), so that no induction theorem with an operator for a    *)
(* parameter is needed.                                                    *)
(***************************************************************************)

\* A set of natural numbers has a least element.
LEMMA LeastOf ==
  ASSUME NEW T, T \subseteq Nat, T # {}
  PROVE  \E x \in T : \A y \in T : x <= y
<1> DEFINE Less == {ss \in Nat \X Nat : ss[1] < ss[2]}
<1>1. IsWellFoundedOn(Less, Nat)
  BY NatLessThanWellFounded DEF OpToRel
<1>2. \A x, y \in Nat : <<y, x>> \in Less <=> y < x
  OBVIOUS
<1> HIDE DEF Less
<1>3. PICK x \in T : \A y \in T : ~(<<y, x>> \in Less)
  BY <1>1, WFMin
<1>4. ASSUME NEW y \in T PROVE x <= y
  <2>1. x \in Nat /\ y \in Nat
    OBVIOUS
  <2>2. ~(<<y, x>> \in Less)
    BY <1>3
  <2>3. ~(y < x)
    BY <1>2, <2>1, <2>2
  <2>4. QED
    BY <2>1, <2>3
<1>5. QED
  BY <1>4

\* Induction on the natural numbers, for a set.
LEMMA AllNumbers ==
  ASSUME NEW Good, 0 \in Good, \A n \in Nat : n \in Good => n + 1 \in Good
  PROVE  Nat \subseteq Good
<1> DEFINE Bad == Nat \ Good
<1>1. SUFFICES ASSUME Bad # {} PROVE FALSE
  OBVIOUS
<1>2. PICK n \in Bad : \A m \in Bad : n <= m
  BY <1>1, LeastOf
<1>3. n \in Nat /\ n # 0
  OBVIOUS
<1>4. n - 1 \in Nat /\ n - 1 + 1 = n /\ ~(n <= n - 1)
  BY <1>3
<1>5. n - 1 \in Good
  BY <1>2, <1>4
<1>6. QED
  BY <1>4, <1>5

\* A subset is good if it is whenever all that lack one of its elements are.
LEMMA SubsetInduction ==
  ASSUME NEW S, IsFiniteSet(S), NEW Good,
         \A s \in SUBSET S : (\A x \in s : s \ {x} \in Good) => s \in Good
  PROVE  \A s \in SUBSET S : s \in Good
<1> DEFINE Bad == {Cardinality(s) : s \in (SUBSET S) \ Good}
<1>1. ASSUME NEW s \in SUBSET S
      PROVE  /\ Cardinality(s) \in Nat
             /\ \A x \in s : Cardinality(s \ {x}) \in Nat /\ Cardinality(s \ {x}) < Cardinality(s)
  <2>1. IsFiniteSet(s)
    BY FS_Subset
  <2>2. Cardinality(s) \in Nat
    BY <2>1, FS_CardinalityType
  <2>3. \A x \in s : Cardinality(s \ {x}) = Cardinality(s) - 1 /\ IsFiniteSet(s \ {x})
    BY <2>1, FS_RemoveElement
  <2>4. \A x \in s : Cardinality(s \ {x}) \in Nat
    BY <2>3, FS_CardinalityType
  <2>5. QED
    BY <2>2, <2>3, <2>4
<1>2. Bad \subseteq Nat
  BY <1>1
<1>3. SUFFICES ASSUME Bad # {} PROVE FALSE
  OBVIOUS
<1>4. PICK n \in Bad : \A m \in Bad : n <= m
  <2> HIDE DEF Bad
  <2>1. QED
    BY <1>2, <1>3, LeastOf
<1>5. PICK s \in (SUBSET S) \ Good : n = Cardinality(s)
  OBVIOUS
<1>6. ASSUME NEW x \in s PROVE s \ {x} \in Good
  <2>1. SUFFICES ASSUME s \ {x} \notin Good PROVE FALSE
    OBVIOUS
  <2>2. Cardinality(s \ {x}) \in Bad
    BY <2>1
  <2>3. n <= Cardinality(s \ {x})
    BY <1>4, <2>2
  <2>4. QED
    BY <1>1, <1>5, <2>3
<1>7. QED
  BY <1>5, <1>6

\* Recursion on the subsets of S: pick chooses the element that goes last.
FoldValue(g, s, base, pick, step) ==
  IF s = {} THEN base ELSE step[<<pick[s], g[s \ {pick[s]}]>>]

Folding(g, S, base, pick, step) == g = [s \in SUBSET S |-> FoldValue(g, s, base, pick, step)]

\* A function so defined on the sets of up to n elements, with values in R.
FoldsUpTo(g, n, S, R, base, pick, step) ==
  \A s \in SUBSET S :
    Cardinality(s) <= n => g[s] \in R /\ g[s] = FoldValue(g, s, base, pick, step)

\* Taking the last element away.
LEMMA PickedSmaller ==
  ASSUME NEW S, IsFiniteSet(S), NEW s \in SUBSET S, NEW pick, s # {} => pick[s] \in s
  PROVE  /\ Cardinality(s) \in Nat
         /\ Cardinality(s) = 0 <=> s = {}
         /\ s # {} => /\ pick[s] \in S
                      /\ s \ {pick[s]} \in SUBSET S
                      /\ Cardinality(s \ {pick[s]}) = Cardinality(s) - 1
<1>1. IsFiniteSet(s)
  BY FS_Subset
<1>2. Cardinality(s) \in Nat /\ (Cardinality(s) = 0 <=> s = {})
  BY <1>1, FS_CardinalityType, FS_EmptySet
<1>3. ASSUME s # {} PROVE Cardinality(s \ {pick[s]}) = Cardinality(s) - 1
  BY <1>1, <1>3, FS_RemoveElement
<1>4. QED
  BY <1>2, <1>3

\* One element more.
LEMMA FoldsOneMore ==
  ASSUME NEW S, IsFiniteSet(S), NEW R, NEW base \in R, NEW pick,
         \A s \in SUBSET S : s # {} => pick[s] \in s,
         NEW step \in [S \X R -> R],
         NEW m \in Nat, NEW h, FoldsUpTo(h, m, S, R, base, pick, step)
  PROVE  \E g : FoldsUpTo(g, m + 1, S, R, base, pick, step)
<1> DEFINE g == [s \in SUBSET S |-> IF Cardinality(s) <= m THEN h[s]
                                    ELSE FoldValue(h, s, base, pick, step)]
<1>1. ASSUME NEW s \in SUBSET S, Cardinality(s) <= m + 1
      PROVE  g[s] \in R /\ g[s] = FoldValue(g, s, base, pick, step)
  <2> DEFINE t == s \ {pick[s]}
  <2>1. /\ Cardinality(s) \in Nat
        /\ Cardinality(s) = 0 <=> s = {}
        /\ s # {} => /\ pick[s] \in S
                     /\ t \in SUBSET S
                     /\ Cardinality(t) = Cardinality(s) - 1
    BY PickedSmaller
  <2>2. g[s] = IF Cardinality(s) <= m THEN h[s] ELSE FoldValue(h, s, base, pick, step)
    OBVIOUS
  <2>3. Cardinality(s) <= m => h[s] = FoldValue(h, s, base, pick, step)
    BY DEF FoldsUpTo
  <2>4. g[s] = FoldValue(h, s, base, pick, step)
    BY ONLY <2>2, <2>3
  <2>5. CASE s = {}
    BY <2>4, <2>5 DEF FoldValue
  <2>6. CASE s # {}
    <3>1. t \in SUBSET S /\ pick[s] \in S /\ Cardinality(t) <= m
      <4>1. Cardinality(t) = Cardinality(s) - 1 /\ Cardinality(s) \in Nat
        BY <2>1, <2>6
      <4> HIDE DEF t
      <4>2. Cardinality(t) <= m
        BY <1>1, <4>1
      <4>3. QED
        BY <2>1, <2>6, <4>2
    <3>2. h[t] \in R /\ g[t] = h[t]
      <4>1. h[t] \in R
        BY <3>1 DEF FoldsUpTo
      <4>2. QED
        BY <3>1, <4>1
    <3>3. /\ FoldValue(h, s, base, pick, step) = step[<<pick[s], h[t]>>]
          /\ FoldValue(g, s, base, pick, step) = step[<<pick[s], g[t]>>]
      BY <2>6 DEF FoldValue
    <3>4. step[<<pick[s], h[t]>>] \in R
      BY <3>1, <3>2
    <3> HIDE DEF g, t
    <3>5. QED
      BY <2>4, <3>2, <3>3, <3>4
  <2>7. QED
    BY <2>5, <2>6
<1> HIDE DEF g
<1>2. FoldsUpTo(g, m + 1, S, R, base, pick, step)
  BY <1>1 DEF FoldsUpTo
<1>3. QED
  BY <1>2

\* There is a function so defined, with values where step has its values.
LEMMA FoldingExists ==
  ASSUME NEW S, IsFiniteSet(S), NEW R, NEW base \in R, NEW pick,
         \A s \in SUBSET S : s # {} => pick[s] \in s,
         NEW step \in [S \X R -> R]
  PROVE  \E g \in [SUBSET S -> R] : Folding(g, S, base, pick, step)
<1> DEFINE Folds(n) == \E g : FoldsUpTo(g, n, S, R, base, pick, step)
           Bad == {n \in Nat : ~Folds(n)}
<1>1. Folds(0)
  <2> DEFINE g == [s \in SUBSET S |-> base]
  <2>1. ASSUME NEW s \in SUBSET S, Cardinality(s) <= 0 PROVE s = {}
    <3>1. Cardinality(s) \in Nat /\ (Cardinality(s) = 0 <=> s = {})
      BY PickedSmaller
    <3>2. QED
      BY <2>1, <3>1
  <2>2. FoldsUpTo(g, 0, S, R, base, pick, step)
    BY <2>1 DEF FoldsUpTo, FoldValue
  <2>3. QED
    BY <2>2
<1>2. ASSUME NEW m \in Nat, Folds(m) PROVE Folds(m + 1)
  BY <1>2, FoldsOneMore
<1> HIDE DEF Folds
<1>3. \A n \in Nat : Folds(n)
  <2>1. SUFFICES ASSUME Bad # {} PROVE FALSE
    OBVIOUS
  <2>2. Bad \subseteq Nat
    OBVIOUS
  <2> HIDE DEF Bad
  <2>3. PICK n \in Bad : \A m \in Bad : n <= m
    BY <2>1, <2>2, LeastOf
  <2> USE DEF Bad
  <2>4. n \in Nat /\ ~Folds(n)
    OBVIOUS
  <2>5. n # 0
    BY <1>1, <2>4
  <2>6. n - 1 \in Nat /\ (n - 1) + 1 = n /\ ~(n <= n - 1)
    BY ONLY <2>4, <2>5
  <2>7. Folds(n - 1)
    BY <2>3, <2>6
  <2>8. QED
    BY <1>2, <2>4, <2>6, <2>7
<1>4. PICK h : FoldsUpTo(h, Cardinality(S), S, R, base, pick, step)
  <2>1. Cardinality(S) \in Nat
    BY FS_CardinalityType
  <2>2. QED
    BY <1>3, <2>1 DEF Folds
<1> DEFINE g == [s \in SUBSET S |-> h[s]]
<1>5. ASSUME NEW s \in SUBSET S
      PROVE  h[s] \in R /\ h[s] = FoldValue(h, s, base, pick, step)
  <2>1. Cardinality(s) <= Cardinality(S)
    BY FS_Subset
  <2>2. QED
    BY <1>4, <2>1 DEF FoldsUpTo
<1>6. ASSUME NEW s \in SUBSET S
      PROVE  FoldValue(g, s, base, pick, step) = FoldValue(h, s, base, pick, step)
  BY DEF FoldValue
<1>7. g \in [SUBSET S -> R]
  BY <1>5
<1>8. g = [s \in SUBSET S |-> FoldValue(g, s, base, pick, step)]
  <2>1. \A s \in SUBSET S : g[s] = FoldValue(g, s, base, pick, step)
    BY <1>5, <1>6
  <2>2. g = [s \in SUBSET S |-> g[s]]
    OBVIOUS
  <2> HIDE DEF g
  <2>3. QED
    BY <2>1, <2>2
<1> HIDE DEF g
<1>9. QED
  BY <1>7, <1>8 DEF Folding

------------------------------------------------------------------------------
(***************************************************************************)
(* Sums over a few buckets.  MapThenSumSet is a recursive function on the  *)
(* subsets of its set; up to four elements it can be followed step by      *)
(* step.                                                                   *)
(***************************************************************************)

CountSum(c, S) == MapThenSumSet(LAMBDA b : c[b].count, S)

\* iter is the recursive function of MapThenSumSet for the weights w.
Summing(iter, w, S) ==
  iter = [s \in SUBSET S |->
            IF s = {} THEN 0
            ELSE LET x == CHOOSE x \in s : TRUE IN w[x] + iter[s \ {x}]]

\* If there is such a function, it is what MapThenSumSet computes with.
LEMMA SumIsIterated ==
  ASSUME NEW c, NEW S, NEW g, Summing(g, [b \in S |-> c[b].count], S)
  PROVE  \E iter : /\ Summing(iter, [b \in S |-> c[b].count], S)
                   /\ CountSum(c, S) = iter[S]
<1> DEFINE Q(iter) == iter = [s \in SUBSET S |->
                        IF s = {} THEN 0
                        ELSE c[CHOOSE x \in s : TRUE].count
                               + iter[s \ {CHOOSE x \in s : TRUE}]]
<1>1. CountSum(c, S) = (CHOOSE iter : Q(iter))[S]
  BY DEF CountSum, MapThenSumSet, MapThenFoldSet
<1>2. ASSUME NEW iter PROVE Summing(iter, [b \in S |-> c[b].count], S) <=> Q(iter)
  <2> DEFINE w == [b \in S |-> c[b].count]
  <2>1. ASSUME NEW s \in SUBSET S, s # {}
        PROVE  w[CHOOSE x \in s : TRUE] = c[CHOOSE x \in s : TRUE].count
    <3>1. (CHOOSE x \in s : TRUE) \in S
      BY <2>1
    <3>2. QED
      BY <3>1
  <2> HIDE DEF w
  <2>2. Summing(iter, w, S) <=> Q(iter)
    BY <2>1 DEF Summing
  <2>3. QED
    BY <2>2 DEF w
<1> HIDE DEF Q
<1>3. Q(CHOOSE iter : Q(iter))
  BY <1>2
<1>4. QED
  BY <1>1, <1>2, <1>3

\* The parts of the sum that come from the elements of P, one by one.
Total(w, s, p, q, u, v) ==
  (IF p \in s THEN w[p] ELSE 0) + (IF q \in s THEN w[q] ELSE 0)
    + (IF u \in s THEN w[u] ELSE 0) + (IF v \in s THEN w[v] ELSE 0)

\* Two such functions agree on sets of n + 1 elements if they do on those of n.
LEMMA SumsAgree ==
  ASSUME NEW S, IsFiniteSet(S), NEW w, NEW i, NEW j, Summing(i, w, S), Summing(j, w, S),
         NEW n \in Nat, \A s \in SUBSET S : Cardinality(s) <= n => i[s] = j[s],
         NEW s \in SUBSET S, Cardinality(s) <= n + 1
  PROVE  i[s] = j[s]
<1>1. CASE s = {}
  BY <1>1 DEF Summing
<1>2. CASE s # {}
  <2> DEFINE x == CHOOSE x \in s : TRUE
  <2>1. x \in s
    BY <1>2
  <2>2. i[s] = w[x] + i[s \ {x}] /\ j[s] = w[x] + j[s \ {x}]
    BY <1>2 DEF Summing
  <2> HIDE DEF x
  <2>3. Cardinality(s \ {x}) = Cardinality(s) - 1 /\ Cardinality(s) \in Nat
    BY <2>1, FS_Subset, FS_RemoveElement, FS_CardinalityType
  <2>4. s \ {x} \in SUBSET S /\ Cardinality(s \ {x}) <= n
    BY <2>3
  <2>5. QED
    BY <2>2, <2>4
<1>3. QED
  BY <1>1, <1>2

\* Another element makes a finite set larger by one at most.
LEMMA OneMore ==
  ASSUME NEW S, NEW x, IsFiniteSet(S)
  PROVE  /\ IsFiniteSet(S \union {x})
         /\ Cardinality(S \union {x}) \in Nat /\ Cardinality(S) \in Nat
         /\ Cardinality(S \union {x}) <= Cardinality(S) + 1
<1>1. Cardinality(S) \in Nat
  BY FS_CardinalityType
<1>2. /\ IsFiniteSet(S \union {x})
      /\ Cardinality(S \union {x}) = IF x \in S THEN Cardinality(S) ELSE Cardinality(S) + 1
  BY FS_AddElement
<1>3. QED
  BY <1>1, <1>2

\* Four elements are four at most.
LEMMA AtMostFour ==
  ASSUME NEW p, NEW q, NEW u, NEW v
  PROVE  IsFiniteSet({p, q, u, v}) /\ Cardinality({p, q, u, v}) <= 4
<1> DEFINE one == {p}
           two == one \union {q}
           three == two \union {u}
           four == three \union {v}
           Grows(S, T) == /\ IsFiniteSet(T)
                          /\ Cardinality(T) \in Nat /\ Cardinality(S) \in Nat
                          /\ Cardinality(T) <= Cardinality(S) + 1
<1>1. IsFiniteSet(one) /\ Cardinality(one) = 1
  BY FS_Singleton
<1>2. Grows(one, two)
  BY <1>1, OneMore, Zenon
<1>3. Grows(two, three)
  BY <1>2, OneMore, Zenon
<1>4. Grows(three, four)
  BY <1>3, OneMore, Zenon
<1>5. four = {p, q, u, v}
  BY DEF three, two, one
<1> HIDE DEF one, two, three, four
<1>6. QED
  BY <1>1, <1>2, <1>3, <1>4, <1>5

\* For some of four elements there is such a function, and it sums the parts.
LEMMA SumOfFour ==
  ASSUME NEW p, NEW q, NEW u, NEW v, p # q, p # u, p # v, q # u, q # v, u # v,
         NEW S \in SUBSET {p, q, u, v}, NEW w \in [S -> Nat]
  PROVE  /\ \E g : Summing(g, w, S)
         /\ \A i : Summing(i, w, S) => i[S] = Total(w, S, p, q, u, v)
<1> DEFINE g == [s \in SUBSET S |-> Total(w, s, p, q, u, v)]
<1>1. Summing(g, w, S)
  <2>1. Total(w, {}, p, q, u, v) = 0
    BY DEF Total
  <2>2. ASSUME NEW s \in SUBSET S, s # {}
        PROVE  LET x == CHOOSE x \in s : TRUE IN g[s] = w[x] + g[s \ {x}]
    <3> DEFINE x == CHOOSE x \in s : TRUE
    <3>1. x \in s
      BY <2>2
    <3> HIDE DEF x, g
    <3>2. x \in {p, q, u, v} /\ w[x] \in Nat /\ \A y \in s : w[y] \in Nat
      BY <3>1
    <3>3. Total(w, s, p, q, u, v) = w[x] + Total(w, s \ {x}, p, q, u, v)
      BY <3>1, <3>2 DEF Total
    <3>4. g[s] = w[x] + g[s \ {x}]
      BY <3>3 DEF g
    <3>5. QED
      BY <3>4 DEF x
  <2>3. QED
    BY <2>1, <2>2 DEF Summing
<1>2. SUFFICES ASSUME NEW i, Summing(i, w, S) PROVE i[S] = g[S]
  BY <1>1
<1> HIDE DEF g
<1>3. IsFiniteSet(S) /\ Cardinality(S) \in Nat /\ Cardinality(S) <= 4
  <2>1. IsFiniteSet({p, q, u, v}) /\ Cardinality({p, q, u, v}) <= 4
    BY AtMostFour
  <2>2. QED
    BY <2>1, FS_Subset, FS_CardinalityType
<1>4. \A s \in SUBSET S : Cardinality(s) <= 0 => i[s] = g[s]
  <2> SUFFICES ASSUME NEW s \in SUBSET S, Cardinality(s) <= 0 PROVE i[s] = g[s]
    OBVIOUS
  <2>1. s = {}
    BY <1>3, FS_Subset, FS_CardinalityType, FS_EmptySet
  <2>2. QED
    BY <1>1, <1>2, <2>1 DEF Summing
<1>5. \A s \in SUBSET S : Cardinality(s) <= 0 + 1 => i[s] = g[s]
  BY <1>1, <1>2, <1>3, <1>4, SumsAgree
<1>6. \A s \in SUBSET S : Cardinality(s) <= 1 + 1 => i[s] = g[s]
  BY <1>1, <1>2, <1>3, <1>5, SumsAgree
<1>7. \A s \in SUBSET S : Cardinality(s) <= 2 + 1 => i[s] = g[s]
  BY <1>1, <1>2, <1>3, <1>6, SumsAgree
<1>8. \A s \in SUBSET S : Cardinality(s) <= 3 + 1 => i[s] = g[s]
  BY <1>1, <1>2, <1>3, <1>7, SumsAgree
<1>9. QED
  BY <1>3, <1>8

\* A sum over any finite set is there, and is a number.
LEMMA SummingInt ==
  ASSUME NEW S, IsFiniteSet(S), NEW w \in [S -> Int]
  PROVE  /\ \E g : Summing(g, w, S)
         /\ \A i : Summing(i, w, S) => i[S] \in Int
<1> DEFINE pick == [s \in SUBSET S |-> CHOOSE x \in s : TRUE]
           step == [p \in S \X Int |-> w[p[1]] + p[2]]
<1>1. \A s \in SUBSET S : s # {} => pick[s] \in s
  OBVIOUS
<1>2. step \in [S \X Int -> Int]
  OBVIOUS
<1>3. PICK h \in [SUBSET S -> Int] : Folding(h, S, 0, pick, step)
  <2> HIDE DEF pick, step
  <2>1. 0 \in Int
    OBVIOUS
  <2>2. QED
    BY <1>1, <1>2, <2>1, FoldingExists
<1>4. ASSUME NEW s \in SUBSET S, s # {}
      PROVE  step[<<pick[s], h[s \ {pick[s]}]>>]
               = LET x == CHOOSE x \in s : TRUE IN w[x] + h[s \ {x}]
  <2>1. pick[s] = CHOOSE x \in s : TRUE
    OBVIOUS
  <2>2. pick[s] \in S /\ h[s \ {pick[s]}] \in Int
    BY <1>1, <1>3, <1>4
  <2> HIDE DEF pick
  <2>3. QED
    BY <2>1, <2>2
<1>5. Summing(h, w, S)
  <2>1. h = [s \in SUBSET S |-> FoldValue(h, s, 0, pick, step)]
    BY <1>3 DEF Folding
  <2> HIDE DEF pick, step
  <2>2. \A s \in SUBSET S :
          FoldValue(h, s, 0, pick, step)
            = IF s = {} THEN 0 ELSE LET x == CHOOSE x \in s : TRUE IN w[x] + h[s \ {x}]
    BY <1>4 DEF FoldValue
  <2>3. QED
    BY <2>1, <2>2 DEF Summing
<1>6. ASSUME NEW i, Summing(i, w, S)
      PROVE  i[S] \in Int
  <2> DEFINE Good == {s \in SUBSET S : i[s] \in Int}
  <2>1. ASSUME NEW s \in SUBSET S, \A x \in s : s \ {x} \in Good
        PROVE  s \in Good
    <3>1. CASE s = {}
      BY <1>6, <3>1 DEF Summing
    <3>2. CASE s # {}
      <4> DEFINE x == CHOOSE x \in s : TRUE
      <4>1. x \in s
        BY <3>2
      <4>2. i[s] = w[x] + i[s \ {x}]
        BY <1>6, <3>2 DEF Summing
      <4> HIDE DEF x
      <4>3. i[s \ {x}] \in Int /\ w[x] \in Int
        BY <2>1, <4>1
      <4>4. i[s] \in Int
        BY ONLY <4>2, <4>3
      <4>5. QED
        BY <4>4
    <3>3. QED
      BY <3>1, <3>2
  <2> HIDE DEF Good
  <2>2. \A s \in SUBSET S : s \in Good
    BY <2>1, SubsetInduction
  <2>3. QED
    BY <2>2 DEF Good
<1>7. QED
  BY <1>5, <1>6

\* So the counts of some of four buckets add up as they should.
LEMMA CountsOfFour ==
  ASSUME NEW p, NEW q, NEW u, NEW v, p # q, p # u, p # v, q # u, q # v, u # v,
         NEW S \in SUBSET {p, q, u, v}, NEW c, \A b \in S : c[b].count \in Nat
  PROVE  CountSum(c, S) = Total([b \in S |-> c[b].count], S, p, q, u, v)
<1> DEFINE w == [b \in S |-> c[b].count]
<1>1. w \in [S -> Nat]
  OBVIOUS
<1> HIDE DEF w
<1>2. PICK g : Summing(g, w, S)
  BY <1>1, SumOfFour
<1>3. PICK i : Summing(i, w, S) /\ CountSum(c, S) = i[S]
  BY <1>2, SumIsIterated DEF w
<1>4. i[S] = Total(w, S, p, q, u, v)
  BY <1>1, <1>3, SumOfFour
<1>5. QED
  BY <1>3, <1>4 DEF w

\* Summing a sound array by key is reading the path of the key.
LEMMA MergeIsRecorded ==
  ASSUME NEW c, Typed(c), WellPlaced(c), NEW f \in Flow
  PROVE  MergeSingleCache(c, f) = Recorded(c, f)
<1> DEFINE S == {b \in Bucket : c[b].key = f /\ c[b].count # 0}
           p == PathBucket(f, 0)
           q == PathBucket(f, 1)
           u == PathBucket(f, 2)
           v == PathBucket(f, 3)
           w == [b \in S |-> c[b].count]
<1>1. p # q /\ p # u /\ p # v /\ q # u /\ q # v /\ u # v
  BY LevelsDisjoint DEF Level
<1>2. p \in Bucket /\ q \in Bucket /\ u \in Bucket /\ v \in Bucket
  BY PathInArray DEF Level
<1>3. S \in SUBSET {p, q, u, v}
  BY DEF WellPlaced, check, Level
<1>4. \A b \in Bucket : c[b].count \in Nat
  BY DEF Typed, Item
<1>5. MergeSingleCache(c, f) = CountSum(c, S)
  BY DEF MergeSingleCache, CountSum
<1>6. Recorded(c, f) = (IF c[p].key = f THEN c[p].count ELSE 0)
        + (IF c[q].key = f THEN c[q].count ELSE 0)
        + (IF c[u].key = f THEN c[u].count ELSE 0)
        + (IF c[v].key = f THEN c[v].count ELSE 0)
  BY DEF Recorded, Share
<1>7. \A b \in Bucket : (IF b \in S THEN w[b] ELSE 0) = IF c[b].key = f THEN c[b].count ELSE 0
  BY <1>4
<1>8. CountSum(c, S) = Total(w, S, p, q, u, v)
  <2>1. \A b \in S : c[b].count \in Nat
    BY <1>4
  <2> HIDE DEF S, p, q, u, v
  <2>2. QED
    BY <1>1, <1>3, <2>1, CountsOfFour
<1> HIDE DEF S, p, q, u, v, w
<1>9. QED
  BY <1>2, <1>5, <1>6, <1>7, <1>8 DEF Total

------------------------------------------------------------------------------
(***************************************************************************)
(* Accounting.  Held(c, it, g) is what a half-done insertion still knows   *)
(* of flow g: its recorded count and its part of the item in hand.         *)
(***************************************************************************)
Carried == [key : Flow, count : Nat, time : Nat]

Sound(c) == Typed(c) /\ WellPlaced(c)

\* What an item counts for flow g.
PartOf(it, g) == IF it.key = g THEN it.count ELSE 0

Held(c, it, g) == Recorded(c, g) + PartOf(it, g)

\* The item in hand is on the branch of the level-l bucket of f's path.
OnBranch(it, f, l) == PathBucket(it.key, l) = PathBucket(f, l)

\* What every level owes to the next: a sound array, an item in hand on the
\* same branch, and not a packet of any flow created or forgotten.
Accounted(c, it, r, f, l) ==
  /\ Sound(r.cache)
  /\ r.item \in Carried
  /\ r.done \in BOOLEAN
  /\ ~r.done => r.item.count > 0 /\ OnBranch(r.item, f, l)
  /\ \A g \in Flow : Held(r.cache, r.item, g) = Held(c, it, g)

\* A bucket contributes to its flow's count or not at all.
LEMMA ShareType ==
  ASSUME NEW c, Typed(c), NEW g \in Flow, NEW l \in Level
  PROVE  Share(c, g, l) \in Nat
<1>1. PathBucket(g, l) \in Bucket
  BY PathInArray
<1>2. QED
  BY <1>1 DEF Share, Typed, Item

\* What is read back for a flow is a number.
LEMMA RecordedType ==
  ASSUME NEW c, Typed(c), NEW g \in Flow
  PROVE  Recorded(c, g) \in Nat
BY ShareType DEF Recorded, Level

\* Writing item x into one bucket changes the share of that bucket only.
LEMMA ShareUpdate ==
  ASSUME NEW c, Typed(c), NEW f \in Flow, NEW l \in Level, NEW x \in Item,
         NEW g \in Flow, NEW j \in Level
  PROVE  Share([c EXCEPT ![PathBucket(f, l)] = x], g, j) =
           IF j = l /\ PathBucket(g, l) = PathBucket(f, l)
           THEN PartOf(x, g) ELSE Share(c, g, j)
<1> DEFINE at == PathBucket(f, l)
           here == PathBucket(g, j)
<1>1. at \in Bucket /\ here \in Bucket
  BY PathInArray
<1>2. here = at => j = l
  BY LevelsDisjoint
<1>3. [c EXCEPT ![at] = x][here] = IF here = at THEN x ELSE c[here]
  BY <1>1 DEF Typed
<1> HIDE DEF at
<1>4. QED
  BY <1>2, <1>3 DEF Share, PartOf, at

\* And so it moves the count of a flow only if the bucket is on its path.
LEMMA RecordedUpdate ==
  ASSUME NEW c, Typed(c), NEW f \in Flow, NEW l \in Level, NEW x \in Item,
         NEW g \in Flow
  PROVE  Recorded([c EXCEPT ![PathBucket(f, l)] = x], g) =
           IF PathBucket(g, l) = PathBucket(f, l)
           THEN Recorded(c, g) - PartOf(c[PathBucket(f, l)], g) + PartOf(x, g)
           ELSE Recorded(c, g)
<1> DEFINE d == [c EXCEPT ![PathBucket(f, l)] = x]
           same == PathBucket(g, l) = PathBucket(f, l)
<1>1. \A j \in Level : Share(d, g, j) = IF j = l /\ same THEN PartOf(x, g) ELSE Share(c, g, j)
  BY ShareUpdate
<1>2. \A j \in Level : Share(c, g, j) \in Nat
  BY ShareType
<1>3. x.count \in Nat /\ PartOf(x, g) \in Nat
  BY DEF Item, PartOf
<1>4. same => Share(c, g, l) = PartOf(c[PathBucket(f, l)], g)
  BY DEF Share, PartOf
<1> HIDE DEF d, same
<1>5. Recorded(d, g) = IF same THEN Recorded(c, g) - Share(c, g, l) + PartOf(x, g)
                       ELSE Recorded(c, g)
  BY <1>1, <1>2, <1>3 DEF Recorded, Level
<1>6. QED
  BY <1>4, <1>5 DEF d, same

\* An item may be written into any bucket of its own flow's path.
LEMMA SoundUpdate ==
  ASSUME NEW c, Sound(c), NEW f \in Flow, NEW l \in Level,
         NEW x \in Carried, x.count > 0, OnBranch(x, f, l)
  PROVE  Sound([c EXCEPT ![PathBucket(f, l)] = x])
<1> DEFINE at == PathBucket(f, l)
           d == [c EXCEPT ![at] = x]
<1>1. at \in Bucket
  BY PathInArray
<1>2. x \in Item /\ x.count # 0 /\ x.key # NoKey
  BY DEF Carried, Item
<1>3. d \in [Bucket -> Item] /\ d[at] = x /\ (\A b \in Bucket \ {at} : d[b] = c[b])
  BY <1>1, <1>2 DEF Sound, Typed
<1>4. check(at, x.key)
  BY DEF check, OnBranch
<1> HIDE DEF d, at
<1>5. Typed(d)
  BY <1>2, <1>3 DEF Typed, Sound
<1>6. WellPlaced(d)
  BY <1>3, <1>4 DEF WellPlaced, Sound
<1>7. QED
  BY <1>5, <1>6 DEF Sound, d, at

------------------------------------------------------------------------------
(* The four outcomes of a level *)

\* Storing the item in a vacant bucket keeps the accounts.
LEMMA PlacedAccounted ==
  ASSUME NEW c, Sound(c), NEW f \in Flow, NEW l \in Level,
         NEW it \in Carried, it.count > 0, OnBranch(it, f, l),
         Vacant(c, PathBucket(f, l))
  PROVE  Accounted(c, it, Placed(c, it, PathBucket(f, l)), f, l)
<1> DEFINE at == PathBucket(f, l)
           r == Placed(c, it, at)
<1>1. at \in Bucket /\ Typed(c) /\ it \in Item
  BY PathInArray DEF Sound, Carried, Item
<1>2. r.cache = [c EXCEPT ![at] = it] /\ r.item = [it EXCEPT !.count = 0] /\ r.done = TRUE
  BY DEF Placed, Outcome
<1>3. Sound(r.cache)
  BY <1>2, SoundUpdate
<1>4. r.item \in Carried
  BY <1>2 DEF Carried
<1>5. ASSUME NEW g \in Flow
      PROVE  Held(r.cache, r.item, g) = Held(c, it, g)
  <2>1. PartOf(c[at], g) = 0 /\ PartOf(r.item, g) = 0
    BY <1>1, <1>2 DEF Vacant, PartOf, Typed, Item, Carried
  <2>2. PathBucket(g, l) # at => PartOf(it, g) = 0
    BY DEF PartOf, OnBranch
  <2>3. Recorded(r.cache, g) = IF PathBucket(g, l) = at
                               THEN Recorded(c, g) - PartOf(c[at], g) + PartOf(it, g)
                               ELSE Recorded(c, g)
    BY <1>1, <1>2, RecordedUpdate
  <2>4. Recorded(c, g) \in Nat /\ PartOf(it, g) \in Nat
    BY <1>1, RecordedType DEF PartOf, Carried
  <2> HIDE DEF r, at
  <2>5. QED
    BY <2>1, <2>2, <2>3, <2>4 DEF Held
<1>6. QED
  BY <1>2, <1>3, <1>4, <1>5 DEF Accounted

\* Adding n of the carried packets to the flow's resident keeps the accounts;
\* the rest stays in the outcome's item.
LEMMA MergedAccounted ==
  ASSUME NEW c, Sound(c), NEW f \in Flow, NEW l \in Level,
         NEW it \in Carried, it.count > 0, OnBranch(it, f, l),
         Holds(c, PathBucket(f, l), it), NEW n \in Nat, n <= it.count
  PROVE  Accounted(c, it, Merged(c, it, PathBucket(f, l), n), f, l)
<1> DEFINE at == PathBucket(f, l)
           x == incrementItem(it, c[at], n)
           r == Merged(c, it, at, n)
<1>1. at \in Bucket /\ Typed(c) /\ it \in Item
  BY PathInArray DEF Sound, Carried, Item
<1>2. c[at] \in Item /\ c[at].key = it.key /\ c[at].count \in Nat /\ c[at].count > 0
  BY <1>1 DEF Typed, Item, Holds, Vacant
<1>3. /\ x.key = it.key /\ x.count = c[at].count + n /\ x.time \in Nat /\ x \in Carried
  BY <1>2 DEF incrementItem, Newer, Item, Carried
<1>4. /\ r.cache = [c EXCEPT ![at] = x] /\ r.done = TRUE
      /\ r.item = [it EXCEPT !.count = it.count - n]
  BY <1>1 DEF Merged, Outcome, Typed
<1>5. r.item \in Carried
  BY <1>4 DEF Carried
<1>6. Sound(r.cache)
  <2>1. x.count > 0 /\ OnBranch(x, f, l)
    BY <1>2, <1>3 DEF OnBranch
  <2> HIDE DEF r, x
  <2>2. QED
    BY <1>3, <1>4, <2>1, SoundUpdate
<1>7. ASSUME NEW g \in Flow
      PROVE  Held(r.cache, r.item, g) = Held(c, it, g)
  <2>1. /\ PartOf(x, g) = IF it.key = g THEN c[at].count + n ELSE 0
        /\ PartOf(c[at], g) = IF it.key = g THEN c[at].count ELSE 0
        /\ PartOf(r.item, g) = IF it.key = g THEN it.count - n ELSE 0
    BY <1>2, <1>3, <1>4 DEF PartOf, Carried
  <2>2. PathBucket(g, l) # at => it.key # g
    BY DEF OnBranch
  <2>3. Recorded(r.cache, g) = IF PathBucket(g, l) = at
                               THEN Recorded(c, g) - PartOf(c[at], g) + PartOf(x, g)
                               ELSE Recorded(c, g)
    <3>1. x \in Item
      BY <1>3 DEF Carried, Item
    <3> HIDE DEF x
    <3>2. QED
      BY <1>1, <1>4, <3>1, RecordedUpdate
  <2>4. Recorded(c, g) \in Nat /\ it.count \in Nat
    BY <1>1, RecordedType DEF Carried
  <2> HIDE DEF r, at, x
  <2>5. QED
    BY <1>2, <2>1, <2>2, <2>3, <2>4 DEF Held, PartOf
<1>8. QED
  BY <1>4, <1>5, <1>6, <1>7 DEF Accounted

\* Exchanging the item with another flow's resident keeps the accounts, and the
\* resident taken along is on the same branch.
LEMMA ExchangedAccounted ==
  ASSUME NEW c, Sound(c), NEW f \in Flow, NEW l \in Level,
         NEW it \in Carried, it.count > 0, OnBranch(it, f, l),
         ~Vacant(c, PathBucket(f, l)), NEW d \in BOOLEAN
  PROVE  Accounted(c, it, Exchanged(c, it, PathBucket(f, l), d), f, l)
<1> DEFINE at == PathBucket(f, l)
           r == Exchanged(c, it, at, d)
<1>1. at \in Bucket /\ Typed(c) /\ it \in Item
  BY PathInArray DEF Sound, Carried, Item
<1>2. r.cache = [c EXCEPT ![at] = it] /\ r.item = c[at] /\ r.done = d
  BY DEF Exchanged, Outcome
<1>3. c[at] \in Carried /\ c[at].count > 0
  BY <1>1 DEF Typed, Item, Carried, Vacant
<1>4. OnBranch(c[at], f, l)
  <2>1. PICK j \in Level : at = PathBucket(c[at].key, j)
    BY <1>1, <1>3 DEF Sound, WellPlaced, check, Carried
  <2>2. c[at].key \in Flow
    BY <1>3 DEF Carried
  <2>3. j = l
    BY <2>1, <2>2, LevelsDisjoint
  <2>4. QED
    BY <2>1, <2>3 DEF OnBranch
<1>5. Sound(r.cache)
  BY <1>2, SoundUpdate
<1>6. ASSUME NEW g \in Flow
      PROVE  Held(r.cache, r.item, g) = Held(c, it, g)
  <2>1. PathBucket(g, l) # at => PartOf(it, g) = 0 /\ PartOf(c[at], g) = 0
    BY <1>4 DEF PartOf, OnBranch
  <2>2. Recorded(r.cache, g) = IF PathBucket(g, l) = at
                               THEN Recorded(c, g) - PartOf(c[at], g) + PartOf(it, g)
                               ELSE Recorded(c, g)
    BY <1>1, <1>2, RecordedUpdate
  <2>3. Recorded(c, g) \in Nat /\ PartOf(it, g) \in Nat /\ PartOf(c[at], g) \in Nat
    BY <1>1, <1>3, RecordedType DEF PartOf, Carried
  <2> HIDE DEF at
  <2>4. QED
    BY <1>2, <2>1, <2>2, <2>3 DEF Held
<1>7. QED
  BY <1>2, <1>3, <1>4, <1>5, <1>6 DEF Accounted

\* Leaving the bucket alone keeps the accounts.
LEMMA PassedAccounted ==
  ASSUME NEW c, Sound(c), NEW f \in Flow, NEW l \in Level,
         NEW it \in Carried, it.count > 0, OnBranch(it, f, l), NEW d \in BOOLEAN
  PROVE  Accounted(c, it, Passed(c, it, d), f, l)
BY DEF Accounted, Passed, Outcome

\* The two levels all routines share.
LEMMA MustKickAccounted ==
  ASSUME NEW c, Sound(c), NEW f \in Flow,
         NEW it \in Carried, it.count > 0, OnBranch(it, f, 2)
  PROVE  Accounted(c, it, must_kick_level(c, it, PathBucket(f, 2)), f, 2)
<1> DEFINE at == PathBucket(f, 2)
<1>0. 2 \in Level /\ 1 <= it.count
  BY DEF Level, Carried
<1>1. CASE Vacant(c, at)
  BY <1>0, <1>1, PlacedAccounted DEF must_kick_level
<1>2. CASE Holds(c, at, it)
  BY <1>0, <1>2, MergedAccounted DEF must_kick_level, Holds
<1>3. CASE ~Vacant(c, at) /\ ~Holds(c, at, it)
  BY <1>0, <1>3, ExchangedAccounted DEF must_kick_level
<1>4. QED
  BY <1>1, <1>2, <1>3

\* The last level stores or gives back every packet it was handed, and ends the
\* insertion.
LEMMA LastLevelAccounted ==
  ASSUME NEW c, Sound(c), NEW f \in Flow,
         NEW it \in Carried, it.count > 0, OnBranch(it, f, 3),
         NEW n \in Nat, n <= it.count, NEW wins \in BOOLEAN
  PROVE  /\ Accounted(c, it, LastLevel(c, it, PathBucket(f, 3), n, wins), f, 3)
         /\ LastLevel(c, it, PathBucket(f, 3), n, wins).done
<1> DEFINE at == PathBucket(f, 3)
<1>0. 3 \in Level
  BY DEF Level
<1>1. CASE Vacant(c, at)
  BY <1>0, <1>1, PlacedAccounted DEF LastLevel, Placed, Outcome
<1>2. CASE Holds(c, at, it)
  BY <1>0, <1>2, MergedAccounted DEF LastLevel, Holds, Merged, Outcome
<1>3. CASE ~Vacant(c, at) /\ ~Holds(c, at, it) /\ wins
  BY <1>0, <1>3, ExchangedAccounted DEF LastLevel, Exchanged, Outcome
<1>4. CASE ~Vacant(c, at) /\ ~Holds(c, at, it) /\ ~wins
  BY <1>0, <1>4, PassedAccounted DEF LastLevel, Passed, Outcome
<1>5. QED
  BY <1>1, <1>2, <1>3, <1>4

------------------------------------------------------------------------------
(* From the levels to the whole insertion *)

\* What is carried to the next level is on the branch of its bucket.
LEMMA CarriedDown ==
  ASSUME NEW c, NEW it, NEW r, NEW f \in Flow, NEW l \in 0..2,
         Accounted(c, it, r, f, l), ~r.done
  PROVE  /\ Sound(r.cache) /\ r.item \in Carried /\ r.item.count > 0
         /\ OnBranch(r.item, f, l + 1)
<1>1. r.item \in Carried /\ r.item.key \in Flow
  BY DEF Accounted, Carried
<1>2. PathBucket(r.item.key, l) = PathBucket(f, l)
  BY DEF Accounted, OnBranch
<1>3. PathBucket(r.item.key, l + 1) = PathBucket(f, l + 1)
  BY <1>1, <1>2, PathsMerge
<1>4. QED
  BY <1>1, <1>3 DEF Accounted, OnBranch

\* Accounts compose: level l + 1 is entered with what level l left, or skipped.
LEMMA AccountsCompose ==
  ASSUME NEW c, NEW it, NEW r, NEW s, NEW f \in Flow, NEW l \in 0..2,
         Accounted(c, it, r, f, l),
         r.done => s = r,
         ~r.done => Accounted(r.cache, r.item, s, f, l + 1)
  PROVE  Accounted(c, it, s, f, l + 1)
<1>1. CASE r.done
  BY <1>1 DEF Accounted
<1>2. CASE ~r.done
  BY <1>2 DEF Accounted
<1>3. QED
  BY <1>1, <1>2

\* All that any level of any routine may do with an item.
Possible(c, it, at, r) ==
  \/ Vacant(c, at) /\ r = Placed(c, it, at)
  \/ Holds(c, at, it) /\ \E n \in Nat : r = Merged(c, it, at, n)
  \/ ~Vacant(c, at) /\ \E d \in BOOLEAN : r = Exchanged(c, it, at, d) \/ r = Passed(c, it, d)

\* The two levels all routines share are such levels.
LEMMA UpperLevelsPossible ==
  ASSUME NEW c, NEW it, NEW at, NEW n \in Nat, NEW wins \in BOOLEAN
  PROVE  /\ Possible(c, it, at, must_kick_level(c, it, at))
         /\ Possible(c, it, at, LastLevel(c, it, at, n, wins))
BY DEF Possible, must_kick_level, LastLevel, Holds

------------------------------------------------------------------------------
(* Sums of what a function gives *)

SumOf(v, S) == MapThenSumSet(LAMBDA f : v[f], S)

\* A sum of numbers is there, and is what the recursive function makes of the set.
LEMMA SumOfIterated ==
  ASSUME NEW S, IsFiniteSet(S), NEW v, \A f \in S : v[f] \in Int
  PROVE  \E iter : Summing(iter, [f \in S |-> v[f]], S) /\ SumOf(v, S) = iter[S]
<1> DEFINE u == [f \in S |-> v[f]]
           Q(iter) == iter = [s \in SUBSET S |->
                        IF s = {} THEN 0
                        ELSE v[CHOOSE x \in s : TRUE] + iter[s \ {CHOOSE x \in s : TRUE}]]
<1>1. SumOf(v, S) = (CHOOSE iter : Q(iter))[S]
  BY DEF SumOf, MapThenSumSet, MapThenFoldSet
<1>2. ASSUME NEW iter PROVE Summing(iter, u, S) <=> Q(iter)
  <2>1. ASSUME NEW s \in SUBSET S, s # {}
        PROVE  u[CHOOSE x \in s : TRUE] = v[CHOOSE x \in s : TRUE]
    <3>1. (CHOOSE x \in s : TRUE) \in S
      BY <2>1
    <3>2. QED
      BY <3>1
  <2> HIDE DEF u
  <2>2. QED
    BY <2>1 DEF Summing
<1>3. \E g : Summing(g, u, S)
  <2>1. u \in [S -> Int]
    OBVIOUS
  <2> HIDE DEF u
  <2>2. QED
    BY <2>1, SummingInt
<1> HIDE DEF Q, u
<1>4. Q(CHOOSE iter : Q(iter))
  BY <1>2, <1>3
<1>5. QED
  BY <1>1, <1>2, <1>4 DEF u

\* It is a number.
LEMMA SumOfType ==
  ASSUME NEW S, IsFiniteSet(S), NEW v, \A f \in S : v[f] \in Int
  PROVE  SumOf(v, S) \in Int
<1> DEFINE u == [f \in S |-> v[f]]
<1>1. u \in [S -> Int]
  OBVIOUS
<1>2. PICK iter : Summing(iter, u, S) /\ SumOf(v, S) = iter[S]
  BY SumOfIterated
<1> HIDE DEF u
<1>3. QED
  BY <1>1, <1>2, SummingInt

\* More at one element is as much more in the sum.
LEMMA SumMoved ==
  ASSUME NEW S, IsFiniteSet(S), NEW v, \A f \in S : v[f] \in Int,
         NEW w, NEW x, NEW d \in Int,
         \A f \in S : w[f] = v[f] + IF f = x THEN d ELSE 0
  PROVE  SumOf(w, S) = SumOf(v, S) + IF x \in S THEN d ELSE 0
<1> DEFINE vS == [f \in S |-> v[f]]
           wS == [f \in S |-> w[f]]
           More(s) == IF x \in s THEN d ELSE 0
<1>1. /\ vS \in [S -> Int] /\ wS \in [S -> Int]
      /\ \A f \in S : wS[f] = vS[f] + IF f = x THEN d ELSE 0
      /\ \A f \in S : w[f] \in Int
  OBVIOUS
<1>2. PICK i : Summing(i, vS, S) /\ SumOf(v, S) = i[S]
  BY SumOfIterated
<1>3. PICK j : Summing(j, wS, S) /\ SumOf(w, S) = j[S]
  BY <1>1, SumOfIterated
<1> HIDE DEF vS, wS
<1> DEFINE Good == {s \in SUBSET S : i[s] \in Int /\ j[s] = i[s] + More(s)}
<1>4. ASSUME NEW s \in SUBSET S, \A y \in s : s \ {y} \in Good
      PROVE  s \in Good
  <2>1. CASE s = {}
    <3>1. i[s] = 0 /\ j[s] = 0
      BY <1>2, <1>3, <2>1 DEF Summing
    <3>2. More(s) = 0
      BY <2>1
    <3> HIDE DEF More
    <3>3. QED
      BY <3>1, <3>2
  <2>2. CASE s # {}
    <3> DEFINE y == CHOOSE y \in s : TRUE
               r == s \ {y}
    <3>1. y \in s
      BY <2>2
    <3>2. i[s] = vS[y] + i[r] /\ j[s] = wS[y] + j[r]
      BY <1>2, <1>3, <2>2 DEF Summing
    <3> HIDE DEF y
    <3>3. i[r] \in Int /\ j[r] = i[r] + More(r)
      BY <1>4, <3>1
    <3>4. vS[y] \in Int /\ wS[y] = vS[y] + IF y = x THEN d ELSE 0
      BY <1>1, <3>1
    <3>5. /\ y = x => More(r) = 0 /\ More(s) = d
          /\ y # x => More(r) = More(s)
      BY <3>1
    <3>6. More(r) \in Int /\ More(s) \in Int
      OBVIOUS
    <3> HIDE DEF More, r
    <3>7. i[s] \in Int /\ j[s] = i[s] + More(s)
      BY ONLY <3>2, <3>3, <3>4, <3>5, <3>6, d \in Int
    <3>8. QED
      BY <3>7
  <2>3. QED
    BY <2>1, <2>2
<1> HIDE DEF Good
<1>5. \A s \in SUBSET S : s \in Good
  BY <1>4, SubsetInduction
<1>6. S \in Good
  BY <1>5
<1>7. QED
  BY <1>2, <1>3, <1>6 DEF Good

\* The function that sums over a set sums over its subsets too.
LEMMA SumOfPart ==
  ASSUME NEW S, IsFiniteSet(S), NEW v, \A f \in S : v[f] \in Int,
         NEW i, Summing(i, [f \in S |-> v[f]], S), NEW T \in SUBSET S
  PROVE  SumOf(v, T) = i[T]
<1> DEFINE vS == [f \in S |-> v[f]]
           vT == [f \in T |-> v[f]]
<1>1. IsFiniteSet(T) /\ \A f \in T : v[f] \in Int
  BY FS_Subset
<1>2. PICK j : Summing(j, vT, T) /\ SumOf(v, T) = j[T]
  BY <1>1, SumOfIterated
<1>3. \A f \in T : vS[f] = vT[f]
  OBVIOUS
<1>4. Summing(i, vS, S)
  OBVIOUS
<1> HIDE DEF vS, vT
<1> DEFINE Good == {s \in SUBSET T : i[s] = j[s]}
<1>5. ASSUME NEW s \in SUBSET T, \A y \in s : s \ {y} \in Good
      PROVE  s \in Good
  <2>1. CASE s = {}
    <3>1. i[s] = 0 /\ j[s] = 0
      BY <1>2, <1>4, <2>1 DEF Summing
    <3>2. QED
      BY <3>1
  <2>2. CASE s # {}
    <3> DEFINE y == CHOOSE y \in s : TRUE
    <3>1. y \in s
      BY <2>2
    <3>2. i[s] = vS[y] + i[s \ {y}] /\ j[s] = vT[y] + j[s \ {y}]
      BY <1>2, <1>4, <2>2 DEF Summing
    <3> HIDE DEF y
    <3>3. i[s \ {y}] = j[s \ {y}]
      BY <1>5, <3>1
    <3>4. vS[y] = vT[y]
      BY <1>3, <3>1
    <3>5. QED
      BY <3>2, <3>3, <3>4
  <2>3. QED
    BY <2>1, <2>2
<1> HIDE DEF Good
<1>6. \A s \in SUBSET T : s \in Good
  BY <1>1, <1>5, SubsetInduction
<1>7. QED
  BY <1>2, <1>6 DEF Good

LEMMA SumOfNone ==
  ASSUME NEW v
  PROVE  SumOf(v, {}) = 0
<1>1. PICK i : Summing(i, [f \in {} |-> v[f]], {}) /\ SumOf(v, {}) = i[{}]
  BY FS_EmptySet, SumOfIterated
<1>2. QED
  BY <1>1 DEF Summing

\* Any element may be the one that goes first.
LEMMA SumTake ==
  ASSUME NEW S, IsFiniteSet(S), NEW v, \A f \in S : v[f] \in Int, NEW x \in S
  PROVE  SumOf(v, S) = v[x] + SumOf(v, S \ {x})
<1> DEFINE vS == [f \in S |-> v[f]]
<1>1. PICK i : Summing(i, vS, S) /\ SumOf(v, S) = i[S]
  BY SumOfIterated
<1>2. SumOf(v, S \ {x}) = i[S \ {x}]
  BY <1>1, SumOfPart
<1>3. vS \in [S -> Int] /\ \A f \in S : vS[f] = v[f]
  OBVIOUS
<1>4. ASSUME NEW s \in SUBSET S PROVE i[s] \in Int
  <2>1. SumOf(v, s) = i[s]
    BY <1>1, SumOfPart
  <2>2. IsFiniteSet(s)
    BY FS_Subset
  <2>3. QED
    BY <2>1, <2>2, SumOfType
<1> HIDE DEF vS
<1> DEFINE Good == {s \in SUBSET S : \A z \in s : i[s] = vS[z] + i[s \ {z}]}
<1>5. ASSUME NEW s \in SUBSET S, \A y \in s : s \ {y} \in Good
      PROVE  s \in Good
  <2>1. CASE s = {}
    BY <1>1, <2>1 DEF Summing
  <2>2. CASE s # {}
    <3> DEFINE y == CHOOSE y \in s : TRUE
    <3>1. y \in s
      BY <2>2
    <3>2. i[s] = vS[y] + i[s \ {y}]
      BY <1>1, <2>2 DEF Summing
    <3> HIDE DEF y
    <3>3. ASSUME NEW z \in s PROVE i[s] = vS[z] + i[s \ {z}]
      <4>1. CASE z = y
        BY <3>2, <4>1
      <4>2. CASE z # y
        <5> DEFINE r == i[(s \ {y}) \ {z}]
        <5>1. (s \ {z}) \ {y} = (s \ {y}) \ {z}
          OBVIOUS
        <5>2. s \ {y} \in Good /\ s \ {z} \in Good /\ z \in s \ {y} /\ y \in s \ {z}
          BY <1>5, <3>1, <4>2
        <5>3. i[s \ {y}] = vS[z] + r /\ i[s \ {z}] = vS[y] + r
          BY <5>1, <5>2
        <5>4. r \in Int /\ vS[y] \in Int /\ vS[z] \in Int
          BY <1>3, <1>4, <3>1
        <5>5. QED
          BY ONLY <3>2, <5>3, <5>4
      <4>3. QED
        BY <4>1, <4>2
    <3>4. QED
      BY <3>3
  <2>3. QED
    BY <2>1, <2>2
<1> HIDE DEF Good
<1>6. \A s \in SUBSET S : s \in Good
  BY <1>5, SubsetInduction
<1>7. S \in Good
  BY <1>6
<1>8. QED
  BY <1>1, <1>2, <1>3, <1>7 DEF Good

\* Of numbers that are not negative, the sum is no less than any of them.
LEMMA SumOfNats ==
  ASSUME NEW S, IsFiniteSet(S), NEW v, \A f \in S : v[f] \in Nat
  PROVE  SumOf(v, S) \in Nat /\ \A x \in S : v[x] <= SumOf(v, S)
<1> DEFINE Good == {s \in SUBSET S : SumOf(v, s) \in Nat}
<1>1. ASSUME NEW s \in SUBSET S
      PROVE  IsFiniteSet(s) /\ \A f \in s : v[f] \in Int
  BY FS_Subset
<1>2. ASSUME NEW s \in SUBSET S, \A y \in s : s \ {y} \in Good
      PROVE  s \in Good
  <2>1. CASE s = {}
    BY <2>1, SumOfNone
  <2>2. CASE s # {}
    <3>1. PICK y \in s : TRUE
      BY <2>2
    <3>2. SumOf(v, s) = v[y] + SumOf(v, s \ {y})
      BY <1>1, SumTake
    <3>3. SumOf(v, s \ {y}) \in Nat /\ v[y] \in Nat
      BY <1>2
    <3>4. QED
      BY <3>2, <3>3
  <2>3. QED
    BY <2>1, <2>2
<1> HIDE DEF Good
<1>3. \A s \in SUBSET S : s \in Good
  BY <1>2, SubsetInduction
<1>4. \A s \in SUBSET S : SumOf(v, s) \in Nat
  BY <1>3 DEF Good
<1>5. ASSUME NEW x \in S PROVE v[x] <= SumOf(v, S)
  <2>1. SumOf(v, S) = v[x] + SumOf(v, S \ {x})
    BY <1>1, SumTake
  <2>2. SumOf(v, S \ {x}) \in Nat /\ v[x] \in Nat
    BY <1>4
  <2>3. QED
    BY <2>1, <2>2
<1>6. QED
  BY <1>4, <1>5

LEMMA SumOfZeros ==
  ASSUME NEW S, IsFiniteSet(S), NEW v, \A f \in S : v[f] = 0
  PROVE  SumOf(v, S) = 0
<1> DEFINE Good == {s \in SUBSET S : SumOf(v, s) = 0}
<1>1. ASSUME NEW s \in SUBSET S, \A y \in s : s \ {y} \in Good
      PROVE  s \in Good
  <2>1. CASE s = {}
    BY <2>1, SumOfNone
  <2>2. CASE s # {}
    <3>1. PICK y \in s : TRUE
      BY <2>2
    <3>2. IsFiniteSet(s) /\ \A f \in s : v[f] \in Int
      BY FS_Subset
    <3>3. SumOf(v, s) = v[y] + SumOf(v, s \ {y})
      BY <3>2, SumTake
    <3>4. SumOf(v, s \ {y}) = 0 /\ v[y] = 0
      BY <1>1
    <3>5. QED
      BY <3>3, <3>4
  <2>3. QED
    BY <2>1, <2>2
<1> HIDE DEF Good
<1>2. \A s \in SUBSET S : s \in Good
  BY <1>1, SubsetInduction
<1>3. S \in Good
  BY <1>2
<1>4. QED
  BY <1>3 DEF Good

\* If they add up to 1, one of them is 1 and the others are 0.
LEMMA SumIsOne ==
  ASSUME NEW S, IsFiniteSet(S), NEW v, \A f \in S : v[f] \in Nat, SumOf(v, S) = 1
  PROVE  \E x \in S : v[x] = 1 /\ \A y \in S \ {x} : v[y] = 0
<1>1. \A f \in S : v[f] \in Int
  OBVIOUS
<1>2. PICK x \in S : v[x] # 0
  <2>1. SUFFICES ASSUME \A f \in S : v[f] = 0 PROVE FALSE
    OBVIOUS
  <2>2. SumOf(v, S) = 0
    BY <2>1, SumOfZeros
  <2>3. QED
    BY <2>2
<1>3. SumOf(v, S) = v[x] + SumOf(v, S \ {x})
  BY <1>1, SumTake
<1>4. IsFiniteSet(S \ {x}) /\ \A f \in S \ {x} : v[f] \in Nat
  BY FS_Subset
<1>5. SumOf(v, S \ {x}) \in Nat /\ \A y \in S \ {x} : v[y] <= SumOf(v, S \ {x})
  BY <1>4, SumOfNats
<1>6. v[x] \in Nat
  OBVIOUS
<1>7. v[x] = 1 /\ SumOf(v, S \ {x}) = 0
  BY <1>2, <1>3, <1>5, <1>6
<1>8. ASSUME NEW y \in S \ {x} PROVE v[y] = 0
  BY <1>4, <1>5, <1>7
<1>9. QED
  BY <1>7, <1>8
===============================================================================
