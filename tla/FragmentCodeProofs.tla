------------------------- MODULE FragmentCodeProofs --------------------------
(***************************************************************************)
(* For every code, size and hash: an array of fragments mirrors the array  *)
(* of whole keys for as long as it can tell the flows of a tree apart, and *)
(* the loops that put the fragments together again give back what the      *)
(* arrays kept.                                                            *)
(***************************************************************************)
EXTENDS FragmentCode, AHeapArrayProofs

------------------------------------------------------------------------------
(* What the array of whole keys holds *)

\* Every resident is one of the flows S.
Knows(c, S) == \A b \in Bucket : ~Vacant(c, b) => c[b].key \in S

\* A level keeps the accounts, and only handles the flows S.
Handled(c, it, r, f, l, S) ==
  /\ Accounted(c, it, r, f, l)
  /\ Knows(r.cache, S)
  /\ r.item.key \in S

\* What no level breaks: the item and the residents are among the flows S.
LEMMA PossibleKnown ==
  ASSUME NEW S, NEW c, Typed(c), Knows(c, S), NEW it \in Carried, it.key \in S,
         NEW at \in Bucket, NEW r, Possible(c, it, at, r)
  PROVE  Knows(r.cache, S) /\ r.item.key \in S
<1>1. CASE Vacant(c, at) /\ r = Placed(c, it, at)
  BY <1>1 DEF Placed, Outcome, Knows, Vacant, Typed, Carried
<1>2. ASSUME Holds(c, at, it), NEW n \in Nat, r = Merged(c, it, at, n)
      PROVE  Knows(r.cache, S) /\ r.item.key \in S
  <2>1. r.cache = [c EXCEPT ![at] = incrementItem(it, c[at], n)] /\ r.item.key = it.key
    BY <1>2 DEF Merged, Outcome, Typed, Carried
  <2>2. incrementItem(it, c[at], n).key = it.key
    BY <1>2 DEF incrementItem, Holds
  <2>3. QED
    BY <2>1, <2>2 DEF Knows, Vacant, Typed
<1>3. ASSUME ~Vacant(c, at), NEW d \in BOOLEAN, r = Exchanged(c, it, at, d)
      PROVE  Knows(r.cache, S) /\ r.item.key \in S
  BY <1>3 DEF Exchanged, Outcome, Knows, Vacant, Typed
<1>4. ASSUME NEW d \in BOOLEAN, r = Passed(c, it, d)
      PROVE  Knows(r.cache, S) /\ r.item.key \in S
  BY <1>4 DEF Passed, Outcome
<1>5. QED
  BY <1>1, <1>2, <1>3, <1>4 DEF Possible

\* What the level returns, if by mistake, it returns true or false.
LEMMA TakenType == \A x : TakenForTrue(x) \in BOOLEAN
BY DEF TakenForTrue

\* The d-left level of the coded form keeps the accounts.
LEMMA CodedDLeftAccounted ==
  ASSUME NEW c, Sound(c), NEW f \in Flow, NEW l \in Level,
         NEW it \in Carried, it.count > 0, OnBranch(it, f, l)
  PROVE  LET r == d_left_level(c, it, PathBucket(f, l))
         IN  Accounted(c, it, r, f, l) /\ Possible(c, it, PathBucket(f, l), r)
<1> DEFINE at == PathBucket(f, l)
           r == d_left_level(c, it, at)
<1>0. 1 <= it.count
  BY DEF Carried
<1>1. CASE Vacant(c, at)
  BY <1>1, PlacedAccounted DEF d_left_level, Possible
<1>2. CASE Holds(c, at, it)
  BY <1>0, <1>2, MergedAccounted DEF d_left_level, Possible, Holds
<1>3. CASE ~Vacant(c, at) /\ ~Holds(c, at, it) /\ (c[at].count = 1 \/ TestGone)
  BY <1>3, ExchangedAccounted DEF d_left_level, Possible
<1>4. CASE ~Vacant(c, at) /\ ~Holds(c, at, it) /\ ~(c[at].count = 1 \/ TestGone)
  <2>1. r = Passed(c, it, TakenForTrue(c[at]))
    BY <1>4 DEF d_left_level
  <2>2. TakenForTrue(c[at]) \in BOOLEAN
    BY TakenType
  <2>3. Accounted(c, it, r, f, l)
    BY <2>1, <2>2, PassedAccounted
  <2>4. Possible(c, it, at, r)
    BY <1>4, <2>1, <2>2 DEF Possible
  <2>5. QED
    BY <2>3, <2>4
<1>5. QED
  BY <1>1, <1>2, <1>3, <1>4

------------------------------------------------------------------------------
(* The mirror *)

\* The fragment of an item, and what array id would be if each item of c were
\* replaced by its fragment.
FragmentOf(id, it) == [it EXCEPT !.key = encode(id, it.key)]

Image(id, c) == [b \in Bucket |-> IF Vacant(c, b) THEN Empty ELSE FragmentOf(id, c[b])]

ImageOf(id, r) == Outcome(Image(id, r.cache), FragmentOf(id, r.item), r.done)

\* Array id can tell the flows S of each tree apart.
TellsApart(id, S) ==
  \A g, h \in S : Tree(g) = Tree(h) /\ encode(id, g) = encode(id, h) => g = h

\* A resident and an item that are on the same branch are in the same tree.
LEMMA SameTree ==
  ASSUME NEW f \in Flow, NEW g \in Flow, NEW l \in Level, PathBucket(f, l) = PathBucket(g, l)
  PROVE  Tree(f) = Tree(g)
<1>1. l = 0 => PathBucket(f, 1) = PathBucket(g, 1)
  BY PathsMerge DEF Level
<1>2. l \in {0, 1} => PathBucket(f, 2) = PathBucket(g, 2)
  BY <1>1, PathsMerge DEF Level
<1>3. PathBucket(f, 3) = PathBucket(g, 3)
  BY <1>2, PathsMerge DEF Level
<1>4. PathIndex(f)[3] \in Nat /\ PathIndex(g)[3] \in Nat /\ level_start[3] \in Nat
  <2>1. PathIndex(f)[3] \in Nat /\ PathIndex(g)[3] \in Nat
    BY IndexBounds
  <2>2. level_start[3] = MinBucketNum * 14
    BY DEF level_start, Level
  <2>3. MinBucketNum * 14 \in Nat
    BY SizeAssumption
  <2>4. QED
    BY ONLY <2>1, <2>2, <2>3
<1>5. /\ PathBucket(f, 3) = level_start[3] + PathIndex(f)[3]
      /\ PathBucket(g, 3) = level_start[3] + PathIndex(g)[3]
  BY DEF PathBucket
<1>6. PathIndex(f)[3] = PathIndex(g)[3]
  BY ONLY <1>3, <1>4, <1>5
<1>7. QED
  BY <1>6 DEF Tree

\* Comparing fragments decides as comparing keys does.
LEMMA HoldsMirrored ==
  ASSUME NEW c, Sound(c), NEW S, S \subseteq Flow, Knows(c, S), NEW id, TellsApart(id, S),
         NEW f \in Flow, NEW l \in Level, NEW it \in Carried, it.key \in S,
         OnBranch(it, f, l)
  PROVE  LET at == PathBucket(f, l)
         IN  /\ Vacant(Image(id, c), at) <=> Vacant(c, at)
             /\ Holds(Image(id, c), at, FragmentOf(id, it)) <=> Holds(c, at, it)
             /\ ~Vacant(c, at) => Image(id, c)[at] = FragmentOf(id, c[at])
<1> DEFINE at == PathBucket(f, l)
<1>1. at \in Bucket /\ c[at] \in Item
  BY PathInArray DEF Sound, Typed
<1>2. Image(id, c)[at] = IF Vacant(c, at) THEN Empty ELSE FragmentOf(id, c[at])
  BY <1>1 DEF Image
<1>3. FragmentOf(id, c[at]).count = c[at].count /\ FragmentOf(id, it).key = encode(id, it.key)
      /\ FragmentOf(id, c[at]).key = encode(id, c[at].key)
  BY <1>1 DEF FragmentOf, Item, Carried
<1>4. Vacant(Image(id, c), at) <=> Vacant(c, at)
  BY <1>2, <1>3 DEF Vacant, Empty
<1>5. ASSUME ~Vacant(c, at), encode(id, c[at].key) = encode(id, it.key)
      PROVE  c[at].key = it.key
  <2>1. c[at].key \in S /\ c[at].key \in Flow
    BY <1>1, <1>5 DEF Knows
  <2>2. PICK j \in Level : at = PathBucket(c[at].key, j)
    BY <1>1, <2>1 DEF Sound, WellPlaced, check
  <2>3. j = l
    BY <2>1, <2>2, LevelsDisjoint
  <2>4. PathBucket(c[at].key, l) = PathBucket(it.key, l)
    BY <2>2, <2>3 DEF OnBranch
  <2>5. Tree(c[at].key) = Tree(it.key)
    BY <2>1, <2>4, SameTree DEF Carried
  <2>6. QED
    BY <1>5, <2>1, <2>5 DEF TellsApart
<1>6. Holds(Image(id, c), at, FragmentOf(id, it)) <=> Holds(c, at, it)
  BY <1>2, <1>3, <1>4, <1>5 DEF Holds
<1>7. QED
  BY <1>2, <1>4, <1>6

\* The image of an array with one bucket written.
LEMMA ImageUpdate ==
  ASSUME NEW c, Typed(c), NEW id, NEW at \in Bucket, NEW x \in Carried, x.count > 0
  PROVE  Image(id, [c EXCEPT ![at] = x]) = [Image(id, c) EXCEPT ![at] = FragmentOf(id, x)]
<1> DEFINE d == [c EXCEPT ![at] = x]
<1>1. d[at] = x /\ \A b \in Bucket \ {at} : d[b] = c[b]
  BY DEF Typed
<1>2. ~Vacant(d, at)
  BY <1>1 DEF Vacant, Carried
<1> HIDE DEF d
<1>3. \A b \in Bucket : Image(id, d)[b] = IF b = at THEN FragmentOf(id, x) ELSE Image(id, c)[b]
  BY <1>1, <1>2 DEF Image, Vacant
<1>4. QED
  BY <1>3 DEF Image, d

\* Each outcome of a level on the image is the image of the outcome.
LEMMA PlacedMirrored ==
  ASSUME NEW c, Typed(c), NEW id, NEW at \in Bucket, NEW it \in Carried, it.count > 0
  PROVE  Placed(Image(id, c), FragmentOf(id, it), at) = ImageOf(id, Placed(c, it, at))
<1>1. [FragmentOf(id, it) EXCEPT !.count = 0] = FragmentOf(id, [it EXCEPT !.count = 0])
  BY DEF FragmentOf, Carried
<1>2. Image(id, [c EXCEPT ![at] = it]) = [Image(id, c) EXCEPT ![at] = FragmentOf(id, it)]
  BY ImageUpdate
<1>3. QED
  BY <1>1, <1>2 DEF Placed, ImageOf, Outcome

LEMMA MergedMirrored ==
  ASSUME NEW c, Typed(c), NEW id, NEW at \in Bucket, NEW it \in Carried, it.count > 0,
         Holds(c, at, it), NEW n \in Nat
  PROVE  Merged(Image(id, c), FragmentOf(id, it), at, n) = ImageOf(id, Merged(c, it, at, n))
<1> DEFINE x == incrementItem(it, c[at], n)
<1>1. c[at] \in Item /\ c[at].key = it.key /\ c[at].count > 0
  BY DEF Holds, Vacant, Typed, Item
<1>2. x \in Carried /\ x.count > 0
  BY <1>1 DEF incrementItem, Item, Carried, Newer
<1>3. Image(id, c)[at] = FragmentOf(id, c[at])
  BY DEF Image, Holds
<1>4. incrementItem(FragmentOf(id, it), FragmentOf(id, c[at]), n) = FragmentOf(id, x)
  BY <1>1 DEF incrementItem, FragmentOf, Item, Carried
<1>5. Merged(c, it, at, n).cache = [c EXCEPT ![at] = x]
  BY DEF Merged, Outcome, Typed
<1>6. Merged(Image(id, c), FragmentOf(id, it), at, n).cache
        = [Image(id, c) EXCEPT ![at] = FragmentOf(id, x)]
  BY <1>3, <1>4 DEF Merged, Outcome, Image
<1>7. [FragmentOf(id, it) EXCEPT !.count = @ - n] = FragmentOf(id, [it EXCEPT !.count = @ - n])
  BY DEF FragmentOf, Carried
<1> HIDE DEF x
<1>8. Image(id, [c EXCEPT ![at] = x]) = [Image(id, c) EXCEPT ![at] = FragmentOf(id, x)]
  BY <1>2, ImageUpdate
<1>9. QED
  BY <1>5, <1>6, <1>7, <1>8 DEF Merged, ImageOf, Outcome

LEMMA ExchangedMirrored ==
  ASSUME NEW c, Typed(c), NEW id, NEW at \in Bucket, NEW it \in Carried, it.count > 0,
         ~Vacant(c, at), NEW d \in BOOLEAN
  PROVE  Exchanged(Image(id, c), FragmentOf(id, it), at, d) = ImageOf(id, Exchanged(c, it, at, d))
<1>1. Image(id, c)[at] = FragmentOf(id, c[at])
  BY DEF Image
<1>2. QED
  BY <1>1, ImageUpdate DEF Exchanged, ImageOf, Outcome

LEMMA PassedMirrored ==
  ASSUME NEW c, NEW id, NEW it, NEW d
  PROVE  Passed(Image(id, c), FragmentOf(id, it), d) = ImageOf(id, Passed(c, it, d))
BY DEF Passed, ImageOf, Outcome

\* And so each level goes on the image as it does on the array itself.
LEMMA DLeftMirrored ==
  ASSUME NEW c, Sound(c), NEW S, S \subseteq Flow, Knows(c, S), NEW id, TellsApart(id, S),
         NEW f \in Flow, NEW l \in Level, NEW it \in Carried, it.count > 0, it.key \in S,
         OnBranch(it, f, l)
  PROVE  d_left_level(Image(id, c), FragmentOf(id, it), PathBucket(f, l))
           = ImageOf(id, d_left_level(c, it, PathBucket(f, l)))
<1> DEFINE at == PathBucket(f, l)
<1>1. at \in Bucket /\ Typed(c)
  BY PathInArray DEF Sound
<1>2. /\ Vacant(Image(id, c), at) <=> Vacant(c, at)
      /\ Holds(Image(id, c), at, FragmentOf(id, it)) <=> Holds(c, at, it)
      /\ ~Vacant(c, at) => Image(id, c)[at] = FragmentOf(id, c[at])
  BY HoldsMirrored
<1>3. ~Vacant(c, at) => Image(id, c)[at].count = c[at].count
  BY <1>1, <1>2 DEF FragmentOf, Typed, Item
<1> SUFFICES d_left_level(Image(id, c), FragmentOf(id, it), at)
               = ImageOf(id, d_left_level(c, it, at))
  OBVIOUS
<1> HIDE DEF at
<1>4. CASE Vacant(c, at)
  BY <1>1, <1>2, <1>3, <1>4, PlacedMirrored DEF d_left_level
<1>5. CASE Holds(c, at, it)
  <2>1. /\ d_left_level(Image(id, c), FragmentOf(id, it), at)
             = Merged(Image(id, c), FragmentOf(id, it), at, 1)
        /\ d_left_level(c, it, at) = Merged(c, it, at, 1)
    BY <1>2, <1>5 DEF d_left_level, Holds
  <2>2. QED
    BY <1>1, <1>5, <2>1, MergedMirrored
<1>6. CASE ~Vacant(c, at) /\ ~Holds(c, at, it) /\ (c[at].count = 1 \/ TestGone)
  BY <1>1, <1>2, <1>3, <1>6, ExchangedMirrored DEF d_left_level
<1>7. CASE ~Vacant(c, at) /\ ~Holds(c, at, it) /\ ~(c[at].count = 1 \/ TestGone)
  <2>1. TakenForTrue(Image(id, c)[at]) = TakenForTrue(c[at])
    BY <1>3, <1>7 DEF TakenForTrue
  <2>2. /\ d_left_level(Image(id, c), FragmentOf(id, it), at)
             = Passed(Image(id, c), FragmentOf(id, it), TakenForTrue(c[at]))
        /\ d_left_level(c, it, at) = Passed(c, it, TakenForTrue(c[at]))
    BY <1>2, <1>3, <1>7, <2>1 DEF d_left_level
  <2>3. QED
    BY <2>2, PassedMirrored
<1>8. QED
  BY <1>4, <1>5, <1>6, <1>7

LEMMA MustKickMirrored ==
  ASSUME NEW c, Sound(c), NEW S, S \subseteq Flow, Knows(c, S), NEW id, TellsApart(id, S),
         NEW f \in Flow, NEW it \in Carried, it.count > 0, it.key \in S, OnBranch(it, f, 2)
  PROVE  must_kick_level(Image(id, c), FragmentOf(id, it), PathBucket(f, 2))
           = ImageOf(id, must_kick_level(c, it, PathBucket(f, 2)))
<1> DEFINE at == PathBucket(f, 2)
<1>1. at \in Bucket /\ Typed(c)
  BY PathInArray DEF Sound, Level
<1>2. /\ Vacant(Image(id, c), at) <=> Vacant(c, at)
      /\ Holds(Image(id, c), at, FragmentOf(id, it)) <=> Holds(c, at, it)
  BY HoldsMirrored DEF Level
<1> SUFFICES must_kick_level(Image(id, c), FragmentOf(id, it), at)
               = ImageOf(id, must_kick_level(c, it, at))
  OBVIOUS
<1> HIDE DEF at
<1>3. CASE Vacant(c, at)
  BY <1>1, <1>2, <1>3, PlacedMirrored DEF must_kick_level
<1>4. CASE Holds(c, at, it)
  <2>1. /\ must_kick_level(Image(id, c), FragmentOf(id, it), at)
             = Merged(Image(id, c), FragmentOf(id, it), at, 1)
        /\ must_kick_level(c, it, at) = Merged(c, it, at, 1)
    BY <1>2, <1>4 DEF must_kick_level, Holds
  <2>2. QED
    BY <1>1, <1>4, <2>1, MergedMirrored
<1>5. CASE ~Vacant(c, at) /\ ~Holds(c, at, it)
  BY <1>1, <1>2, <1>5, ExchangedMirrored DEF must_kick_level
<1>6. QED
  BY <1>3, <1>4, <1>5

\* The last level compares counts and stamps, which fragments keep.
WinnerLevel(c, it, at) == LastLevel(c, it, at, it.count, comp_item(it, c[at]))

LEMMA WinnerMirrored ==
  ASSUME NEW c, Sound(c), NEW S, S \subseteq Flow, Knows(c, S), NEW id, TellsApart(id, S),
         NEW f \in Flow, NEW it \in Carried, it.count > 0, it.key \in S, OnBranch(it, f, 3)
  PROVE  WinnerLevel(Image(id, c), FragmentOf(id, it), PathBucket(f, 3))
           = ImageOf(id, WinnerLevel(c, it, PathBucket(f, 3)))
<1> DEFINE at == PathBucket(f, 3)
<1>1. at \in Bucket /\ Typed(c)
  BY PathInArray DEF Sound, Level
<1>2. /\ Vacant(Image(id, c), at) <=> Vacant(c, at)
      /\ Holds(Image(id, c), at, FragmentOf(id, it)) <=> Holds(c, at, it)
      /\ ~Vacant(c, at) => Image(id, c)[at] = FragmentOf(id, c[at])
  BY HoldsMirrored DEF Level
<1>3. FragmentOf(id, it).count = it.count /\ FragmentOf(id, it).time = it.time
  BY DEF FragmentOf, Carried
<1>4. ~Vacant(c, at) =>
        (comp_item(FragmentOf(id, it), Image(id, c)[at]) <=> comp_item(it, c[at]))
  <2>1. ~Vacant(c, at) => /\ Image(id, c)[at].count = c[at].count
                          /\ Image(id, c)[at].time = c[at].time
    BY <1>1, <1>2 DEF FragmentOf, Typed, Item
  <2>2. QED
    BY <1>3, <2>1 DEF comp_item
<1>5. it.count \in Nat /\ comp_item(it, c[at]) \in BOOLEAN
  BY DEF Carried, comp_item
<1> SUFFICES WinnerLevel(Image(id, c), FragmentOf(id, it), at) = ImageOf(id, WinnerLevel(c, it, at))
  OBVIOUS
<1> HIDE DEF at
<1>6. CASE Vacant(c, at)
  BY <1>1, <1>2, <1>3, <1>4, <1>5, <1>6, PlacedMirrored DEF WinnerLevel, LastLevel
<1>7. CASE Holds(c, at, it)
  <2>1. /\ WinnerLevel(Image(id, c), FragmentOf(id, it), at)
             = Merged(Image(id, c), FragmentOf(id, it), at, it.count)
        /\ WinnerLevel(c, it, at) = Merged(c, it, at, it.count)
    BY <1>2, <1>3, <1>7 DEF WinnerLevel, LastLevel, Holds
  <2>2. QED
    BY <1>1, <1>5, <1>7, <2>1, MergedMirrored
<1>8. CASE ~Vacant(c, at) /\ ~Holds(c, at, it) /\ comp_item(it, c[at])
  BY <1>1, <1>2, <1>3, <1>4, <1>5, <1>8, ExchangedMirrored DEF WinnerLevel, LastLevel
<1>9. CASE ~Vacant(c, at) /\ ~Holds(c, at, it) /\ ~comp_item(it, c[at])
  <2>1. /\ WinnerLevel(Image(id, c), FragmentOf(id, it), at)
             = Passed(Image(id, c), FragmentOf(id, it), TRUE)
        /\ WinnerLevel(c, it, at) = Passed(c, it, TRUE)
    BY <1>2, <1>4, <1>9 DEF WinnerLevel, LastLevel, Holds
  <2>2. Passed(Image(id, c), FragmentOf(id, it), TRUE) = ImageOf(id, Passed(c, it, TRUE))
    BY PassedMirrored
  <2>3. QED
    BY <2>1, <2>2
<1>10. QED
  BY <1>6, <1>7, <1>8, <1>9

------------------------------------------------------------------------------
(* The whole insertion *)

\* What is left after each of the four levels.
Down0(c, it, f) == d_left_level(c, it, PathBucket(f, 0))
Down1(c, it, f) ==
  LET r == Down0(c, it, f)
  IN  IF r.done THEN r ELSE d_left_level(r.cache, r.item, PathBucket(f, 1))
Down2(c, it, f) ==
  LET r == Down1(c, it, f)
  IN  IF r.done THEN r ELSE must_kick_level(r.cache, r.item, PathBucket(f, 2))
Down3(c, it, f) ==
  LET r == Down2(c, it, f)
  IN  IF r.done THEN r ELSE WinnerLevel(r.cache, r.item, PathBucket(f, 3))

LEMMA InsertGoesDown ==
  ASSUME NEW c, NEW it, NEW f
  PROVE  insert(c, it, f) = Down3(c, it, f).cache
BY DEF insert, Down0, Down1, Down2, Down3, WinnerLevel

\* A level that is entered with what the one before it left, or skipped.
LEMMA HandledOn ==
  ASSUME NEW c, NEW it, NEW r, NEW s, NEW f \in Flow, NEW l \in 0..2, NEW S,
         Handled(c, it, r, f, l, S), r.done => s = r,
         ~r.done => Handled(r.cache, r.item, s, f, l + 1, S)
  PROVE  Handled(c, it, s, f, l + 1, S)
<1>1. Accounted(c, it, s, f, l + 1)
  <2>1. Accounted(c, it, r, f, l) /\ (~r.done => Accounted(r.cache, r.item, s, f, l + 1))
    BY DEF Handled
  <2>2. QED
    BY <2>1, AccountsCompose
<1>2. QED
  BY <1>1 DEF Handled

\* The levels, each keeping the accounts and to the flows S.
LEMMA DLeftHandled ==
  ASSUME NEW S, NEW c, Sound(c), Knows(c, S), NEW f \in Flow, NEW l \in Level,
         NEW it \in Carried, it.count > 0, it.key \in S, OnBranch(it, f, l)
  PROVE  Handled(c, it, d_left_level(c, it, PathBucket(f, l)), f, l, S)
<1> DEFINE r == d_left_level(c, it, PathBucket(f, l))
<1>1. Accounted(c, it, r, f, l) /\ Possible(c, it, PathBucket(f, l), r)
  BY CodedDLeftAccounted
<1>2. PathBucket(f, l) \in Bucket /\ Typed(c)
  BY PathInArray DEF Sound
<1> HIDE DEF r
<1>3. Knows(r.cache, S) /\ r.item.key \in S
  BY <1>1, <1>2, PossibleKnown
<1>4. QED
  BY <1>1, <1>3 DEF Handled, r

LEMMA MustKickHandled ==
  ASSUME NEW S, NEW c, Sound(c), Knows(c, S), NEW f \in Flow,
         NEW it \in Carried, it.count > 0, it.key \in S, OnBranch(it, f, 2)
  PROVE  Handled(c, it, must_kick_level(c, it, PathBucket(f, 2)), f, 2, S)
<1> DEFINE r == must_kick_level(c, it, PathBucket(f, 2))
<1>1. Accounted(c, it, r, f, 2) /\ Possible(c, it, PathBucket(f, 2), r)
  BY MustKickAccounted, UpperLevelsPossible
<1>2. PathBucket(f, 2) \in Bucket /\ Typed(c)
  BY PathInArray DEF Sound, Level
<1> HIDE DEF r
<1>3. Knows(r.cache, S) /\ r.item.key \in S
  BY <1>1, <1>2, PossibleKnown
<1>4. QED
  BY <1>1, <1>3 DEF Handled, r

LEMMA WinnerHandled ==
  ASSUME NEW S, NEW c, Sound(c), Knows(c, S), NEW f \in Flow,
         NEW it \in Carried, it.count > 0, it.key \in S, OnBranch(it, f, 3)
  PROVE  Handled(c, it, WinnerLevel(c, it, PathBucket(f, 3)), f, 3, S)
<1> DEFINE r == WinnerLevel(c, it, PathBucket(f, 3))
           wins == comp_item(it, c[PathBucket(f, 3)])
<1>0. it.count \in Nat /\ wins \in BOOLEAN
  BY DEF Carried, comp_item
<1>1. Accounted(c, it, r, f, 3) /\ Possible(c, it, PathBucket(f, 3), r)
  <2> HIDE DEF wins
  <2>1. LastLevel(c, it, PathBucket(f, 3), it.count, wins) = r
    BY DEF WinnerLevel, wins
  <2>2. it.count <= it.count
    BY <1>0
  <2> HIDE DEF r
  <2>3. Accounted(c, it, r, f, 3)
    BY <1>0, <2>1, <2>2, LastLevelAccounted
  <2>4. QED
    BY <1>0, <2>1, <2>3, UpperLevelsPossible
<1>2. PathBucket(f, 3) \in Bucket /\ Typed(c)
  BY PathInArray DEF Sound, Level
<1> HIDE DEF r
<1>3. Knows(r.cache, S) /\ r.item.key \in S
  BY <1>1, <1>2, PossibleKnown
<1>4. QED
  BY <1>1, <1>3 DEF Handled, r

\* What the next level is entered with.
LEMMA HandedDown ==
  ASSUME NEW c, NEW it, NEW r, NEW f \in Flow, NEW l \in 0..2, NEW S,
         Handled(c, it, r, f, l, S), ~r.done
  PROVE  /\ Sound(r.cache) /\ Knows(r.cache, S)
         /\ r.item \in Carried /\ r.item.count > 0 /\ r.item.key \in S
         /\ OnBranch(r.item, f, l + 1)
<1>1. Accounted(c, it, r, f, l)
  BY DEF Handled
<1>2. QED
  BY <1>1, CarriedDown DEF Handled

\* A whole insertion keeps the accounts, and to the flows S.
LEMMA DownHandled ==
  ASSUME NEW S, NEW c, Sound(c), Knows(c, S), NEW f \in Flow,
         NEW it \in Carried, it.count > 0, it.key \in S, it.key = f
  PROVE  /\ Handled(c, it, Down0(c, it, f), f, 0, S)
         /\ Handled(c, it, Down1(c, it, f), f, 1, S)
         /\ Handled(c, it, Down2(c, it, f), f, 2, S)
         /\ Handled(c, it, Down3(c, it, f), f, 3, S)
<1> DEFINE r0 == Down0(c, it, f)
           r1 == Down1(c, it, f)
           r2 == Down2(c, it, f)
           r3 == Down3(c, it, f)
<1>1. /\ r0 = d_left_level(c, it, PathBucket(f, 0))
      /\ r1 = IF r0.done THEN r0 ELSE d_left_level(r0.cache, r0.item, PathBucket(f, 1))
      /\ r2 = IF r1.done THEN r1 ELSE must_kick_level(r1.cache, r1.item, PathBucket(f, 2))
      /\ r3 = IF r2.done THEN r2 ELSE WinnerLevel(r2.cache, r2.item, PathBucket(f, 3))
  BY DEF Down1, Down2, Down3, Down0
<1>2. OnBranch(it, f, 0)
  BY DEF OnBranch
<1> HIDE DEF r0, r1, r2, r3
<1>3. Handled(c, it, r0, f, 0, S)
  BY <1>1, <1>2, DLeftHandled DEF Level
<1>4. Handled(c, it, r1, f, 1, S)
  <2>1. ASSUME ~r0.done PROVE Handled(r0.cache, r0.item, r1, f, 1, S)
    <3>1. /\ Sound(r0.cache) /\ Knows(r0.cache, S)
          /\ r0.item \in Carried /\ r0.item.count > 0 /\ r0.item.key \in S
          /\ OnBranch(r0.item, f, 0 + 1)
      BY <1>3, <2>1, HandedDown
    <3>2. QED
      BY <1>1, <2>1, <3>1, DLeftHandled DEF Level
  <2>2. QED
    BY <1>1, <1>3, <2>1, HandledOn
<1>5. Handled(c, it, r2, f, 2, S)
  <2>1. ASSUME ~r1.done PROVE Handled(r1.cache, r1.item, r2, f, 2, S)
    <3>1. /\ Sound(r1.cache) /\ Knows(r1.cache, S)
          /\ r1.item \in Carried /\ r1.item.count > 0 /\ r1.item.key \in S
          /\ OnBranch(r1.item, f, 1 + 1)
      BY <1>4, <2>1, HandedDown
    <3>2. QED
      BY <1>1, <2>1, <3>1, MustKickHandled
  <2>2. QED
    BY <1>1, <1>4, <2>1, HandledOn
<1>6. Handled(c, it, r3, f, 3, S)
  <2>1. ASSUME ~r2.done PROVE Handled(r2.cache, r2.item, r3, f, 3, S)
    <3>1. /\ Sound(r2.cache) /\ Knows(r2.cache, S)
          /\ r2.item \in Carried /\ r2.item.count > 0 /\ r2.item.key \in S
          /\ OnBranch(r2.item, f, 2 + 1)
      BY <1>5, <2>1, HandedDown
    <3>2. OnBranch(r2.item, f, 3)
      BY <3>1
    <3>3. Handled(r2.cache, r2.item, WinnerLevel(r2.cache, r2.item, PathBucket(f, 3)), f, 3, S)
      BY <3>1, <3>2, WinnerHandled
    <3>4. QED
      BY <1>1, <2>1, <3>3
  <2>2. QED
    BY <1>1, <1>5, <2>1, HandledOn
<1>7. QED
  BY <1>3, <1>4, <1>5, <1>6 DEF r0, r1, r2, r3

\* Inserting the fragment of a key into the image of an array gives the image of
\* the array with the key inserted.
LEMMA InsertMirrored ==
  ASSUME NEW S, S \subseteq Flow, NEW c, Sound(c), Knows(c, S), NEW id, TellsApart(id, S),
         NEW f \in Flow, NEW it \in Carried, it.count > 0, it.key \in S, it.key = f
  PROVE  insert(Image(id, c), FragmentOf(id, it), f) = Image(id, insert(c, it, f))
<1> DEFINE r0 == Down0(c, it, f)
           r1 == Down1(c, it, f)
           r2 == Down2(c, it, f)
           r3 == Down3(c, it, f)
           q0 == Down0(Image(id, c), FragmentOf(id, it), f)
           q1 == Down1(Image(id, c), FragmentOf(id, it), f)
           q2 == Down2(Image(id, c), FragmentOf(id, it), f)
           q3 == Down3(Image(id, c), FragmentOf(id, it), f)
<1>1. /\ r0 = d_left_level(c, it, PathBucket(f, 0))
      /\ r1 = IF r0.done THEN r0 ELSE d_left_level(r0.cache, r0.item, PathBucket(f, 1))
      /\ r2 = IF r1.done THEN r1 ELSE must_kick_level(r1.cache, r1.item, PathBucket(f, 2))
      /\ r3 = IF r2.done THEN r2 ELSE WinnerLevel(r2.cache, r2.item, PathBucket(f, 3))
  BY DEF Down1, Down2, Down3, Down0
<1>2. /\ q0 = d_left_level(Image(id, c), FragmentOf(id, it), PathBucket(f, 0))
      /\ q1 = IF q0.done THEN q0 ELSE d_left_level(q0.cache, q0.item, PathBucket(f, 1))
      /\ q2 = IF q1.done THEN q1 ELSE must_kick_level(q1.cache, q1.item, PathBucket(f, 2))
      /\ q3 = IF q2.done THEN q2 ELSE WinnerLevel(q2.cache, q2.item, PathBucket(f, 3))
  BY DEF Down1, Down2, Down3, Down0
<1>3. /\ Handled(c, it, r0, f, 0, S) /\ Handled(c, it, r1, f, 1, S)
      /\ Handled(c, it, r2, f, 2, S)
  BY DownHandled
<1>4. OnBranch(it, f, 0)
  BY DEF OnBranch
<1>5. insert(c, it, f) = r3.cache /\ insert(Image(id, c), FragmentOf(id, it), f) = q3.cache
  BY InsertGoesDown
<1>6. ASSUME NEW r
      PROVE  /\ ImageOf(id, r).cache = Image(id, r.cache)
             /\ ImageOf(id, r).item = FragmentOf(id, r.item)
             /\ ImageOf(id, r).done = r.done
  BY DEF ImageOf, Outcome
<1> HIDE DEF r0, r1, r2, r3, q0, q1, q2, q3
<1>7. q0 = ImageOf(id, r0)
  BY <1>1, <1>2, <1>4, DLeftMirrored DEF Level
<1>8. q1 = ImageOf(id, r1)
  <2>1. CASE r0.done
    BY <1>1, <1>2, <1>6, <1>7, <2>1
  <2>2. CASE ~r0.done
    <3>1. /\ Sound(r0.cache) /\ Knows(r0.cache, S)
          /\ r0.item \in Carried /\ r0.item.count > 0 /\ r0.item.key \in S
          /\ OnBranch(r0.item, f, 0 + 1)
      BY <1>3, <2>2, HandedDown
    <3>2. d_left_level(Image(id, r0.cache), FragmentOf(id, r0.item), PathBucket(f, 1))
            = ImageOf(id, d_left_level(r0.cache, r0.item, PathBucket(f, 1)))
      BY <3>1, DLeftMirrored DEF Level
    <3>3. QED
      BY <1>1, <1>2, <1>6, <1>7, <2>2, <3>2
  <2>3. QED
    BY <2>1, <2>2
<1>9. q2 = ImageOf(id, r2)
  <2>1. CASE r1.done
    BY <1>1, <1>2, <1>6, <1>8, <2>1
  <2>2. CASE ~r1.done
    <3>1. /\ Sound(r1.cache) /\ Knows(r1.cache, S)
          /\ r1.item \in Carried /\ r1.item.count > 0 /\ r1.item.key \in S
          /\ OnBranch(r1.item, f, 1 + 1)
      BY <1>3, <2>2, HandedDown
    <3>2. must_kick_level(Image(id, r1.cache), FragmentOf(id, r1.item), PathBucket(f, 2))
            = ImageOf(id, must_kick_level(r1.cache, r1.item, PathBucket(f, 2)))
      BY <3>1, MustKickMirrored
    <3>3. QED
      BY <1>1, <1>2, <1>6, <1>8, <2>2, <3>2
  <2>3. QED
    BY <2>1, <2>2
<1>10. q3 = ImageOf(id, r3)
  <2>1. CASE r2.done
    BY <1>1, <1>2, <1>6, <1>9, <2>1
  <2>2. CASE ~r2.done
    <3>1. /\ Sound(r2.cache) /\ Knows(r2.cache, S)
          /\ r2.item \in Carried /\ r2.item.count > 0 /\ r2.item.key \in S
          /\ OnBranch(r2.item, f, 2 + 1)
      BY <1>3, <2>2, HandedDown
    <3>2. OnBranch(r2.item, f, 3)
      BY <3>1
    <3>3. WinnerLevel(Image(id, r2.cache), FragmentOf(id, r2.item), PathBucket(f, 3))
            = ImageOf(id, WinnerLevel(r2.cache, r2.item, PathBucket(f, 3)))
      BY <3>1, <3>2, WinnerMirrored
    <3>4. /\ q2.cache = Image(id, r2.cache) /\ q2.item = FragmentOf(id, r2.item)
          /\ ~q2.done
      BY <1>6, <1>9, <2>2
    <3>5. /\ q3 = WinnerLevel(q2.cache, q2.item, PathBucket(f, 3))
          /\ r3 = WinnerLevel(r2.cache, r2.item, PathBucket(f, 3))
      BY <1>1, <1>2, <2>2, <3>4
    <3>6. QED
      BY <3>3, <3>4, <3>5
  <2>3. QED
    BY <2>1, <2>2
<1>11. QED
  BY <1>5, <1>6, <1>10

------------------------------------------------------------------------------
(* The arrays of fragments stay arrays of fragments, shared or not *)

\* The items array id holds are fragments of flows' keys.
Fragments(id) == {encode(id, g) : g \in Flow}

Coded(id, c) ==
  /\ c \in [Bucket -> [key : Fragments(id) \union {NoKey}, count : Nat, time : Nat]]
  /\ \A b \in Bucket : ~Vacant(c, b) => c[b].key \in Fragments(id)

AllCoded(caches) == \A id \in Cacheid : Coded(id, caches[id])

\* What is carried on of them.
Parts(id) == [key : Fragments(id), count : Nat, time : Nat]

\* No level puts anything else into an array of fragments, or carries it on.
LEMMA PossibleCoded ==
  ASSUME NEW id, NEW c, Coded(id, c), NEW it \in Parts(id), NEW at \in Bucket,
         NEW r, Possible(c, it, at, r)
  PROVE  Coded(id, r.cache) /\ (~r.done => r.item \in Parts(id))
<1> DEFINE Any == [key : Fragments(id) \union {NoKey}, count : Nat, time : Nat]
<1>1. ASSUME NEW x \in Parts(id)
      PROVE  Coded(id, [c EXCEPT ![at] = x])
  <2>1. x \in Any /\ x.key \in Fragments(id)
    BY DEF Parts
  <2>2. QED
    BY <2>1 DEF Coded, Vacant
<1>2. ~Vacant(c, at) => c[at] \in Parts(id)
  <2>1. c[at] \in Any /\ (~Vacant(c, at) => c[at].key \in Fragments(id))
    BY DEF Coded
  <2>2. QED
    BY <2>1 DEF Parts
<1>3. CASE r = Placed(c, it, at)
  BY <1>1, <1>3 DEF Placed, Outcome
<1>4. ASSUME Holds(c, at, it), NEW n \in Nat, r = Merged(c, it, at, n)
      PROVE  Coded(id, r.cache) /\ r.done
  <2> DEFINE x == incrementItem(it, c[at], n)
  <2>1. r.cache = [c EXCEPT ![at] = x] /\ r.done
    BY <1>4 DEF Merged, Outcome, Coded
  <2>2. x \in Parts(id)
    BY <1>2, <1>4 DEF incrementItem, Parts, Newer, Holds
  <2> HIDE DEF x
  <2>3. QED
    BY <1>1, <2>1, <2>2
<1>5. ASSUME ~Vacant(c, at), NEW d \in BOOLEAN, r = Exchanged(c, it, at, d)
      PROVE  Coded(id, r.cache) /\ r.item \in Parts(id)
  BY <1>1, <1>2, <1>5 DEF Exchanged, Outcome
<1>6. ASSUME NEW d \in BOOLEAN, r = Passed(c, it, d)
      PROVE  Coded(id, r.cache) /\ r.item \in Parts(id)
  BY <1>6 DEF Passed, Outcome
<1>7. QED
  BY <1>3, <1>4, <1>5, <1>6 DEF Possible

\* One packet more.
LEMMA InsertCoded ==
  ASSUME NEW id, NEW c, Coded(id, c), NEW f \in Flow, NEW it \in Parts(id)
  PROVE  Coded(id, insert(c, it, f))
<1> DEFINE r0 == Down0(c, it, f)
           r1 == Down1(c, it, f)
           r2 == Down2(c, it, f)
           r3 == Down3(c, it, f)
           Fine(r) == Coded(id, r.cache) /\ (~r.done => r.item \in Parts(id))
<1>1. /\ r0 = d_left_level(c, it, PathBucket(f, 0))
      /\ r1 = IF r0.done THEN r0 ELSE d_left_level(r0.cache, r0.item, PathBucket(f, 1))
      /\ r2 = IF r1.done THEN r1 ELSE must_kick_level(r1.cache, r1.item, PathBucket(f, 2))
      /\ r3 = IF r2.done THEN r2 ELSE WinnerLevel(r2.cache, r2.item, PathBucket(f, 3))
  BY DEF Down1, Down2, Down3, Down0
<1>2. insert(c, it, f) = r3.cache
  BY InsertGoesDown
<1>3. \A l \in Level : PathBucket(f, l) \in Bucket
  BY PathInArray
<1>4. ASSUME NEW d, Coded(id, d), NEW x \in Parts(id), NEW at \in Bucket
      PROVE  /\ Fine(d_left_level(d, x, at))
             /\ Fine(must_kick_level(d, x, at))
             /\ Fine(WinnerLevel(d, x, at))
  <2>1. Possible(d, x, at, d_left_level(d, x, at))
    <3>1. 1 \in Nat
      OBVIOUS
    <3>2. QED
      BY <3>1, TakenType DEF Possible, d_left_level, Holds
  <2>2. x.count \in Nat /\ comp_item(x, d[at]) \in BOOLEAN
    BY DEF Parts, comp_item
  <2>3. Possible(d, x, at, must_kick_level(d, x, at)) /\ Possible(d, x, at, WinnerLevel(d, x, at))
    BY <2>2, UpperLevelsPossible DEF WinnerLevel
  <2>4. QED
    BY <1>4, <2>1, <2>3, PossibleCoded
<1> HIDE DEF r0, r1, r2, r3
<1>5. Fine(r0)
  BY <1>1, <1>3, <1>4 DEF Level
<1>6. Fine(r1)
  <2>1. CASE r0.done
    BY <1>1, <1>5, <2>1
  <2>2. CASE ~r0.done
    <3>1. Coded(id, r0.cache) /\ r0.item \in Parts(id) /\ PathBucket(f, 1) \in Bucket
      BY <1>3, <1>5, <2>2 DEF Level
    <3>2. r1 = d_left_level(r0.cache, r0.item, PathBucket(f, 1))
      BY <1>1, <2>2
    <3> HIDE DEF Fine
    <3>3. QED
      BY <1>4, <3>1, <3>2
  <2>3. QED
    BY <2>1, <2>2
<1>7. Fine(r2)
  <2>1. CASE r1.done
    BY <1>1, <1>6, <2>1
  <2>2. CASE ~r1.done
    <3>1. Coded(id, r1.cache) /\ r1.item \in Parts(id) /\ PathBucket(f, 2) \in Bucket
      BY <1>3, <1>6, <2>2 DEF Level
    <3>2. r2 = must_kick_level(r1.cache, r1.item, PathBucket(f, 2))
      BY <1>1, <2>2
    <3> HIDE DEF Fine
    <3>3. QED
      BY <1>4, <3>1, <3>2
  <2>3. QED
    BY <2>1, <2>2
<1>8. Fine(r3)
  <2>1. CASE r2.done
    BY <1>1, <1>7, <2>1
  <2>2. CASE ~r2.done
    <3>1. Coded(id, r2.cache) /\ r2.item \in Parts(id) /\ PathBucket(f, 3) \in Bucket
      BY <1>3, <1>7, <2>2 DEF Level
    <3>2. r3 = WinnerLevel(r2.cache, r2.item, PathBucket(f, 3))
      BY <1>1, <2>2
    <3> HIDE DEF Fine
    <3>3. QED
      BY <1>4, <3>1, <3>2
  <2>3. QED
    BY <2>1, <2>2
<1>9. QED
  BY <1>2, <1>8

------------------------------------------------------------------------------
(* What an array of fragments keeps of a flow *)

\* The share of f's fragment in bucket number l of f's path.
KeptShare(c, id, f) ==
  [l \in Level |-> IF c[PathBucket(f, l)].key = encode(id, f)
                   THEN c[PathBucket(f, l)].count ELSE 0]

\* Kept adds the four of them.
LEMMA KeptIsTotal ==
  ASSUME NEW c, NEW id, NEW f, KeptShare(c, id, f) \in [Level -> Nat]
  PROVE  Kept(c, id, f) = Total(KeptShare(c, id, f), Level, 0, 1, 2, 3)
<1> DEFINE w == KeptShare(c, id, f)
           Q(iter) == iter = [s \in SUBSET Level |->
                        IF s = {} THEN 0
                        ELSE (IF c[PathBucket(f, CHOOSE x \in s : TRUE)].key = encode(id, f)
                              THEN c[PathBucket(f, CHOOSE x \in s : TRUE)].count ELSE 0)
                               + iter[s \ {CHOOSE x \in s : TRUE}]]
<1>1. Kept(c, id, f) = (CHOOSE iter : Q(iter))[Level]
  BY DEF Kept, MapThenSumSet, MapThenFoldSet
<1>2. ASSUME NEW iter PROVE Summing(iter, w, Level) <=> Q(iter)
  <2>1. ASSUME NEW s \in SUBSET Level, s # {}
        PROVE  w[CHOOSE x \in s : TRUE]
                 = IF c[PathBucket(f, CHOOSE x \in s : TRUE)].key = encode(id, f)
                   THEN c[PathBucket(f, CHOOSE x \in s : TRUE)].count ELSE 0
    <3>1. (CHOOSE x \in s : TRUE) \in Level
      BY <2>1
    <3>2. QED
      BY <3>1 DEF KeptShare
  <2> HIDE DEF w
  <2>2. QED
    BY <2>1 DEF Summing
<1> HIDE DEF Q, w
<1>3. /\ \E g : Summing(g, w, Level)
      /\ \A i : Summing(i, w, Level) => i[Level] = Total(w, Level, 0, 1, 2, 3)
  <2> DEFINE p == 0
             q == 1
             u == 2
             v == 3
  <2>1. w \in [Level -> Nat] /\ Level \in SUBSET {p, q, u, v}
    BY DEF w, Level
  <2>2. p # q /\ p # u /\ p # v /\ q # u /\ q # v /\ u # v
    OBVIOUS
  <2> HIDE DEF p, q, u, v
  <2>3. /\ \E g : Summing(g, w, Level)
        /\ \A i : Summing(i, w, Level) => i[Level] = Total(w, Level, p, q, u, v)
    BY ONLY <2>1, <2>2, SumOfFour
  <2>4. QED
    BY <2>3 DEF p, q, u, v
<1>4. Q(CHOOSE iter : Q(iter))
  BY <1>2, <1>3
<1>5. QED
  BY <1>1, <1>2, <1>3, <1>4 DEF w

\* What is kept of a flow is a number, and positive only where a bucket of its path
\* has its fragment.
LEMMA KeptSome ==
  ASSUME NEW c, NEW id, Coded(id, c), NEW f \in Flow
  PROVE  /\ KeptShare(c, id, f) \in [Level -> Nat]
         /\ Kept(c, id, f) \in Nat
         /\ Kept(c, id, f) > 0 <=> \E l \in Level : KeptShare(c, id, f)[l] > 0
<1> DEFINE w == KeptShare(c, id, f)
<1>1. \A l \in Level : c[PathBucket(f, l)].count \in Nat
  BY PathInArray DEF Coded
<1>2. w \in [Level -> Nat]
  BY <1>1 DEF KeptShare
<1>3. Kept(c, id, f) = Total(w, Level, 0, 1, 2, 3)
  BY <1>2, KeptIsTotal
<1> HIDE DEF w
<1>4. Kept(c, id, f) = w[0] + w[1] + w[2] + w[3]
  BY <1>2, <1>3 DEF Total, Level
<1>5. w[0] \in Nat /\ w[1] \in Nat /\ w[2] \in Nat /\ w[3] \in Nat
  BY <1>2 DEF Level
<1>6. Kept(c, id, f) \in Nat /\ (Kept(c, id, f) > 0 <=> w[0] > 0 \/ w[1] > 0 \/ w[2] > 0 \/ w[3] > 0)
  <2> DEFINE k == Kept(c, id, f)
             p == w[0]
             q == w[1]
             u == w[2]
             v == w[3]
  <2>1. p \in Nat /\ q \in Nat /\ u \in Nat /\ v \in Nat /\ k = p + q + u + v
    BY <1>4, <1>5
  <2> HIDE DEF k, p, q, u, v
  <2>2. k \in Nat /\ (k > 0 <=> p > 0 \/ q > 0 \/ u > 0 \/ v > 0)
    BY ONLY <2>1
  <2>3. QED
    BY <2>2 DEF k, p, q, u, v
<1>7. (\E l \in Level : w[l] > 0) <=> w[0] > 0 \/ w[1] > 0 \/ w[2] > 0 \/ w[3] > 0
  BY DEF Level
<1>8. QED
  BY <1>2, <1>6, <1>7 DEF w

\* An array that mirrors the one of whole keys keeps of a flow what that records.
LEMMA KeptIsRecorded ==
  ASSUME NEW c, Sound(c), NEW S, S \subseteq Flow, Knows(c, S), NEW id, TellsApart(id, S),
         NEW f \in S
  PROVE  Kept(Image(id, c), id, f) = Recorded(c, f)
<1> DEFINE w == KeptShare(Image(id, c), id, f)
<1>0. f \in Flow
  OBVIOUS
<1>1. ASSUME NEW l \in Level
      PROVE  w[l] = Share(c, f, l) /\ Share(c, f, l) \in Nat
  <2> DEFINE at == PathBucket(f, l)
             it == [key |-> f, count |-> 1, time |-> 0]
  <2>1. at \in Bucket /\ c[at] \in Item /\ (c[at].count = 0 <=> c[at].key = NoKey)
    BY <1>0, PathInArray DEF Sound, Typed
  <2>2. it \in Carried /\ it.key = f /\ OnBranch(it, f, l)
    BY <1>0 DEF Carried, OnBranch
  <2> HIDE DEF it
  <2>3. /\ Vacant(Image(id, c), at) <=> Vacant(c, at)
        /\ Holds(Image(id, c), at, FragmentOf(id, it)) <=> Holds(c, at, it)
        /\ ~Vacant(c, at) => Image(id, c)[at] = FragmentOf(id, c[at])
    BY <1>0, <2>2, HoldsMirrored
  <2>4. FragmentOf(id, it).key = encode(id, f)
    BY <2>2 DEF FragmentOf, Carried
  <2>5. w[l] = IF Image(id, c)[at].key = encode(id, f) THEN Image(id, c)[at].count ELSE 0
    BY DEF KeptShare
  <2>6. Share(c, f, l) = IF c[at].key = f THEN c[at].count ELSE 0
    BY DEF Share
  <2>7. c[at].count \in Nat
    BY <2>1 DEF Item
  <2> HIDE DEF at, w
  <2>8. CASE Vacant(c, at)
    <3>1. Image(id, c)[at].count = 0 /\ c[at].count = 0
      BY <2>3, <2>8 DEF Vacant
    <3>2. QED
      BY <2>5, <2>6, <3>1
  <2>9. CASE ~Vacant(c, at)
    <3>1. Image(id, c)[at].key = encode(id, f) <=> c[at].key = f
      BY <2>2, <2>3, <2>4, <2>9 DEF Holds
    <3>2. Image(id, c)[at].count = c[at].count
      BY <2>1, <2>3, <2>9 DEF FragmentOf, Item
    <3>3. QED
      BY <2>5, <2>6, <2>7, <3>1, <3>2
  <2>10. QED
    BY <2>8, <2>9
<1>2. w \in [Level -> Nat]
  <2>1. w = [l \in Level |-> w[l]]
    BY DEF KeptShare
  <2> HIDE DEF w
  <2>2. QED
    BY <1>1, <2>1
<1>3. Kept(Image(id, c), id, f) = Total(w, Level, 0, 1, 2, 3)
  BY <1>2, KeptIsTotal
<1> HIDE DEF w
<1>4. QED
  BY <1>1, <1>3 DEF Total, Recorded, Level

------------------------------------------------------------------------------
(* Where the parts of a flow can be *)

\* The places on a path are told by their levels.
LEMMA StartOf ==
  /\ level_start[0] = 0 /\ level_start[1] = 8 * MinBucketNum
  /\ level_start[2] = 12 * MinBucketNum /\ level_start[3] = 14 * MinBucketNum
BY SizeAssumption DEF level_start, Level

\* Every bucket is of one level.
LEMMA LevelOf ==
  ASSUME NEW b \in Bucket
  PROVE  /\ level_of[b] \in Level
         /\ \A l \in Level :
              level_start[l] <= b /\ (l < 3 => b < level_start[l + 1]) => level_of[b] = l
<1> DEFINE Of(l) == level_start[l] <= b /\ (l < 3 => b < level_start[l + 1])
           m == MinBucketNum
<1>1. level_of[b] = CHOOSE l \in Level : Of(l)
  BY DEF level_of
<1>2. m \in Nat /\ m > 0 /\ b \in Nat /\ b < 15 * m
  BY SizeAssumption DEF Bucket, bucket_num
<1>3. /\ Of(0) <=> 0 <= b /\ b < 8 * m
      /\ Of(1) <=> 8 * m <= b /\ b < 12 * m
      /\ Of(2) <=> 12 * m <= b /\ b < 14 * m
      /\ Of(3) <=> 14 * m <= b
  BY StartOf
<1> HIDE DEF m, Of
<1>4. Of(0) \/ Of(1) \/ Of(2) \/ Of(3)
  BY <1>2, <1>3
<1>5. \A l, k \in Level : Of(l) /\ Of(k) => l = k
  BY <1>2, <1>3 DEF Level
<1>6. \E l \in Level : Of(l)
  BY <1>4 DEF Level
<1>7. level_of[b] \in Level /\ Of(level_of[b])
  BY <1>1, <1>6
<1>8. \A l \in Level : Of(l) => level_of[b] = l
  BY <1>5, <1>7
<1>9. QED
  BY <1>7, <1>8 DEF Of

LEMMA PathLevel ==
  ASSUME NEW f \in Flow, NEW l \in Level
  PROVE  level_of[PathBucket(f, l)] = l
<1> DEFINE b == PathBucket(f, l)
<1>1. b \in Bucket
  BY PathInArray
<1>2. /\ PathBucket(f, 0) \in 0..(8 * MinBucketNum - 1)
      /\ PathBucket(f, 1) \in (8 * MinBucketNum)..(12 * MinBucketNum - 1)
      /\ PathBucket(f, 2) \in (12 * MinBucketNum)..(14 * MinBucketNum - 1)
      /\ PathBucket(f, 3) \in (14 * MinBucketNum)..(15 * MinBucketNum - 1)
  BY BucketBounds
<1>3. level_start[l] <= b /\ (l < 3 => b < level_start[l + 1])
  <2> HIDE DEF PathBucket
  <2>1. CASE l = 0
    BY <1>2, <2>1, StartOf, SizeAssumption
  <2>2. CASE l = 1
    BY <1>2, <2>2, StartOf, SizeAssumption
  <2>3. CASE l = 2
    BY <1>2, <2>3, StartOf, SizeAssumption
  <2>4. CASE l = 3
    BY <1>2, <2>4, StartOf, SizeAssumption
  <2>5. QED
    BY <2>1, <2>2, <2>3, <2>4 DEF Level
<1> HIDE DEF b
<1>4. QED
  BY <1>1, <1>3, LevelOf DEF b

\* Halving an index once for each level between gives the index on a later level.
LEMMA PathUnder ==
  ASSUME NEW f \in Flow, NEW j \in Level, NEW l \in j..3
  PROVE  under(PathBucket(f, j), l) = PathBucket(f, l)
<1> DEFINE i == PathIndex(f)
<1>1. /\ i[1] = i[0] \div 2 /\ i[2] = i[1] \div 2 /\ i[3] = i[2] \div 2
      /\ i[0] \in Nat /\ i[1] \in Nat /\ i[2] \in Nat /\ i[3] \in Nat
  <2>1. i[1] = i[0] \div 2 /\ i[2] = i[1] \div 2 /\ i[3] = i[2] \div 2
    BY DEF PathIndex, Level
  <2>2. QED
    BY <2>1, IndexBounds
<1>2. \A k \in Level : PathBucket(f, k) = level_start[k] + i[k] /\ level_start[k] \in Nat
  BY StartOf, SizeAssumption DEF PathBucket, Level
<1> HIDE DEF i
<1>3. i[j] \div 2^(l - j) = i[l]
  <2>0. 2^0 = 1 /\ 2^1 = 2 /\ 2^2 = 4 /\ 2^3 = 8
    OBVIOUS
  <2>1. CASE l = j
    <3>1. l - j = 0 /\ i[j] \in Nat
      BY <1>1, <2>1 DEF Level
    <3>2. i[j] \div 1 = i[j]
      BY <3>1
    <3>3. QED
      BY <2>0, <2>1, <3>1, <3>2
  <2>2. CASE l = j + 1
    <3>1. l - j = 1
      BY <2>2 DEF Level
    <3>2. i[j] \div 2 = i[l]
      BY <1>1, <2>2 DEF Level
    <3>3. QED
      BY <2>0, <3>1, <3>2
  <2>3. CASE l = j + 2
    <3>1. l - j = 2
      BY <2>3 DEF Level
    <3>2. (i[j] \div 2) \div 2 = i[l] /\ i[j] \in Nat
      BY <1>1, <2>3 DEF Level
    <3>3. i[j] \div 4 = i[l]
      BY <3>2
    <3>4. QED
      BY <2>0, <3>1, <3>3
  <2>4. CASE l = j + 3
    <3>1. l - j = 3
      BY <2>4 DEF Level
    <3>2. ((i[j] \div 2) \div 2) \div 2 = i[l] /\ i[j] \in Nat
      BY <1>1, <2>4 DEF Level
    <3>3. i[j] \div 8 = i[l]
      BY <3>2
    <3>4. QED
      BY <2>0, <3>1, <3>3
  <2>5. QED
    BY <2>1, <2>2, <2>3, <2>4 DEF Level
<1>4. l \in Level
  BY DEF Level
<1>5. level_of[PathBucket(f, j)] = j
  BY PathLevel
<1>6. PathBucket(f, j) - level_start[j] = i[j]
  <2>1. level_start[j] \in Nat /\ i[j] \in Nat /\ PathBucket(f, j) = level_start[j] + i[j]
    BY <1>1, <1>2 DEF Level
  <2>2. QED
    BY ONLY <2>1
<1>7. QED
  BY <1>2, <1>3, <1>4, <1>5, <1>6 DEF under

\* The places from a bucket of a path on are the rest of that path.
LEMMA PathPlaces ==
  ASSUME NEW f \in Flow, NEW j \in Level
  PROVE  places[PathBucket(f, j)] = {PathBucket(f, l) : l \in j..3}
<1>1. PathBucket(f, j) \in Bucket /\ level_of[PathBucket(f, j)] = j
  BY PathInArray, PathLevel
<1>2. places[PathBucket(f, j)] = {under(PathBucket(f, j), l) : l \in j..3}
  BY <1>1 DEF places
<1>3. QED
  BY <1>2, PathUnder

\* In every combination some bucket is the first.
LEMMA FirstStarts ==
  ASSUME NEW at \in [Cacheid -> Bucket]
  PROVE  first(at) \in Cacheid /\ Starts(at, first(at))
<1> DEFINE Levels == {level_of[at[id]] : id \in Cacheid}
<1>1. \A id \in Cacheid : level_of[at[id]] \in Level /\ level_of[at[id]] \in Nat
  BY LevelOf DEF Level
<1>2. Levels \subseteq Nat /\ Levels # {}
  BY <1>1, IdAssumption
<1>3. PICK l \in Levels : \A m \in Levels : l <= m
  <2> HIDE DEF Levels
  <2>1. QED
    BY <1>2, LeastOf
<1> DEFINE Ids == {id \in Cacheid : level_of[at[id]] = l}
<1>4. Ids \subseteq Nat /\ Ids # {}
  BY IdAssumption
<1>5. PICK id \in Ids : \A other \in Ids : id <= other
  <2> HIDE DEF Ids
  <2>1. QED
    BY <1>4, LeastOf
<1>6. ASSUME NEW other \in Cacheid \ {id}
      PROVE  \/ level_of[at[id]] < level_of[at[other]]
             \/ level_of[at[id]] = level_of[at[other]] /\ id < other
  <2>1. id \in Nat /\ other \in Nat /\ id # other
    BY IdAssumption
  <2>2. level_of[at[id]] = l /\ level_of[at[id]] \in Nat /\ level_of[at[other]] \in Nat
    BY <1>1
  <2>3. l <= level_of[at[other]]
    BY <1>3
  <2>4. level_of[at[other]] = l => id <= other
    BY <1>5
  <2>5. QED
    BY ONLY <2>1, <2>2, <2>3, <2>4
<1>7. Starts(at, id)
  BY <1>6 DEF Starts
<1>8. QED
  BY <1>7 DEF first

------------------------------------------------------------------------------
(* The combinations *)

\* There are finitely many functions from one finite set to another.
LEMMA FiniteFunctions ==
  ASSUME NEW S, IsFiniteSet(S), NEW T, IsFiniteSet(T)
  PROVE  IsFiniteSet([S -> T])
<1> DEFINE graph == [g \in [S -> T] |-> {<<x, g[x]>> : x \in S}]
<1>1. IsFiniteSet(SUBSET (S \X T))
  BY FS_Product, FS_SUBSET
<1>2. graph \in [[S -> T] -> SUBSET (S \X T)]
  OBVIOUS
<1>3. ASSUME NEW g \in [S -> T], NEW h \in [S -> T], graph[g] = graph[h]
      PROVE  g = h
  <2>1. ASSUME NEW x \in S PROVE g[x] = h[x]
    <3>1. <<x, g[x]>> \in graph[h]
      BY <1>3
    <3>2. QED
      BY <3>1
  <2>2. QED
    BY <2>1
<1> HIDE DEF graph
<1>4. graph \in Injection([S -> T], SUBSET (S \X T))
  BY <1>2, <1>3 DEF Injection, IsInjective
<1>5. QED
  BY <1>1, <1>4, FS_Injection

LEMMA CombinationBuckets ==
  ASSUME NEW caches, NEW at \in Combinations(caches)
  PROVE  /\ at \in [Cacheid -> Bucket]
         /\ \A id \in Cacheid : ~Vacant(caches[id], at[id])
         /\ \A id \in Cacheid : at[id] \in places[at[first(at)]]
BY DEF Combinations, Used

LEMMA AcceptedFinite ==
  ASSUME NEW caches
  PROVE  IsFiniteSet(Accepted(caches))
<1>1. IsFiniteSet(Bucket)
  BY SizeAssumption, FS_Interval DEF Bucket, bucket_num
<1>2. IsFiniteSet([Cacheid -> Bucket])
  BY <1>1, IdAssumption, FiniteFunctions
<1>3. Accepted(caches) \in SUBSET [Cacheid -> Bucket]
  BY CombinationBuckets DEF Accepted
<1>4. QED
  BY <1>2, <1>3, FS_Subset

\* The turn of a combination is a number.
LEMMA TurnIsInt ==
  ASSUME NEW at \in [Cacheid -> Bucket]
  PROVE  Turn(at) \in Int
<1> DEFINE rank(id) == Cardinality({x \in Cacheid : x < id})
           l0 == level_of[at[first(at)]]
           w == [id \in Cacheid |-> (level_of[at[id]] - l0) * 4^rank(id)]
           sum == MapThenSumSet(LAMBDA id : (level_of[at[id]] - l0) * 4^rank(id), Cacheid)
           Q(iter) == iter = [s \in SUBSET Cacheid |->
                        IF s = {} THEN 0
                        ELSE (level_of[at[CHOOSE x \in s : TRUE]] - l0)
                                 * 4^rank(CHOOSE x \in s : TRUE)
                               + iter[s \ {CHOOSE x \in s : TRUE}]]
<1>1. \A id \in Cacheid : rank(id) \in Nat
  <2>1. \A id \in Cacheid : {x \in Cacheid : x < id} \in SUBSET Cacheid
    OBVIOUS
  <2>2. QED
    BY <2>1, IdAssumption, FS_Subset, FS_CardinalityType
<1>2. first(at) \in Cacheid
  BY FirstStarts
<1>3. \A id \in Cacheid : level_of[at[id]] \in Int
  BY LevelOf DEF Level
<1>4. l0 \in Int
  BY <1>2, <1>3
<1> HIDE DEF rank, l0
<1>5. w \in [Cacheid -> Int]
  <2>1. ASSUME NEW id \in Cacheid PROVE (level_of[at[id]] - l0) * 4^rank(id) \in Int
    <3>1. 4^rank(id) \in Int
      BY <1>1
    <3>2. level_of[at[id]] - l0 \in Int
      BY <1>3, <1>4
    <3>3. QED
      BY ONLY <3>1, <3>2
  <2>2. QED
    BY <2>1
<1>6. sum = (CHOOSE iter : Q(iter))[Cacheid]
  BY DEF MapThenSumSet, MapThenFoldSet
<1>7. ASSUME NEW iter PROVE Summing(iter, w, Cacheid) <=> Q(iter)
  <2>1. ASSUME NEW s \in SUBSET Cacheid, s # {}
        PROVE  w[CHOOSE x \in s : TRUE]
                 = (level_of[at[CHOOSE x \in s : TRUE]] - l0) * 4^rank(CHOOSE x \in s : TRUE)
    <3>1. (CHOOSE x \in s : TRUE) \in Cacheid
      BY <2>1
    <3>2. QED
      BY <3>1
  <2> HIDE DEF w
  <2>2. QED
    BY <2>1 DEF Summing
<1> HIDE DEF Q, w
<1>8. /\ \E g : Summing(g, w, Cacheid)
      /\ \A i : Summing(i, w, Cacheid) => i[Cacheid] \in Int
  BY <1>5, IdAssumption, SummingInt
<1>9. Q(CHOOSE iter : Q(iter))
  BY <1>7, <1>8
<1>10. sum \in Int
  BY <1>6, <1>7, <1>8, <1>9
<1>11. Cardinality(Cacheid) \in Nat /\ 4^Cardinality(Cacheid) \in Int
  BY IdAssumption, FS_CardinalityType
<1>12. rank(first(at)) \in Nat /\ at[first(at)] \in Int /\ bucket_num \in Int
  BY <1>1, <1>2, SizeAssumption DEF Bucket, bucket_num
<1>13. Turn(at) = ((l0 * Cardinality(Cacheid) + rank(first(at))) * bucket_num + at[first(at)])
                     * 4^Cardinality(Cacheid) + sum
  BY DEF Turn, rank, l0
<1> HIDE DEF sum
<1>14. QED
  BY ONLY <1>4, <1>10, <1>11, <1>12, <1>13

\* Among some combinations there is a latest one.
LEMMA LatestIsOne ==
  ASSUME NEW A, A \subseteq [Cacheid -> Bucket], IsFiniteSet(A)
  PROVE  \A s \in SUBSET A : s # {} => Latest(s) \in s
<1> DEFINE Has(s) == \E at \in s : \A x \in s : Turn(x) <= Turn(at)
           Good == {s \in SUBSET A : s # {} => Has(s)}
<1>1. \A at \in A : Turn(at) \in Int
  BY TurnIsInt
<1>2. ASSUME NEW s \in SUBSET A, \A x \in s : s \ {x} \in Good
      PROVE  s \in Good
  <2>1. CASE s = {}
    BY <2>1
  <2>2. CASE s # {}
    <3>1. PICK y \in s : TRUE
      BY <2>2
    <3>2. CASE s \ {y} = {}
      <4>1. \A x \in s : x = y
        BY <3>2
      <4>2. Turn(y) \in Int
        BY <1>1
      <4>3. \A x \in s : Turn(x) <= Turn(y)
        BY <4>1, <4>2
      <4>4. QED
        BY <4>3
    <3>3. CASE s \ {y} # {}
      <4>1. PICK z \in s \ {y} : \A x \in s \ {y} : Turn(x) <= Turn(z)
        BY <1>2, <3>3
      <4>2. Turn(y) \in Int /\ Turn(z) \in Int
        BY <1>1
      <4>3. CASE Turn(y) <= Turn(z)
        <5>1. \A x \in s : Turn(x) <= Turn(z)
          BY <4>1, <4>3
        <5>2. QED
          BY <5>1
      <4>4. CASE Turn(z) <= Turn(y)
        <5>1. ASSUME NEW x \in s PROVE Turn(x) <= Turn(y)
          <6>1. CASE x = y
            BY <4>2, <6>1
          <6>2. CASE x # y
            <7>1. Turn(x) <= Turn(z) /\ Turn(x) \in Int
              BY <1>1, <4>1, <6>2
            <7>2. QED
              BY ONLY <4>2, <4>4, <7>1
          <6>3. QED
            BY <6>1, <6>2
        <5>2. QED
          BY <5>1
      <4>5. QED
        BY <4>2, <4>3, <4>4
    <3>4. QED
      BY <3>2, <3>3
  <2>3. QED
    BY <2>1, <2>2
<1> HIDE DEF Good
<1>3. \A s \in SUBSET A : s \in Good
  BY <1>2, SubsetInduction
<1>4. \A s \in SUBSET A : s # {} => Has(s)
  BY <1>3 DEF Good
<1>5. QED
  BY <1>4 DEF Latest

------------------------------------------------------------------------------
(* What a combination decodes to *)

\* The fragments of a combination are those of one key.
LEMMA DecodedIs ==
  ASSUME NEW caches, AllCoded(caches), NEW at \in Combinations(caches)
  PROVE  /\ DecodedKey(caches, at) \in Flow
         /\ \A id \in Cacheid : caches[id][at[id]].key = seg[id][decode(caches, at)]
         /\ \A f \in Flow :
              (\A id \in Cacheid : caches[id][at[id]].key = encode(id, f))
                => decode(caches, at) = full_key[f] /\ DecodedKey(caches, at) = f
<1> DEFINE part(id) == caches[id][at[id]].key
           g == [id \in Cacheid |-> full_key[CHOOSE f \in Flow : part(id) = encode(id, f)]]
<1>1. ASSUME NEW id \in Cacheid
      PROVE  g[id] \in FullKey /\ part(id) = seg[id][g[id]]
  <2>1. at[id] \in Bucket /\ ~Vacant(caches[id], at[id])
    BY CombinationBuckets
  <2>2. part(id) \in Fragments(id)
    BY <2>1 DEF AllCoded, Coded
  <2>3. \E f \in Flow : part(id) = encode(id, f)
    BY <2>2 DEF Fragments
  <2> DEFINE f == CHOOSE f \in Flow : part(id) = encode(id, f)
  <2>4. f \in Flow /\ part(id) = encode(id, f) /\ g[id] = full_key[f]
    BY <2>3
  <2> HIDE DEF f, g
  <2>5. QED
    BY <2>4, KeyAssumption DEF encode
<1>2. g \in [Cacheid -> FullKey]
  <2>1. g = [id \in Cacheid |-> g[id]]
    OBVIOUS
  <2> HIDE DEF g
  <2>2. QED
    BY <1>1, <2>1
<1> HIDE DEF g, part
<1>3. PICK k \in FullKey :
        {j \in FullKey : \A id \in Cacheid : seg[id][j] = seg[id][g[id]]} = {k}
  BY <1>2, CodeAssumption
<1>4. \A j \in FullKey : (\A id \in Cacheid : seg[id][j] = part(id)) <=> j = k
  BY <1>1, <1>3
<1>5. decode(caches, at) = CHOOSE j \in FullKey : \A id \in Cacheid : seg[id][j] = part(id)
  BY DEF decode, part
<1>6. decode(caches, at) = k
  BY <1>4, <1>5
<1>7. DecodedKey(caches, at) = real_key[k] /\ real_key[k] \in Flow
  BY <1>6, KeyAssumption DEF DecodedKey
<1>8. ASSUME NEW f \in Flow, \A id \in Cacheid : part(id) = encode(id, f)
      PROVE  k = full_key[f] /\ real_key[k] = f
  <2>1. full_key[f] \in FullKey /\ real_key[full_key[f]] = f
    BY KeyAssumption
  <2>2. QED
    BY <1>4, <1>8, <2>1 DEF encode
<1>9. QED
  BY <1>4, <1>6, <1>7, <1>8 DEF part

------------------------------------------------------------------------------
(* The tables decoding makes *)

\* What a combination puts into its bucket of array id.
Credited(caches, id, at) == [caches[id][at[id]] EXCEPT !.key = DecodedKey(caches, at)]

LEMMA CreditedType ==
  ASSUME NEW caches, AllCoded(caches), NEW at \in Combinations(caches), NEW id \in Cacheid
  PROVE  /\ at[id] \in Bucket
         /\ Credited(caches, id, at) \in Item
         /\ Credited(caches, id, at).key = DecodedKey(caches, at)
         /\ Credited(caches, id, at).count = caches[id][at[id]].count
         /\ Credited(caches, id, at).time = caches[id][at[id]].time
         /\ caches[id][at[id]].count # 0
<1>1. at[id] \in Bucket /\ ~Vacant(caches[id], at[id])
  BY CombinationBuckets
<1>2. caches[id][at[id]] \in [key : Fragments(id) \union {NoKey}, count : Nat, time : Nat]
  BY <1>1 DEF AllCoded, Coded
<1>3. DecodedKey(caches, at) \in Flow
  BY DecodedIs
<1>4. QED
  BY <1>1, <1>2, <1>3 DEF Credited, Item, Vacant

\* A table filled by the combinations s: each of its buckets is empty, and none of
\* them came by, or as one of them left it.
Filled(map, s, caches, id) ==
  \A b \in Bucket :
    \/ map[b] = Empty /\ \A at \in s : at[id] # b
    \/ \E at \in s : at[id] = b /\ map[b] = Credited(caches, id, at)

\* One combination more.
LEMMA FilledOn ==
  ASSUME NEW caches, NEW id, NEW s, NEW at \in s, NEW map \in [Bucket -> Item],
         at[id] \in Bucket, Filled(map, s \ {at}, caches, id),
         NEW new, new = [map EXCEPT ![at[id]] = Credited(caches, id, at)]
  PROVE  Filled(new, s, caches, id)
<1>1. ASSUME NEW b \in Bucket
      PROVE  \/ new[b] = Empty /\ \A x \in s : x[id] # b
             \/ \E x \in s : x[id] = b /\ new[b] = Credited(caches, id, x)
  <2>1. CASE b = at[id]
    BY <2>1
  <2>2. CASE b # at[id]
    <3>1. new[b] = map[b]
      BY <2>2
    <3>2. QED
      BY <2>2, <3>1 DEF Filled
  <2>3. QED
    BY <2>1, <2>2
<1>2. QED
  BY <1>1 DEF Filled

\* The table that decoding makes of array id.
LEMMA UnMapFilled ==
  ASSUME NEW caches, AllCoded(caches), NEW id \in Cacheid
  PROVE  un_map(caches, id) \in [Bucket -> Item] /\ Filled(un_map(caches, id), Accepted(caches), caches, id)
<1> DEFINE A == Accepted(caches)
           R == [Bucket -> Item]
           base == [b \in Bucket |-> Empty]
           put(at, map) == [map EXCEPT ![at[id]] = Credited(caches, id, at)]
           pick == [s \in SUBSET A |-> Latest(s)]
           step == [p \in A \X R |-> put(p[1], p[2])]
           Q(iter) == iter = [s \in SUBSET A |->
                                IF s = {} THEN base
                                ELSE put(Latest(s), iter[s \ {Latest(s)}])]
<1>1. A \subseteq Combinations(caches) /\ A \subseteq [Cacheid -> Bucket] /\ IsFiniteSet(A)
  BY AcceptedFinite, CombinationBuckets DEF Accepted
<1>2. base \in R
  BY DEF Item, Empty
<1>3. \A s \in SUBSET A : s # {} => pick[s] = Latest(s) /\ Latest(s) \in s
  <2> HIDE DEF A
  <2>1. QED
    BY <1>1, LatestIsOne
<1>4. \A at \in A : at[id] \in Bucket /\ Credited(caches, id, at) \in Item
  BY <1>1, CreditedType
<1>5. \A at \in A : \A map \in R : put(at, map) \in R
  <2> HIDE DEF A
  <2>1. QED
    BY <1>4
<1>6. un_map(caches, id) = (CHOOSE iter : Q(iter))[A]
  BY DEF un_map, MapThenFoldSet, Credited
<1> HIDE DEF A, R, base, put
<1>7. step \in [A \X R -> R] /\ \A at \in A : \A map \in R : step[<<at, map>>] = put(at, map)
  BY <1>5
<1>8. PICK h \in [SUBSET A -> R] : Folding(h, A, base, pick, step)
  <2>1. \A s \in SUBSET A : s # {} => pick[s] \in s
    BY <1>3
  <2> HIDE DEF pick, step
  <2>2. QED
    BY <1>1, <1>2, <1>7, <2>1, FoldingExists
<1>9. Q(h)
  <2>1. h = [s \in SUBSET A |-> FoldValue(h, s, base, pick, step)]
    BY <1>8 DEF Folding
  <2> HIDE DEF pick, step
  <2>2. ASSUME NEW s \in SUBSET A
        PROVE  FoldValue(h, s, base, pick, step)
                 = IF s = {} THEN base ELSE put(Latest(s), h[s \ {Latest(s)}])
    <3>1. CASE s = {}
      BY <3>1 DEF FoldValue
    <3>2. CASE s # {}
      <4>1. pick[s] = Latest(s) /\ Latest(s) \in A /\ h[s \ {Latest(s)}] \in R
        BY <1>3, <1>8, <3>2
      <4>2. step[<<Latest(s), h[s \ {Latest(s)}]>>] = put(Latest(s), h[s \ {Latest(s)}])
        BY <1>7, <4>1
      <4>3. QED
        BY <3>2, <4>1, <4>2 DEF FoldValue
    <3>3. QED
      BY <3>1, <3>2
  <2>3. QED
    BY <2>1, <2>2
<1>10. PICK iter : Q(iter) /\ un_map(caches, id) = iter[A]
  <2> HIDE DEF Q
  <2>1. Q(CHOOSE iter : Q(iter))
    BY <1>9
  <2>2. QED
    BY <1>6, <2>1
<1> DEFINE Good == {s \in SUBSET A : iter[s] \in R /\ Filled(iter[s], s, caches, id)}
<1>11. ASSUME NEW s \in SUBSET A, \A x \in s : s \ {x} \in Good
       PROVE  s \in Good
  <2>1. CASE s = {}
    <3>1. iter[s] = base
      BY <1>10, <2>1
    <3>2. Filled(base, {}, caches, id)
      BY DEF Filled, base
    <3>3. QED
      BY <1>2, <2>1, <3>1, <3>2
  <2>2. CASE s # {}
    <3> DEFINE x == Latest(s)
    <3>1. x \in s
      BY <1>3, <2>2
    <3>2. iter[s] = put(x, iter[s \ {x}])
      BY <1>10, <2>2
    <3> HIDE DEF x
    <3>3. iter[s \ {x}] \in R /\ Filled(iter[s \ {x}], s \ {x}, caches, id)
      BY <1>11, <3>1
    <3>4. iter[s] \in R
      BY <1>5, <3>1, <3>2, <3>3
    <3>5. Filled(iter[s], s, caches, id)
      <4> DEFINE map == iter[s \ {x}]
      <4>1. x[id] \in Bucket
        BY <1>4, <3>1
      <4>2. map \in [Bucket -> Item] /\ Filled(map, s \ {x}, caches, id)
        BY <3>3 DEF R
      <4>3. iter[s] = [map EXCEPT ![x[id]] = Credited(caches, id, x)]
        BY <3>2 DEF put
      <4> HIDE DEF map
      <4>4. QED
        BY <3>1, <4>1, <4>2, <4>3, FilledOn
    <3>6. QED
      BY <3>4, <3>5
  <2>3. QED
    BY <2>1, <2>2
<1> HIDE DEF Good
<1>12. \A s \in SUBSET A : s \in Good
  BY <1>1, <1>11, SubsetInduction
<1>13. A \in Good
  BY <1>12
<1>14. QED
  BY <1>10, <1>13 DEF Good, A, R

------------------------------------------------------------------------------
(* Decoding is exact *)

\* An accepted combination is on the path of the flow it is credited to.
LEMMA AcceptedOnPath ==
  ASSUME NEW caches, AllCoded(caches), NEW at \in Accepted(caches), NEW id \in Cacheid
  PROVE  check(at[id], DecodedKey(caches, at))
<1> DEFINE f == DecodedKey(caches, at)
<1>1. at \in Combinations(caches) /\ check(at[first(at)], f)
  BY DEF Accepted
<1>2. f \in Flow /\ at[id] \in places[at[first(at)]]
  BY <1>1, DecodedIs, CombinationBuckets
<1> HIDE DEF f
<1>3. PICK j \in Level : at[first(at)] = PathBucket(f, j)
  BY <1>1 DEF check
<1>4. at[id] \in {PathBucket(f, l) : l \in j..3}
  BY <1>2, <1>3, PathPlaces
<1>5. QED
  BY <1>4 DEF check, Level, f

\* Buckets of one path, one of each array and none of them empty, are a combination.
LEMMA PathCombines ==
  ASSUME NEW caches, NEW f \in Flow, NEW at, NEW lev \in [Cacheid -> Level],
         at = [id \in Cacheid |-> PathBucket(f, lev[id])],
         \A id \in Cacheid : ~Vacant(caches[id], PathBucket(f, lev[id]))
  PROVE  at \in Combinations(caches) /\ check(at[first(at)], f)
<1>1. \A id \in Cacheid : at[id] = PathBucket(f, lev[id]) /\ at[id] \in Bucket
  BY PathInArray
<1>2. \A id \in Cacheid : at[id] \in Used(caches[id])
  BY <1>1 DEF Used
<1>3. at \in [Cacheid -> UNION {Used(caches[id]) : id \in Cacheid}]
  BY <1>2
<1>4. at \in [Cacheid -> Bucket]
  BY <1>1
<1>5. first(at) \in Cacheid /\ Starts(at, first(at))
  BY <1>4, FirstStarts
<1> DEFINE j == lev[first(at)]
<1>6. j \in Level /\ at[first(at)] = PathBucket(f, j) /\ level_of[at[first(at)]] = j
  BY <1>1, <1>5, PathLevel
<1>7. ASSUME NEW id \in Cacheid PROVE at[id] \in places[at[first(at)]]
  <2>1. lev[id] \in Level /\ level_of[at[id]] = lev[id]
    BY <1>1, PathLevel
  <2>2. id # first(at) => j < lev[id] \/ j = lev[id]
    BY <1>5, <1>6, <2>1 DEF Starts
  <2>3. lev[id] \in j..3
    <3> HIDE DEF j
    <3>1. id = first(at) => lev[id] = j
      BY DEF j
    <3>2. QED
      BY <1>6, <2>1, <2>2, <3>1 DEF Level
  <2> HIDE DEF j
  <2>4. places[at[first(at)]] = {PathBucket(f, l) : l \in j..3}
    BY <1>6, PathPlaces
  <2>5. QED
    BY <1>1, <2>3, <2>4
<1>8. check(at[first(at)], f)
  BY <1>6 DEF check
<1>9. QED
  BY <1>2, <1>3, <1>7, <1>8 DEF Combinations

\* A flow that every array has a bucket of is decoded in each of these buckets, and
\* an accepted combination goes through it.
LEMMA PathAccepted ==
  ASSUME NEW caches, AllCoded(caches), NEW f \in Flow, NEW lev \in [Cacheid -> Level],
         \A id \in Cacheid : /\ ~Vacant(caches[id], PathBucket(f, lev[id]))
                             /\ caches[id][PathBucket(f, lev[id])].key = encode(id, f)
  PROVE  \E at \in Accepted(caches) : \A id \in Cacheid : at[id] = PathBucket(f, lev[id])
<1> DEFINE at == [id \in Cacheid |-> PathBucket(f, lev[id])]
<1>1. at \in Combinations(caches) /\ check(at[first(at)], f)
  <2>1. at = [id \in Cacheid |-> PathBucket(f, lev[id])]
    OBVIOUS
  <2> HIDE DEF at
  <2>2. QED
    BY <2>1, PathCombines
<1>2. \A id \in Cacheid : at[id] = PathBucket(f, lev[id])
  OBVIOUS
<1> HIDE DEF at
<1>3. DecodedKey(caches, at) = f
  BY <1>1, <1>2, DecodedIs
<1>4. QED
  BY <1>1, <1>2, <1>3 DEF Accepted

\* The table of array id is a sound array of whole keys.
LEMMA UnMapSound ==
  ASSUME NEW caches, AllCoded(caches), NEW id \in Cacheid
  PROVE  Sound(un_map(caches, id))
<1> DEFINE map == un_map(caches, id)
<1>1. map \in [Bucket -> Item] /\ Filled(map, Accepted(caches), caches, id)
  BY UnMapFilled
<1> HIDE DEF map
<1>2. ASSUME NEW b \in Bucket
      PROVE  /\ map[b].count = 0 <=> map[b].key = NoKey
             /\ map[b].key \in Flow => check(b, map[b].key)
  <2>1. CASE map[b] = Empty
    BY <2>1, FlowAssumption DEF Empty
  <2>2. ASSUME NEW at \in Accepted(caches), at[id] = b, map[b] = Credited(caches, id, at)
        PROVE  /\ map[b].count # 0 /\ map[b].key # NoKey
               /\ check(b, map[b].key)
    <3>1. at \in Combinations(caches)
      BY DEF Accepted
    <3>2. map[b].key = DecodedKey(caches, at) /\ map[b].count = caches[id][at[id]].count
          /\ caches[id][at[id]].count # 0
      BY <2>2, <3>1, CreditedType
    <3>3. DecodedKey(caches, at) \in Flow /\ check(at[id], DecodedKey(caches, at))
      BY <3>1, DecodedIs, AcceptedOnPath
    <3>4. QED
      BY <2>2, <3>2, <3>3, FlowAssumption
  <2>3. QED
    BY <1>1, <2>1, <2>2 DEF Filled
<1>3. QED
  BY <1>1, <1>2 DEF Sound, Typed, WellPlaced, map

\* A decoded bucket has the fragment of its key, in the bucket of the array.
LEMMA UnMapFrom ==
  ASSUME NEW caches, AllCoded(caches), NEW id \in Cacheid, NEW flows, flows \subseteq Flow,
         Unmixed(caches, flows), NEW b \in Bucket,
         \E at \in Accepted(caches) : at[id] = b
  PROVE  LET x == un_map(caches, id)[b]
         IN  /\ x.key \in flows /\ check(b, x.key)
             /\ x.count = caches[id][b].count /\ x.time = caches[id][b].time
             /\ caches[id][b].key = encode(id, x.key)
             /\ \E at \in Accepted(caches) :
                  \A k \in Cacheid : /\ caches[k][at[k]].key = encode(k, x.key)
                                     /\ check(at[k], x.key)
<1> DEFINE x == un_map(caches, id)[b]
<1>1. PICK at \in Accepted(caches) : at[id] = b /\ x = Credited(caches, id, at)
  <2> HIDE DEF x
  <2>1. QED
    BY UnMapFilled DEF Filled, x
<1>2. at \in Combinations(caches)
  BY DEF Accepted
<1>3. /\ x.key = DecodedKey(caches, at)
      /\ x.count = caches[id][b].count /\ x.time = caches[id][b].time
  BY <1>1, <1>2, CreditedType
<1>4. PICK f \in flows : decode(caches, at) = full_key[f]
  BY DEF Unmixed
<1>5. x.key = f
  BY <1>3, <1>4, KeyAssumption DEF DecodedKey
<1>6. \A k \in Cacheid : caches[k][at[k]].key = encode(k, f)
  BY <1>2, <1>4, DecodedIs DEF encode
<1>7. \A k \in Cacheid : check(at[k], f)
  BY <1>3, <1>5, AcceptedOnPath
<1> HIDE DEF x
<1>8. QED
  BY <1>1, <1>3, <1>5, <1>6, <1>7 DEF x

\* A bucket without an accepted combination stays empty.
LEMMA UnMapEmpty ==
  ASSUME NEW caches, AllCoded(caches), NEW id \in Cacheid, NEW b \in Bucket,
         \A at \in Accepted(caches) : at[id] # b
  PROVE  un_map(caches, id)[b] = Empty
BY UnMapFilled DEF Filled

\* A flow that is decoded is one of those that came, with a bucket in every array.
LEMMA DecodedIsHeld ==
  ASSUME NEW caches, AllCoded(caches), NEW id \in Cacheid, NEW flows, flows \subseteq Flow,
         Unmixed(caches, flows), NEW b \in Bucket, NEW f \in Flow,
         un_map(caches, id)[b].key = f
  PROVE  /\ f \in flows /\ \A k \in Cacheid : Kept(caches[k], k, f) > 0
         /\ caches[id][b].key = encode(id, f)
         /\ un_map(caches, id)[b].count = caches[id][b].count
         /\ un_map(caches, id)[b].time = caches[id][b].time
<1>1. \E at \in Accepted(caches) : at[id] = b
  BY UnMapEmpty, FlowAssumption DEF Empty
<1>2. /\ f \in flows /\ un_map(caches, id)[b].count = caches[id][b].count
      /\ caches[id][b].key = encode(id, f)
      /\ un_map(caches, id)[b].time = caches[id][b].time
  BY <1>1, UnMapFrom
<1>3. PICK at \in Accepted(caches) :
        \A k \in Cacheid : caches[k][at[k]].key = encode(k, f) /\ check(at[k], f)
  BY <1>1, UnMapFrom
<1>4. ASSUME NEW k \in Cacheid PROVE Kept(caches[k], k, f) > 0
  <2>1. PICK l \in Level : at[k] = PathBucket(f, l)
    BY <1>3 DEF check
  <2>2. at \in Combinations(caches) /\ Coded(k, caches[k])
    BY DEF Accepted, AllCoded
  <2>3. at[k] \in Bucket /\ caches[k][at[k]].count # 0
    BY <2>2, CombinationBuckets DEF Vacant
  <2>4. caches[k][at[k]].count \in Nat
    BY <2>2, <2>3 DEF Coded
  <2>5. KeptShare(caches[k], k, f)[l] > 0
    BY <1>3, <2>1, <2>3, <2>4 DEF KeptShare
  <2>6. QED
    BY <2>2, <2>5, KeptSome
<1>5. QED
  BY <1>2, <1>4

\* Of a flow that is held and alone with its fragment, every bucket is decoded.
LEMMA HeldIsDecoded ==
  ASSUME NEW caches, AllCoded(caches), NEW id \in Cacheid, NEW flows, flows \subseteq Flow,
         Unmixed(caches, flows), NEW f \in flows, ~Shared(id, f, flows),
         \A k \in Cacheid : Kept(caches[k], k, f) > 0,
         NEW l \in Level, ~Vacant(caches[id], PathBucket(f, l)),
         caches[id][PathBucket(f, l)].key = encode(id, f)
  PROVE  un_map(caches, id)[PathBucket(f, l)].key = f
<1> DEFINE Has(k, j) == /\ ~Vacant(caches[k], PathBucket(f, j))
                        /\ caches[k][PathBucket(f, j)].key = encode(k, f)
           lev == [k \in Cacheid |-> IF k = id THEN l ELSE CHOOSE j \in Level : Has(k, j)]
           b == PathBucket(f, l)
<1>1. ASSUME NEW k \in Cacheid PROVE lev[k] \in Level /\ Has(k, lev[k])
  <2>1. Coded(k, caches[k]) /\ f \in Flow
    BY DEF AllCoded
  <2>2. PICK j \in Level : KeptShare(caches[k], k, f)[j] > 0
    BY <2>1, KeptSome
  <2>3. Has(k, j)
    BY <2>2 DEF KeptShare, Vacant
  <2>4. Has(id, l)
    OBVIOUS
  <2> HIDE DEF Has
  <2>5. QED
    BY <2>3, <2>4
<1>2. lev \in [Cacheid -> Level] /\ lev[id] = l
  <2>1. lev = [k \in Cacheid |-> lev[k]] /\ lev[id] = l
    OBVIOUS
  <2> HIDE DEF lev, Has
  <2>2. QED
    BY <1>1, <2>1
<1> HIDE DEF lev, b
<1>3. \E at \in Accepted(caches) : at[id] = b
  <2>1. PICK at \in Accepted(caches) : \A k \in Cacheid : at[k] = PathBucket(f, lev[k])
    BY <1>1, <1>2, PathAccepted
  <2>2. QED
    BY <1>2, <2>1 DEF b
<1>4. b \in Bucket
  BY PathInArray DEF b
<1> DEFINE g == un_map(caches, id)[b].key
<1>5. g \in flows /\ check(b, g) /\ caches[id][b].key = encode(id, g)
  BY <1>3, <1>4, UnMapFrom
<1> HIDE DEF g
<1>6. PICK j \in Level : b = PathBucket(g, j)
  BY <1>5 DEF check
<1>7. j = l
  BY <1>5, <1>6, LevelsDisjoint DEF b
<1>8. Tree(g) = Tree(f)
  BY <1>5, <1>6, <1>7, SameTree DEF b
<1>9. g = f
  BY <1>5, <1>8 DEF Shared, b
<1>10. QED
  BY <1>9 DEF g, b

\* What is read back of a flow from the decoded table.
LEMMA DecodedCount ==
  ASSUME NEW caches, AllCoded(caches), NEW id \in Cacheid, NEW flows, flows \subseteq Flow,
         Unmixed(caches, flows), NEW f \in Flow, f \notin flows \/ ~Shared(id, f, flows)
  PROVE  MergeSingleCache(un_map(caches, id), f)
           = IF f \in flows /\ \A k \in Cacheid : Kept(caches[k], k, f) > 0
             THEN Kept(caches[id], id, f) ELSE 0
<1> DEFINE map == un_map(caches, id)
           w == KeptShare(caches[id], id, f)
           isHeld == f \in flows /\ \A k \in Cacheid : Kept(caches[k], k, f) > 0
<1>1. MergeSingleCache(map, f) = Recorded(map, f)
  BY UnMapSound, MergeIsRecorded DEF Sound
<1>2. ASSUME NEW l \in Level
      PROVE  Share(map, f, l) = IF isHeld THEN w[l] ELSE 0
  <2> DEFINE b == PathBucket(f, l)
  <2>1. b \in Bucket
    BY PathInArray
  <2>2. Share(map, f, l) = IF map[b].key = f THEN map[b].count ELSE 0
    BY DEF Share
  <2>3. w[l] = IF caches[id][b].key = encode(id, f) THEN caches[id][b].count ELSE 0
    BY DEF KeptShare
  <2>4. map[b].key = f => /\ isHeld
                          /\ caches[id][b].key = encode(id, f)
                          /\ map[b].count = caches[id][b].count
    BY <2>1, DecodedIsHeld
  <2>5. isHeld /\ caches[id][b].key = encode(id, f) /\ caches[id][b].count # 0 => map[b].key = f
    BY HeldIsDecoded DEF Vacant
  <2> HIDE DEF b, map, w, isHeld
  <2>6. QED
    BY <2>2, <2>3, <2>4, <2>5
<1>3. Coded(id, caches[id])
  BY DEF AllCoded
<1>4. w \in [Level -> Nat] /\ Kept(caches[id], id, f) = Total(w, Level, 0, 1, 2, 3)
  BY <1>3, KeptSome, KeptIsTotal
<1> HIDE DEF map, w
<1>5. Kept(caches[id], id, f) = w[0] + w[1] + w[2] + w[3]
  BY <1>4 DEF Total, Level
<1>6. Recorded(map, f) = IF isHeld THEN w[0] + w[1] + w[2] + w[3] ELSE 0
  <2> HIDE DEF isHeld
  <2>1. QED
    BY <1>2 DEF Recorded, Level
<1>7. QED
  BY <1>1, <1>5, <1>6 DEF map
------------------------------------------------------------------------------
(***************************************************************************)
(* An array whose flows may share fragments.  It mirrors no array of whole *)
(* keys; but each fragment is still one of a flow that came, on that       *)
(* flow's path, and so the fragments of a flow that shares none are its    *)
(* own.                                                                    *)
(***************************************************************************)
Located(id, c, S) ==
  \A b \in Bucket :
    IF Vacant(c, b) THEN c[b] = Empty
    ELSE \E g \in S : c[b].key = encode(id, g) /\ check(b, g)

\* The item in hand at level l of an insertion on the path of h.
Carries(id, it, h, l, S) ==
  /\ it \in Parts(id) /\ it.count > 0
  /\ \E g \in S : it.key = encode(id, g) /\ PathBucket(g, l) = PathBucket(h, l)

\* Some of the packets in hand, all at most, go to a resident; else the item is put
\* in, or taken on.
Moves(c, it, at, r) ==
  \/ Vacant(c, at) /\ r = Placed(c, it, at)
  \/ Holds(c, at, it) /\ \E n \in Nat : n <= it.count /\ r = Merged(c, it, at, n)
  \/ ~Vacant(c, at) /\ \E d \in BOOLEAN : r = Exchanged(c, it, at, d) \/ r = Passed(c, it, d)

\* All levels do that.
LEMMA LevelsMove ==
  ASSUME NEW id, NEW c, NEW it \in Parts(id), it.count > 0, NEW at
  PROVE  /\ Moves(c, it, at, d_left_level(c, it, at))
         /\ Moves(c, it, at, must_kick_level(c, it, at))
         /\ Moves(c, it, at, WinnerLevel(c, it, at))
<1>1. it.count \in Nat /\ 1 \in Nat /\ 1 <= it.count /\ it.count <= it.count
  BY DEF Parts
<1>2. comp_item(it, c[at]) \in BOOLEAN
  BY DEF comp_item
<1>3. Moves(c, it, at, d_left_level(c, it, at))
  BY <1>1, TakenType DEF Moves, d_left_level, Holds
<1>4. Moves(c, it, at, must_kick_level(c, it, at))
  BY <1>1 DEF Moves, must_kick_level, Holds
<1>5. Moves(c, it, at, WinnerLevel(c, it, at))
  BY <1>1, <1>2 DEF Moves, WinnerLevel, LastLevel, Holds
<1>6. QED
  BY <1>3, <1>4, <1>5

\* What is in a bucket may be taken on from there.
LEMMA ResidentCarries ==
  ASSUME NEW id, NEW c, Coded(id, c), NEW S, S \subseteq Flow, Located(id, c, S),
         NEW h \in Flow, NEW l \in Level, ~Vacant(c, PathBucket(h, l))
  PROVE  Carries(id, c[PathBucket(h, l)], h, l, S)
<1> DEFINE at == PathBucket(h, l)
<1>1. at \in Bucket
  BY PathInArray
<1>2. c[at] \in Parts(id) /\ c[at].count > 0
  BY <1>1 DEF Coded, Parts, Vacant
<1>3. PICK g \in S : c[at].key = encode(id, g) /\ check(at, g)
  BY <1>1 DEF Located
<1>4. PICK j \in Level : at = PathBucket(g, j)
  BY <1>3 DEF check
<1>5. PathBucket(g, l) = at
  BY <1>4, LevelsDisjoint
<1>6. QED
  BY <1>2, <1>3, <1>5 DEF Carries

\* A level puts no fragment off its flow's path.
LEMMA MoveLocated ==
  ASSUME NEW id, NEW c, Coded(id, c), NEW S, S \subseteq Flow, Located(id, c, S),
         NEW h \in Flow, NEW l \in Level, NEW it, Carries(id, it, h, l, S),
         NEW r, Moves(c, it, PathBucket(h, l), r)
  PROVE  /\ Coded(id, r.cache) /\ Located(id, r.cache, S)
         /\ ~r.done => Carries(id, r.item, h, l, S)
<1> DEFINE at == PathBucket(h, l)
<1>1. at \in Bucket
  BY PathInArray
<1>2. PICK g \in S : it.key = encode(id, g) /\ PathBucket(g, l) = at
  BY DEF Carries
<1>3. g \in Flow /\ check(at, g) /\ it \in Parts(id) /\ it.count \in Nat /\ it.count > 0
  BY <1>2 DEF check, Carries, Parts
<1>4. Possible(c, it, at, r)
  BY DEF Moves, Possible
<1>5. Coded(id, r.cache) /\ (~r.done => r.item \in Parts(id))
  BY <1>1, <1>3, <1>4, PossibleCoded
<1>6. ASSUME NEW x, x.count # 0, \E k \in S : x.key = encode(id, k) /\ check(at, k)
      PROVE  Located(id, [c EXCEPT ![at] = x], S)
  <2> DEFINE d == [c EXCEPT ![at] = x]
  <2>1. \A b \in Bucket : d[b] = IF b = at THEN x ELSE c[b]
    BY <1>1 DEF Coded
  <2> HIDE DEF d, at
  <2>2. QED
    BY <1>6, <2>1 DEF Located, Vacant, d
<1>7. ~Vacant(c, at) => \E k \in S : c[at].key = encode(id, k) /\ check(at, k)
  BY <1>1 DEF Located
<1> HIDE DEF at
<1>8. CASE r = Placed(c, it, at)
  <2>1. r.cache = [c EXCEPT ![at] = it] /\ r.done
    BY <1>8 DEF Placed, Outcome
  <2>2. QED
    BY <1>2, <1>3, <1>5, <1>6, <2>1
<1>9. ASSUME Holds(c, at, it), NEW n \in Nat, r = Merged(c, it, at, n)
      PROVE  Located(id, r.cache, S) /\ r.done
  <2> DEFINE x == incrementItem(it, c[at], n)
  <2>1. r.cache = [c EXCEPT ![at] = x] /\ r.done
    BY <1>1, <1>9 DEF Merged, Outcome, Coded
  <2>2. c[at].count \in Nat /\ c[at].count # 0
    BY <1>1, <1>9 DEF Coded, Holds, Vacant
  <2>3. x.count # 0 /\ x.key = c[at].key
    BY <2>2 DEF incrementItem
  <2> HIDE DEF x
  <2>4. QED
    BY <1>6, <1>7, <1>9, <2>1, <2>3 DEF Holds
<1>10. ASSUME ~Vacant(c, at), NEW d \in BOOLEAN, r = Exchanged(c, it, at, d)
       PROVE  Located(id, r.cache, S) /\ Carries(id, r.item, h, l, S)
  <2>1. r.cache = [c EXCEPT ![at] = it] /\ r.item = c[at]
    BY <1>10 DEF Exchanged, Outcome
  <2>2. Carries(id, r.item, h, l, S)
    BY <1>10, <2>1, ResidentCarries DEF at
  <2>3. QED
    BY <1>2, <1>3, <1>6, <2>1, <2>2
<1>11. ASSUME NEW d \in BOOLEAN, r = Passed(c, it, d)
       PROVE  Located(id, r.cache, S) /\ Carries(id, r.item, h, l, S)
  BY <1>11 DEF Passed, Outcome
<1>12. QED
  BY <1>5, <1>8, <1>9, <1>10, <1>11 DEF Moves, at

\* f's packets in an item with this key and count.
PartCount(id, it, f) == IF it.key = encode(id, f) THEN it.count ELSE 0

\* The item in hand on the path of h is of f.
Mine(id, it, f, h) == Tree(h) = Tree(f) /\ PartCount(id, it, f) > 0

InHand(id, it, f, h) == IF Mine(id, it, f, h) THEN it.count ELSE 0

\* The array c of n packets of f, the last of them at t: no more are kept, no stamp is
\* later, and as long as none was lost the latest is there.
Faithful(c, id, f, n, t) ==
  /\ Kept(c, id, f) <= n
  /\ \A l \in Level : KeptShare(c, id, f)[l] > 0 => c[PathBucket(f, l)].time <= t
  /\ Kept(c, id, f) = n /\ n > 0 =>
       \E l \in Level : KeptShare(c, id, f)[l] > 0 /\ c[PathBucket(f, l)].time = t

\* The same of the array and the item in hand on the path of h.
FaithfulWith(c, it, id, f, n, t, h) ==
  /\ Kept(c, id, f) + InHand(id, it, f, h) <= n
  /\ \A l \in Level : KeptShare(c, id, f)[l] > 0 => c[PathBucket(f, l)].time <= t
  /\ Mine(id, it, f, h) => it.time <= t
  /\ Kept(c, id, f) + InHand(id, it, f, h) = n /\ n > 0 =>
       \/ \E l \in Level : KeptShare(c, id, f)[l] > 0 /\ c[PathBucket(f, l)].time = t
       \/ Mine(id, it, f, h) /\ it.time = t

\* An item of f, which shares no fragment, is where f's path is.
LEMMA MineOnPath ==
  ASSUME NEW id, NEW S, S \subseteq Flow, NEW f \in Flow, ~Shared(id, f, S), NEW h \in Flow,
         NEW l \in Level, NEW it, Carries(id, it, h, l, S), Mine(id, it, f, h)
  PROVE  PathBucket(f, l) = PathBucket(h, l)
<1>1. PICK g \in S : it.key = encode(id, g) /\ PathBucket(g, l) = PathBucket(h, l)
  BY DEF Carries
<1>2. Tree(g) = Tree(f)
  BY <1>1, SameTree DEF Mine
<1>3. encode(id, g) = encode(id, f)
  BY <1>1 DEF Mine, PartCount
<1>4. g = f
  BY <1>2, <1>3 DEF Shared
<1>5. QED
  BY <1>1, <1>4

\* A level writes into its own bucket only.
LEMMA MoveOnlyHere ==
  ASSUME NEW id, NEW c, Coded(id, c), NEW at \in Bucket, NEW it, NEW r, Moves(c, it, at, r)
  PROVE  \A b \in Bucket : b # at => r.cache[b] = c[b]
BY DEF Moves, Coded, Placed, Merged, Exchanged, Passed, Outcome

\* Between the bucket y and the item in hand a level neither makes nor loses packets
\* of f, and no stamp of theirs is lost that is as late as t.
LEMMA MoveBucket ==
  ASSUME NEW id, NEW f, NEW c, Coded(id, c), NEW at \in Bucket,
         NEW it \in Parts(id), it.count > 0, NEW r, Moves(c, it, at, r), NEW t \in Nat,
         PartCount(id, c[at], f) > 0 => c[at].time <= t,
         PartCount(id, it, f) > 0 => it.time <= t
  PROVE  LET x == r.cache[at]
             i == r.item
         IN  /\ PartCount(id, x, f) \in Nat /\ PartCount(id, i, f) \in Nat
             /\ i.count \in Nat
             /\ PartCount(id, x, f) + PartCount(id, i, f)
                  = PartCount(id, c[at], f) + PartCount(id, it, f)
             /\ PartCount(id, x, f) > 0 => x.time <= t
             /\ PartCount(id, i, f) > 0 => i.time <= t
             /\ \/ PartCount(id, c[at], f) > 0 /\ c[at].time = t
                \/ PartCount(id, it, f) > 0 /\ it.time = t
                => \/ PartCount(id, x, f) > 0 /\ x.time = t
                   \/ PartCount(id, i, f) > 0 /\ i.time = t
<1> DEFINE y == c[at]
           e == encode(id, f)
<1>1. y.count \in Nat /\ y.time \in Nat /\ it.count \in Nat /\ it.time \in Nat
  BY DEF Coded, Parts
<1>2. CASE Vacant(c, at) /\ r = Placed(c, it, at)
  <2>1. r.cache[at] = it /\ r.item = [it EXCEPT !.count = 0] /\ y.count = 0
    BY <1>2 DEF Placed, Outcome, Coded, Vacant
  <2>2. r.item.count = 0 /\ r.item.key = it.key
    BY <2>1 DEF Parts
  <2>3. PartCount(id, y, f) = 0 /\ PartCount(id, r.item, f) = 0
    BY <2>1, <2>2 DEF PartCount
  <2>4. PartCount(id, it, f) \in Nat
    BY <1>1 DEF PartCount
  <2> HIDE DEF y
  <2>5. QED
    BY <2>1, <2>2, <2>3, <2>4 DEF y
<1>3. ASSUME Holds(c, at, it), NEW n \in Nat, n <= it.count, r = Merged(c, it, at, n)
      PROVE  LET x == r.cache[at]
                 i == r.item
             IN  /\ x.key = it.key /\ y.key = it.key /\ i.key = it.key
                 /\ x.count = y.count + n /\ i.count = it.count - n
                 /\ x.time = Newer(it.time, y.time) /\ i.time = it.time
                 /\ y.count # 0
  BY <1>3 DEF Merged, Outcome, Coded, incrementItem, Holds, Vacant, Parts
<1>4. CASE Holds(c, at, it) /\ \E n \in Nat : n <= it.count /\ r = Merged(c, it, at, n)
  <2> PICK n \in Nat : n <= it.count /\ r = Merged(c, it, at, n)
    BY <1>4
  <2> DEFINE x == r.cache[at]
             i == r.item
  <2>1. /\ x.key = it.key /\ y.key = it.key /\ i.key = it.key
        /\ x.count = y.count + n /\ i.count = it.count - n
        /\ x.time = Newer(it.time, y.time) /\ i.time = it.time
        /\ y.count # 0
    BY <1>3, <1>4
  <2> HIDE DEF x, i, y, e
  <2>2. CASE it.key = encode(id, f)
    <3>1. /\ PartCount(id, x, f) = y.count + n /\ PartCount(id, i, f) = it.count - n
          /\ PartCount(id, y, f) = y.count /\ PartCount(id, it, f) = it.count
      BY <2>1, <2>2 DEF PartCount
    <3>2. y.time <= t /\ it.time <= t
      BY <1>1, <2>1, <3>1 DEF y
    <3>3. x.time <= t /\ (y.time = t \/ it.time = t => x.time = t)
      BY <1>1, <2>1, <3>2 DEF Newer
    <3>4. y.count + n > 0 /\ y.count + n \in Nat /\ it.count - n \in Nat
      BY <1>1, <2>1
    <3>5. y.count + n + (it.count - n) = y.count + it.count
      BY <1>1
    <3>6. QED
      BY <2>1, <3>1, <3>2, <3>3, <3>4, <3>5 DEF x, i, y
  <2>3. CASE it.key # encode(id, f)
    <3>1. /\ PartCount(id, x, f) = 0 /\ PartCount(id, i, f) = 0
          /\ PartCount(id, y, f) = 0 /\ PartCount(id, it, f) = 0
      BY <2>1, <2>3 DEF PartCount
    <3>2. i.count \in Nat
      BY <1>1, <2>1
    <3>3. QED
      BY <3>1, <3>2 DEF x, i, y
  <2>4. QED
    BY <2>2, <2>3
<1>5. ASSUME NEW d \in BOOLEAN, r = Exchanged(c, it, at, d)
      PROVE  r.cache[at] = it /\ r.item = y
  BY <1>5 DEF Exchanged, Outcome, Coded
<1>6. ASSUME NEW d \in BOOLEAN, r = Passed(c, it, d)
      PROVE  r.cache[at] = y /\ r.item = it
  BY <1>6 DEF Passed, Outcome
<1>7. PartCount(id, y, f) \in Nat /\ PartCount(id, it, f) \in Nat
  BY <1>1 DEF PartCount
<1>8. CASE r.cache[at] = it /\ r.item = y
  <2> HIDE DEF y
  <2>1. QED
    BY <1>1, <1>7, <1>8 DEF y
<1>9. CASE r.cache[at] = y /\ r.item = it
  <2> HIDE DEF y
  <2>1. QED
    BY <1>1, <1>7, <1>9 DEF y
<1>10. QED
  BY <1>2, <1>4, <1>5, <1>6, <1>8, <1>9 DEF Moves

\* What is kept of a flow, without the share of one bucket, depends on the others.
LEMMA KeptUpdate ==
  ASSUME NEW id, NEW c, Coded(id, c), NEW d, Coded(id, d), NEW f \in Flow, NEW l \in Level,
         \A j \in Level : j # l => KeptShare(d, id, f)[j] = KeptShare(c, id, f)[j]
  PROVE  /\ KeptShare(c, id, f)[l] \in Nat /\ KeptShare(d, id, f)[l] \in Nat
         /\ Kept(c, id, f) \in Nat /\ Kept(d, id, f) \in Nat
         /\ Kept(d, id, f) = Kept(c, id, f) - KeptShare(c, id, f)[l] + KeptShare(d, id, f)[l]
<1> DEFINE v == KeptShare(c, id, f)
           w == KeptShare(d, id, f)
<1>1. /\ v \in [Level -> Nat] /\ Kept(c, id, f) = Total(v, Level, 0, 1, 2, 3)
      /\ w \in [Level -> Nat] /\ Kept(d, id, f) = Total(w, Level, 0, 1, 2, 3)
  BY KeptSome, KeptIsTotal
<1> HIDE DEF v, w
<1>2. /\ Kept(c, id, f) = v[0] + v[1] + v[2] + v[3]
      /\ Kept(d, id, f) = w[0] + w[1] + w[2] + w[3]
  BY <1>1 DEF Total, Level
<1>3. \A j \in Level : j # l => w[j] = v[j]
  BY DEF v, w
<1>4. /\ v[0] \in Nat /\ v[1] \in Nat /\ v[2] \in Nat /\ v[3] \in Nat
      /\ w[0] \in Nat /\ w[1] \in Nat /\ w[2] \in Nat /\ w[3] \in Nat
  BY <1>1 DEF Level
<1>5. \/ l = 0 /\ w[1] = v[1] /\ w[2] = v[2] /\ w[3] = v[3]
      \/ l = 1 /\ w[0] = v[0] /\ w[2] = v[2] /\ w[3] = v[3]
      \/ l = 2 /\ w[0] = v[0] /\ w[1] = v[1] /\ w[3] = v[3]
      \/ l = 3 /\ w[0] = v[0] /\ w[1] = v[1] /\ w[2] = v[2]
  BY <1>3 DEF Level
<1>6. /\ v[l] \in Nat /\ w[l] \in Nat
      /\ Kept(c, id, f) \in Nat /\ Kept(d, id, f) \in Nat
      /\ Kept(d, id, f) = Kept(c, id, f) - v[l] + w[l]
  BY ONLY <1>2, <1>4, <1>5
<1>7. QED
  BY <1>6 DEF v, w

\* A level keeps the array faithful to a flow that shares no fragment.
LEMMA MoveFaithful ==
  ASSUME NEW id, NEW c, Coded(id, c), NEW S, S \subseteq Flow, Located(id, c, S),
         NEW h \in Flow, NEW l \in Level, NEW it, Carries(id, it, h, l, S),
         NEW r, Moves(c, it, PathBucket(h, l), r),
         NEW f \in Flow, ~Shared(id, f, S), NEW n \in Nat, NEW t \in Nat,
         FaithfulWith(c, it, id, f, n, t, h)
  PROVE  FaithfulWith(r.cache, r.item, id, f, n, t, h)
<1> DEFINE at == PathBucket(h, l)
           d == r.cache
           v == KeptShare(c, id, f)
           w == KeptShare(d, id, f)
<1>1. at \in Bucket /\ \A j \in Level : PathBucket(f, j) \in Bucket
  BY PathInArray
<1>2. \A b \in Bucket : b # at => d[b] = c[b]
  BY <1>1, MoveOnlyHere
<1>3. \A j \in Level : j # l => PathBucket(f, j) # at
  BY LevelsDisjoint
<1>4. Coded(id, d)
  BY MoveLocated
<1>5. \A j \in Level : /\ v[j] = PartCount(id, c[PathBucket(f, j)], f)
                       /\ w[j] = PartCount(id, d[PathBucket(f, j)], f)
  BY DEF KeptShare, PartCount
<1>6. ASSUME NEW j \in Level, PathBucket(f, j) # at
      PROVE  w[j] = v[j] /\ d[PathBucket(f, j)] = c[PathBucket(f, j)]
  <2>1. d[PathBucket(f, j)] = c[PathBucket(f, j)]
    BY <1>1, <1>2, <1>6
  <2>2. QED
    BY <1>5, <2>1
<1>7. /\ v[l] \in Nat /\ w[l] \in Nat /\ Kept(c, id, f) \in Nat /\ Kept(d, id, f) \in Nat
      /\ Kept(d, id, f) = Kept(c, id, f) - v[l] + w[l]
  <2>1. \A j \in Level : j # l => w[j] = v[j]
    BY <1>3, <1>6
  <2>2. QED
    BY <1>4, <2>1, KeptUpdate
<1>8. it \in Parts(id) /\ it.count > 0
  BY DEF Carries
<1> HIDE DEF v, w, at
<1>9. CASE PathBucket(f, l) # at
  <2>1. \A j \in Level : PathBucket(f, j) # at
    BY <1>3, <1>9
  <2>2. ~Mine(id, it, f, h)
    BY <1>9, MineOnPath DEF at
  <2>3. ~Vacant(c, at) => ~Mine(id, c[at], f, h)
    BY <1>9, ResidentCarries, MineOnPath DEF at
  <2>4. ~Mine(id, r.item, f, h)
    <3>1. ASSUME NEW n0 \in Nat, n0 <= it.count, r = Merged(c, it, at, n0)
          PROVE  ~Mine(id, r.item, f, h)
      <4>1. r.item.key = it.key
        BY <3>1, <1>8 DEF Merged, Outcome, Parts
      <4>2. QED
        BY <2>2, <1>8, <4>1 DEF Mine, PartCount
    <3>2. ASSUME r = Placed(c, it, at)
          PROVE  ~Mine(id, r.item, f, h)
      <4>1. r.item.count = 0
        BY <3>2, <1>8 DEF Placed, Outcome, Parts
      <4>2. QED
        BY <4>1 DEF Mine, PartCount
    <3>3. ASSUME ~Vacant(c, at), NEW e \in BOOLEAN,
                 r = Exchanged(c, it, at, e) \/ r = Passed(c, it, e)
          PROVE  ~Mine(id, r.item, f, h)
      BY <2>2, <2>3, <3>3 DEF Exchanged, Passed, Outcome
    <3>4. QED
      BY <3>1, <3>2, <3>3 DEF Moves, at
  <2>5. Kept(d, id, f) = Kept(c, id, f)
    BY <1>6, <1>7, <1>9
  <2>6. InHand(id, it, f, h) = 0 /\ InHand(id, r.item, f, h) = 0
    BY <2>2, <2>4 DEF InHand
  <2>7. Kept(d, id, f) + InHand(id, r.item, f, h) = Kept(c, id, f) + InHand(id, it, f, h)
    BY <2>5, <2>6
  <2>8. \A j \in Level : /\ KeptShare(d, id, f)[j] = KeptShare(c, id, f)[j]
                         /\ d[PathBucket(f, j)] = c[PathBucket(f, j)]
    BY <1>6, <2>1 DEF v, w
  <2> HIDE DEF d
  <2>9. FaithfulWith(d, r.item, id, f, n, t, h)
    <3>1. Kept(d, id, f) + InHand(id, r.item, f, h) <= n
      BY <2>7 DEF FaithfulWith
    <3>2. ASSUME NEW j \in Level, KeptShare(d, id, f)[j] > 0
          PROVE  d[PathBucket(f, j)].time <= t
      <4>1. KeptShare(c, id, f)[j] > 0
        BY <2>8, <3>2
      <4>2. c[PathBucket(f, j)].time <= t
        BY <4>1 DEF FaithfulWith
      <4>3. QED
        BY <2>8, <4>2
    <3>3. ASSUME Kept(d, id, f) + InHand(id, r.item, f, h) = n, n > 0
          PROVE  \E j \in Level : KeptShare(d, id, f)[j] > 0 /\ d[PathBucket(f, j)].time = t
      <4>1. PICK j \in Level : KeptShare(c, id, f)[j] > 0 /\ c[PathBucket(f, j)].time = t
        BY <2>2, <2>7, <3>3 DEF FaithfulWith
      <4>2. QED
        BY <2>8, <4>1
    <3>4. QED
      BY <2>4, <3>1, <3>2, <3>3 DEF FaithfulWith
  <2>10. QED
    BY <2>9 DEF d
<1>10. CASE PathBucket(f, l) = at
  <2>1. Tree(h) = Tree(f)
    BY <1>10, SameTree DEF at
  <2> DEFINE p == PartCount(id, it, f)
             q == PartCount(id, r.item, f)
             has == \E j \in Level : v[j] > 0 /\ c[PathBucket(f, j)].time = t
             keeps == \E j \in Level : w[j] > 0 /\ d[PathBucket(f, j)].time = t
  <2>2. /\ Mine(id, it, f, h) <=> p > 0
        /\ Mine(id, r.item, f, h) <=> q > 0
    BY <2>1 DEF Mine
  <2>3. v[l] = PartCount(id, c[at], f) /\ w[l] = PartCount(id, d[at], f)
    BY <1>5, <1>10
  <2>4. /\ v[l] > 0 => c[at].time <= t
        /\ p > 0 => it.time <= t
    BY <1>10, <2>2 DEF FaithfulWith, v
  <2>5. /\ w[l] \in Nat /\ q \in Nat /\ r.item.count \in Nat
        /\ w[l] + q = v[l] + p
        /\ w[l] > 0 => d[at].time <= t
        /\ q > 0 => r.item.time <= t
        /\ (v[l] > 0 /\ c[at].time = t) \/ (p > 0 /\ it.time = t)
           => (w[l] > 0 /\ d[at].time = t) \/ (q > 0 /\ r.item.time = t)
    <3> DEFINE i == r.item
    <3>1. /\ PartCount(id, c[at], f) > 0 => c[at].time <= t
          /\ PartCount(id, it, f) > 0 => it.time <= t
          /\ Moves(c, it, at, r)
      BY <2>3, <2>4 DEF at
    <3>2. /\ PartCount(id, d[at], f) \in Nat /\ PartCount(id, i, f) \in Nat
          /\ i.count \in Nat
          /\ PartCount(id, d[at], f) + PartCount(id, i, f)
               = PartCount(id, c[at], f) + PartCount(id, it, f)
          /\ PartCount(id, d[at], f) > 0 => d[at].time <= t
          /\ PartCount(id, i, f) > 0 => i.time <= t
          /\ \/ PartCount(id, c[at], f) > 0 /\ c[at].time = t
             \/ PartCount(id, it, f) > 0 /\ it.time = t
             => \/ PartCount(id, d[at], f) > 0 /\ d[at].time = t
                \/ PartCount(id, i, f) > 0 /\ i.time = t
      BY <1>1, <1>8, <3>1, MoveBucket
    <3> HIDE DEF d, i
    <3>3. QED
      BY <2>3, <3>2 DEF i
  <2>6. p \in Nat
    BY <1>8 DEF PartCount, Parts
  <2>7. InHand(id, it, f, h) = p /\ InHand(id, r.item, f, h) = q
    <3>1. /\ p > 0 => p = it.count
          /\ q > 0 => q = r.item.count
      BY DEF PartCount
    <3> HIDE DEF p, q
    <3>2. QED
      BY <2>2, <2>5, <2>6, <3>1 DEF InHand
  <2> HIDE DEF p, q, d
  <2>8. Kept(d, id, f) + q = Kept(c, id, f) + p
    BY ONLY <1>7, <2>5, <2>6
  <2>9. \A j \in Level : w[j] > 0 => d[PathBucket(f, j)].time <= t
    <3>1. ASSUME NEW j \in Level, j # l, w[j] > 0 PROVE d[PathBucket(f, j)].time <= t
      <4>1. w[j] = v[j] /\ d[PathBucket(f, j)] = c[PathBucket(f, j)]
        BY <1>3, <1>6, <3>1
      <4>2. QED
        BY <3>1, <4>1 DEF FaithfulWith, v
    <3>2. QED
      BY <1>10, <2>5, <3>1
  <2>10. has \/ (p > 0 /\ it.time = t) => keeps \/ (q > 0 /\ r.item.time = t)
    <3>1. ASSUME NEW j \in Level, v[j] > 0, c[PathBucket(f, j)].time = t
          PROVE  keeps \/ (q > 0 /\ r.item.time = t)
      <4>1. CASE j = l
        BY <1>10, <2>5, <3>1, <4>1
      <4>2. CASE j # l
        BY <1>3, <1>6, <3>1, <4>2
      <4>3. QED
        BY <4>1, <4>2
    <3>2. CASE p > 0 /\ it.time = t
      BY <1>10, <2>5, <3>2
    <3>3. QED
      BY <3>1, <3>2
  <2>11. /\ Kept(c, id, f) + p <= n
         /\ Kept(c, id, f) + p = n /\ n > 0 => has \/ (p > 0 /\ it.time = t)
    BY <2>2, <2>7 DEF FaithfulWith, v
  <2> HIDE DEF has
  <2>12. /\ Kept(d, id, f) + q <= n
         /\ Kept(d, id, f) + q = n /\ n > 0 => keeps \/ (q > 0 /\ r.item.time = t)
    BY <2>8, <2>10, <2>11
  <2>13. keeps <=> \E j \in Level : /\ KeptShare(r.cache, id, f)[j] > 0
                                     /\ r.cache[PathBucket(f, j)].time = t
    BY DEF w, d
  <2>14. \A j \in Level : KeptShare(r.cache, id, f)[j] > 0
                           => r.cache[PathBucket(f, j)].time <= t
    BY <2>9 DEF w, d
  <2>15. q > 0 => r.item.time <= t
    BY <2>5
  <2> HIDE DEF keeps
  <2>16. /\ Kept(r.cache, id, f) + InHand(id, r.item, f, h) <= n
         /\ Kept(r.cache, id, f) + InHand(id, r.item, f, h) = n /\ n > 0
              => keeps \/ (Mine(id, r.item, f, h) /\ r.item.time = t)
    BY <2>2, <2>7, <2>12 DEF d
  <2>17. QED
    BY <2>2, <2>13, <2>14, <2>15, <2>16 DEF FaithfulWith
<1>11. QED
  BY <1>9, <1>10

\* What is left in hand is a number of packets.
LEMMA MoveCount ==
  ASSUME NEW id, NEW c, Coded(id, c), NEW at \in Bucket, NEW it \in Parts(id),
         NEW r, Moves(c, it, at, r)
  PROVE  r.item.count \in Nat
<1>1. it.count \in Nat /\ c[at].count \in Nat
  BY DEF Coded, Parts
<1>2. CASE r = Placed(c, it, at)
  BY <1>2 DEF Placed, Outcome, Parts
<1>3. ASSUME NEW n \in Nat, n <= it.count, r = Merged(c, it, at, n)
      PROVE  r.item.count \in Nat
  <2>1. r.item.count = it.count - n
    BY <1>3 DEF Merged, Outcome, Parts
  <2>2. QED
    BY <1>1, <1>3, <2>1
<1>4. ASSUME NEW d \in BOOLEAN, r = Exchanged(c, it, at, d) \/ r = Passed(c, it, d)
      PROVE  r.item.count \in Nat
  BY <1>1, <1>4 DEF Exchanged, Passed, Outcome
<1>5. QED
  BY <1>2, <1>3, <1>4 DEF Moves

\* What is taken on from a level is taken to the next one.
LEMMA CarriesDown ==
  ASSUME NEW id, NEW S, S \subseteq Flow, NEW h \in Flow, NEW l \in 0..2,
         NEW it, Carries(id, it, h, l, S)
  PROVE  Carries(id, it, h, l + 1, S)
<1>1. PICK g \in S : it.key = encode(id, g) /\ PathBucket(g, l) = PathBucket(h, l)
  BY DEF Carries
<1>2. PathBucket(g, l + 1) = PathBucket(h, l + 1)
  BY <1>1, PathsMerge
<1>3. QED
  BY <1>1, <1>2 DEF Carries

\* What the array keeps and what was not stored of the item are faithful: so is the
\* array, which keeps too little if anything of f's was not stored.
LEMMA NotStored ==
  ASSUME NEW id, NEW c, Coded(id, c), NEW it, it.count \in Nat, NEW f \in Flow,
         NEW n \in Nat, NEW t \in Nat, NEW h, FaithfulWith(c, it, id, f, n, t, h)
  PROVE  Faithful(c, id, f, n, t)
<1> DEFINE k == Kept(c, id, f)
           i == InHand(id, it, f, h)
<1>1. k \in Nat
  BY KeptSome
<1>2. i \in Nat /\ (Mine(id, it, f, h) => i > 0)
  <2>1. Mine(id, it, f, h) => it.count > 0
    BY DEF Mine, PartCount
  <2>2. QED
    BY <2>1 DEF InHand
<1>3. k + i <= n
  BY DEF FaithfulWith
<1> HIDE DEF k, i
<1>4. k <= n /\ (k = n => k + i = n /\ ~(i > 0))
  BY ONLY <1>1, <1>2, <1>3, n \in Nat
<1>5. ASSUME k = n, n > 0
      PROVE  \E l \in Level : KeptShare(c, id, f)[l] > 0 /\ c[PathBucket(f, l)].time = t
  <2>1. k + i = n /\ ~Mine(id, it, f, h)
    BY <1>2, <1>4, <1>5
  <2>2. QED
    BY <1>5, <2>1 DEF FaithfulWith, k, i
<1>6. \A l \in Level : KeptShare(c, id, f)[l] > 0 => c[PathBucket(f, l)].time <= t
  BY DEF FaithfulWith
<1>7. QED
  BY <1>4, <1>5, <1>6 DEF Faithful, k

\* A whole insertion leaves every fragment on its flow's path, and the array faithful
\* to a flow that shares none.
LEMMA InsertFaithful ==
  ASSUME NEW id, NEW c, Coded(id, c), NEW S, S \subseteq Flow, Located(id, c, S),
         NEW h \in Flow, NEW it, Carries(id, it, h, 0, S),
         NEW f \in Flow, NEW n \in Nat, NEW t \in Nat
  PROVE  /\ Coded(id, insert(c, it, h)) /\ Located(id, insert(c, it, h), S)
         /\ ~Shared(id, f, S) /\ FaithfulWith(c, it, id, f, n, t, h)
              => Faithful(insert(c, it, h), id, f, n, t)
<1> DEFINE r0 == Down0(c, it, h)
           r1 == Down1(c, it, h)
           r2 == Down2(c, it, h)
           r3 == Down3(c, it, h)
           A == ~Shared(id, f, S) /\ FaithfulWith(c, it, id, f, n, t, h)
           Fine(r, l) == /\ Coded(id, r.cache) /\ Located(id, r.cache, S)
                         /\ r.item.count \in Nat
                         /\ ~r.done => Carries(id, r.item, h, l, S)
                         /\ A => FaithfulWith(r.cache, r.item, id, f, n, t, h)
<1>1. /\ r0 = d_left_level(c, it, PathBucket(h, 0))
      /\ r1 = IF r0.done THEN r0 ELSE d_left_level(r0.cache, r0.item, PathBucket(h, 1))
      /\ r2 = IF r1.done THEN r1 ELSE must_kick_level(r1.cache, r1.item, PathBucket(h, 2))
      /\ r3 = IF r2.done THEN r2 ELSE WinnerLevel(r2.cache, r2.item, PathBucket(h, 3))
  BY DEF Down1, Down2, Down3, Down0
<1>2. insert(c, it, h) = r3.cache
  BY InsertGoesDown
<1>3. ASSUME NEW l \in Level, NEW d, Coded(id, d), Located(id, d, S),
             NEW x, Carries(id, x, h, l, S), A => FaithfulWith(d, x, id, f, n, t, h),
             NEW s, Moves(d, x, PathBucket(h, l), s)
      PROVE  Fine(s, l)
  <2>1. PathBucket(h, l) \in Bucket /\ x \in Parts(id)
    BY <1>3, PathInArray DEF Carries
  <2>2. s.item.count \in Nat
    BY <1>3, <2>1, MoveCount
  <2>3. Coded(id, s.cache) /\ Located(id, s.cache, S) /\ (~s.done => Carries(id, s.item, h, l, S))
    BY <1>3, MoveLocated
  <2>4. A => FaithfulWith(s.cache, s.item, id, f, n, t, h)
    BY <1>3, MoveFaithful
  <2>5. QED
    BY <2>2, <2>3, <2>4
<1>4. ASSUME NEW l \in Level, NEW d, Coded(id, d), Located(id, d, S),
             NEW x, Carries(id, x, h, l, S), A => FaithfulWith(d, x, id, f, n, t, h)
      PROVE  /\ Fine(d_left_level(d, x, PathBucket(h, l)), l)
             /\ Fine(must_kick_level(d, x, PathBucket(h, l)), l)
             /\ Fine(WinnerLevel(d, x, PathBucket(h, l)), l)
  <2>1. x \in Parts(id) /\ x.count > 0
    BY <1>4 DEF Carries
  <2>2. /\ Moves(d, x, PathBucket(h, l), d_left_level(d, x, PathBucket(h, l)))
        /\ Moves(d, x, PathBucket(h, l), must_kick_level(d, x, PathBucket(h, l)))
        /\ Moves(d, x, PathBucket(h, l), WinnerLevel(d, x, PathBucket(h, l)))
    BY <2>1, LevelsMove
  <2> HIDE DEF Fine, A
  <2>3. QED
    BY <1>3, <1>4, <2>2
<1>5. ASSUME NEW l \in 0..2, NEW r, Fine(r, l), ~r.done
      PROVE  /\ Carries(id, r.item, h, l + 1, S) /\ l + 1 \in Level
             /\ Fine(d_left_level(r.cache, r.item, PathBucket(h, l + 1)), l + 1)
             /\ Fine(must_kick_level(r.cache, r.item, PathBucket(h, l + 1)), l + 1)
             /\ Fine(WinnerLevel(r.cache, r.item, PathBucket(h, l + 1)), l + 1)
  <2>1. Carries(id, r.item, h, l + 1, S)
    BY <1>5, CarriesDown
  <2>2. l + 1 \in Level
    BY DEF Level
  <2>3. Coded(id, r.cache) /\ Located(id, r.cache, S)
        /\ (A => FaithfulWith(r.cache, r.item, id, f, n, t, h))
    BY <1>5
  <2> HIDE DEF Fine, A
  <2>4. QED
    BY <1>4, <2>1, <2>2, <2>3
<1>6. ASSUME NEW l \in 0..2, NEW r, Fine(r, l), r.done PROVE Fine(r, l + 1)
  BY <1>6
<1>7. Fine(r0, 0)
  <2> HIDE DEF Fine, r0
  <2>1. A => FaithfulWith(c, it, id, f, n, t, h)
    OBVIOUS
  <2> HIDE DEF A
  <2>2. QED
    BY <1>1, <1>4, <2>1 DEF Level
<1> HIDE DEF r0, r1, r2, r3, Fine
<1>8. Fine(r1, 1)
  <2>1. 0 \in 0..2 /\ 0 + 1 = 1
    OBVIOUS
  <2>2. QED
    BY <1>1, <1>5, <1>6, <1>7, <2>1
<1>9. Fine(r2, 2)
  <2>1. 1 \in 0..2 /\ 1 + 1 = 2
    OBVIOUS
  <2>2. QED
    BY <1>1, <1>5, <1>6, <1>8, <2>1
<1>10. Fine(r3, 3)
  <2>1. 2 \in 0..2 /\ 2 + 1 = 3
    OBVIOUS
  <2>2. QED
    BY <1>1, <1>5, <1>6, <1>9, <2>1
<1>11. A => Faithful(r3.cache, id, f, n, t)
  <2>1. Coded(id, r3.cache) /\ r3.item.count \in Nat
    BY <1>10 DEF Fine
  <2>2. A => FaithfulWith(r3.cache, r3.item, id, f, n, t, h)
    BY <1>10 DEF Fine
  <2> HIDE DEF A
  <2>3. QED
    BY <2>1, <2>2, NotStored
<1>12. Coded(id, r3.cache) /\ Located(id, r3.cache, S)
  BY <1>10 DEF Fine
<1>13. QED
  BY <1>2, <1>11, <1>12
===============================================================================
