---------------------------- MODULE AHeapGPUProofs ----------------------------
(***************************************************************************)
(* The locking discipline of insert_bucket for every number of threads,    *)
(* trees, attempts and every trace: two threads never meet in a tree, and  *)
(* so what a thread decides on is still true when it stores.               *)
(***************************************************************************)
EXTENDS AHeapGPU, TLAPS

USE GPUFlowAssumption, GPUTraceAssumption, GPUSizeAssumption, GPUBoundAssumption

\* Where a flow hashes to, and the eighth of it that is its tree.
LEMMA PositionBounds ==
  ASSUME NEW f \in Flow
  PROVE  /\ Hash[f] % FIRST_LAYER_BUCKET \in 0..(FIRST_LAYER_BUCKET - 1)
         /\ mutex_pos(f) \in Tree
<1> DEFINE p == Hash[f] % FIRST_LAYER_BUCKET
<1>1. p \in 0..(FIRST_LAYER_BUCKET - 1)
  OBVIOUS
<1>2. PICK n \in Nat : FIRST_LAYER_BUCKET = 8 * n /\ n = FIRST_LAYER_BUCKET \div 8
  OBVIOUS
<1> HIDE DEF p
<1>3. p \div 8 \in 0..(n - 1)
  BY <1>1, <1>2
<1>4. QED
  BY <1>1, <1>2, <1>3 DEF mutex_pos, Tree, p

\* The buckets of one layer keep apart from those of another, and two flows
\* that share a bucket share its tree.
LEMMA SharedBucketSharedTree ==
  ASSUME NEW f \in Flow, NEW g \in Flow, NEW l \in Layer, NEW j \in Layer,
         Pos(f, l) = Pos(g, j)
  PROVE  mutex_pos(f) = mutex_pos(g)
<1> DEFINE p == Hash[f] % FIRST_LAYER_BUCKET
           q == Hash[g] % FIRST_LAYER_BUCKET
<1>1. p \in 0..(FIRST_LAYER_BUCKET - 1) /\ q \in 0..(FIRST_LAYER_BUCKET - 1)
  BY PositionBounds
<1>2. PICK n \in Nat : FIRST_LAYER_BUCKET = 8 * n /\ FIRST_LAYER_BUCKET \div 2 = 4 * n
  OBVIOUS
<1>3. /\ Pos(f, 0) = p /\ Pos(f, 1) = 8 * n + p \div 2 /\ Pos(f, 2) = 12 * n + p \div 4
      /\ Pos(g, 0) = q /\ Pos(g, 1) = 8 * n + q \div 2 /\ Pos(g, 2) = 12 * n + q \div 4
      /\ mutex_pos(f) = p \div 8 /\ mutex_pos(g) = q \div 8
  BY <1>1, <1>2 DEF Pos, layer_start_pos, hash_pos, mutex_pos
<1>4. l \in {0, 1, 2} /\ j \in {0, 1, 2}
  BY DEF Layer, L1, L2
<1> HIDE DEF p, q
<1>5. l = j
  BY <1>1, <1>2, <1>3, <1>4
<1>6. p = q \/ p \div 2 = q \div 2 \/ p \div 4 = q \div 4
  BY <1>1, <1>2, <1>3, <1>4, <1>5
<1>7. p \div 8 = q \div 8
  BY <1>1, <1>6
<1>8. QED
  BY <1>3, <1>7

\* The bucket a thread is at is one of the array.
LEMMA PosInArray ==
  ASSUME NEW f \in Flow, NEW l \in Layer
  PROVE  Pos(f, l) \in Bucket
<1> DEFINE p == Hash[f] % FIRST_LAYER_BUCKET
<1>1. p \in 0..(FIRST_LAYER_BUCKET - 1)
  BY PositionBounds
<1>2. PICK n \in Nat : /\ FIRST_LAYER_BUCKET = 8 * n /\ FIRST_LAYER_BUCKET \div 2 = 4 * n
                       /\ FIRST_LAYER_BUCKET \div 8 = n
  OBVIOUS
<1>3. l \in {0, 1, 2}
  BY DEF Layer, L1, L2
<1>4. Pos(f, l) = IF l = 0 THEN p ELSE IF l = 1 THEN 8 * n + p \div 2 ELSE 12 * n + p \div 4
  BY <1>2, <1>3 DEF Pos, layer_start_pos, hash_pos
<1> HIDE DEF p
<1>5. p \div 2 \in 0..(4 * n) /\ p \div 4 \in 0..(2 * n)
  BY <1>1, <1>2
<1>6. n > 0
  BY <1>2
<1>7. QED
  BY <1>1, <1>2, <1>3, <1>4, <1>5, <1>6 DEF Bucket

------------------------------------------------------------------------------
(* The invariant *)

\* A thread about to store knows what its bucket holds.
Current == \A t \in Thread : pc[t] = "store" => seen[t] = bucket[at(t)]

GPUInv == GPUTypeOK /\ Exclusive /\ Current

\* Before any thread runs the invariant holds.
LEMMA GPUInitInv == Init => GPUInv
<1> SUFFICES ASSUME Init PROVE GPUInv
  OBVIOUS
<1>1. GPUTypeOK
  BY DEF Init, GPUTypeOK, Cell, Layer, L1, L2
<1>2. Exclusive
  BY DEF Init, Exclusive, Inside
<1>3. Current
  BY DEF Init, Current
<1>4. QED
  BY <1>1, <1>2, <1>3 DEF GPUInv

\* Every step of insert_bucket keeps the variables in their types: the positions
\* a thread computes are in the array, and it never spins more than Retries times.
LEMMA TypeStep ==
  ASSUME GPUInv, NEW t \in Thread, insert_bucket(t)
  PROVE  GPUTypeOK'
<1>1. GPUTypeOK /\ keys[t] \in Flow /\ layer[t] \in Layer /\ t \in Nat
  BY DEF GPUInv, GPUTypeOK, Thread
<1>2. at(t) \in Bucket /\ mutex_pos(keys[t]) \in Tree
  BY <1>1, PosInArray, PositionBounds DEF at
<1>3. Fresh(t) \in Cell
  BY <1>1 DEF Fresh, Cell
<1>4. CASE Acquire(t)
  BY <1>1, <1>2, <1>4 DEF Acquire, GPUTypeOK, Goto
<1>5. CASE Spin(t)
  BY <1>1, <1>5 DEF Spin, GPUTypeOK, Goto
<1>6. CASE GiveUp(t)
  BY <1>1, <1>6 DEF GiveUp, GPUTypeOK, Goto, Counted
<1>7. CASE Look(t)
  BY <1>1, <1>2, <1>7 DEF Look, GPUTypeOK, Goto
<1>8. CASE Place(t)
  BY <1>1, <1>2, <1>3, <1>8 DEF Place, GPUTypeOK, Goto, Counted
<1>9. CASE Merge(t)
  <2>1. [key |-> bucket[at(t)].key, freq |-> bucket[at(t)].freq + 1,
         time |-> NEW_(seen[t].time, t)] \in Cell
    BY <1>1, <1>2 DEF GPUTypeOK, Cell, NEW_
  <2>2. bucket' \in [Bucket -> Cell]
    BY <1>1, <1>2, <1>9, <2>1 DEF Merge, GPUTypeOK
  <2>3. QED
    BY <1>1, <1>9, <2>2 DEF Merge, GPUTypeOK, Goto, Counted
<1>10. CASE Replace(t)
  BY <1>1, <1>2, <1>3, <1>10 DEF Replace, GPUTypeOK, Goto, Counted
<1>11. CASE Descend(t)
  BY <1>1, <1>11 DEF Descend, GPUTypeOK, Goto, Layer, L1, L2
<1>12. CASE Contest(t)
  BY <1>1, <1>2, <1>3, <1>12 DEF Contest, GPUTypeOK, Goto, Counted
<1>13. CASE Release(t)
  BY <1>1, <1>2, <1>13 DEF Release, GPUTypeOK, Goto
<1>14. QED
  BY <1>4, <1>5, <1>6, <1>7, <1>8, <1>9, <1>10, <1>11, <1>12, <1>13 DEF insert_bucket

\* Only Acquire enters a tree and only Release leaves one.
LEMMA ExclusiveStep ==
  ASSUME GPUInv, NEW t \in Thread, insert_bucket(t)
  PROVE  Exclusive'
<1> DEFINE m(u) == mutex_pos(keys[u])
<1>1. /\ pc \in [Thread -> {"spin", "look", "store", "unlock", "done"}]
      /\ mutex \in [Tree -> {0, 1}] /\ keys' = keys /\ m(t) \in Tree
  <2>1. keys[t] \in Flow
    BY DEF GPUInv, GPUTypeOK
  <2>2. QED
    BY <2>1, PositionBounds DEF GPUInv, GPUTypeOK, insert_bucket, Acquire, Spin, GiveUp, Look, Place,
       Merge, Replace, Descend, Contest, Release
<1>2. CASE Acquire(t)
  <2>1. /\ mutex[m(t)] = 0 /\ mutex' = [mutex EXCEPT ![m(t)] = 1]
        /\ pc' = [pc EXCEPT ![t] = "look"] /\ pc[t] = "spin"
    BY <1>2 DEF Acquire, Goto
  <2>2. \A u \in Thread : Inside(u) => m(u) # m(t)
    BY <1>1, <2>1 DEF GPUInv, Exclusive
  <2>3. \A u \in Thread : Inside(u)' <=> Inside(u) \/ u = t
    BY <1>1, <2>1 DEF Inside
  <2>4. QED
    BY <1>1, <2>1, <2>2, <2>3 DEF GPUInv, Exclusive
<1>3. CASE Release(t)
  <2>1. /\ mutex' = [mutex EXCEPT ![m(t)] = 0]
        /\ pc' = [pc EXCEPT ![t] = "done"] /\ Inside(t)
    BY <1>3 DEF Release, Goto, Inside
  <2>2. \A u \in Thread : Inside(u)' <=> Inside(u) /\ u # t
    BY <1>1, <2>1 DEF Inside
  <2>3. \A u \in Thread : Inside(u) /\ u # t => m(u) # m(t)
    BY <2>1 DEF GPUInv, Exclusive
  <2>4. QED
    BY <1>1, <2>1, <2>2, <2>3 DEF GPUInv, Exclusive
<1>4. CASE Spin(t) \/ GiveUp(t)
  <2>1. mutex' = mutex /\ \A u \in Thread : Inside(u)' <=> Inside(u)
    BY <1>1, <1>4 DEF Spin, GiveUp, Goto, Inside
  <2>2. QED
    BY <1>1, <2>1 DEF GPUInv, Exclusive
<1>5. CASE Look(t) \/ Place(t) \/ Merge(t) \/ Replace(t) \/ Descend(t) \/ Contest(t)
  <2>1. mutex' = mutex /\ \A u \in Thread : Inside(u)' <=> Inside(u)
    BY <1>1, <1>5 DEF Look, Place, Merge, Replace, Descend, Contest, Goto, Inside
  <2>2. QED
    BY <1>1, <2>1 DEF GPUInv, Exclusive
<1>6. QED
  BY <1>2, <1>3, <1>4, <1>5 DEF insert_bucket

\* What another thread is about to act on is in another tree.
LEMMA CurrentStep ==
  ASSUME GPUInv, NEW t \in Thread, insert_bucket(t)
  PROVE  Current'
<1> USE DEF GPUInv
<1>1. /\ pc \in [Thread -> {"spin", "look", "store", "unlock", "done"}]
      /\ seen \in [Thread -> Cell] /\ layer \in [Thread -> Layer]
      /\ bucket \in [Bucket -> Cell] /\ keys \in [Thread -> Flow] /\ keys' = keys
  BY DEF GPUTypeOK, insert_bucket, Acquire, Spin, GiveUp, Look, Place, Merge, Replace, Descend,
     Contest, Release
<1>2. CASE Look(t)
  BY <1>1, <1>2 DEF Look, Goto, Current, at
<1>3. CASE Acquire(t) \/ Spin(t) \/ GiveUp(t) \/ Release(t)
  BY <1>1, <1>3 DEF Acquire, Spin, GiveUp, Release, Goto, Current, at
<1>4. CASE Descend(t)
  BY <1>1, <1>4 DEF Descend, Goto, Current, at
<1>5. CASE Place(t) \/ Merge(t) \/ Replace(t) \/ Contest(t)
  <2>1. /\ pc[t] = "store" /\ pc' = [pc EXCEPT ![t] = "unlock"]
        /\ layer' = layer /\ seen' = seen
        /\ \A b \in Bucket : b # at(t) => bucket'[b] = bucket[b]
    BY <1>1, <1>5 DEF Place, Merge, Replace, Contest, Goto
  <2>2. ASSUME NEW u \in Thread, pc'[u] = "store"
        PROVE  seen'[u] = bucket'[at(u)]
    <3>1. u # t /\ pc[u] = "store"
      BY <1>1, <2>1, <2>2
    <3>2. mutex_pos(keys[u]) # mutex_pos(keys[t])
      BY <2>1, <3>1 DEF Exclusive, Inside
    <3>3. at(u) # at(t)
      BY <1>1, <3>2, SharedBucketSharedTree DEF at
    <3>4. at(u) \in Bucket
      BY <1>1, PosInArray DEF at
    <3>5. seen[u] = bucket[at(u)]
      BY <3>1 DEF Current
    <3>6. QED
      BY <2>1, <3>3, <3>4, <3>5
  <2>3. QED
    BY <1>1, <2>1, <2>2 DEF Current, at
<1>6. QED
  BY <1>2, <1>3, <1>4, <1>5 DEF insert_bucket

------------------------------------------------------------------------------
(* The theorems *)

\* The strengthened invariant: types, mutual exclusion, and fresh knowledge.
THEOREM GPUInvariant == Spec => []GPUInv
<1>1. Init => GPUInv
  BY GPUInitInv
<1>2. GPUInv /\ [Next]_vars => GPUInv'
  <2> SUFFICES ASSUME GPUInv, [Next]_vars PROVE GPUInv'
    OBVIOUS
  <2>1. ASSUME NEW t \in Thread, insert_bucket(t) PROVE GPUInv'
    BY <2>1, TypeStep, ExclusiveStep, CurrentStep DEF GPUInv
  <2>2. CASE UNCHANGED vars
    BY <2>2 DEF vars, GPUInv, GPUTypeOK, Exclusive, Inside, Current, at
  <2>3. QED
    BY <2>1, <2>2 DEF Next
<1>3. QED
  BY <1>1, <1>2, PTL DEF Spec

\* Every word of the array, the locks and a thread's locals stays of its type,
\* and no thread makes more than Retries attempts (AHeap.cu:166-168).
THEOREM GPUTypeCorrect == Spec => []GPUTypeOK
BY GPUInvariant, PTL DEF GPUInv

\* Two threads never meet in a tree, and a lock is taken exactly while a thread
\* is inside (AHeap.cu:159-253).
THEOREM GPUExclusive == Spec => []Exclusive
BY GPUInvariant, PTL DEF GPUInv

\* A d-left resident with more than one packet and not old is never overwritten,
\* whatever the threads do (AHeap.cu:186-202).
THEOREM GPUHeavyOrFreshStays == Spec => HeavyOrFreshStays
<1> DEFINE Stays == \A b \in Bucket :
       bucket[b].freq > 0 /\ bucket'[b].key # bucket[b].key
       => bucket[b].freq = 1 \/ bucket[b].time + Age < bucket'[b].time
<1>1. GPUInv /\ [Next]_vars => Stays
  <2> SUFFICES ASSUME GPUInv, [Next]_vars, NEW b \in Bucket,
                      bucket[b].freq > 0, bucket'[b].key # bucket[b].key
               PROVE  bucket[b].freq = 1 \/ bucket[b].time + Age < bucket'[b].time
    OBVIOUS
  <2>1. ASSUME NEW t \in Thread, insert_bucket(t)
        PROVE  bucket[b].freq = 1 \/ bucket[b].time + Age < bucket'[b].time
    <3>1. /\ bucket \in [Bucket -> Cell] /\ at(t) \in Bucket
      BY PosInArray DEF GPUInv, GPUTypeOK, at
    <3>2. bucket[b].freq \in Nat /\ bucket[b].time \in Nat
      BY <3>1 DEF Cell
    <3>3. CASE Acquire(t) \/ Spin(t) \/ GiveUp(t) \/ Look(t) \/ Descend(t) \/ Release(t)
      BY <3>3 DEF Acquire, Spin, GiveUp, Look, Descend, Release
    <3>4. CASE Place(t)
      <4>1. at(t) = b
        BY <3>1, <3>4 DEF Place
      <4>2. bucket[b].freq = 0
        BY <3>4, <4>1 DEF Place, GPUInv, Current
      <4>3. QED
        BY <4>2
    <3>5. CASE Merge(t)
      BY <3>1, <3>5 DEF Merge
    <3>6. CASE Replace(t)
      <4>1. at(t) = b /\ bucket'[b] = Fresh(t)
        BY <3>1, <3>6 DEF Replace
      <4>2. seen[t] = bucket[b]
        BY <3>6, <4>1 DEF Replace, GPUInv, Current
      <4>3. QED
        BY <3>6, <4>1, <4>2 DEF Replace, Replaceable, Fresh
    <3>7. CASE Contest(t)
      <4>1. at(t) = b /\ 1 > seen[t].freq
        BY <3>1, <3>7 DEF Contest
      <4>2. seen[t] = bucket[b]
        BY <3>7, <4>1 DEF Contest, GPUInv, Current
      <4>3. QED
        BY <3>2, <4>1, <4>2
    <3>8. QED
      BY <2>1, <3>3, <3>4, <3>5, <3>6, <3>7 DEF insert_bucket
  <2>2. CASE UNCHANGED vars
    BY <2>2 DEF vars
  <2>3. QED
    BY <2>1, <2>2 DEF Next
<1>2. QED
  BY <1>1, GPUInvariant, PTL DEF Spec, HeavyOrFreshStays
------------------------------------------------------------------------------
(* Stamps and the winner tree *)

\* A store goes to one bucket, and the thread knows what was in it.
LEMMA StoreFacts ==
  ASSUME GPUInv, NEW t \in Thread, insert_bucket(t)
  PROVE  /\ bucket \in [Bucket -> Cell] /\ at(t) \in Bucket
         /\ keys[t] \in Flow /\ layer[t] \in Layer /\ t \in Nat
         /\ pc[t] = "store" => seen[t] = bucket[at(t)]
         /\ \A b \in Bucket : bucket[b].freq \in Nat /\ bucket[b].time \in Nat
BY PosInArray DEF GPUInv, GPUTypeOK, Current, at, Thread, Cell

\* A bucket that was never filled has no stamp either.
Blank == \A b \in Bucket : bucket[b].freq = 0 => bucket[b].time = 0

\* Only Contest could fail to fill, and it meets a resident: the packet, which
\* weighs one, never wins, and no bucket is emptied again.
LEMMA ContestChangesNothing ==
  ASSUME GPUInv, NEW t \in Thread, Contest(t)
  PROVE  bucket' = bucket
<1>1. seen[t].freq \in Nat /\ seen[t].freq # 0
  BY DEF Contest, GPUInv, GPUTypeOK, Cell
<1>2. ~(1 > seen[t].freq)
  BY <1>1
<1>3. QED
  BY <1>2 DEF Contest

\* A step keeps unfilled buckets blank and lets no stamp go back.
LEMMA StampStep ==
  ASSUME GPUInv, Blank, NEW t \in Thread, insert_bucket(t), NEW b \in Bucket
  PROVE  /\ bucket'[b].time >= bucket[b].time
         /\ bucket'[b].freq = 0 => bucket'[b].time = 0
<1>1. /\ bucket \in [Bucket -> Cell] /\ at(t) \in Bucket /\ t \in Nat
      /\ pc[t] = "store" => seen[t] = bucket[at(t)]
      /\ bucket[b].freq \in Nat /\ bucket[b].time \in Nat
      /\ bucket[b].freq = 0 => bucket[b].time = 0
  BY StoreFacts DEF Blank
<1>2. CASE Acquire(t) \/ Spin(t) \/ GiveUp(t) \/ Look(t) \/ Descend(t) \/ Release(t)
  BY <1>1, <1>2 DEF Acquire, Spin, GiveUp, Look, Descend, Release
<1>3. CASE Contest(t)
  BY <1>1, <1>3, ContestChangesNothing
<1>4. CASE b # at(t) /\ (Place(t) \/ Merge(t) \/ Replace(t))
  BY <1>1, <1>4 DEF Place, Merge, Replace
<1>5. CASE b = at(t) /\ Place(t)
  <2>1. bucket'[b] = Fresh(t) /\ bucket[b].time = 0
    BY <1>1, <1>5 DEF Place
  <2>2. QED
    BY <1>1, <2>1 DEF Fresh
<1>6. CASE b = at(t) /\ Merge(t)
  <2>1. /\ bucket'[b].freq = bucket[b].freq + 1
        /\ bucket'[b].time = NEW_(bucket[b].time, t)
    BY <1>1, <1>6 DEF Merge
  <2>2. QED
    BY <1>1, <2>1 DEF NEW_
<1>7. CASE b = at(t) /\ Replace(t)
  <2>1. bucket'[b] = Fresh(t) /\ t >= bucket[b].time
    BY <1>1, <1>7 DEF Replace, Replaceable
  <2>2. QED
    BY <1>1, <2>1 DEF Fresh
<1>8. QED
  BY <1>2, <1>3, <1>4, <1>5, <1>6, <1>7 DEF insert_bucket

\* Threads run in any order, yet no stamp ever goes back: a thread that stores
\* compares with what the bucket holds (AHeap.cu:180-201).
THEOREM GPUStampsMonotone == Spec => StampsMonotone
<1> DEFINE Forward == \A b \in Bucket : bucket'[b].time >= bucket[b].time
<1>1. Init => Blank
  BY DEF Init, Blank
<1>2. GPUInv /\ Blank /\ [Next]_vars => Blank' /\ Forward
  <2> SUFFICES ASSUME GPUInv, Blank, [Next]_vars PROVE Blank' /\ Forward
    OBVIOUS
  <2>1. ASSUME NEW t \in Thread, insert_bucket(t) PROVE Blank' /\ Forward
    BY <2>1, StampStep DEF Blank
  <2>2. CASE UNCHANGED vars
    <3>1. \A b \in Bucket : bucket[b].time \in Nat
      BY DEF GPUInv, GPUTypeOK, Cell
    <3>2. QED
      BY <2>2, <3>1 DEF vars, Blank
  <2>3. QED
    BY <2>1, <2>2 DEF Next
<1>3. QED
  BY <1>1, <1>2, GPUInvariant, PTL DEF Spec, StampsMonotone

\* The d-left layers end where the winner tree begins.
LEMMA DleftBelowWinnerTree ==
  ASSUME NEW f \in Flow, NEW l \in Layer, l < L1
  PROVE  Pos(f, l) < layer_start_pos(L1)
<1> DEFINE p == Hash[f] % FIRST_LAYER_BUCKET
<1>1. p \in 0..(FIRST_LAYER_BUCKET - 1)
  BY PositionBounds
<1>2. PICK n \in Nat : FIRST_LAYER_BUCKET = 8 * n /\ FIRST_LAYER_BUCKET \div 2 = 4 * n
  OBVIOUS
<1>3. l \in {0, 1}
  BY DEF Layer, L1, L2
<1>4. Pos(f, l) = IF l = 0 THEN p ELSE 8 * n + p \div 2
  BY <1>2, <1>3 DEF Pos, layer_start_pos, hash_pos
<1>5. layer_start_pos(L1) = 12 * n
  BY <1>2 DEF layer_start_pos, L1
<1> HIDE DEF p
<1>6. p \div 2 < 4 * n
  BY <1>1, <1>2
<1>7. QED
  BY <1>1, <1>2, <1>3, <1>4, <1>5, <1>6

\* The winner tree never changes hands, for every trace and every interleaving
\* (AHeap.cu:209-245).
THEOREM GPUFirstComeKept == Spec => FirstComeKept
<1> DEFINE Kept == \A b \in Bucket :
       b >= layer_start_pos(L1) /\ bucket[b].freq > 0 => bucket'[b].key = bucket[b].key
<1>1. GPUInv /\ [Next]_vars => Kept
  <2> SUFFICES ASSUME GPUInv, [Next]_vars, NEW b \in Bucket,
                      b >= layer_start_pos(L1), bucket[b].freq > 0
               PROVE  bucket'[b].key = bucket[b].key
    OBVIOUS
  <2>1. ASSUME NEW t \in Thread, insert_bucket(t)
        PROVE  bucket'[b].key = bucket[b].key
    <3>1. /\ bucket \in [Bucket -> Cell] /\ at(t) \in Bucket
          /\ keys[t] \in Flow /\ layer[t] \in Layer
          /\ pc[t] = "store" => seen[t] = bucket[at(t)]
      BY <2>1, StoreFacts
    <3>2. CASE Acquire(t) \/ Spin(t) \/ GiveUp(t) \/ Look(t) \/ Descend(t) \/ Release(t)
      BY <3>2 DEF Acquire, Spin, GiveUp, Look, Descend, Release
    <3>3. CASE Place(t)
      BY <3>1, <3>3 DEF Place
    <3>4. CASE Merge(t)
      BY <3>1, <3>4 DEF Merge
    <3>5. CASE Replace(t)
      <4>1. at(t) < layer_start_pos(L1)
        BY <3>1, <3>5, DleftBelowWinnerTree DEF Replace, at
      <4>2. at(t) # b
        <5>1. b \in Int /\ at(t) \in Int /\ layer_start_pos(L1) \in Int
          BY <3>1 DEF Bucket, layer_start_pos, L1
        <5>2. QED
          BY <4>1, <5>1
      <4>3. QED
        BY <3>1, <3>5, <4>2 DEF Replace
    <3>6. CASE Contest(t)
      BY <3>6, ContestChangesNothing
    <3>7. QED
      BY <2>1, <3>2, <3>3, <3>4, <3>5, <3>6 DEF insert_bucket
  <2>2. CASE UNCHANGED vars
    BY <2>2 DEF vars
  <2>3. QED
    BY <2>1, <2>2 DEF Next
<1>2. QED
  BY <1>1, GPUInvariant, PTL DEF Spec, FirstComeKept
------------------------------------------------------------------------------
(* The counter the array implements *)

\* The layers query() sums over, the last of which insert_bucket never gets to.
AllLayer == 0..(L1 + L2 - 1)

\* A bucket belongs to one layer, and all four are in the array.
LEMMA LayersApart ==
  ASSUME NEW f \in Flow, NEW g \in Flow, NEW l \in AllLayer, NEW j \in AllLayer
  PROVE  Pos(f, l) \in Bucket /\ (Pos(f, l) = Pos(g, j) => l = j)
<1> DEFINE p == Hash[f] % FIRST_LAYER_BUCKET
           q == Hash[g] % FIRST_LAYER_BUCKET
<1>1. p \in 0..(FIRST_LAYER_BUCKET - 1) /\ q \in 0..(FIRST_LAYER_BUCKET - 1)
  BY PositionBounds
<1>2. PICK n \in Nat : /\ FIRST_LAYER_BUCKET = 8 * n /\ FIRST_LAYER_BUCKET \div 2 = 4 * n
                       /\ FIRST_LAYER_BUCKET \div 4 = 2 * n /\ FIRST_LAYER_BUCKET \div 8 = n
  OBVIOUS
<1>3. l \in {0, 1, 2, 3} /\ j \in {0, 1, 2, 3}
  BY DEF AllLayer, L1, L2
<1>4. /\ Pos(f, 0) = p /\ Pos(f, 1) = 8 * n + p \div 2
      /\ Pos(f, 2) = 12 * n + p \div 4 /\ Pos(f, 3) = 14 * n + p \div 8
      /\ Pos(g, 0) = q /\ Pos(g, 1) = 8 * n + q \div 2
      /\ Pos(g, 2) = 12 * n + q \div 4 /\ Pos(g, 3) = 14 * n + q \div 8
  BY <1>2 DEF Pos, layer_start_pos, hash_pos
<1>5. Bucket = 0..(15 * n - 1)
  BY <1>2 DEF Bucket
<1> HIDE DEF p, q
<1>6. /\ p \div 2 \in 0..(4 * n - 1) /\ p \div 4 \in 0..(2 * n - 1) /\ p \div 8 \in 0..(n - 1)
      /\ q \div 2 \in 0..(4 * n - 1) /\ q \div 4 \in 0..(2 * n - 1) /\ q \div 8 \in 0..(n - 1)
  BY <1>1, <1>2
<1>7. /\ p \in 0..(8 * n - 1) /\ q \in 0..(8 * n - 1)
  BY <1>1, <1>2
<1>8. QED
  BY <1>3, <1>4, <1>5, <1>6, <1>7

\* What a flow has in a layer, and in all of them, is a number of packets.
LEMMA QueryType ==
  ASSUME bucket \in [Bucket -> Cell], NEW f \in Flow
  PROVE  query(f) \in Nat /\ \A l \in AllLayer : Share(f, l) \in Nat
<1>1. ASSUME NEW l \in AllLayer PROVE Share(f, l) \in Nat
  BY LayersApart DEF Share, Cell
<1>2. 0 \in AllLayer /\ 1 \in AllLayer /\ 2 \in AllLayer /\ 3 \in AllLayer
  BY DEF AllLayer, L1, L2
<1>3. Share(f, 0) \in Nat /\ Share(f, 1) \in Nat /\ Share(f, 2) \in Nat /\ Share(f, 3) \in Nat
  BY <1>1, <1>2
<1>4. query(f) \in Nat
  BY <1>3 DEF query
<1>5. QED
  BY <1>1, <1>4

\* A store into one bucket changes what a flow has in that layer and no other.
LEMMA StoreMovesOneShare ==
  ASSUME bucket \in [Bucket -> Cell], bucket' \in [Bucket -> Cell],
         NEW f \in Flow, NEW l \in Layer, NEW g \in Flow,
         \A b \in Bucket : b # Pos(f, l) => bucket'[b] = bucket[b]
  PROVE  query(g)' = query(g) + Share(g, l)' - Share(g, l)
<1>1. \A j \in AllLayer : Share(g, j) \in Nat /\ Share(g, j)' \in Nat
  <2>1. ASSUME NEW j \in AllLayer PROVE Share(g, j)' \in Nat
    BY LayersApart DEF Share, Cell
  <2>2. QED
    BY <2>1, QueryType
<1>2. l \in AllLayer /\ l \in {0, 1, 2}
  BY DEF Layer, AllLayer, L1, L2
<1>3. ASSUME NEW j \in AllLayer, j # l PROVE Share(g, j)' = Share(g, j)
  <2>1. Pos(g, j) \in Bucket /\ Pos(g, j) # Pos(f, l)
    BY <1>2, <1>3, LayersApart
  <2>2. QED
    BY <2>1 DEF Share
<1>4. 0 \in AllLayer /\ 1 \in AllLayer /\ 2 \in AllLayer /\ 3 \in AllLayer
  BY DEF AllLayer, L1, L2
<1>5. /\ query(g) = Share(g, 0) + Share(g, 1) + Share(g, 2) + Share(g, 3)
      /\ query(g)' = Share(g, 0)' + Share(g, 1)' + Share(g, 2)' + Share(g, 3)'
  BY DEF query
<1> HIDE DEF Share, query
<1>6. /\ Share(g, 0) \in Nat /\ Share(g, 1) \in Nat /\ Share(g, 2) \in Nat /\ Share(g, 3) \in Nat
      /\ Share(g, 0)' \in Nat /\ Share(g, 1)' \in Nat /\ Share(g, 2)' \in Nat /\ Share(g, 3)' \in Nat
  BY <1>1, <1>4
<1>7. /\ l # 0 => Share(g, 0)' = Share(g, 0)
      /\ l # 1 => Share(g, 1)' = Share(g, 1)
      /\ l # 2 => Share(g, 2)' = Share(g, 2)
      /\ Share(g, 3)' = Share(g, 3)
  BY <1>2, <1>3, <1>4
<1>8. CASE l = 0
  BY <1>5, <1>6, <1>7, <1>8
<1>9. CASE l = 1
  BY <1>5, <1>6, <1>7, <1>9
<1>10. CASE l = 2
  BY <1>5, <1>6, <1>7, <1>10
<1>11. QED
  BY <1>2, <1>8, <1>9, <1>10

\* What it takes to be a step of the counter: a packet of f is counted, and one
\* flow v at most ends with less than it would have.
LEMMA OneLoserObserved ==
  ASSUME bucket \in [Bucket -> Cell], bucket' \in [Bucket -> Cell],
         NEW f \in Flow, truth' = [truth EXCEPT ![f] = @ + 1],
         NEW v \in Flow,
         query(v)' <= query(v) + (IF v = f THEN 1 ELSE 0),
         \A g \in Flow \ {v} : query(g)' = query(g) + (IF g = f THEN 1 ELSE 0)
  PROVE  Counter!Observe(f)
<1> DEFINE est == [g \in Flow |-> query(g)]
           counted == [est EXCEPT ![f] = @ + 1]
<1>1. \A g \in Flow : query(g) \in Nat /\ query(g)' \in Nat
  <2>1. ASSUME NEW g \in Flow PROVE query(g)' \in Nat
    <3>1. /\ 0 \in AllLayer /\ 1 \in AllLayer /\ 2 \in AllLayer /\ 3 \in AllLayer
      BY DEF AllLayer, L1, L2
    <3>2. \A l \in AllLayer : Share(g, l)' \in Nat
      BY LayersApart DEF Share, Cell
    <3>3. /\ Share(g, 0)' \in Nat /\ Share(g, 1)' \in Nat
          /\ Share(g, 2)' \in Nat /\ Share(g, 3)' \in Nat
      BY <3>1, <3>2
    <3>4. QED
      BY <3>3 DEF query
  <2>2. QED
    BY <2>1, QueryType
<1> HIDE DEF query
<1>2. /\ counted \in [Flow -> Nat]
      /\ \A g \in Flow : counted[g] = query(g) + (IF g = f THEN 1 ELSE 0)
  BY <1>1
<1>3. query(v)' \in 0..counted[v]
  BY <1>1, <1>2
<1>4. [g \in Flow |-> query(g)'] = [counted EXCEPT ![v] = query(v)']
  <2>1. ASSUME NEW g \in Flow PROVE query(g)' = [counted EXCEPT ![v] = query(v)'][g]
    <3> HIDE DEF est, counted
    <3>1. CASE g = v
      BY <1>2, <3>1
    <3>2. CASE g # v
      BY <1>2, <3>2
    <3>3. QED
      BY <3>1, <3>2
  <2>2. QED
    BY <1>2, <2>1
<1>5. QED
  BY <1>3, <1>4 DEF Counter!Observe, Counter!Counted

\* A packet that stores nothing is lost by its own flow.
LEMMA NothingStoredObserved ==
  ASSUME bucket \in [Bucket -> Cell], bucket' = bucket,
         NEW f \in Flow, truth' = [truth EXCEPT ![f] = @ + 1]
  PROVE  Counter!Observe(f)
<1>1. \A g \in Flow : query(g)' = query(g) /\ query(g) \in Nat
  <2>1. \A g \in Flow : query(g)' = query(g)
    BY DEF query, Share
  <2>2. QED
    BY <2>1, QueryType
<1>2. /\ query(f)' <= query(f) + (IF f = f THEN 1 ELSE 0)
      /\ \A g \in Flow \ {f} : query(g)' = query(g) + (IF g = f THEN 1 ELSE 0)
  BY <1>1
<1>3. QED
  BY <1>2, OneLoserObserved

\* A packet added to a bucket of its flow, or put into one no flow's count is
\* in, is gained by its flow; one put over another flow's is lost to that one.
LEMMA StoreObserved ==
  ASSUME bucket \in [Bucket -> Cell], bucket' \in [Bucket -> Cell],
         NEW f \in Flow, truth' = [truth EXCEPT ![f] = @ + 1],
         NEW l \in Layer,
         \A b \in Bucket : b # Pos(f, l) => bucket'[b] = bucket[b],
         bucket'[Pos(f, l)].key = f,
         bucket'[Pos(f, l)].freq
           = (IF bucket[Pos(f, l)].key = f THEN bucket[Pos(f, l)].freq ELSE 0) + 1
  PROVE  Counter!Observe(f)
<1> DEFINE b0 == Pos(f, l)
           r == bucket[b0].key
<1> PICK v \in Flow : v = IF r \in Flow THEN r ELSE f
  OBVIOUS
<1>1. l \in AllLayer /\ b0 \in Bucket
  BY PosInArray DEF Layer, AllLayer, L1, L2
<1>2. \A g \in Flow : /\ query(g)' = query(g) + Share(g, l)' - Share(g, l)
                      /\ query(g) \in Nat /\ Share(g, l) \in Nat
  BY <1>1, StoreMovesOneShare, QueryType
<1>3. Share(f, l)' = Share(f, l) + 1
  BY DEF Share
<1>4. ASSUME NEW g \in Flow, g # f, g # v PROVE Share(g, l)' = Share(g, l)
  <2>1. Pos(g, l) \in Bucket
    BY PosInArray
  <2>2. CASE Pos(g, l) = b0
    <3>1. bucket[b0].key # g /\ bucket'[b0].key # g
      BY <1>4
    <3>2. QED
      BY <2>2, <3>1 DEF Share
  <2>3. CASE Pos(g, l) # b0
    BY <2>1, <2>3 DEF Share
  <2>4. QED
    BY <2>2, <2>3
<1>5. ASSUME v # f PROVE Share(v, l)' <= Share(v, l)
  <2>1. Pos(v, l) \in Bucket /\ Share(v, l) \in Nat
    BY <1>1, <1>2, PosInArray
  <2>2. CASE Pos(v, l) = b0
    <3>1. Share(v, l)' = 0
      BY <1>5, <2>2 DEF Share
    <3>2. QED
      BY <2>1, <3>1
  <2>3. CASE Pos(v, l) # b0
    <3>1. Share(v, l)' = Share(v, l)
      BY <2>1, <2>3 DEF Share
    <3>2. QED
      BY <2>1, <3>1
  <2>4. QED
    BY <2>2, <2>3
<1> HIDE DEF query, Share
<1>6. query(v)' <= query(v) + (IF v = f THEN 1 ELSE 0)
  <2>1. CASE v = f
    BY <1>1, <1>2, <1>3, <2>1
  <2>2. CASE v # f
    <3>1. /\ query(v)' = query(v) + Share(v, l)' - Share(v, l)
          /\ query(v) \in Nat /\ Share(v, l) \in Nat /\ Share(v, l)' \in Nat
      <4>1. Share(v, l)' \in Nat
        BY <1>1, LayersApart DEF Share, Cell
      <4>2. QED
        BY <1>1, <1>2, <4>1
    <3>2. QED
      BY <1>5, <2>2, <3>1
  <2>3. QED
    BY <2>1, <2>2
<1>7. ASSUME NEW g \in Flow \ {v}
      PROVE  query(g)' = query(g) + (IF g = f THEN 1 ELSE 0)
  <2>1. CASE g = f
    BY <1>2, <1>3, <2>1
  <2>2. CASE g # f
    BY <1>2, <1>4, <1>7, <2>2
  <2>3. QED
    BY <2>1, <2>2
<1>8. QED
  BY <1>1, <1>6, <1>7, OneLoserObserved

\* Every step of a thread is a step of the counter, or none.
LEMMA StepObserved ==
  ASSUME GPUInv, GPUInv', NEW t \in Thread, insert_bucket(t)
  PROVE  Counter!Observe(keys[t]) \/ (truth' = truth /\ bucket' = bucket)
<1>1. /\ bucket \in [Bucket -> Cell] /\ bucket' \in [Bucket -> Cell]
      /\ at(t) \in Bucket /\ keys[t] \in Flow /\ layer[t] \in Layer
      /\ at(t) = Pos(keys[t], layer[t])
      /\ pc[t] = "store" => seen[t] = bucket[at(t)]
  BY StoreFacts DEF GPUInv, GPUTypeOK, at
<1>2. CASE Acquire(t) \/ Spin(t) \/ Look(t) \/ Descend(t) \/ Release(t)
  BY <1>2 DEF Acquire, Spin, Look, Descend, Release
<1>3. CASE GiveUp(t)
  BY <1>1, <1>3, NothingStoredObserved DEF GiveUp, Counted
<1>4. CASE Contest(t)
  BY <1>1, <1>4, ContestChangesNothing, NothingStoredObserved DEF Contest, Counted
<1>5. CASE Place(t)
  <2>1. /\ bucket' = [bucket EXCEPT ![at(t)] = Fresh(t)]
        /\ truth' = [truth EXCEPT ![keys[t]] = @ + 1]
        /\ bucket[at(t)].freq = 0
    BY <1>1, <1>5 DEF Place, Counted
  <2>2. /\ \A b \in Bucket : b # at(t) => bucket'[b] = bucket[b]
        /\ bucket'[at(t)].key = keys[t] /\ bucket'[at(t)].freq = 0 + 1
    BY <1>1, <2>1 DEF Fresh
  <2>3. QED
    BY <1>1, <2>1, <2>2, StoreObserved
<1>6. CASE Merge(t)
  <2>1. /\ truth' = [truth EXCEPT ![keys[t]] = @ + 1]
        /\ bucket[at(t)].key = keys[t]
        /\ \A b \in Bucket : b # at(t) => bucket'[b] = bucket[b]
        /\ bucket'[at(t)].key = keys[t]
        /\ bucket'[at(t)].freq = bucket[at(t)].freq + 1
    BY <1>1, <1>6 DEF Merge, Counted
  <2>2. QED
    BY <1>1, <2>1, StoreObserved
<1>7. CASE Replace(t)
  <2>1. /\ truth' = [truth EXCEPT ![keys[t]] = @ + 1]
        /\ bucket[at(t)].key # keys[t]
        /\ \A b \in Bucket : b # at(t) => bucket'[b] = bucket[b]
        /\ bucket'[at(t)].key = keys[t] /\ bucket'[at(t)].freq = 0 + 1
    BY <1>1, <1>7 DEF Replace, Counted, Fresh
  <2>2. QED
    BY <1>1, <2>1, StoreObserved
<1>8. QED
  BY <1>2, <1>3, <1>4, <1>5, <1>6, <1>7 DEF insert_bucket

\* The array the threads fill implements the counter promised to clients: each
\* packet takes counts from one flow at most, dropped packets and replaced
\* residents included (AHeap.cu:159-253 and 328-349).
THEOREM GPUArrayImplementsCounter == Spec => GPUImplementsCounter
<1>1. Init => Counter!Init
  <2> SUFFICES ASSUME Init PROVE Counter!Init
    OBVIOUS
  <2>1. ASSUME NEW f \in Flow PROVE query(f) = 0
    <3>1. 0 \in AllLayer /\ 1 \in AllLayer /\ 2 \in AllLayer /\ 3 \in AllLayer
      BY DEF AllLayer, L1, L2
    <3>2. \A l \in AllLayer : Share(f, l) = 0
      BY LayersApart DEF Init, Share
    <3>3. QED
      BY <3>1, <3>2 DEF query
  <2>2. QED
    BY <2>1 DEF Init, Counter!Init
<1>2. GPUInv /\ GPUInv' /\ [Next]_vars
        => [Counter!Next]_<<truth, [f \in Flow |-> query(f)]>>
  <2> SUFFICES ASSUME GPUInv, GPUInv', [Next]_vars
               PROVE  [Counter!Next]_<<truth, [f \in Flow |-> query(f)]>>
    OBVIOUS
  <2>1. ASSUME NEW t \in Thread, insert_bucket(t)
        PROVE  [Counter!Next]_<<truth, [f \in Flow |-> query(f)]>>
    <3>1. keys[t] \in Flow
      BY DEF GPUInv, GPUTypeOK
    <3>2. CASE Counter!Observe(keys[t])
      BY <3>1, <3>2 DEF Counter!Next
    <3>3. CASE truth' = truth /\ bucket' = bucket
      BY <3>3 DEF query, Share
    <3>4. QED
      BY <2>1, <3>2, <3>3, StepObserved
  <2>2. CASE UNCHANGED vars
    BY <2>2 DEF vars, query, Share
  <2>3. QED
    BY <2>1, <2>2 DEF Next
<1>3. QED
  BY <1>1, <1>2, GPUInvariant, PTL DEF Spec, GPUImplementsCounter, Counter!Spec
===============================================================================
