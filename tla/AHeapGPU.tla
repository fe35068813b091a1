------------------------------- MODULE AHeapGPU -------------------------------
(***************************************************************************)
(* GPU/AHeap.cu: one thread for each packet, all of them launched at once, *)
(* insert into one array.  The buckets that share a last-layer bucket form *)
(* a tree with a spin lock of its own; a thread that cannot get the lock   *)
(* in a bounded number of attempts drops its packet.                       *)
(*                                                                         *)
(* The stores of a critical section are taken to be visible at the         *)
(* atomicExch that ends it, and every tree to have a lock of its own; see  *)
(* LocksInArray for what the code declares.                                *)
(***************************************************************************)
EXTENDS Integers

CONSTANTS
  Flow, NoKey,
  Hash,                \* hash0(key)
  Packets,             \* bound: the packets of the trace, one thread for each
  Traces,              \* the traces considered, functions from threads to flows
  FIRST_LAYER_BUCKET,  \* 16384
  LAST_LAYER_BUCKET,   \* 512, the size of the mutex array
  Age,                 \* 10000, how old a resident may be replaced
  Retries              \* 40, the initial value of cnt

L1 == 2
L2 == 2

Thread == 0..(Packets - 1)

ASSUME GPUFlowAssumption == NoKey \notin Flow /\ Hash \in [Flow -> Nat]
ASSUME GPUTraceAssumption == Packets \in Nat /\ Traces \subseteq [Thread -> Flow]
ASSUME GPUSizeAssumption ==
  /\ FIRST_LAYER_BUCKET \in Nat \ {0} /\ FIRST_LAYER_BUCKET % 8 = 0
  /\ LAST_LAYER_BUCKET \in Nat
ASSUME GPUBoundAssumption == Age \in Nat /\ Retries \in Nat

VARIABLES
  bucket,  \* kernel_bucket_key, _freq and _timestamp
  mutex,   \* the lock of each tree
  keys,    \* kernel_keys, the flow of each thread's packet
  pc,      \* where the thread is in insert_bucket
  layer,   \* the layer it is looking at
  tries,   \* how often it called atomicCAS
  seen,    \* the bucket as the thread read it
  truth    \* history: packets of each flow whose insertion has had its effect

vars == <<bucket, mutex, keys, pc, layer, tries, seen, truth>>

------------------------------------------------------------------------------
(* Geometry *)

\* The layers insert_bucket gets to: its second loop makes L2 - 1 rounds.
Layer == 0..(L1 + L2 - 2)

layer_start_pos(l) ==
  IF l = 0 THEN 0
  ELSE IF l = 1 THEN FIRST_LAYER_BUCKET
  ELSE IF l = 2 THEN FIRST_LAYER_BUCKET + FIRST_LAYER_BUCKET \div 2
  ELSE FIRST_LAYER_BUCKET + FIRST_LAYER_BUCKET \div 2 + FIRST_LAYER_BUCKET \div 4

hash_pos(f, l) ==
  LET p == Hash[f] % FIRST_LAYER_BUCKET
  IN  IF l = 0 THEN p ELSE IF l = 1 THEN p \div 2
      ELSE IF l = 2 THEN p \div 4 ELSE p \div 8

Pos(f, l) == layer_start_pos(l) + hash_pos(f, l)

Bucket == 0..(15 * (FIRST_LAYER_BUCKET \div 8) - 1)

\* mutex_pos: the position shifted by L1 + L2 - 1 bits.
mutex_pos(f) == (Hash[f] % FIRST_LAYER_BUCKET) \div 8

Tree == 0..(FIRST_LAYER_BUCKET \div 8 - 1)

NEW_(a, b) == IF a < b THEN b ELSE a

Cell == [key : Flow \union {NoKey}, freq : Nat, time : Nat]

------------------------------------------------------------------------------
(* insert_bucket, step by step; the packet's number is its stamp *)

at(t) == Pos(keys[t], layer[t])

Fresh(t) == [key |-> keys[t], freq |-> 1, time |-> t]

Goto(t, label) == pc' = [pc EXCEPT ![t] = label]

\* The packet has had all the effect it will have.
Counted(t) == truth' = [truth EXCEPT ![keys[t]] = @ + 1]

Init ==
  /\ keys \in Traces
  /\ bucket = [b \in Bucket |-> [key |-> NoKey, freq |-> 0, time |-> 0]]
  /\ mutex = [m \in Tree |-> 0]
  /\ pc = [t \in Thread |-> "spin"]
  /\ layer = [t \in Thread |-> 0]
  /\ tries = [t \in Thread |-> 0]
  /\ seen = [t \in Thread |-> [key |-> NoKey, freq |-> 0, time |-> 0]]
  /\ truth = [f \in Flow |-> 0]

\* Bug for a mutation run: the result of atomicCAS is ignored.
Acquire_Unchecked(t) ==
  /\ pc[t] = "spin" /\ tries[t] < Retries
  /\ mutex' = [mutex EXCEPT ![mutex_pos(keys[t])] = 1]
  /\ tries' = [tries EXCEPT ![t] = @ + 1]
  /\ Goto(t, "look")
  /\ UNCHANGED <<bucket, keys, layer, seen, truth>>

\* atomicCAS(mutex_pos, 0, 1) returns 0.
Acquire(t) ==
  /\ pc[t] = "spin" /\ tries[t] < Retries
  /\ mutex[mutex_pos(keys[t])] = 0
  /\ mutex' = [mutex EXCEPT ![mutex_pos(keys[t])] = 1]
  /\ tries' = [tries EXCEPT ![t] = @ + 1]
  /\ Goto(t, "look")
  /\ UNCHANGED <<bucket, keys, layer, seen, truth>>

\* Bug for a mutation run: one attempt too many.
Spin_OffByOne(t) ==
  /\ pc[t] = "spin" /\ tries[t] <= Retries
  /\ mutex[mutex_pos(keys[t])] = 1
  /\ tries' = [tries EXCEPT ![t] = @ + 1]
  /\ UNCHANGED <<bucket, mutex, keys, pc, layer, seen, truth>>

\* It returns 1: the while loop goes round.
Spin(t) ==
  /\ pc[t] = "spin" /\ tries[t] < Retries
  /\ mutex[mutex_pos(keys[t])] = 1
  /\ tries' = [tries EXCEPT ![t] = @ + 1]
  /\ UNCHANGED <<bucket, mutex, keys, pc, layer, seen, truth>>

\* cnt is used up: the packet is dropped.
GiveUp(t) ==
  /\ pc[t] = "spin" /\ tries[t] = Retries
  /\ Goto(t, "done")
  /\ Counted(t)
  /\ UNCHANGED <<bucket, mutex, keys, layer, tries, seen>>

\* The thread reads the bucket of its layer.
Look(t) ==
  /\ pc[t] = "look"
  /\ seen' = [seen EXCEPT ![t] = bucket[at(t)]]
  /\ Goto(t, "store")
  /\ UNCHANGED <<bucket, mutex, keys, layer, tries, truth>>

\* The bucket is vacant.
Place(t) ==
  /\ pc[t] = "store" /\ seen[t].freq = 0
  /\ bucket' = [bucket EXCEPT ![at(t)] = Fresh(t)]
  /\ Goto(t, "unlock")
  /\ Counted(t)
  /\ UNCHANGED <<mutex, keys, layer, tries, seen>>

\* Bug for a mutation run: the stamp of the packet is stored as it is.
Merge_LastStamp(t) ==
  /\ pc[t] = "store" /\ seen[t].freq # 0 /\ seen[t].key = keys[t]
  /\ bucket' = [bucket EXCEPT ![at(t)] =
                  [key |-> @.key, freq |-> @.freq + 1, time |-> t]]
  /\ Goto(t, "unlock")
  /\ Counted(t)
  /\ UNCHANGED <<mutex, keys, layer, tries, seen>>

\* Bug for a mutation run: this return forgets the atomicExch before it.
Merge_KeepsLock(t) ==
  /\ pc[t] = "store" /\ seen[t].freq # 0 /\ seen[t].key = keys[t]
  /\ bucket' = [bucket EXCEPT ![at(t)] =
                  [key |-> @.key, freq |-> @.freq + 1, time |-> NEW_(seen[t].time, t)]]
  /\ Goto(t, "done")
  /\ Counted(t)
  /\ UNCHANGED <<mutex, keys, layer, tries, seen>>

\* It holds the packet's flow.
Merge(t) ==
  /\ pc[t] = "store" /\ seen[t].freq # 0 /\ seen[t].key = keys[t]
  /\ bucket' = [bucket EXCEPT ![at(t)] =
                  [key |-> @.key, freq |-> @.freq + 1, time |-> NEW_(seen[t].time, t)]]
  /\ Goto(t, "unlock")
  /\ Counted(t)
  /\ UNCHANGED <<mutex, keys, layer, tries, seen>>

\* The d-left part replaces a resident that is not newer and small or old.
Replaceable(t) ==
  /\ t >= seen[t].time
  /\ seen[t].freq = 1 \/ seen[t].time + Age < t

\* The resident of the d-left bucket is overwritten and forgotten.
Replace(t) ==
  /\ pc[t] = "store" /\ layer[t] < L1
  /\ seen[t].freq # 0 /\ seen[t].key # keys[t]
  /\ Replaceable(t)
  /\ bucket' = [bucket EXCEPT ![at(t)] = Fresh(t)]
  /\ Goto(t, "unlock")
  /\ Counted(t)
  /\ UNCHANGED <<mutex, keys, layer, tries, seen>>

\* The resident of the d-left bucket stays; on to the next layer.
Descend(t) ==
  /\ pc[t] = "store" /\ layer[t] < L1
  /\ seen[t].freq # 0 /\ seen[t].key # keys[t]
  /\ ~Replaceable(t)
  /\ layer' = [layer EXCEPT ![t] = @ + 1]
  /\ Goto(t, "look")
  /\ UNCHANGED <<bucket, mutex, keys, tries, seen, truth>>

\* Bug for a mutation run: a draw goes to the newcomer.
Contest_DrawWins(t) ==
  /\ pc[t] = "store" /\ layer[t] >= L1
  /\ seen[t].freq # 0 /\ seen[t].key # keys[t]
  /\ bucket' = IF 1 >= seen[t].freq THEN [bucket EXCEPT ![at(t)] = Fresh(t)] ELSE bucket
  /\ Goto(t, "unlock")
  /\ Counted(t)
  /\ UNCHANGED <<mutex, keys, layer, tries, seen>>

\* The only round of the winner-tree loop: the heavier item gets the bucket, and
\* the loop ends with the other one in hand.
Contest(t) ==
  /\ pc[t] = "store" /\ layer[t] >= L1
  /\ seen[t].freq # 0 /\ seen[t].key # keys[t]
  /\ bucket' = IF 1 > seen[t].freq THEN [bucket EXCEPT ![at(t)] = Fresh(t)] ELSE bucket
  /\ Goto(t, "unlock")
  /\ Counted(t)
  /\ UNCHANGED <<mutex, keys, layer, tries, seen>>

\* atomicExch(mutex_pos, 0), then return.
Release(t) ==
  /\ pc[t] = "unlock"
  /\ mutex' = [mutex EXCEPT ![mutex_pos(keys[t])] = 0]
  /\ Goto(t, "done")
  /\ UNCHANGED <<bucket, keys, layer, tries, seen, truth>>

insert_bucket(t) ==
  \/ Acquire(t) \/ Spin(t) \/ GiveUp(t)
  \/ Look(t) \/ Place(t) \/ Merge(t) \/ Replace(t) \/ Descend(t) \/ Contest(t)
  \/ Release(t)

Next == \E t \in Thread : insert_bucket(t)

\* Every launched thread is run to its end before cudaStreamSynchronize returns.
Fairness == \A t \in Thread : WF_vars(insert_bucket(t))

Spec == Init /\ [][Next]_vars /\ Fairness

\* query(): the sum over all L1 + L2 layers, the last of which is never written.
Share(f, l) == IF bucket[Pos(f, l)].key = f THEN bucket[Pos(f, l)].freq ELSE 0
query(f) == Share(f, 0) + Share(f, 1) + Share(f, 2) + Share(f, 3)

------------------------------------------------------------------------------
(* Properties *)

\* The type invariant; a thread never makes more than Retries attempts.
GPUTypeOK ==
  /\ bucket \in [Bucket -> Cell]
  /\ mutex \in [Tree -> {0, 1}]
  /\ keys \in [Thread -> Flow]
  /\ pc \in [Thread -> {"spin", "look", "store", "unlock", "done"}]
  /\ layer \in [Thread -> Layer]
  /\ tries \in [Thread -> 0..Retries]
  /\ seen \in [Thread -> Cell]
  /\ truth \in [Flow -> Nat]

Inside(t) == pc[t] \in {"look", "store", "unlock"}

\* Two threads are never inside the same tree, and a tree's lock is taken
\* exactly while a thread is inside it: no path through insert_bucket leaves a
\* lock behind or frees one it does not hold.
Exclusive ==
  /\ \A t, u \in Thread :
       Inside(t) /\ Inside(u) /\ t # u => mutex_pos(keys[t]) # mutex_pos(keys[u])
  /\ \A m \in Tree : mutex[m] = 1 <=> \E t \in Thread : Inside(t) /\ mutex_pos(keys[t]) = m

\* What a thread decided on is still what the bucket holds when it stores: so a
\* d-left resident is only overwritten when it has one packet or is older by
\* more than Age, however the threads of its tree interleave.
HeavyOrFreshStays ==
  [][\A b \in Bucket :
       bucket[b].freq > 0 /\ bucket'[b].key # bucket[b].key
       => bucket[b].freq = 1 \/ bucket[b].time + Age < bucket'[b].time]_vars

\* Threads run in any order, stamps do not go backwards: no bucket's stamp ever
\* decreases.
StampsMonotone == [][\A b \in Bucket : bucket'[b].time >= bucket[b].time]_vars

\* A packet weighs one and a resident at least one, so in the winner tree the
\* first flow to come keeps its bucket for ever.
FirstComeKept ==
  [][\A b \in Bucket :
       b >= layer_start_pos(L1) /\ bucket[b].freq > 0 => bucket'[b].key = bucket[b].key]_vars

\* The array read back by query() implements the promise to clients, with a
\* packet dropped at the lock counted as a packet its own flow loses.
Counter == INSTANCE FlowCounter WITH est <- [f \in Flow |-> query(f)]
GPUImplementsCounter == Counter!Spec

\* Every thread ends, and with every lock free: the next launch can insert.
Quiesces == <>[]((\A t \in Thread : pc[t] = "done") /\ (\A m \in Tree : mutex[m] = 0))

\* A thread only ever spins on a word of the mutex array, which is declared with
\* LAST_LAYER_BUCKET words: "2^9 protect the same last layer".
LocksInArray == \A t \in Thread : pc[t] = "spin" => mutex_pos(keys[t]) < LAST_LAYER_BUCKET
===============================================================================
