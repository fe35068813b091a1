------------------------------- MODULE AHeapOVS -------------------------------
(***************************************************************************)
(* The array inside the Open vSwitch datapath (datapath.c, FlowCache.h):   *)
(* every CPU that receives a packet inserts it into the one global fc,     *)
(* and stamps it with the one global mycounter, without a lock.  A step    *)
(* is one access to shared memory; a CPU runs FlowCache::insert for one    *)
(* packet at a time.                                                       *)
(*                                                                         *)
(* Accesses take effect in program order (x86).  conflict_cnt, which       *)
(* nobody reads, is left out, and so is the arithmetic of window_thre and  *)
(* aging, globals that stay 0.                                             *)
(***************************************************************************)
EXTENDS AHeapArray

CONSTANTS
  Cpu,        \* the CPUs that receive packets
  Torn,       \* what a new block of key bytes holds before memcpy fills it
  MaxPackets, \* bound: the packets received
  Alone       \* bound: so many of them are received one at a time, to fill the array

ASSUME TornAssumption == Torn \notin Flow /\ Torn # NoKey
ASSUME PacketsAssumption == MaxPackets \in Nat /\ Alone \in Nat

VARIABLES
  cache,      \* fc.MyCache
  mycounter,
  cpu,        \* where each CPU is in insert, and its local variables
  received,   \* history: packets received
  truth,      \* history: packets received of each flow
  raced       \* history: the trees two CPUs were in at once

history == <<received, truth, raced>>
vars == <<cache, mycounter, cpu, history>>

\* pkt is hash_key, item the flow_item in hand, tmp what was read of the resident
\* it is exchanged with, kicks whether the writing is part of an exchange, reg
\* the register of a ++ or +=.
Idle == [pc |-> "idle", level |-> 0, pkt |-> NoKey, item |-> Empty, tmp |-> Empty,
         kicks |-> FALSE, reg |-> 0]

Init ==
  /\ cache = [b \in Bucket |-> Empty]
  /\ mycounter = 0
  /\ cpu = [p \in Cpu |-> Idle]
  /\ received = 0
  /\ truth = [f \in Flow |-> 0]
  /\ raced = {}

Tree(f) == PathIndex(f)[3]

Busy(p) == cpu[p].pc # "idle"

\* Bug for a mutation run: the index is halved one level too late.
at_HalvedLate(p) ==
  level_start[cpu[p].level]
    + PathIndex(cpu[p].pkt)[IF cpu[p].level = 0 THEN 0 ELSE cpu[p].level - 1]

\* The bucket CPU p works on: its index comes from the packet's key, whatever
\* item is in hand by now.
at(p) == PathBucket(cpu[p].pkt, cpu[p].level)

At(p, label) == cpu[p].pc = label

Goto(p, label) == cpu' = [cpu EXCEPT ![p].pc = label]

Return(p) == cpu' = [cpu EXCEPT ![p] = Idle]

\* Bug for a mutation run: every other level is skipped.
Descend_SkipsLevel(p, it) ==
  IF cpu[p].level < 3
  THEN cpu' = [cpu EXCEPT ![p].pc = "look", ![p].level = @ + 2, ![p].item = it]
  ELSE Return(p)

\* On to the next level with this item; after the last level the insertion is over.
Descend(p, it) ==
  IF cpu[p].level < 3
  THEN cpu' = [cpu EXCEPT ![p].pc = "look", ![p].level = @ + 1, ![p].item = it]
  ELSE Return(p)

\* A store to one field of the bucket; a private step stores nothing.
Store(p, x) == cache' = [cache EXCEPT ![at(p)] = x] /\ UNCHANGED <<mycounter, history>>
Private == UNCHANGED <<cache, mycounter, history>>

------------------------------------------------------------------------------
(* ovs_dp_process_packet: the flow table has the packet's flow; build its  *)
(* item and stamp it.                                                      *)

Receive(p, f) ==
  /\ At(p, "idle") /\ received < MaxPackets
  /\ received <= Alone => \A q \in Cpu : ~Busy(q)
  /\ received' = received + 1
  /\ truth' = [truth EXCEPT ![f] = @ + 1]
  /\ raced' = raced \union {Tree(f) : q \in {q \in Cpu : Busy(q) /\ Tree(cpu[q].pkt) = Tree(f)}}
  /\ cpu' = [cpu EXCEPT ![p].pc = "load_counter", ![p].pkt = f,
                        ![p].item = [key |-> f, count |-> 1, time |-> mycounter]]
  /\ UNCHANGED <<cache, mycounter>>

\* mycounter++, a load and a store.
LoadCounter(p) ==
  /\ At(p, "load_counter")
  /\ cpu' = [cpu EXCEPT ![p].pc = "store_counter", ![p].reg = mycounter]
  /\ Private

StoreCounter(p) ==
  /\ At(p, "store_counter")
  /\ mycounter' = cpu[p].reg + 1
  /\ Goto(p, "look")
  /\ UNCHANGED <<cache, history>>

------------------------------------------------------------------------------
(* One level of insert *)

\* Is the bucket vacant?
Look(p) ==
  /\ At(p, "look")
  /\ cpu' = [cpu EXCEPT ![p].pc = IF Vacant(cache, at(p)) THEN "put_block" ELSE "compare",
                        ![p].kicks = FALSE]
  /\ Private

\* same_key: dereferences the resident's my_key.  Bytes that were never filled, or
\* only in part, may be the same as any others.
Compare(p) ==
  LET x == cache[at(p)].key
      y == cpu[p].item.key
  IN  /\ At(p, "compare")
      /\ \/ (x = y \/ Torn \in {x, y}) /\ Goto(p, "compare_stamp")
         \/ (x # y \/ Torn \in {x, y}) /\ Goto(p, "judge")
      /\ Private

(***************************************************************************)
(* Of another flow's resident: are the items exchanged?  On the first two  *)
(* levels when its count is 1, on the third always, on the last when the   *)
(* item in hand wins.  Otherwise d_left_level ends without a return: its   *)
(* caller takes that for true or for false, or the compiler, free to       *)
(* assume that it cannot happen, has dropped the test and exchanges.       *)
(***************************************************************************)
Judge(p) ==
  LET it == cpu[p].item
      resident == cache[at(p)]
      falls_off == cpu[p].level < 2 /\ resident.count # 1
      loses == cpu[p].level = 3 /\ ~comp_item(it, resident)
  IN  /\ At(p, "judge")
      /\ \/ ~loses /\ Goto(p, "take_key")
         \/ (falls_off \/ loses) /\ Return(p)
         \/ falls_off /\ Descend(p, it)
      /\ Private

------------------------------------------------------------------------------
(* incrementItem: the resident's stamp, then its count *)

CompareStamp(p) ==
  /\ At(p, "compare_stamp")
  /\ Goto(p, IF cpu[p].item.time > cache[at(p)].time THEN "store_stamp" ELSE "load_count")
  /\ Private

StoreStamp(p) ==
  /\ At(p, "store_stamp")
  /\ Store(p, [cache[at(p)] EXCEPT !.time = cpu[p].item.time])
  /\ Goto(p, "load_count")

LoadCount(p) ==
  /\ At(p, "load_count")
  /\ cpu' = [cpu EXCEPT ![p].pc = "store_count", ![p].reg = cache[at(p)].count]
  /\ Private

\* ++ on the first three levels, += the carried count on the last.
StoreCount(p) ==
  /\ At(p, "store_count")
  /\ Store(p, [cache[at(p)] EXCEPT !.count =
                 cpu[p].reg + IF cpu[p].level = 3 THEN cpu[p].item.count ELSE 1])
  /\ Return(p)

------------------------------------------------------------------------------
(* exchange_item and insert_to_place.  initial_item copies key, count and  *)
(* stamp one after the other: first the resident's to tmp, if there is     *)
(* one, then those of the item in hand into the bucket.                    *)

TakeKey(p) ==
  /\ At(p, "take_key")
  /\ cpu' = [cpu EXCEPT ![p].pc = "take_count", ![p].kicks = TRUE,
                        ![p].tmp.key = cache[at(p)].key]
  /\ Private

TakeCount(p) ==
  /\ At(p, "take_count")
  /\ cpu' = [cpu EXCEPT ![p].pc = "take_stamp", ![p].tmp.count = cache[at(p)].count]
  /\ Private

TakeStamp(p) ==
  /\ At(p, "take_stamp")
  /\ cpu' = [cpu EXCEPT ![p].pc = "put_block", ![p].tmp.time = cache[at(p)].time]
  /\ Private

\* Bug for a mutation run: the count is published before the key.
PutBlock_CountFirst(p) ==
  /\ At(p, "put_block")
  /\ Store(p, [cache[at(p)] EXCEPT !.count = cpu[p].item.count])
  /\ Goto(p, "put_key")

\* my_key = new char[key_len]
PutBlock(p) ==
  /\ At(p, "put_block")
  /\ Store(p, [cache[at(p)] EXCEPT !.key = Torn])
  /\ Goto(p, "put_key")

\* memcpy(my_key, in_key, key_len)
PutKey(p) ==
  /\ At(p, "put_key")
  /\ Store(p, [cache[at(p)] EXCEPT !.key = cpu[p].item.key])
  /\ Goto(p, "put_count")

PutCount(p) ==
  /\ At(p, "put_count")
  /\ Store(p, [cache[at(p)] EXCEPT !.count = cpu[p].item.count])
  /\ Goto(p, "put_stamp")

\* Bug for a mutation run: what goes on is a copy of what was stored.
PutStamp_OneWay(p) ==
  /\ At(p, "put_stamp")
  /\ Store(p, [cache[at(p)] EXCEPT !.time = cpu[p].item.time])
  /\ IF cpu[p].kicks THEN Descend(p, cpu[p].item) ELSE Return(p)

\* The last store; an exchange leaves the resident in hand.
PutStamp(p) ==
  /\ At(p, "put_stamp")
  /\ Store(p, [cache[at(p)] EXCEPT !.time = cpu[p].item.time])
  /\ IF cpu[p].kicks THEN Descend(p, cpu[p].tmp) ELSE Return(p)

Step(p) ==
  \/ LoadCounter(p) \/ StoreCounter(p)
  \/ Look(p) \/ Compare(p) \/ Judge(p)
  \/ CompareStamp(p) \/ StoreStamp(p) \/ LoadCount(p) \/ StoreCount(p)
  \/ TakeKey(p) \/ TakeCount(p) \/ TakeStamp(p)
  \/ PutBlock(p) \/ PutKey(p) \/ PutCount(p) \/ PutStamp(p)

Next == \E p \in Cpu : Step(p) \/ \E f \in Flow : Receive(p, f)

Spec == Init /\ [][Next]_vars

------------------------------------------------------------------------------
(* Properties *)

AnyKey == Flow \union {NoKey, Torn}
AnyItem == [key : AnyKey, count : Nat, time : Nat]
Label == {"idle", "load_counter", "store_counter", "look", "compare", "judge",
          "compare_stamp", "store_stamp", "load_count", "store_count",
          "take_key", "take_count", "take_stamp",
          "put_block", "put_key", "put_count", "put_stamp"}
Local == [pc : Label, level : Level, pkt : Flow \union {NoKey}, item : AnyItem,
          tmp : AnyItem, kicks : BOOLEAN, reg : Nat]

\* Values are of their types, and a CPU inside insert has a packet.
OVSTypeOK ==
  /\ cache \in [Bucket -> AnyItem]
  /\ mycounter \in Nat
  /\ cpu \in [Cpu -> Local]
  /\ \A p \in Cpu : Busy(p) => cpu[p].pkt \in Flow
  /\ received \in 0..MaxPackets
  /\ truth \in [Flow -> Nat]

\* same_key never reads through a null my_key: whoever saw a count in a bucket
\* finds a key there, since initial_item stores the key before the count and no
\* CPU ever takes a key away.
KeysReadable ==
  /\ \A p \in Cpu : At(p, "compare") => cache[at(p)].key # NoKey
  /\ \A p \in Cpu : Busy(p) => cpu[p].item.key # NoKey

\* However the stores of several CPUs mix, a resident is on its own flow's path
\* (FlowCache::check would accept it): a race spoils counts, stamps and bytes of
\* a key, never the place.
OVSOnPath == WellPlaced(cache)

\* The damage of a race stays in the tree where two CPUs met.  In every other
\* tree, once the CPU inside it is done, buckets are whole and no flow is
\* overestimated.
RaceConfined ==
  \A f \in Flow :
    /\ Tree(f) \notin raced
    /\ \A p \in Cpu : Busy(p) => Tree(cpu[p].pkt) # Tree(f)
    => /\ Recorded(cache, f) <= truth[f]
       /\ \A l \in Level : LET x == cache[PathBucket(f, l)]
                           IN  x.key # Torn /\ (x.count = 0 <=> x.key = NoKey)
===============================================================================
