# A verification of CAHeap in TLA+

CAHeap records network flows in an *AHeap*: a small array of buckets of which a
flow may use only a few, one in each level. An insertion carries an item down
its levels, and on the way exchanges it with residents, merges it with its own
flow's resident, or leaves it; the last level keeps the better of two. The same
structure is written seven times over: in C++, CUDA, P4 (twice), Verilog, and in
two copies of the C++ for Open vSwitch and ns-2. The programs compare it with
FlowRadar, an invertible Bloom lookup table.

This directory models that structure, checks it with TLC and proves its main
properties with TLAPS.

    tlc -config AHeap_dleft.cfg MCAHeap.tla     # any run of PROJECT.json
    tlapm AHeapProofs.tla                       # any *Proofs module

`PROJECT.json` lists the components, the runs, the source lines of every
definition, the hazards and the findings. Paths below are relative to
`src/src/`.

## 1. Inventory

| component | state | operations | what makes it correct |
|---|---|---|---|
| **CPU AHeap**, `CPU/AHeap/AHeap.h`, `Flow.h` | `MyCache`, 15m items (key, count, stamp); globals `aging`, `window_thre` | `insert` (plain), `insert` with thresholds, `insert_for_recent`, `insert_aging_by_time`, `insert_for_burst`, `check` | no flow is overestimated; one packet costs one flow at most; every item is on its flow's path; stamps and bursts are truthful |
| **CPU tasks**, `CPU/tasks/AHeap_*.h` | the trace, reference maps | a loop per task: insert every packet, then `MergeSingleCache` and compare | reading the whole array reads exactly the flow's path |
| **Network-wide coding**, `CPU/AHeap/Util.h`, `CODEC.h` | several arrays of key *fragments* | `AHeapInsert*`, `_DecodeCaches` | a decoded key is credited only with counts of its own |
| **FlowRadar** (baseline), `CPU/FlowRadar` | Bloom filter, invertible table | `insert`, `dump` | peeling ends and decodes true counts |
| **GPU**, `GPU/AHeap.cu` | bucket arrays and a spin lock per tree in device memory | `kernel_insert`: one thread per packet; `query` | mutual exclusion, locks freed on every exit, decisions still true when stored |
| **OVS**, `OVS/datapath.c`, `OVS/OVS/FlowCache.h` | one array shared by all CPUs, `mycounter` | the CPU insertion, per packet, unlocked | a race leaves memory readable, items on their paths, and damages only the tree it happens in |
| **ns-2**, `ns-2/common`, `ns-2/8PodFatTree.tcl` | per switch an array of fragments and a map of true counts; files | `ECtreap::recv`, archives at test points, `calres` | the flows reported are those that lose packets at the blackhole |
| **P4 bmv2**, `P4/AHeapbmv2.p4` | register arrays of six layers | egress block | no flow overestimated, stamps truthful |
| **P4 Tofino**, `P4/AHeaptofino.p4` | registers in stages | lookup pass, resubmit, write pass | a resubmitted packet writes what is still the least bucket |
| **FPGA**, `FPGA/AHeap-vivado/*.v` | block RAM per stage, FIFOs between stages | lookup state machines | no write lost to the pipeline; FIFOs neither lose nor repeat |

**How they interact.** A task owns one array (or several, network-wide) and
calls one insertion for each packet; the array is read only after the trace, or
after each window of it. On the GPU all packets of a batch are threads in
flight at once. In P4, OVS and the FPGA the packets themselves are the
concurrency: in OVS every CPU inserts into the same array. Network-wide, every
switch (or, in the tasks, one array of three) keeps a fragment of each key, and
only the decoder sees them together; in ns-2 it reads files that the switches
wrote at different times. Nothing is ever restarted: the hard behaviours are
*long sequences* of kicks in the sequential code, *interleavings* on the GPU and
in OVS, *snapshots of different times* and lost packets in ns-2, and
*arithmetic at a boundary* everywhere (unsigned stamps, packed bursty fields,
undefined returns).

## 2. Plan

Done, in this order, the most important behaviour first:

1. `FlowCounter`: what an AHeap promises its clients.
2. `AHeapArray`, `AHeapItems`: geometry, items, one level; `AHeap`: the plain
   insertion.
3. `AHeapKV` and `AHeapBurst`: the other CPU insertions on the same base.
4. `AHeapGPU`: the insertion as interleaved threads under locks.
5. `AHeapOVS`: the insertion as interleaved memory accesses without a lock.
6. `FragmentCode`: fragments and their decoding; on it `CodedTasks`, the
   counting tasks in both forms, and `Ns2Network`, switches and links.
7. `FlowRadar`, and `WindowTasks`, which composes it with `AHeapKV`.
8. Proofs for 1 to 7.

Left, in this order:

9. `AHeapBmv2`, six hashed layers whose first three overwrite, as an
   implementation of `FlowCounter`; then the Tofino form with its lookup and
   resubmit passes of several packets interleaved.
10. The FPGA stages and FIFOs, once the latency of the RAMs is settled.

## 3. The modules

| module | models | extends |
|---|---|---|
| `FlowCounter` | the abstract counter | |
| `AHeapArray` | geometry, items, one level, read-back: pure operators | |
| `AHeapItems` | an array under the loop of a task | `AHeapArray` |
| `AHeap` | `insert` of the counting tasks | `AHeapItems` |
| `AHeapKV` | the three insertions of the key-value tasks | `AHeapItems` |
| `AHeapBurst` | `insert_for_burst` and `Burst.h` | `AHeapItems` |
| `AHeapGPU` | `GPU/AHeap.cu` | |
| `AHeapOVS` | the array in the OVS datapath | `AHeapArray` |
| `FragmentCode` | `AHeapInsert` and `DecodeCaches`: fragments | `AHeapArray` |
| `TaskReports` | what tasks make of a table of counts | |
| `CodedTasks` | the counting tasks, without and with code mechanism | `FragmentCode`, `TaskReports` |
| `Ns2Network` | switches, links, blackhole, `calres` | `FragmentCode` |
| `FlowRadar` | `insertable_iblt.h`: pure operators | |
| `WindowTasks` | the tasks by windows, on AHeap and FlowRadar at once | `AHeapKV`, `TaskReports`; instance of `FlowRadar` |
| `MC*` | constants for TLC | the module named |
| `AHeapArrayProofs`, `FragmentCodeProofs` | lemmas: on the array, on sums and induction, on fragments and decoding | the module named |
| `AHeapProofs` | lemmas on cascades; theorems on `AHeap`, `AHeapKV` and `AHeapBurst` | all three |
| `WindowTasksProofs` | lemmas on peeling; theorems on `FlowRadar` and `WindowTasks` | `WindowTasks`, `AHeapProofs` |
| the other `*Proofs` | theorems | the module named |

**`FlowCounter`** has a true count and an estimate for each flow. A packet is
counted, and then one flow at most (it may be the packet's own) is cut back.
That is the one-sided error the tasks rely on, and the precise sense in which
a kick or a lost contest is *local*.

**`AHeapItems`** and **`AHeapArray`.** `cache` is `MyCache`, with the key `NoKey`
for the null pointer of a fresh `MyItem`; `now` is the loop counter that every
task stamps on its packets; `truth` and `lastSeen` are the tasks' own reference
maps. The operators on an array are in `AHeapArray`, which every module of the
structure but the GPU's shares. The four levels are laid out as the constructor lays them out. `PathBucket(f, l)`
is the index the insertions compute, `check` the predicate the decoder uses.
A level maps the array and the carried item to an *outcome*: the array after
it, the item that is carried on, and whether the insertion ended. The
outcomes `Placed`, `Merged`, `Exchanged` and `Passed` are the four things the
code ever does to a bucket. An insertion is one action: the code is sequential
and nothing can come between its levels.

**`AHeap`.** `d_left_level` in the source ends without a `return` when another
flow's resident is neither small nor old, and the behaviour is undefined.
`FallOff` gives the outcomes a build can produce. As `demo/Makefile` builds the
programs (g++ without optimisation) the result register holds the count that
was just compared and the caller tests its low byte, so the packet is dropped
exactly when that byte is 1. For other builds, `OtherBuilds` adds either answer
freely, and with `TestGone` the items may also be exchanged without a test, which
is what an optimising compiler makes of an end it takes for unreachable. The
proofs cover all of it, but for three theorems that say what they ask of the build
(section 5). `aging` is 0 in every caller of this insertion but
the module, and the proofs, take any value.

**`AHeapKV`.** One action for each task; a program runs one of the three, so
`task` is chosen once. `Elapsed` is the subtraction of stamps on `uint32_t`.

**`AHeapBurst`.** The four bits above the counter are a function `bursty` of
their own; `BurstAssumption` (no flow sends 2^28 packets) makes the split exact.
An item in hand always has a zero field: it starts with count 1, and
`exchange_item_with_bursty` clears what it takes out.

**`AHeapGPU`.** A thread steps through `insert_bucket`: try the lock, up to
`Retries` times; read its bucket; store or go to the next layer; release.
`truth` counts a packet at the step its insertion takes effect, a dropped packet
when it is dropped. Two abstractions: the plain stores of a critical section
are visible when the lock is freed (the code has no fence there), and each tree
has its own lock (section 7, `LocksInArray`).

**`AHeapOVS`.** `cpu[p]` is where a CPU is in `insert`, with its local variables.
A step is one access to shared memory: the load or the store of `mycounter++`,
the test of a count, the comparison of keys, the copy of a key, a count or a
stamp. `initial_item` first publishes a new block for the key (`Torn`) and then
fills it; a comparison with a block that is not filled may give either answer.
The missing return is here too, compiled into a kernel module with optimisation,
so any outcome is allowed. Accesses keep their program order (x86). `conflict_cnt`
and the two globals that are always 0 are left out, and the rest of `datapath.c`
is Open vSwitch as distributed.

**`FragmentCode`.** An array inserts fragment `id` of a key in the bucket of the
whole key. The insertion is the CPU's, missing return included: `Mistaken` is the set
of low bytes of a resident's count that are taken for true, {1} as `demo/Makefile`
builds it, and `TestGone` is as in `AHeap`. The copy in the ns-2 experiment has the
return (`ReturnAssumption` of `Ns2Network`: nothing is mistaken, no test gone). The field arithmetic is the constant `seg`, of which
`CodeAssumption` says what an erasure code promises: one fragment for each
array, of whatever keys, determine exactly one padded key. Decoding tries every
combination of filled buckets on one way down, each starting from its lowest
bucket; a combination is accepted when that bucket is on the path of the decoded
key. `un_map` applies the accepted ones in the order of the code's six loops
(`Turn`), for a later one overwrites the keys an earlier one has put into the
buckets. The padding of the decoded key is not compared with anything by the
code, nor here. All callers use k = 3 source fragments and three arrays.

**`CodedTasks`.** One step inserts a packet into the whole-key array and into the
three arrays of fragments of its trace, as the two forms of `input` do. The tasks
are operators on the tables read back.

**`Ns2Network`.** `recv` is `ECtreap::recv`: insert a fragment, count the packet in
`TrueLoss`, write both to files if the next test point is over, send the packet
on. A link is a queue in order; a full DropTail queue may drop. From
`BlackholeAt` on the aggregation switch routes `Target` to a null agent. `saved`
are the archives; `Alarms` is `main` of `calres.cc` on the archives of one test
point, with the decoder of `FragmentCode` (the simulator's `Util.h` and `ec.h`
are copies). The id of a switch modulo 128 is the number of its fragment.

**`FlowRadar`** and **`WindowTasks`.** The XOR of the keys in a cell is the set of
flows in it an odd number of times. `dump` goes over the cells until a round
decodes nothing, and changes them: that is part of the state the next window
finds. In the module it has at most one round more than there are flows, after
which nothing happens; that this is where the unbounded loop of the code ends is
proved (`DumpDecodes`). `clears` tells the burst task, which clears the table after each window,
from the others, whose call of `clear` is commented out. The AHeap gets the same
packets by the insertion of its task, and is asked for stamps of the window.

**Not modelled.** The `window_thre` mode: the one program that sets it does not
compile. `entropyTest`, for its logarithms, and the precision and recall the
tasks compute from what they report. The code-mechanism forms of the window
tasks and the wrappers that insert fragments with stamps or bursts. The P4 and
Verilog forms: the cascade of bmv2 is a different one and next in the plan; the
Tofino stages and the latency of the FPGA's RAMs are decided by a compiler and
by generated netlists, not by the sources. Hashing (a constant: any function
from flows to numbers), printing, memory management.

## 4. The runs

All but the GPU's and OVS's have one tree of 15 buckets (m = 1). Trees are
disjoint, so a second one adds nothing but independent steps; the proofs cover
any m. In the first six runs three flows share one leaf, two share its sibling, and the two groups
meet in a bucket of level 1: so every level sees a vacant bucket, a merge, an
exchange and an item that passes, and residents that were kicked from either
child. A flow alone in its leaf would never leave it. Flows of one leaf may be
renamed, which `MCSymmetry` tells TLC (no run with symmetry checks liveness).

| run | checks | states | shows |
|---|---|---|---|
| `AHeap_dleft` | types, placement, no overestimate, read-back, stamps, filling from the leaves, loss only on a full path, elephants kept, refinement of `FlowCounter` | 30 664 | the plain insertion; 8 packets are enough to fill a path, lose the last contest and bring the loser back |
| `AHeap_falloff` | `LossNeedsFullPath` | | **violated**: section 7 |
| `AHeapKV` | types, stamps, latest packet visible, leaf holds the latest flow, stamps never go back, refinement | 23 693 | the three stamp-driven insertions; `time_thre` 3 lies inside a trace of 7 |
| `AHeapKV_kicks` | `KicksSmallOrOld` | | **violated**: section 7 |
| `AHeapBurst` | types, no false burst, bursts in a row found, refinement | 31 705 | burst size scaled to 3 so that 8 packets hold two bursts and kicks in between, and bring a level-2 resident to a field of 2 before it is kicked |
| `AHeapBurst_found` | `FoundWhenReached` | | **violated**, with the real burst size 8 |
| `AHeapGPU` | types, exclusion, decisions true at the store, stamps, first comer kept, refinement, termination with all locks free | 88 000 | four threads in every interleaving, every trace of flows that share a leaf up to renaming, two traces over two trees; 2 attempts at the lock and an age of 1, so that giving up and ageing happen |
| `AHeapGPU_locks` | `LocksInArray` | | **violated**, with the real sizes |
| `AHeapOVS` | types, no read through a null key, residents on their paths, damage confined to the trees of a race | 1 684 818 | two CPUs in every interleaving of memory accesses, over two trees; three packets arrive alone and fill buckets of both, then two race |
| `CodedTasks` | arrays of fragments evolve as the one of keys, decoding exact, reports true and the same in both forms | 5 938 | two traces of 6 packets together; of three flows in one leaf, two pairs share a fragment, and fragments of different flows make up acceptable keys; a count of 3 has the missing return drop packets |
| `Ns2Network` | placement of fragments, skew of archives, alarms exact | 236 611 | three switches, four packets, two test points, a blackhole between them and a queue that can be full |
| `WindowTasks` | reports by windows true, dump exact, what FlowRadar tells of windows | 55 398 | three windows of five packets of five flows: a path cannot hold them all, so the array does miss flows in windows, some flows cannot be peeled and one is a Bloom false positive |

`CHECK_DEADLOCK FALSE` stands in every configuration because every behaviour
ends: the trace is over, or all threads are done.

Bounds: `MaxPackets` (length of the trace), `Packets` (threads), `Word` (2^32,
scaled, larger than any count or stamp of the trace as in reality; what matters
is that differences wrap to large numbers, and they do), `Byte` (2^8; scaled to
4 in `AHeap_falloff` and to 2 in `CodedTasks`, where the smallest count that shows
the effect would otherwise be 257). In `AHeapOVS`, `Alone` packets of `MaxPackets` arrive with no
other CPU busy: they set up the buckets that the two racing ones meet, and an
exchange, a merge and a vacant bucket all occur in the race. In `CodedTasks` keys
are three bits padded with a fourth, so that fragments are short enough to be
shared; in `Ns2Network` two bits padded with a third, and `MaxTime` and
`MaxPackets` bound the clock and the packets sent, while at most `TESTPOINT`
archives are written. At that size arrays never lose counts: what an alarm does
with lossy arrays is `CodedTasks`' part. In `WindowTasks`, `tuples` bounds the
choice: at most two flows for each place of the trace, chosen so that flows stay
away for a window, come again, and crowd a path; all three tasks and both
treatments of FlowRadar run on each trace. `gap`, the threshold of `flowletTest`,
is its default 1 there and any number in the proofs.

What the properties of the last three runs are conditioned on is met both ways
within the bounds: shared and distinct fragments, mixed and unmixed combinations,
Bloom filters with and without a false positive, decodable and stuck flows,
flows missed in a window, flowlets with gaps, bursts that are broken off.

**Fairness** is assumed in `AHeapGPU` only: weak fairness of each thread, since
`cudaStreamSynchronize` returns only when all launched blocks have run to their
end, and blocks of one thread (`BLOCK_SIZE` is 1) cannot starve one another in
a warp. Nothing is assumed of the lock: a thread may always lose the race, and
`Quiesces` holds because attempts are bounded. The CPU modules are about
safety: their loops end by construction. `AHeapOVS` and `Ns2Network` state none:
a packet may never finish, and everything checked there is safety.

## 5. What is proved

For every set of flows, hash, geometry, threshold, burst size, number of
threads and length of trace, from the named assumptions of the modules alone:

| theorem | module |
|---|---|
| `CounterNeverOverestimates`: whatever implements `FlowCounter` has `NeverOverestimates`; `CascadeOneLoser` | `AHeapProofs` |
| `AHeapTypeCorrect`, `AHeapOnPath`, `AHeapNeverOverestimates`, `AHeapImplementsCounter`, `AHeapStampsTruthful`, `AHeapMergeMatchesPath`, `AHeapFillOrder`; `AHeapElephantsKept`, when `aging = 0` and the test is not dropped; `AHeapLossNeedsFullPath` and `AHeapLatestVisible`, while the missing return is harmless | `AHeapProofs` |
| `KVTypeCorrect`, `KVOnPath`, `KVNeverOverestimates`, `KVArrayImplementsCounter`, `KVStampsTruthful`, `KVStampsNeverGoBack`, `KVLatestVisible`, `KVLeafIsLatest`, `KVMergeMatchesPath`, `KVFillOrder` | `AHeapProofs` |
| `BurstTypeCorrect`, `BurstNoFalseBurst`, `BurstBackToBackFound`, `BurstArrayImplementsCounter`, `BurstMergeMatchesPath` | `AHeapProofs` |
| `OVSTypeCorrect`, `OVSKeysReadable`, `OVSResidentsOnPath`, `OVSRaceConfined` | `AHeapOVSProofs` |
| `GPUTypeCorrect`, `GPUExclusive`, `GPUHeavyOrFreshStays`, `GPUStampsMonotone`, `GPUFirstComeKept`, `GPUArrayImplementsCounter` | `AHeapGPUProofs` |
| `CodedLockStep`, `CodedDecodeExact`, `CodedTasksTrue` | `CodedTasksProofs` |
| `NetworkTypeOK`, `ArchivesNotFarApart`, `NetworkAlarmsExact` | `Ns2NetworkProofs` |
| `DumpDecodes`, `WindowsImplementKV`, `WindowReportsHold`, `RadarDumpHolds`, `RadarWindowsTrue` | `WindowTasksProofs` |

**The CPU argument.** The inductive invariant is `ItemsInv`: `TypeOK`, `OnPath`,
`NeverOverestimates`, and that no flow has more packets than the trace so far.
`OnPath` is what the rest stands on: when a resident is exchanged at level *l*,
the path of the carried item and that of the resident meet there, and from a
common bucket on all paths coincide (`PathsMerge`), so the resident can continue
on the path of the flow that kicked it. With that, each level is *accounted
for*: what the array records of a flow, plus what is in hand of it, is the same
before and after (`PlacedAccounted`, `MergedAccounted`, `ExchangedAccounted`).
`CascadeOneLoser` chains four such levels: what the last one does not store
belongs to a single flow. Each routine is shown to be such a cascade, and a
cascade both keeps `ItemsInv` and is a step of `FlowCounter`. The missing return
does not matter to this argument: it only ends a cascade early.

**Stamps.** A level writes no bucket but its own and the levels are disjoint, so
an insertion writes a bucket at most once (`CascadeWritesOnce`). A property of a
single write is therefore one of the whole insertion: `ElephantsKept` and
`StampsNeverGoBack` follow, the latter from the fact that a vacant bucket is
`Blank`, stamp included. `StampsTruthful` is not inductive; `StampsInv` is. It
says that no resident, and nothing carried, is later than its flow, and that the
latest stamp of a flow is lost only together with a packet of it. The second half
rests on the accounts above: what the last level drops is missing from the
record. `KVLatestVisible` and `KVLeafIsLatest` hold as the packet is
stored by the second level at the latest and later levels are elsewhere in the
array (`LaterLevelsElsewhere`).

**Filling and losing.** `MergeMatchesPath` sums over the whole array, but since
residents are on their paths only four buckets can count, and a sum over those
unfolds. `FillOrder` is inductive: no level vacates a bucket, and a later level is
only reached through a bucket of the earlier one that was taken, which is a child
of the one it stores to. The two theorems about loss assume `Harmless`: no
ageing, no count beyond one byte, and a build that neither takes the missing return
for true otherwise nor has dropped the test. Then a level that ends without storing does not
occur, so the item in hand has found every bucket of its path taken when the
last level drops it (`AHeapLossNeedsFullPath`), and the packet itself is stored
by one of the first three levels or wins or joins the fourth
(`AHeapLatestVisible`). The assumption is needed, not convenient: past one byte
`AHeap_falloff` shows the loss.

**Bursts.** `BurstInv` adds that no bursty field exceeds the count of its
bucket. It is inductive since a merge raises the field by one at most and the
count by the carried count, one at least, and every exchange restarts the
field. `NoFalseBurst` follows with `NeverOverestimates`. For
`BurstBackToBackFound` the invariant is `StreakInv`: after *n* packets of one flow
in a row, the flow has a field of *n* at least (or a full one) in one of the first
three buckets of its path, and none of the buckets before it would take its
packet. So the next packet passes by those again and counts in that one.

**GPU.** `GPUInv` is `GPUTypeOK`, `Exclusive` and `Current`: a thread about to
store still knows what its bucket holds. `Exclusive` needs both its halves, that
threads inside one tree are one and that its lock is taken while it is, and
`Current` needs that two threads on one bucket are in one tree
(bucket positions determine the tree). `HeavyOrFreshStays` follows step by step,
and so does `StampsMonotone`, with the fact that a vacant bucket is `Blank`.
`FirstComeKept` holds since a thread reaches the winner tree with a single packet
in hand, and a single packet never wins the contest against what is there
(`ContestChangesNothing`). For the refinement, a bucket belongs to one layer, so a
store moves the share of that layer and no other (`StoreMovesOneShare`): the flow
overwritten loses, the flow stored gains one packet, and nobody else is
touched.

**OVS.** `OVSInv` says of the array that a bucket with a count has a key and that
whole keys are on their paths, and of each CPU, whatever the others do: the item
in its hand fits its packet's path at its level (`Fits`), past the test of a
count its bucket has a key, and the key it has taken out fits too. It is
inductive because keys are replaced but never taken away, and because any whole
key found in a bucket is of a flow whose path leads there: by `PathsMerge` it may
go on down the path of the packet that found it, no matter which CPU stored it.
Counts and stamps are beyond it: a race does spoil those. `OVSRaceConfined` bounds
where. Its invariant, `TreesInv`, says of every tree that was never raced in: one CPU
is inside at most; what it has read is still so; and with the array *as before
the write* it is half through, what is recorded of a flow and what is in hand of
it are no more than its packets. It is inductive because a CPU never leaves the
tree of its packet and trees share no bucket (`TreesApart`).

**Code mechanism.** The invariant `CodedInv` relates an array of fragments to the
array of whole keys by a *mirror*: same counts and stamps everywhere, and each
fragment is the one of the key in the same place. One level of the insertion
compares fragments where the other compares keys, and the two agree when flows of
a tree have different fragments; so the mirror survives an insertion
(`CodedLockStep`). The missing return changes nothing in that, for traces of any
length: what it is taken for depends on the resident's count, which is the same in
both arrays, so both drop the same packets. (A build whose answer depended on
something else, different in the two arrays, is not covered.) Besides it says that every fragment held is one of a flow
of the trace on its path.

`CodedDecodeExact` is a statement about folds over sets of combinations, and about
sums over an array of any size. Induction over a finite set is done in
`AHeapArrayProofs` by a function and `WFMin`, not by the library's theorems that
take an operator (`SubsetInduction`, `FoldingExists`, `SummingInt`). The argument:
every accepted combination is on the path of the key it decodes to; the buckets
of a flow that every array holds form an accepted combination
(`PathAccepted`), which credits them with that flow; a later
combination that takes a bucket over has the same fragment in the same tree, and if
no fragments were mixed up it is the same flow. So the tables read after decoding
count a flow by its own buckets and by nothing else (`DecodedCount`), and with the
mirror they are the tables of the plain tasks, which `CodedTasksTrue` needs. All
this asks of the field arithmetic no more than `CodeAssumption`.

`ReportsTrue` has two parts: what the tasks report from a table that never
overestimates, and that both forms report the same.

**ns-2.** Here flows may share fragments, so an array of fragments mirrors no array
of keys. What is kept instead is about one flow at a time (`Truthful`): whatever is
held is a fragment of a flow the switch received, on its path; and of a flow that
shares its fragment with none received, no more is kept than came, the stamps in
the array are not later than the last of its packets, and if nothing was lost the
latest is among them. A packet of any flow
preserves that (`StaysTruthful`), by the accounts and the path argument of the CPU
array, now over fragments. `NetInv` has it of every switch and of every archive
ever written, besides the types of the links. An archive is a copy, so what calres
reads is as true as the array was; with the lemmas on decoding, which `CodedTasks`
needs too, `NetworkAlarmsExact` follows: of an exact flow the decoded table has
the counts and the latest stamp of the switches.

`SkewBounded` alone is not inductive: it says nothing of a test point that only one
of the two switches has written. `Skew` does. What the rack has and what is on the
link to it never exceed what the aggregation switch has. If the latter has written
archive *t* and the rack has not, the rack's count exceeds the archive's by no
more than the archives the rack has: it writes one with every packet while it is
behind. If the rack is ahead, its archive is bounded by the aggregation switch's
count at that time, which only grows. The proof asks of the network that no route
visits a switch twice, that the two switches differ, and that the links keep order
and may only lose packets; queues, the blackhole and the test points are arbitrary.
TLC checked `NetInv` on the run's instance before it was proved.

**FlowRadar.** The cells of a FlowRadar are a function, `Cells(P, n)`, of the
flows *P* in them and of the packets *n* they have of each flow: the XOR of a cell
is the flows of *P* that hit it an odd number of times, `flow_num` the sum of the
hits of *P*, `packet_num` the sum of the packets times the hits. `insert` adds a
flow to *P* or only packets to *n* (`AddedFlow`, `AddedPackets`), and decoding a
cell takes its flow away with just what was credited to it (`TakenFlow`). The
invariant of the peeling, `Peels`, says that the cells are `Cells(Q, m)` for some
*Q* and *m*, that *Q* contains every *stopping set* of *P* (one that leaves no cell
with a single flow), and that what was decoded is exact. A single flow in a cell
is in no stopping set (`StoppingKept`), so no order of decoding takes too much. A
round that decodes something makes *Q* smaller, and one that decodes nothing shows
that *Q* is a stopping set, hence the largest: `dump` ends within the number of
flows and a round more, with `Stuck(P)` left (`DumpDecodes`). Counts are exact
when no flow outside *P* has packets in the cells, that is, no false positive.
The recursive functions are shown to exist, by induction in the form of
`AllNumbers`, before anything is said of their values.

**Windows.** A step of `WindowTasks` is one of `AHeapKV` (`WindowsImplementKV`), so
all that is proved of the array there holds here. `WindowInv` adds what the
windows leave. `SeenInv` ties stamps to windows: a flow whose latest stamp is in
the running window has packets in it, and as no resident is later than its flow
(`StampsInv`) no stamp can put a flow in a window it was not in. `RadarInv` says
what is in the FlowRadar, in two forms. Cleared before the window (`FreshIs`), the
Bloom filter is made of the bits of the window's flows, *n* is their counts, and
without a false positive *P* is all of them. Not cleared (`KeptIs`), the filter
knows every flow that ever came, and all of *P* that came before is within a
stopping set: what a dump leaves is one, the filter keeps those flows out, and so
a later dump can only give flows that are new. That is why `RadarWindows` holds.
`TablesInv` keeps what each dump gave. The reports follow from what flowlets and
bursts of a set of windows are: `FlowletsAre` (the longest rows of windows that
follow each other within `gap`, each such row within one of them) and `BurstIs` (a row of `thre` windows, and the count that
stands still after it). The most recent flow is right as its packet is in the
array (`LatestVisible`) and no other stamp is as new.

The proofs use `TaskAssumption` (positive thresholds and window, addresses for
every flow) and `RadarAssumption` (finitely many flows, at least one cell, hashes
within the table). Nothing is asked of the hash functions or of their number.

**Only model-checked**: `Quiesces`, liveness under fairness, which is out of the
prover's reach. Every other property a passing run checks is stated by a theorem.

Trying to prove `AlarmsExact` showed it wrong as it first stood. It excused a flow
only when fragments made up a key of a flow that one of the three switches had
*not seen*; but the fragments of two other flows can also make up the key of a flow
that is routed elsewhere altogether, and take over a bucket. The case needs keys
of three bits, one more than the run has. The condition is now that fragments
are unmixed with respect to the flows all three archives hold.

## 6. Hazards

`PROJECT.json` lists them at their lines. Covered: cascades that must conserve
counts, wrong indices, stamps that arrive in any order, full paths, the
missing return, unsigned differences, the packed field, thread interleavings,
locks on every exit, bounded attempts; races on the unlocked array; shared
fragments, keys made up of fragments of several flows, buckets claimed twice;
snapshots of different times, losses at a blackhole and at full queues; peeling,
false positives, tables that are not cleared. Not covered, each with its reason:
stores without a fence on the GPU, the Tofino resubmit, the FPGA pipeline.

Three things the checks show of the code are no disagreement with any comment,
and worth knowing. A flow that loses *all* its packets is never reported by
`calres`: nothing of it is at the last switch to decode it with (`AlarmsExact`).
FlowRadar, as the persistence and flowlet tasks use it, finds a flow in its first
window only (`RadarWindows`), so its recall there measures the missing `clear`.
And a heavy change may be reported because packets were lost from one of the
tables (`ReportsTrue`).

## 7. Disagreements between code and comments

* `AHeap.h:129`: the missing return drops a packet with free buckets left when
  the resident's count has low byte 1 (`AHeap_falloff`), where the comment
  says "level by level".
* `AHeap.h:495`: `uint32_t` stamps are subtracted, so an item older than the
  resident counts as much newer, and residents neither small nor old are kicked
  (`AHeapKV_kicks`), against the comment on line 266.
* `AHeap.h:469`: the packet that completes a burst is answered with 0
  (`AHeapBurst_found`), against the comments on lines 394 and 465. `burstTest`
  does not use the answer; it reads the fields afterwards, and those are right
  (`BackToBackFound`).
* `AHeap.cu:162`: the lock index goes up to 2047, the lock array has 512 words
  (`AHeapGPU_locks`), against its comment on line 114.
