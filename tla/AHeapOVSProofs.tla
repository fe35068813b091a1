--------------------------- MODULE AHeapOVSProofs ----------------------------
(***************************************************************************)
(* What survives unlocked insertion, for any number of CPUs, any geometry  *)
(* and hash: keys are there to be read, residents are on their paths, and  *)
(* a tree where no two CPUs met is sound.                                  *)
(***************************************************************************)
EXTENDS AHeapOVS, AHeapArrayProofs

USE TornAssumption, PacketsAssumption

\* A key that was read from a bucket of flow f's path at level l, or is f's own.
Fits(key, f, l) ==
  /\ key \in Flow \union {Torn}
  /\ key \in Flow => PathBucket(key, l) = PathBucket(f, l)

\* A CPU here has seen a count in its bucket, or has stored a key there.
AfterKey == {"compare", "judge", "compare_stamp", "store_stamp", "load_count", "store_count",
             "take_key", "put_key", "put_count", "put_stamp"}

\* A CPU here holds the resident's key in tmp.
Taken(r) ==
  \/ r.pc \in {"take_count", "take_stamp"}
  \/ r.kicks /\ r.pc \in {"put_block", "put_key", "put_count", "put_stamp"}

\* What a CPU with local variables r knows of itself and of its bucket.
LocalInv(r, c) ==
  /\ r.pc # "idle" => r.pkt \in Flow /\ Fits(r.item.key, r.pkt, r.level)
  /\ r.pc \in AfterKey => c[PathBucket(r.pkt, r.level)].key # NoKey
  /\ Taken(r) => Fits(r.tmp.key, r.pkt, r.level)

ArrayInv(c) ==
  /\ c \in [Bucket -> AnyItem]
  /\ \A b \in Bucket : c[b].count # 0 => c[b].key # NoKey
  /\ WellPlaced(c)

\* The inductive invariant.
OVSInv ==
  /\ ArrayInv(cache)
  /\ cpu \in [Cpu -> Local]
  /\ \A p \in Cpu : LocalInv(cpu[p], cache)
  /\ mycounter \in Nat
  /\ received \in 0..MaxPackets
  /\ truth \in [Flow -> Nat]

\* The item in a bucket of f's path fits f there.
LEMMA ResidentFits ==
  ASSUME NEW c, ArrayInv(c), NEW f \in Flow, NEW l \in Level,
         c[PathBucket(f, l)].key # NoKey
  PROVE  Fits(c[PathBucket(f, l)].key, f, l)
<1> DEFINE at0 == PathBucket(f, l)
           k == c[at0].key
<1>1. at0 \in Bucket
  BY PathInArray
<1>2. k \in Flow \union {Torn}
  BY <1>1 DEF ArrayInv, AnyItem, AnyKey
<1>3. ASSUME k \in Flow  PROVE PathBucket(k, l) = at0
  <2>1. PICK j \in Level : at0 = PathBucket(k, j)
    BY <1>1, <1>3 DEF ArrayInv, WellPlaced, check
  <2> HIDE DEF k
  <2>2. j = l
    BY <2>1, <1>3, LevelsDisjoint
  <2>3. QED
    BY <2>1, <2>2
<1>4. QED
  BY <1>2, <1>3 DEF Fits

\* A key that fits at one level fits at the next.
LEMMA FitsBelow ==
  ASSUME NEW k, NEW f \in Flow, NEW l \in 0..2, Fits(k, f, l)
  PROVE  Fits(k, f, l + 1)
BY PathsMerge DEF Fits

\* A step of CPU p that stores nothing keeps the invariant if it keeps p's part.
LEMMA PrivateStep ==
  ASSUME OVSInv, NEW p \in Cpu, NEW r \in Local, LocalInv(r, cache),
         cpu' = [cpu EXCEPT ![p] = r], UNCHANGED cache,
         mycounter' \in Nat, received' \in 0..MaxPackets, truth' \in [Flow -> Nat]
  PROVE  OVSInv'
<1>1. cpu' \in [Cpu -> Local]
  BY DEF OVSInv
<1>2. \A q \in Cpu : cpu'[q] = IF q = p THEN r ELSE cpu[q]
  BY DEF OVSInv
<1>3. ASSUME NEW q \in Cpu  PROVE LocalInv(cpu'[q], cache')
  BY <1>2 DEF OVSInv
<1>4. QED
  BY <1>1, <1>3 DEF OVSInv

\* A step of CPU p that stores x into its bucket keeps it if moreover x is no
\* null key with a count, does not take a key away, and fits.
LEMMA StoreStep ==
  ASSUME OVSInv, NEW p \in Cpu, NEW r \in Local, NEW x \in AnyItem, Busy(p),
         Store(p, x), cpu' = [cpu EXCEPT ![p] = r],
         x.count # 0 => x.key # NoKey,
         cache[at(p)].key # NoKey => x.key # NoKey,
         x.key # NoKey => Fits(x.key, cpu[p].pkt, cpu[p].level),
         LocalInv(r, cache')
  PROVE  OVSInv'
<1>1. cpu[p] \in Local /\ cpu[p].pkt \in Flow /\ cpu[p].level \in Level
  BY DEF OVSInv, LocalInv, Busy, Local
<1>2. at(p) \in Bucket
  BY <1>1, PathInArray DEF at
<1>3. /\ cache' \in [Bucket -> AnyItem]
      /\ \A b \in Bucket : cache'[b] = IF b = at(p) THEN x ELSE cache[b]
  BY <1>2 DEF Store, OVSInv, ArrayInv
<1>4. \A q \in Cpu : cpu'[q] = IF q = p THEN r ELSE cpu[q]
  BY DEF OVSInv
<1>5. ArrayInv(cache')
  <2>1. \A b \in Bucket : cache'[b].count # 0 => cache'[b].key # NoKey
    BY <1>3 DEF OVSInv, ArrayInv
  <2>2. ASSUME NEW b \in Bucket, cache'[b].key \in Flow  PROVE check(b, cache'[b].key)
    <3>1. CASE b = at(p)
      <4>1. x.key \in Flow /\ x.key # NoKey
        BY <1>3, <2>2, <3>1, FlowAssumption
      <4>2. PathBucket(x.key, cpu[p].level) = at(p)
        BY <4>1 DEF Fits, at
      <4>3. QED
        BY <1>1, <1>3, <3>1, <4>2 DEF check
    <3>2. CASE b # at(p)
      BY <1>3, <2>2, <3>2 DEF OVSInv, ArrayInv, WellPlaced
    <3>3. QED
      BY <3>1, <3>2
  <2>3. QED
    BY <1>3, <2>1, <2>2 DEF ArrayInv, WellPlaced
<1>6. ASSUME NEW q \in Cpu  PROVE LocalInv(cpu'[q], cache')
  <2>1. CASE q = p
    BY <1>4, <2>1
  <2>2. CASE q # p
    <3> DEFINE s == cpu[q]
               here == PathBucket(s.pkt, s.level)
    <3>1. s \in Local /\ LocalInv(s, cache) /\ cpu'[q] = s
      BY <1>4, <2>2 DEF OVSInv
    <3>2. ASSUME s.pc \in AfterKey  PROVE cache'[here].key # NoKey
      <4>1. s.pkt \in Flow /\ s.level \in Level
        BY <3>1, <3>2 DEF LocalInv, AfterKey, Local
      <4>2. here \in Bucket /\ cache[here].key # NoKey
        BY <4>1, <3>1, <3>2, PathInArray DEF LocalInv
      <4>3. QED
        BY <1>3, <4>2
    <3> HIDE DEF s
    <3>3. QED
      BY <3>1, <3>2 DEF LocalInv
  <2>3. QED
    BY <2>1, <2>2
<1>7. cpu' \in [Cpu -> Local]
  BY DEF OVSInv
<1>8. QED
  BY <1>5, <1>6, <1>7 DEF OVSInv, Store, history

\* The invariant holds at first.
LEMMA OVSInitInv == Init => OVSInv
<1> SUFFICES ASSUME Init PROVE OVSInv
  OBVIOUS
<1>1. Empty \in AnyItem /\ Empty.key = NoKey /\ Empty.count = 0
  BY DEF Empty, AnyItem, AnyKey
<1>2. Idle \in Local
  BY <1>1 DEF Idle, Local, Label, Level
<1>3. ArrayInv(cache)
  BY <1>1, FlowAssumption DEF Init, ArrayInv, WellPlaced
<1>4. LocalInv(Idle, cache)
  BY DEF LocalInv, Idle, AfterKey, Taken
<1>5. QED
  BY <1>2, <1>3, <1>4 DEF Init, OVSInv

\* What the invariant says of CPU p when it is inside insert.
LEMMA InsideFacts ==
  ASSUME OVSInv, NEW p \in Cpu, Busy(p)
  PROVE  /\ cpu[p] \in Local /\ LocalInv(cpu[p], cache)
         /\ cpu[p].pkt \in Flow /\ cpu[p].level \in Level
         /\ Fits(cpu[p].item.key, cpu[p].pkt, cpu[p].level)
         /\ cpu[p].item \in AnyItem /\ cpu[p].item.key # NoKey
         /\ at(p) \in Bucket /\ cache[at(p)] \in AnyItem
         /\ cache[at(p)].count # 0 => cache[at(p)].key # NoKey
         /\ cache[at(p)].key # NoKey => Fits(cache[at(p)].key, cpu[p].pkt, cpu[p].level)
         /\ cpu[p].pc \in AfterKey => cache[at(p)].key # NoKey
<1>1. cpu[p] \in Local /\ LocalInv(cpu[p], cache) /\ ArrayInv(cache)
  BY DEF OVSInv
<1>2. cpu[p].pkt \in Flow /\ cpu[p].level \in Level /\ cpu[p].item \in AnyItem
  BY <1>1 DEF LocalInv, Busy, Local
<1>3. Fits(cpu[p].item.key, cpu[p].pkt, cpu[p].level)
  BY <1>1 DEF LocalInv, Busy
<1>4. cpu[p].item.key # NoKey
  BY <1>3, FlowAssumption DEF Fits
<1>5. at(p) \in Bucket
  BY <1>2, PathInArray DEF at
<1>6. cache[at(p)] \in AnyItem /\ (cache[at(p)].count # 0 => cache[at(p)].key # NoKey)
  BY <1>1, <1>5 DEF ArrayInv
<1>7. cache[at(p)].key # NoKey => Fits(cache[at(p)].key, cpu[p].pkt, cpu[p].level)
  BY <1>1, <1>2, ResidentFits DEF at
<1>8. cpu[p].pc \in AfterKey => cache[at(p)].key # NoKey
  BY <1>1 DEF LocalInv, at
<1>9. QED
  BY <1>1, <1>2, <1>3, <1>4, <1>5, <1>6, <1>7, <1>8

\* Returning, and descending with an item that fits, keep p's part.
LEMMA IdleLocal ==
  ASSUME NEW c
  PROVE  Idle \in Local /\ LocalInv(Idle, c)
BY DEF Idle, Local, Label, Level, LocalInv, AfterKey, Taken, Empty, AnyItem, AnyKey

LEMMA DescendLocal ==
  ASSUME NEW r \in Local, NEW it \in AnyItem, NEW c, r.level < 3, r.pkt \in Flow,
         Fits(it.key, r.pkt, r.level)
  PROVE  LET s == [r EXCEPT !.pc = "look", !.level = @ + 1, !.item = it]
         IN  s \in Local /\ LocalInv(s, c)
<1> DEFINE s == [r EXCEPT !.pc = "look", !.level = @ + 1, !.item = it]
<1>1. r.level \in 0..2
  BY DEF Local, Level
<1>2. s \in Local
  <2>1. "look" \in Label /\ r.level + 1 \in Level
    BY <1>1 DEF Label, Level
  <2>2. QED
    BY <2>1 DEF Local
<1>3. Fits(it.key, r.pkt, r.level + 1)
  BY <1>1, FitsBelow
<1>4. s.pc = "look" /\ s.pkt = r.pkt /\ s.level = r.level + 1 /\ s.item = it
  BY DEF Local
<1>5. LocalInv(s, c)
  BY <1>3, <1>4 DEF LocalInv, AfterKey, Taken
<1>6. QED
  BY <1>2, <1>5

\* Receiving a packet keeps the invariant.
LEMMA ReceiveInv ==
  ASSUME OVSInv, NEW p \in Cpu, NEW f \in Flow, Receive(p, f)
  PROVE  OVSInv'
<1> DEFINE it == [key |-> f, count |-> 1, time |-> mycounter]
           r == [cpu[p] EXCEPT !.pc = "load_counter", !.pkt = f, !.item = it]
<1>1. cpu[p] \in Local /\ mycounter \in Nat
  BY DEF OVSInv
<1>2. it \in AnyItem
  BY <1>1 DEF AnyItem, AnyKey
<1>3. r \in Local /\ r.pc = "load_counter" /\ r.pkt = f /\ r.item.key = f
  BY <1>1, <1>2 DEF Local, Label
<1>4. LocalInv(r, cache)
  BY <1>3 DEF LocalInv, AfterKey, Taken, Fits
<1>5. cpu' = [cpu EXCEPT ![p] = r]
  BY DEF Receive
<1>6. /\ UNCHANGED cache /\ mycounter' \in Nat
      /\ received' \in 0..MaxPackets /\ truth' \in [Flow -> Nat]
  BY DEF Receive, OVSInv
<1> HIDE DEF r
<1>7. QED
  BY <1>3, <1>4, <1>5, <1>6, PrivateStep

\* So does every step that only reads, or counts mycounter up.
LEMMA PrivateInv ==
  ASSUME OVSInv, NEW p \in Cpu,
         \/ LoadCounter(p) \/ StoreCounter(p) \/ Look(p) \/ Compare(p)
         \/ CompareStamp(p) \/ LoadCount(p)
         \/ TakeKey(p) \/ TakeCount(p) \/ TakeStamp(p)
  PROVE  OVSInv'
<1>1. Busy(p)
  BY DEF Busy, At, LoadCounter, StoreCounter, Look, Compare, CompareStamp, LoadCount,
         TakeKey, TakeCount, TakeStamp
<1> DEFINE r == cpu[p]
<1>2. /\ r \in Local /\ LocalInv(r, cache)
      /\ cache[at(p)] \in AnyItem
      /\ cache[at(p)].count # 0 => cache[at(p)].key # NoKey
      /\ cache[at(p)].key # NoKey => Fits(cache[at(p)].key, r.pkt, r.level)
      /\ r.pc \in AfterKey => cache[at(p)].key # NoKey
      /\ at(p) = PathBucket(r.pkt, r.level)
  BY <1>1, InsideFacts DEF at
<1>3. mycounter \in Nat /\ received \in 0..MaxPackets /\ truth \in [Flow -> Nat]
  BY DEF OVSInv
<1>4. CASE LoadCounter(p)
  <2> DEFINE s == [r EXCEPT !.pc = "store_counter", !.reg = mycounter]
  <2>1. s \in Local /\ cpu' = [cpu EXCEPT ![p] = s]
    BY <1>2, <1>3, <1>4 DEF LoadCounter, Local, Label
  <2>2. LocalInv(s, cache)
    BY <1>2, <1>4 DEF LoadCounter, At, LocalInv, AfterKey, Taken, Local
  <2> HIDE DEF s, r
  <2>3. QED
    BY <1>3, <1>4, <2>1, <2>2, PrivateStep DEF LoadCounter, Private, history
<1>5. CASE StoreCounter(p)
  <2> DEFINE s == [r EXCEPT !.pc = "look"]
  <2>1. s \in Local /\ cpu' = [cpu EXCEPT ![p] = s] /\ r.reg \in Nat
    BY <1>2, <1>5 DEF StoreCounter, Goto, Local, Label
  <2>2. LocalInv(s, cache)
    BY <1>2, <1>5 DEF StoreCounter, At, LocalInv, AfterKey, Taken, Local
  <2>3. mycounter' \in Nat
    BY <1>5, <2>1 DEF StoreCounter
  <2> HIDE DEF s, r
  <2>4. QED
    BY <1>3, <1>5, <2>1, <2>2, <2>3, PrivateStep DEF StoreCounter, history
<1>6. CASE Look(p)
  <2> DEFINE s == [r EXCEPT !.pc = IF Vacant(cache, at(p)) THEN "put_block" ELSE "compare",
                            !.kicks = FALSE]
  <2>1. s \in Local /\ cpu' = [cpu EXCEPT ![p] = s]
    BY <1>2, <1>6 DEF Look, Local, Label
  <2>2. LocalInv(s, cache)
    BY <1>2, <1>6 DEF Look, At, LocalInv, AfterKey, Taken, Local, Vacant
  <2> HIDE DEF s, r
  <2>3. QED
    BY <1>3, <1>6, <2>1, <2>2, PrivateStep DEF Look, Private, history
<1>7. CASE Compare(p)
  <2>1. PICK l \in {"compare_stamp", "judge"} : cpu' = [cpu EXCEPT ![p].pc = l]
    BY <1>7 DEF Compare, Goto
  <2> DEFINE s == [r EXCEPT !.pc = l]
  <2>2. s \in Local /\ cpu' = [cpu EXCEPT ![p] = s]
    BY <1>2, <2>1 DEF Local, Label
  <2>3. LocalInv(s, cache)
    BY <1>2, <1>7 DEF Compare, At, LocalInv, AfterKey, Taken, Local
  <2> HIDE DEF s, r
  <2>4. QED
    BY <1>3, <1>7, <2>2, <2>3, PrivateStep DEF Compare, Private, history
<1>8. CASE CompareStamp(p)
  <2> DEFINE s == [r EXCEPT !.pc = IF r.item.time > cache[at(p)].time
                                   THEN "store_stamp" ELSE "load_count"]
  <2>1. s \in Local /\ cpu' = [cpu EXCEPT ![p] = s]
    BY <1>2, <1>8 DEF CompareStamp, Goto, Local, Label
  <2>2. LocalInv(s, cache)
    BY <1>2, <1>8 DEF CompareStamp, At, LocalInv, AfterKey, Taken, Local
  <2> HIDE DEF s, r
  <2>3. QED
    BY <1>3, <1>8, <2>1, <2>2, PrivateStep DEF CompareStamp, Private, history
<1>9. CASE LoadCount(p)
  <2> DEFINE s == [r EXCEPT !.pc = "store_count", !.reg = cache[at(p)].count]
  <2>1. s \in Local /\ cpu' = [cpu EXCEPT ![p] = s]
    BY <1>2, <1>9 DEF LoadCount, Local, Label, AnyItem
  <2>2. LocalInv(s, cache)
    BY <1>2, <1>9 DEF LoadCount, At, LocalInv, AfterKey, Taken, Local
  <2> HIDE DEF s, r
  <2>3. QED
    BY <1>3, <1>9, <2>1, <2>2, PrivateStep DEF LoadCount, Private, history
<1>10. CASE TakeKey(p)
  <2> DEFINE s == [r EXCEPT !.pc = "take_count", !.kicks = TRUE, !.tmp.key = cache[at(p)].key]
  <2>1. s \in Local /\ cpu' = [cpu EXCEPT ![p] = s]
    <3>1. cache[at(p)].key \in AnyKey /\ r.tmp \in AnyItem
      BY <1>2 DEF AnyItem, Local
    <3>2. [r.tmp EXCEPT !.key = cache[at(p)].key] \in AnyItem
      BY <3>1 DEF AnyItem
    <3>3. s = [r EXCEPT !.pc = "take_count", !.kicks = TRUE,
                        !.tmp = [r.tmp EXCEPT !.key = cache[at(p)].key]]
      BY <1>2 DEF Local
    <3>4. s \in Local
      BY <1>2, <3>2, <3>3 DEF Local, Label
    <3>5. QED
      BY <3>4, <1>10 DEF TakeKey
  <2>2. Fits(cache[at(p)].key, r.pkt, r.level)
    BY <1>2, <1>10 DEF TakeKey, At, AfterKey
  <2>3. LocalInv(s, cache)
    BY <1>2, <1>10, <2>2 DEF TakeKey, At, LocalInv, AfterKey, Taken, Local, AnyItem
  <2> HIDE DEF s, r
  <2>4. QED
    BY <1>3, <1>10, <2>1, <2>3, PrivateStep DEF TakeKey, Private, history
<1>11. CASE TakeCount(p)
  <2> DEFINE s == [r EXCEPT !.pc = "take_stamp", !.tmp.count = cache[at(p)].count]
  <2>1. s \in Local /\ cpu' = [cpu EXCEPT ![p] = s]
    BY <1>2, <1>11 DEF TakeCount, Local, Label, AnyItem
  <2>2. LocalInv(s, cache)
    BY <1>2, <1>11 DEF TakeCount, At, LocalInv, AfterKey, Taken, Local, AnyItem
  <2> HIDE DEF s, r
  <2>3. QED
    BY <1>3, <1>11, <2>1, <2>2, PrivateStep DEF TakeCount, Private, history
<1>12. CASE TakeStamp(p)
  <2> DEFINE s == [r EXCEPT !.pc = "put_block", !.tmp.time = cache[at(p)].time]
  <2>1. s \in Local /\ cpu' = [cpu EXCEPT ![p] = s]
    BY <1>2, <1>12 DEF TakeStamp, Local, Label, AnyItem
  <2>2. LocalInv(s, cache)
    BY <1>2, <1>12 DEF TakeStamp, At, LocalInv, AfterKey, Taken, Local, AnyItem
  <2> HIDE DEF s, r
  <2>3. QED
    BY <1>3, <1>12, <2>1, <2>2, PrivateStep DEF TakeStamp, Private, history
<1>13. QED
  BY <1>4, <1>5, <1>6, <1>7, <1>8, <1>9, <1>10, <1>11, <1>12

\* And the verdict on another flow's resident, whichever way it goes.
LEMMA JudgeInv ==
  ASSUME OVSInv, NEW p \in Cpu, Judge(p)
  PROVE  OVSInv'
<1>1. Busy(p) /\ cpu[p].pc = "judge"
  BY DEF Busy, At, Judge
<1> DEFINE r == cpu[p]
<1>2. /\ r \in Local /\ LocalInv(r, cache) /\ r.pkt \in Flow /\ r.level \in Level
      /\ r.item \in AnyItem /\ Fits(r.item.key, r.pkt, r.level)
  BY <1>1, InsideFacts
<1>3. /\ mycounter' \in Nat /\ received' \in 0..MaxPackets /\ truth' \in [Flow -> Nat]
      /\ UNCHANGED cache
  BY DEF OVSInv, Judge, Private, history
<1>4. Goto(p, "take_key") \/ Return(p) \/ (r.level < 2 /\ Descend(p, r.item))
  BY DEF Judge
<1>5. CASE Goto(p, "take_key")
  <2> DEFINE s == [r EXCEPT !.pc = "take_key"]
  <2>1. s \in Local /\ cpu' = [cpu EXCEPT ![p] = s]
    BY <1>2, <1>5 DEF Goto, Local, Label
  <2>2. LocalInv(s, cache)
    BY <1>1, <1>2 DEF LocalInv, AfterKey, Taken, Local
  <2> HIDE DEF s, r
  <2>3. QED
    BY <1>3, <2>1, <2>2, PrivateStep
<1>6. CASE Return(p)
  BY <1>3, <1>6, IdleLocal, PrivateStep DEF Return
<1>7. CASE r.level < 2 /\ Descend(p, r.item)
  <2> DEFINE s == [r EXCEPT !.pc = "look", !.level = @ + 1, !.item = r.item]
  <2>1. cpu' = [cpu EXCEPT ![p] = s]
    BY <1>2, <1>7 DEF Descend, Level, Local
  <2>2. r.level < 3
    BY <1>2, <1>7 DEF Level
  <2>3. s \in Local /\ LocalInv(s, cache)
    BY <1>2, <2>2, DescendLocal
  <2> HIDE DEF s, r
  <2>4. QED
    BY <1>3, <2>1, <2>3, PrivateStep
<1>8. QED
  BY <1>4, <1>5, <1>6, <1>7
\* Every store into the bucket keeps it: a key comes before its count, and what
\* is stored fits.
LEMMA StoreInv ==
  ASSUME OVSInv, NEW p \in Cpu,
         \/ StoreStamp(p) \/ StoreCount(p)
         \/ PutBlock(p) \/ PutKey(p) \/ PutCount(p) \/ PutStamp(p)
  PROVE  OVSInv'
<1>1. Busy(p)
  BY DEF Busy, At, StoreStamp, StoreCount, PutBlock, PutKey, PutCount, PutStamp
<1> DEFINE r == cpu[p]
           c0 == cache[at(p)]
<1>2. /\ r \in Local /\ LocalInv(r, cache)
      /\ r.pkt \in Flow /\ r.level \in Level /\ r.item \in AnyItem /\ r.item.key # NoKey
      /\ Fits(r.item.key, r.pkt, r.level)
      /\ c0 \in AnyItem /\ cache \in [Bucket -> AnyItem] /\ at(p) \in Bucket
      /\ c0.count # 0 => c0.key # NoKey
      /\ c0.key # NoKey => Fits(c0.key, r.pkt, r.level)
      /\ r.pc \in AfterKey => c0.key # NoKey
      /\ at(p) = PathBucket(r.pkt, r.level)
  BY <1>1, InsideFacts DEF at, OVSInv, ArrayInv
<1>3. CASE StoreStamp(p)
  <2> DEFINE x == [c0 EXCEPT !.time = r.item.time]
             s == [r EXCEPT !.pc = "load_count"]
  <2>1. x \in AnyItem
    BY <1>2 DEF AnyItem, AnyKey, Local
  <2>2. s \in Local /\ cpu' = [cpu EXCEPT ![p] = s] /\ Store(p, x)
    BY <1>2, <1>3 DEF StoreStamp, Goto, Local, Label
  <2>3. r.pc = "store_stamp"
    BY <1>3 DEF StoreStamp, At
  <2>4. cache'[at(p)] = x
    BY <1>2, <2>2 DEF Store
  <2>5. /\ x.count # 0 => x.key # NoKey
        /\ c0.key # NoKey => x.key # NoKey
        /\ x.key # NoKey => Fits(x.key, r.pkt, r.level)
    BY <1>2, <2>3, TornAssumption DEF AnyItem, AfterKey, Fits
  <2>6. LocalInv(s, cache')
    BY <1>2, <2>3, <2>4, <2>5, TornAssumption DEF LocalInv, AfterKey, Taken, Local, AnyItem
  <2> HIDE DEF x, s
  <2>7. QED
    BY <1>1, <2>1, <2>2, <2>5, <2>6, StoreStep
<1>4. CASE PutBlock(p)
  <2> DEFINE x == [c0 EXCEPT !.key = Torn]
             s == [r EXCEPT !.pc = "put_key"]
  <2>1. x \in AnyItem
    BY <1>2 DEF AnyItem, AnyKey, Local
  <2>2. s \in Local /\ cpu' = [cpu EXCEPT ![p] = s] /\ Store(p, x)
    BY <1>2, <1>4 DEF PutBlock, Goto, Local, Label
  <2>3. r.pc = "put_block"
    BY <1>4 DEF PutBlock, At
  <2>4. cache'[at(p)] = x
    BY <1>2, <2>2 DEF Store
  <2>5. /\ x.count # 0 => x.key # NoKey
        /\ c0.key # NoKey => x.key # NoKey
        /\ x.key # NoKey => Fits(x.key, r.pkt, r.level)
    BY <1>2, <2>3, TornAssumption DEF AnyItem, AfterKey, Fits
  <2>6. LocalInv(s, cache')
    BY <1>2, <2>3, <2>4, <2>5, TornAssumption DEF LocalInv, AfterKey, Taken, Local, AnyItem
  <2> HIDE DEF x, s
  <2>7. QED
    BY <1>1, <2>1, <2>2, <2>5, <2>6, StoreStep
<1>5. CASE PutKey(p)
  <2> DEFINE x == [c0 EXCEPT !.key = r.item.key]
             s == [r EXCEPT !.pc = "put_count"]
  <2>1. x \in AnyItem
    BY <1>2 DEF AnyItem, AnyKey, Local
  <2>2. s \in Local /\ cpu' = [cpu EXCEPT ![p] = s] /\ Store(p, x)
    BY <1>2, <1>5 DEF PutKey, Goto, Local, Label
  <2>3. r.pc = "put_key"
    BY <1>5 DEF PutKey, At
  <2>4. cache'[at(p)] = x
    BY <1>2, <2>2 DEF Store
  <2>5. /\ x.count # 0 => x.key # NoKey
        /\ c0.key # NoKey => x.key # NoKey
        /\ x.key # NoKey => Fits(x.key, r.pkt, r.level)
    BY <1>2, <2>3, TornAssumption DEF AnyItem, AfterKey, Fits
  <2>6. LocalInv(s, cache')
    BY <1>2, <2>3, <2>4, <2>5, TornAssumption DEF LocalInv, AfterKey, Taken, Local, AnyItem
  <2> HIDE DEF x, s
  <2>7. QED
    BY <1>1, <2>1, <2>2, <2>5, <2>6, StoreStep
<1>6. CASE PutCount(p)
  <2> DEFINE x == [c0 EXCEPT !.count = r.item.count]
             s == [r EXCEPT !.pc = "put_stamp"]
  <2>1. x \in AnyItem
    BY <1>2 DEF AnyItem, AnyKey, Local
  <2>2. s \in Local /\ cpu' = [cpu EXCEPT ![p] = s] /\ Store(p, x)
    BY <1>2, <1>6 DEF PutCount, Goto, Local, Label
  <2>3. r.pc = "put_count"
    BY <1>6 DEF PutCount, At
  <2>4. cache'[at(p)] = x
    BY <1>2, <2>2 DEF Store
  <2>5. /\ x.count # 0 => x.key # NoKey
        /\ c0.key # NoKey => x.key # NoKey
        /\ x.key # NoKey => Fits(x.key, r.pkt, r.level)
    BY <1>2, <2>3, TornAssumption DEF AnyItem, AfterKey, Fits
  <2>6. LocalInv(s, cache')
    BY <1>2, <2>3, <2>4, <2>5, TornAssumption DEF LocalInv, AfterKey, Taken, Local, AnyItem
  <2> HIDE DEF x, s
  <2>7. QED
    BY <1>1, <2>1, <2>2, <2>5, <2>6, StoreStep
<1>7. CASE StoreCount(p)
  <2> DEFINE n == IF r.level = 3 THEN r.item.count ELSE 1
             x == [c0 EXCEPT !.count = r.reg + n]
  <2>1. r.reg + n \in Nat
    BY <1>2 DEF Local, AnyItem
  <2>2. x \in AnyItem /\ x.key = c0.key
    BY <1>2, <2>1 DEF AnyItem
  <2>3. c0.key # NoKey
    BY <1>2, <1>7 DEF StoreCount, At, AfterKey
  <2>4. cpu' = [cpu EXCEPT ![p] = Idle] /\ Store(p, x)
    BY <1>7 DEF StoreCount, Return
  <2> HIDE DEF x
  <2>5. QED
    BY <1>1, <1>2, <2>2, <2>3, <2>4, IdleLocal, StoreStep
<1>8. CASE PutStamp(p)
  <2> DEFINE x == [c0 EXCEPT !.time = r.item.time]
  <2>1. x \in AnyItem /\ x.key = c0.key /\ Store(p, x)
    BY <1>2, <1>8 DEF AnyItem, PutStamp
  <2>2. c0.key # NoKey /\ r.pc = "put_stamp"
    BY <1>2, <1>8 DEF PutStamp, At, AfterKey
  <2>3. CASE r.kicks /\ r.level < 3
    <3> DEFINE s == [r EXCEPT !.pc = "look", !.level = @ + 1, !.item = r.tmp]
    <3>1. Fits(r.tmp.key, r.pkt, r.level) /\ r.tmp \in AnyItem
      BY <1>2, <2>2, <2>3 DEF LocalInv, Taken, Local
    <3>2. s \in Local /\ LocalInv(s, cache')
      BY <1>2, <2>3, <3>1, DescendLocal
    <3>3. cpu' = [cpu EXCEPT ![p] = s]
      BY <1>2, <1>8, <2>3 DEF PutStamp, Descend, Local
    <3> HIDE DEF s, x
    <3>4. QED
      BY <1>1, <1>2, <2>1, <2>2, <3>2, <3>3, StoreStep
  <2>4. CASE ~(r.kicks /\ r.level < 3)
    <3>1. cpu' = [cpu EXCEPT ![p] = Idle]
      BY <1>8, <2>4 DEF PutStamp, Descend, Return
    <3> HIDE DEF x
    <3>2. QED
      BY <1>1, <1>2, <2>1, <2>2, <3>1, IdleLocal, StoreStep
  <2>5. QED
    BY <2>3, <2>4
<1>9. QED
  BY <1>3, <1>4, <1>5, <1>6, <1>7, <1>8

\* The invariant holds whatever the CPUs do and in whatever order.
THEOREM OVSInvariant == Spec => []OVSInv
<1>1. Init => OVSInv
  BY OVSInitInv
<1>2. OVSInv /\ [Next]_vars => OVSInv'
  <2> SUFFICES ASSUME OVSInv, [Next]_vars PROVE OVSInv'
    OBVIOUS
  <2>1. CASE UNCHANGED vars
    BY <2>1 DEF vars, history, OVSInv
  <2>2. ASSUME NEW p \in Cpu, Step(p)  PROVE OVSInv'
    BY <2>2, PrivateInv, JudgeInv, StoreInv DEF Step
  <2>3. ASSUME NEW p \in Cpu, NEW f \in Flow, Receive(p, f)  PROVE OVSInv'
    BY <2>3, ReceiveInv
  <2>4. QED
    BY <2>1, <2>2, <2>3 DEF Next
<1>3. QED
  BY <1>1, <1>2, PTL DEF Spec

\* Values keep their types, whatever a race makes of them.
THEOREM OVSTypeCorrect == Spec => []OVSTypeOK
<1>1. OVSInv => OVSTypeOK
  BY DEF OVSInv, OVSTypeOK, ArrayInv, LocalInv, Busy
<1>2. QED
  BY <1>1, OVSInvariant, PTL

\* No CPU ever compares its key with a null one: what FlowCache.h gets from
\* storing the key before the count, without a lock.
THEOREM OVSKeysReadable == Spec => []KeysReadable
<1>1. OVSInv => KeysReadable
  BY FlowAssumption DEF OVSInv, KeysReadable, LocalInv, At, Busy, at, AfterKey, Fits
<1>2. QED
  BY <1>1, OVSInvariant, PTL

\* Residents stay on their own flows' paths through every race.
THEOREM OVSResidentsOnPath == Spec => []OVSOnPath
<1>1. OVSInv => OVSOnPath
  BY DEF OVSInv, OVSOnPath, ArrayInv
<1>2. QED
  BY <1>1, OVSInvariant, PTL

------------------------------------------------------------------------------
(***************************************************************************)
(* A race spoils the tree it happens in.  Of the other trees the invariant *)
(* says that at most one CPU is inside, and that the tree is sound up to   *)
(* what this CPU has in hand, once the bucket it is about to write is      *)
(* thought of as it was before the exchange.                               *)
(***************************************************************************)

\* A bucket that nobody is writing holds a flow with a count, or nothing.
Whole(x) == x.key # Torn /\ (x.count = 0 <=> x.key = NoKey)

\* What the array records of each flow of tree t, with the item in hand, is no
\* more than the packets of the flow, and the buckets of the tree are whole.
Balanced(c, it, t, n) ==
  \A f \in Flow : Tree(f) = t =>
    /\ Recorded(c, f) + PartOf(it, f) <= n[f]
    /\ \A l \in Level : Whole(c[PathBucket(f, l)])

Seen == {"compare", "judge", "compare_stamp", "store_stamp", "load_count", "store_count",
         "take_key", "take_count", "take_stamp"}
Merging == {"compare_stamp", "store_stamp", "load_count", "store_count"}
Taking == {"take_count", "take_stamp"}
Writing == {"put_block", "put_key", "put_count", "put_stamp"}

\* The bucket x a CPU works on, as it was before the CPU began to write it.
Was(r, x) == IF r.pc \in Writing THEN (IF r.kicks THEN r.tmp ELSE Empty) ELSE x

Before(c, r) == [c EXCEPT ![PathBucket(r.pkt, r.level)] = Was(r, @)]

\* What holds of a CPU alone in its tree and its bucket x: its copies are true.
Copies(r, x) ==
  /\ r.pc \in Seen => x.count # 0
  /\ r.pc \in Merging => x.key = r.item.key
  /\ r.pc = "store_count" => r.reg = x.count
  /\ r.pc \in Taking => r.kicks /\ r.tmp.key = x.key
  /\ r.pc = "take_stamp" => r.tmp.count = x.count
  /\ r.pc \in Writing /\ r.kicks => r.tmp.count # 0
  /\ r.pc \in {"put_count", "put_stamp"} => x.key = r.item.key
  /\ r.pc = "put_stamp" => x.count = r.item.count

Inside(r, c, n) ==
  /\ r.item.key \in Flow /\ r.item.count > 0
  /\ Balanced(Before(c, r), r.item, Tree(r.pkt), n)
  /\ Copies(r, c[PathBucket(r.pkt, r.level)])

In(p, t) == Busy(p) /\ Tree(cpu[p].pkt) = t

\* The inductive invariant of a tree.
TreeInv(t) ==
  /\ \A p, q \in Cpu : In(p, t) /\ In(q, t) => p = q
  /\ \A p \in Cpu : In(p, t) => Inside(cpu[p], cache, truth)
  /\ (\A p \in Cpu : ~In(p, t)) => Balanced(cache, Empty, t, truth)

TreesInv == \A f \in Flow : Tree(f) \notin raced => TreeInv(Tree(f))

\* A bucket is on the paths of one tree only.
LEMMA TreesApart ==
  ASSUME NEW f \in Flow, NEW g \in Flow, NEW l \in Level, NEW j \in Level,
         PathBucket(f, l) = PathBucket(g, j)
  PROVE  Tree(f) = Tree(g)
<1>1. l = j
  BY LevelsDisjoint
<1> DEFINE Meet(i) == PathBucket(f, i) = PathBucket(g, i)
<1>2. \A i \in 0..2 : Meet(i) => Meet(i + 1)
  BY PathsMerge
<1>3. Meet(l)
  BY <1>1
<1> HIDE DEF Meet
<1>4. Meet(3)
  <2>1. Meet(0) => Meet(1)
    BY <1>2
  <2>2. Meet(1) => Meet(2)
    BY <1>2
  <2>3. Meet(2) => Meet(3)
    BY <1>2
  <2>4. l = 0 \/ l = 1 \/ l = 2 \/ l = 3
    BY DEF Level
  <2>5. QED
    BY <1>3, <2>1, <2>2, <2>3, <2>4
<1>5. QED
  <2>1. level_start[3] + Tree(f) = level_start[3] + Tree(g)
    BY <1>4 DEF Meet, PathBucket, Tree
  <2>2. Tree(f) \in Nat /\ Tree(g) \in Nat
    BY IndexBounds DEF Tree
  <2>3. level_start[3] \in Nat
    BY SizeAssumption DEF level_start, Level
  <2>4. QED
    BY <2>1, <2>2, <2>3

\* A tree stays balanced when keys and counts on its paths, and the packets of its
\* flows, stay as they are.
LEMMA BalancedKept ==
  ASSUME NEW c, NEW d, NEW it, NEW t, NEW m, NEW n, Balanced(c, it, t, m),
         \A f \in Flow : Tree(f) = t =>
           /\ n[f] = m[f]
           /\ \A l \in Level : /\ d[PathBucket(f, l)].key = c[PathBucket(f, l)].key
                               /\ d[PathBucket(f, l)].count = c[PathBucket(f, l)].count
  PROVE  Balanced(d, it, t, n)
<1> SUFFICES ASSUME NEW f \in Flow, Tree(f) = t
             PROVE  /\ Recorded(d, f) + PartOf(it, f) <= n[f]
                    /\ \A l \in Level : Whole(d[PathBucket(f, l)])
  BY DEF Balanced
<1>1. /\ Recorded(c, f) + PartOf(it, f) <= m[f]
      /\ \A l \in Level : Whole(c[PathBucket(f, l)])
  BY DEF Balanced
<1>2. \A l \in Level : Share(d, f, l) = Share(c, f, l)
  BY DEF Share
<1>3. Recorded(d, f) = Recorded(c, f)
  BY <1>2 DEF Recorded, Level
<1>4. \A l \in Level : Whole(d[PathBucket(f, l)])
  BY <1>1 DEF Whole
<1>5. QED
  BY <1>1, <1>3, <1>4

\* It stays balanced when a bucket gets a whole item and another item is in hand, if
\* no flow has more in the two together than before.
LEMMA BalancedMoved ==
  ASSUME NEW c \in [Bucket -> AnyItem], NEW d \in [Bucket -> AnyItem],
         NEW f \in Flow, NEW l \in Level,
         \A b \in Bucket : b # PathBucket(f, l) => d[b] = c[b],
         Whole(d[PathBucket(f, l)]),
         NEW it \in AnyItem, NEW on \in AnyItem, NEW n \in [Flow -> Nat],
         \A g \in Flow :
           IF PathBucket(g, l) = PathBucket(f, l)
           THEN PartOf(d[PathBucket(f, l)], g) + PartOf(on, g)
                  <= PartOf(c[PathBucket(f, l)], g) + PartOf(it, g)
           ELSE PartOf(on, g) <= PartOf(it, g),
         Balanced(c, it, Tree(f), n)
  PROVE  Balanced(d, on, Tree(f), n)
<1> DEFINE b == PathBucket(f, l)
<1> SUFFICES ASSUME NEW g \in Flow, Tree(g) = Tree(f)
             PROVE  /\ Recorded(d, g) + PartOf(on, g) <= n[g]
                    /\ \A j \in Level : Whole(d[PathBucket(g, j)])
  BY DEF Balanced
<1>1. /\ Recorded(c, g) + PartOf(it, g) <= n[g]
      /\ \A j \in Level : Whole(c[PathBucket(g, j)])
  BY DEF Balanced
<1>2. \A j \in Level : PathBucket(g, j) \in Bucket
  BY PathInArray
<1>3. \A j \in Level : Whole(d[PathBucket(g, j)])
  BY <1>1, <1>2
<1>4. \A j \in Level : PathBucket(g, j) = b => j = l
  BY LevelsDisjoint
<1>5. ASSUME NEW j \in Level
      PROVE  /\ Share(c, g, j) \in Nat /\ Share(d, g, j) \in Nat
             /\ j # l \/ PathBucket(g, l) # b => Share(d, g, j) = Share(c, g, j)
  <2>1. d[PathBucket(g, j)].count \in Nat /\ c[PathBucket(g, j)].count \in Nat
    BY <1>2 DEF AnyItem
  <2>2. j # l \/ PathBucket(g, l) # b => d[PathBucket(g, j)] = c[PathBucket(g, j)]
    BY <1>2, <1>4
  <2>3. QED
    BY <2>1, <2>2 DEF Share
<1>6. PathBucket(g, l) = b => Share(c, g, l) = PartOf(c[b], g) /\ Share(d, g, l) = PartOf(d[b], g)
  BY DEF Share, PartOf
<1>7. PartOf(it, g) \in Nat /\ PartOf(on, g) \in Nat /\ n[g] \in Nat
  BY DEF PartOf, AnyItem
<1>8. IF PathBucket(g, l) = b
      THEN PartOf(d[b], g) + PartOf(on, g) <= PartOf(c[b], g) + PartOf(it, g)
      ELSE PartOf(on, g) <= PartOf(it, g)
  OBVIOUS
<1> HIDE DEF b
<1>9. Recorded(d, g) + PartOf(on, g) <= Recorded(c, g) + PartOf(it, g)
  <2>1. Recorded(c, g) = Share(c, g, 0) + Share(c, g, 1) + Share(c, g, 2) + Share(c, g, 3)
    BY DEF Recorded
  <2>2. Recorded(d, g) = Share(d, g, 0) + Share(d, g, 1) + Share(d, g, 2) + Share(d, g, 3)
    BY DEF Recorded
  <2>3. QED
    BY <1>5, <1>6, <1>7, <1>8, <2>1, <2>2 DEF Level
<1>10. Recorded(c, g) \in Nat /\ Recorded(d, g) \in Nat
  BY <1>5 DEF Recorded, Level
<1>11. QED
  BY <1>1, <1>3, <1>7, <1>9, <1>10

\* What happens in other trees is nothing to a CPU alone in its own.
LEMMA InsideElsewhere ==
  ASSUME NEW r \in Local, r.pkt \in Flow, NEW m, NEW n, Inside(r, cache, m),
         NEW d \in [Bucket -> AnyItem], cache \in [Bucket -> AnyItem],
         \A g \in Flow : Tree(g) = Tree(r.pkt) =>
           /\ n[g] = m[g]
           /\ \A l \in Level : d[PathBucket(g, l)] = cache[PathBucket(g, l)]
  PROVE  Inside(r, d, n)
<1> DEFINE b == PathBucket(r.pkt, r.level)
<1>1. r.level \in Level
  BY DEF Local
<1>2. b \in Bucket /\ d[b] = cache[b]
  BY <1>1, PathInArray
<1>3. ASSUME NEW g \in Flow, Tree(g) = Tree(r.pkt), NEW l \in Level
      PROVE  Before(d, r)[PathBucket(g, l)] = Before(cache, r)[PathBucket(g, l)]
  <2>1. PathBucket(g, l) \in Bucket /\ d[PathBucket(g, l)] = cache[PathBucket(g, l)]
    BY <1>3, PathInArray
  <2> HIDE DEF b
  <2>2. QED
    BY <1>2, <2>1 DEF Before, b
<1>4. Balanced(Before(d, r), r.item, Tree(r.pkt), n)
  <2>1. Balanced(Before(cache, r), r.item, Tree(r.pkt), m)
    BY DEF Inside
  <2>2. QED
    BY <1>3, <2>1, BalancedKept
<1>5. QED
  BY <1>2, <1>4 DEF Inside

\* A step of CPU p in its bucket keeps the invariant of every tree, if it keeps what
\* holds of p when p is alone.
LEMMA TreeStep ==
  ASSUME OVSInv, OVSInv', TreesInv, NEW p \in Cpu, Busy(p), NEW r,
         cpu' = [cpu EXCEPT ![p] = r], r.pc # "idle" => r.pkt = cpu[p].pkt,
         \A b \in Bucket : b # at(p) => cache'[b] = cache[b],
         UNCHANGED <<truth, raced>>,
         Inside(cpu[p], cache, truth) =>
           IF r.pc = "idle" THEN Balanced(cache', Empty, Tree(cpu[p].pkt), truth)
                            ELSE Inside(r, cache', truth)
  PROVE  TreesInv'
<1> SUFFICES ASSUME NEW f \in Flow, Tree(f) \notin raced  PROVE TreeInv(Tree(f))'
  BY DEF TreesInv
<1> DEFINE t == Tree(f)
<1>1. TreeInv(t)
  BY DEF TreesInv
<1> HIDE DEF t
<1>2. \A q \in Cpu : cpu'[q] = IF q = p THEN r ELSE cpu[q]
  BY DEF OVSInv
<1>3. \A q \in Cpu : In(q, t)' => In(q, t)
  BY <1>2 DEF In, Busy
<1>4. \A q, u \in Cpu : In(q, t)' /\ In(u, t)' => q = u
  BY <1>1, <1>3 DEF TreeInv
<1>5. CASE In(p, t)
  <2>1. Inside(cpu[p], cache, truth) /\ Tree(cpu[p].pkt) = t
    BY <1>1, <1>5 DEF TreeInv, In
  <2>2. ASSUME NEW q \in Cpu, In(q, t)'  PROVE Inside(cpu'[q], cache', truth')
    <3>1. q = p
      BY <1>1, <1>3, <1>5, <2>2 DEF TreeInv
    <3>2. r.pc # "idle" /\ cpu'[q] = r
      BY <1>2, <2>2, <3>1 DEF In, Busy
    <3>3. QED
      BY <2>1, <3>2
  <2>3. ASSUME \A q \in Cpu : ~In(q, t)'  PROVE Balanced(cache', Empty, t, truth')
    <3>1. r.pc = "idle"
      BY <1>2, <2>1, <2>3 DEF In, Busy
    <3>2. QED
      BY <2>1, <3>1
  <2>4. QED
    BY <1>4, <2>2, <2>3 DEF TreeInv, t
<1>6. CASE ~In(p, t)
  <2>1. cpu[p].pkt \in Flow /\ cpu[p].level \in Level /\ Tree(cpu[p].pkt) # t
    BY <1>6, InsideFacts DEF In
  <2>2. ASSUME NEW g \in Flow, Tree(g) = t, NEW l \in Level
        PROVE  cache'[PathBucket(g, l)] = cache[PathBucket(g, l)]
    <3>1. PathBucket(g, l) \in Bucket
      BY PathInArray
    <3>2. PathBucket(g, l) # at(p)
      BY <2>1, <2>2, TreesApart DEF at
    <3>3. QED
      BY <3>1, <3>2
  <2>3. cache \in [Bucket -> AnyItem] /\ cache' \in [Bucket -> AnyItem]
    BY DEF OVSInv, ArrayInv
  <2>4. ASSUME NEW q \in Cpu, In(q, t)'  PROVE Inside(cpu'[q], cache', truth')
    <3>1. In(q, t) /\ q # p
      BY <1>3, <1>6, <2>4
    <3>2. cpu'[q] = cpu[q] /\ Inside(cpu[q], cache, truth)
      BY <1>1, <1>2, <3>1 DEF TreeInv
    <3>3. cpu[q] \in Local /\ cpu[q].pkt \in Flow /\ Tree(cpu[q].pkt) = t
      BY <3>1, InsideFacts DEF In
    <3>4. QED
      BY <2>2, <2>3, <3>2, <3>3, InsideElsewhere
  <2>5. ASSUME \A q \in Cpu : ~In(q, t)'  PROVE Balanced(cache', Empty, t, truth')
    <3>1. \A q \in Cpu : ~In(q, t)
      BY <1>2, <1>6, <2>5 DEF In, Busy
    <3>2. Balanced(cache, Empty, t, truth)
      BY <1>1, <3>1 DEF TreeInv
    <3>3. QED
      BY <2>2, <3>2, BalancedKept
  <2>6. QED
    BY <1>4, <2>4, <2>5 DEF TreeInv, t
<1>7. QED
  BY <1>5, <1>6

\* A packet that finds its tree free enters with one count of its own flow; one that
\* does not makes a race of the tree.
LEMMA ReceiveTrees ==
  ASSUME OVSInv, OVSInv', TreesInv, NEW p \in Cpu, NEW f \in Flow, Receive(p, f)
  PROVE  TreesInv'
<1> DEFINE it == [key |-> f, count |-> 1, time |-> mycounter]
           r == [cpu[p] EXCEPT !.pc = "load_counter", !.pkt = f, !.item = it]
<1>1. cpu[p] \in Local /\ ~Busy(p)
  BY DEF OVSInv, Receive, At, Busy
<1>2. r.pc = "load_counter" /\ r.pkt = f /\ r.item = it
  BY <1>1 DEF Local
<1>3. \A q \in Cpu : cpu'[q] = IF q = p THEN r ELSE cpu[q]
  BY DEF OVSInv, Receive
<1>4. /\ cache' = cache /\ truth' = [truth EXCEPT ![f] = @ + 1]
      /\ raced' = raced \union {Tree(f) : q \in {q \in Cpu : Busy(q) /\ Tree(cpu[q].pkt) = Tree(f)}}
  BY DEF Receive
<1>5. /\ truth \in [Flow -> Nat] /\ cache \in [Bucket -> AnyItem] /\ r \in Local
  <2>1. r \in Local
    BY <1>3 DEF OVSInv
  <2>2. QED
    BY <2>1 DEF OVSInv, ArrayInv
<1> HIDE DEF r
<1> SUFFICES ASSUME NEW g \in Flow, Tree(g) \notin raced'  PROVE TreeInv(Tree(g))'
  BY DEF TreesInv
<1>6. TreeInv(Tree(g)) /\ Tree(g) \notin raced
  BY <1>4 DEF TreesInv
<1>7. CASE Tree(g) = Tree(f)
  <2>1. \A q \in Cpu : ~In(q, Tree(f))
    BY <1>4, <1>7 DEF In
  <2>2. \A q \in Cpu : In(q, Tree(f))' => q = p
    BY <1>3, <2>1 DEF In, Busy
  <2>3. In(p, Tree(f))'
    BY <1>2, <1>3 DEF In, Busy
  <2>4. Balanced(cache, Empty, Tree(f), truth)
    BY <1>6, <1>7, <2>1 DEF TreeInv
  <2>5. Balanced(cache, it, Tree(f), truth')
    <3> SUFFICES ASSUME NEW h \in Flow, Tree(h) = Tree(f)
                 PROVE  /\ Recorded(cache, h) + PartOf(it, h) <= truth'[h]
                        /\ \A l \in Level : Whole(cache[PathBucket(h, l)])
      BY DEF Balanced
    <3>1. /\ Recorded(cache, h) + PartOf(Empty, h) <= truth[h]
          /\ \A l \in Level : Whole(cache[PathBucket(h, l)])
      BY <2>4 DEF Balanced
    <3>2. PartOf(Empty, h) = 0 /\ PartOf(it, h) = IF h = f THEN 1 ELSE 0
      BY DEF PartOf, Empty
    <3>3. truth'[h] = IF h = f THEN truth[h] + 1 ELSE truth[h]
      BY <1>4, <1>5
    <3>4. Recorded(cache, h) \in Nat
      <4>1. \A l \in Level : Share(cache, h, l) \in Nat
        BY <1>5, PathInArray DEF Share, AnyItem
      <4>2. QED
        BY <4>1 DEF Recorded, Level
    <3>5. truth[h] \in Nat
      BY <1>5
    <3> HIDE DEF it
    <3>6. QED
      BY <3>1, <3>2, <3>3, <3>4, <3>5
  <2>6. Before(cache, r) = cache
    BY <1>2, <1>5 DEF Before, Was, Writing
  <2>7. Inside(r, cache, truth')
    BY <1>2, <2>5, <2>6 DEF Inside, Copies, Seen, Merging, Taking, Writing
  <2>8. QED
    BY <1>3, <1>4, <1>7, <2>2, <2>3, <2>7 DEF TreeInv
<1>8. CASE Tree(g) # Tree(f)
  <2>1. \A q \in Cpu : In(q, Tree(g))' <=> In(q, Tree(g))
    BY <1>1, <1>2, <1>3, <1>8 DEF In, Busy
  <2>2. \A h \in Flow : Tree(h) = Tree(g) => truth'[h] = truth[h]
    BY <1>4, <1>5, <1>8
  <2>3. ASSUME NEW q \in Cpu, In(q, Tree(g))'  PROVE Inside(cpu'[q], cache', truth')
    <3>1. In(q, Tree(g)) /\ q # p
      BY <1>1, <2>1, <2>3 DEF In
    <3>2. cpu'[q] = cpu[q] /\ Inside(cpu[q], cache, truth)
      BY <1>3, <1>6, <3>1 DEF TreeInv
    <3>3. cpu[q] \in Local /\ cpu[q].pkt \in Flow /\ Tree(cpu[q].pkt) = Tree(g)
      BY <3>1, InsideFacts DEF In
    <3>4. QED
      BY <1>4, <1>5, <2>2, <3>2, <3>3, InsideElsewhere
  <2>4. ASSUME \A q \in Cpu : ~In(q, Tree(g))'  PROVE Balanced(cache', Empty, Tree(g), truth')
    <3>1. Balanced(cache, Empty, Tree(g), truth)
      BY <1>6, <2>1, <2>4 DEF TreeInv
    <3>2. QED
      BY <1>4, <2>2, <3>1, BalancedKept
  <2>5. QED
    BY <1>6, <2>1, <2>3, <2>4 DEF TreeInv
<1>9. QED
  BY <1>7, <1>8

\* The bucket of a CPU alone in its tree is whole, as it was before the exchange.
LEMMA WasWhole ==
  ASSUME OVSInv, NEW p \in Cpu, Busy(p), Inside(cpu[p], cache, truth)
  PROVE  Whole(Was(cpu[p], cache[at(p)]))
<1>1. /\ cpu[p].pkt \in Flow /\ cpu[p].level \in Level
      /\ at(p) = PathBucket(cpu[p].pkt, cpu[p].level) /\ at(p) \in Bucket
      /\ cache \in [Bucket -> AnyItem]
  BY InsideFacts DEF at, OVSInv, ArrayInv
<1>2. Whole(Before(cache, cpu[p])[at(p)])
  BY <1>1 DEF Inside, Balanced
<1>3. QED
  BY <1>1, <1>2 DEF Before

\* A step within a level that leaves the array of before the exchange as it was
\* keeps the invariant, if the copies it makes are true.
LEMMA WithinLevel ==
  ASSUME OVSInv, OVSInv', TreesInv, NEW p \in Cpu, Busy(p), NEW s,
         cpu' = [cpu EXCEPT ![p] = s], s.pc # "idle",
         s.pkt = cpu[p].pkt, s.level = cpu[p].level, s.item = cpu[p].item,
         \A b \in Bucket : b # at(p) => cache'[b] = cache[b],
         UNCHANGED <<truth, raced>>,
         Inside(cpu[p], cache, truth) =>
           /\ Was(s, cache'[at(p)]).key = Was(cpu[p], cache[at(p)]).key
           /\ Was(s, cache'[at(p)]).count = Was(cpu[p], cache[at(p)]).count
           /\ Copies(s, cache'[at(p)])
  PROVE  TreesInv'
<1>1. /\ cpu[p].pkt \in Flow /\ cpu[p].level \in Level
      /\ at(p) = PathBucket(cpu[p].pkt, cpu[p].level) /\ at(p) \in Bucket
      /\ cache \in [Bucket -> AnyItem] /\ cache' \in [Bucket -> AnyItem]
  BY InsideFacts DEF at, OVSInv, ArrayInv
<1>2. ASSUME Inside(cpu[p], cache, truth)  PROVE Inside(s, cache', truth)
  <2> DEFINE c == Before(cache, cpu[p])
             d == Before(cache', s)
  <2>1. \A b \in Bucket : d[b].key = c[b].key /\ d[b].count = c[b].count
    <3>1. \A b \in Bucket : d[b] = IF b = at(p) THEN Was(s, cache'[b]) ELSE cache'[b]
      BY <1>1 DEF Before
    <3>2. \A b \in Bucket : c[b] = IF b = at(p) THEN Was(cpu[p], cache[b]) ELSE cache[b]
      BY <1>1 DEF Before
    <3> HIDE DEF c, d
    <3>3. QED
      BY <1>2, <3>1, <3>2
  <2>2. Balanced(c, cpu[p].item, Tree(cpu[p].pkt), truth)
    BY <1>2 DEF Inside
  <2> HIDE DEF c, d
  <2>3. Balanced(d, cpu[p].item, Tree(cpu[p].pkt), truth)
    BY <2>1, <2>2, PathInArray, BalancedKept
  <2>4. QED
    BY <1>1, <1>2, <2>3 DEF Inside, d
<1>3. QED
  BY <1>2, TreeStep

\* So does every step that only reads, or counts mycounter up.
LEMMA PrivateTrees ==
  ASSUME OVSInv, OVSInv', TreesInv, NEW p \in Cpu,
         \/ LoadCounter(p) \/ StoreCounter(p) \/ Look(p) \/ Compare(p)
         \/ CompareStamp(p) \/ LoadCount(p)
         \/ TakeKey(p) \/ TakeCount(p) \/ TakeStamp(p)
  PROVE  TreesInv'
<1> DEFINE r == cpu[p]
           x == cache[at(p)]
<1>1. Busy(p)
  BY DEF Busy, At, LoadCounter, StoreCounter, Look, Compare, CompareStamp, LoadCount,
         TakeKey, TakeCount, TakeStamp
<1>2. r \in Local /\ r.tmp \in AnyItem /\ x \in AnyItem /\ r.item.key # NoKey
  BY <1>1, InsideFacts DEF Local
<1>3. UNCHANGED <<cache, truth, raced>>
  BY DEF Private, history, LoadCounter, StoreCounter, Look, Compare, CompareStamp, LoadCount,
         TakeKey, TakeCount, TakeStamp
<1>4. Inside(r, cache, truth) => Copies(r, x) /\ Whole(Was(r, x)) /\ r.item.key \in Flow
  BY <1>1, WasWhole DEF Inside, at
<1>5. SUFFICES \E s : /\ cpu' = [cpu EXCEPT ![p] = s] /\ s.pc # "idle"
                      /\ s.pkt = r.pkt /\ s.level = r.level /\ s.item = r.item
                      /\ Copies(r, x) /\ Whole(Was(r, x)) /\ r.item.key \in Flow =>
                           /\ Was(s, x).key = Was(r, x).key
                           /\ Was(s, x).count = Was(r, x).count
                           /\ Copies(s, x)
  BY <1>1, <1>3, <1>4, WithinLevel
<1> HIDE DEF x
<1>6. CASE LoadCounter(p)
  <2> DEFINE s == [r EXCEPT !.pc = "store_counter", !.reg = mycounter]
  <2>1. /\ r.pc = "load_counter" /\ cpu' = [cpu EXCEPT ![p] = s]
        /\ s.pkt = r.pkt /\ s.level = r.level /\ s.item = r.item
        /\ s.pc = "store_counter"
    BY <1>2, <1>6 DEF LoadCounter, At, Local
  <2> HIDE DEF s, r
  <2>2. Copies(r, x) /\ Whole(Was(r, x)) /\ r.item.key \in Flow =>
          /\ Was(s, x).key = Was(r, x).key /\ Was(s, x).count = Was(r, x).count
          /\ Copies(s, x)
    BY <2>1 DEF Was, Whole, Empty, Copies, Seen, Merging, Taking, Writing
  <2>3. QED
    BY <2>1, <2>2
<1>7. CASE StoreCounter(p)
  <2> DEFINE s == [r EXCEPT !.pc = "look"]
  <2>1. /\ r.pc = "store_counter" /\ cpu' = [cpu EXCEPT ![p] = s]
        /\ s.pkt = r.pkt /\ s.level = r.level /\ s.item = r.item
        /\ s.pc = "look"
    BY <1>2, <1>7 DEF StoreCounter, At, Local, Goto
  <2> HIDE DEF s, r
  <2>2. Copies(r, x) /\ Whole(Was(r, x)) /\ r.item.key \in Flow =>
          /\ Was(s, x).key = Was(r, x).key /\ Was(s, x).count = Was(r, x).count
          /\ Copies(s, x)
    BY <2>1 DEF Was, Whole, Empty, Copies, Seen, Merging, Taking, Writing
  <2>3. QED
    BY <2>1, <2>2
<1>8. CASE Look(p)
  <2> DEFINE s == [r EXCEPT !.pc = IF Vacant(cache, at(p)) THEN "put_block" ELSE "compare",
                            !.kicks = FALSE]
  <2>1. /\ r.pc = "look" /\ cpu' = [cpu EXCEPT ![p] = s]
        /\ s.pkt = r.pkt /\ s.level = r.level /\ s.item = r.item
        /\ s.pc = (IF x.count = 0 THEN "put_block" ELSE "compare") /\ ~s.kicks
    BY <1>2, <1>8 DEF Look, At, Local, Vacant, x
  <2> HIDE DEF s, r
  <2>2. Copies(r, x) /\ Whole(Was(r, x)) /\ r.item.key \in Flow =>
          /\ Was(s, x).key = Was(r, x).key /\ Was(s, x).count = Was(r, x).count
          /\ Copies(s, x)
    BY <2>1 DEF Was, Whole, Empty, Copies, Seen, Merging, Taking, Writing
  <2>3. QED
    BY <2>1, <2>2
<1>9. CASE Compare(p)
  <2>1. PICK l \in {"compare_stamp", "judge"} :
               /\ cpu' = [cpu EXCEPT ![p].pc = l]
               /\ l = "compare_stamp" => x.key = r.item.key \/ Torn \in {x.key, r.item.key}
    BY <1>9 DEF Compare, Goto, x
  <2> DEFINE s == [r EXCEPT !.pc = l]
  <2>2. /\ r.pc = "compare" /\ cpu' = [cpu EXCEPT ![p] = s]
        /\ s.pc = l /\ s.kicks = r.kicks /\ s.tmp = r.tmp
        /\ s.pkt = r.pkt /\ s.level = r.level /\ s.item = r.item
    BY <1>2, <1>9, <2>1 DEF Compare, At, Local
  <2> HIDE DEF s, r
  <2>3. Copies(r, x) /\ Whole(Was(r, x)) /\ r.item.key \in Flow =>
          Was(s, x) = Was(r, x) /\ Copies(s, x)
    BY <2>1, <2>2 DEF Was, Whole, Copies, Seen, Merging, Taking, Writing
  <2>4. QED
    BY <2>1, <2>2, <2>3
<1>10. CASE CompareStamp(p)
  <2> DEFINE s == [r EXCEPT !.pc = IF r.item.time > cache[at(p)].time
                                   THEN "store_stamp" ELSE "load_count"]
  <2>1. /\ r.pc = "compare_stamp" /\ cpu' = [cpu EXCEPT ![p] = s]
        /\ s.pkt = r.pkt /\ s.level = r.level /\ s.item = r.item
        /\ s.pc \in {"store_stamp", "load_count"}
    BY <1>2, <1>10 DEF CompareStamp, At, Local, Goto
  <2> HIDE DEF s, r
  <2>2. Copies(r, x) /\ Whole(Was(r, x)) /\ r.item.key \in Flow =>
          /\ Was(s, x).key = Was(r, x).key /\ Was(s, x).count = Was(r, x).count
          /\ Copies(s, x)
    BY <2>1 DEF Was, Whole, Empty, Copies, Seen, Merging, Taking, Writing
  <2>3. QED
    BY <2>1, <2>2
<1>11. CASE LoadCount(p)
  <2> DEFINE s == [r EXCEPT !.pc = "store_count", !.reg = x.count]
  <2>1. /\ r.pc = "load_count" /\ cpu' = [cpu EXCEPT ![p] = s]
        /\ s.pkt = r.pkt /\ s.level = r.level /\ s.item = r.item
        /\ s.pc = "store_count" /\ s.reg = x.count
    BY <1>2, <1>11 DEF LoadCount, At, Local, x
  <2> HIDE DEF s, r
  <2>2. Copies(r, x) /\ Whole(Was(r, x)) /\ r.item.key \in Flow =>
          /\ Was(s, x).key = Was(r, x).key /\ Was(s, x).count = Was(r, x).count
          /\ Copies(s, x)
    BY <2>1 DEF Was, Whole, Empty, Copies, Seen, Merging, Taking, Writing
  <2>3. QED
    BY <2>1, <2>2
<1>12. CASE TakeKey(p)
  <2> DEFINE s == [r EXCEPT !.pc = "take_count", !.kicks = TRUE, !.tmp.key = x.key]
  <2>1. /\ r.pc = "take_key" /\ cpu' = [cpu EXCEPT ![p] = s]
        /\ s.pkt = r.pkt /\ s.level = r.level /\ s.item = r.item
        /\ s.pc = "take_count" /\ s.kicks
        /\ s.tmp = [r.tmp EXCEPT !.key = x.key]
    BY <1>2, <1>12 DEF TakeKey, At, Local, x
  <2> HIDE DEF s, r
  <2>2. s.tmp.key = x.key
    BY <1>2, <2>1 DEF AnyItem
  <2>3. Copies(r, x) /\ Whole(Was(r, x)) /\ r.item.key \in Flow =>
          /\ Was(s, x).key = Was(r, x).key /\ Was(s, x).count = Was(r, x).count
          /\ Copies(s, x)
    BY <2>1, <2>2 DEF Was, Whole, Empty, Copies, Seen, Merging, Taking, Writing
  <2>4. QED
    BY <2>1, <2>3
<1>13. CASE TakeCount(p)
  <2> DEFINE s == [r EXCEPT !.pc = "take_stamp", !.tmp.count = x.count]
  <2>1. /\ r.pc = "take_count" /\ cpu' = [cpu EXCEPT ![p] = s]
        /\ s.pkt = r.pkt /\ s.level = r.level /\ s.item = r.item
        /\ s.pc = "take_stamp" /\ s.kicks = r.kicks
        /\ s.tmp = [r.tmp EXCEPT !.count = x.count]
    BY <1>2, <1>13 DEF TakeCount, At, Local, x
  <2> HIDE DEF s, r
  <2>2. s.tmp.key = r.tmp.key /\ s.tmp.count = x.count
    BY <1>2, <2>1 DEF AnyItem
  <2>3. Copies(r, x) /\ Whole(Was(r, x)) /\ r.item.key \in Flow =>
          /\ Was(s, x).key = Was(r, x).key /\ Was(s, x).count = Was(r, x).count
          /\ Copies(s, x)
    BY <2>1, <2>2 DEF Was, Whole, Empty, Copies, Seen, Merging, Taking, Writing
  <2>4. QED
    BY <2>1, <2>3
<1>14. CASE TakeStamp(p)
  <2> DEFINE s == [r EXCEPT !.pc = "put_block", !.tmp.time = x.time]
  <2>1. /\ r.pc = "take_stamp" /\ cpu' = [cpu EXCEPT ![p] = s]
        /\ s.pkt = r.pkt /\ s.level = r.level /\ s.item = r.item
        /\ s.pc = "put_block" /\ s.kicks = r.kicks
        /\ s.tmp = [r.tmp EXCEPT !.time = x.time]
    BY <1>2, <1>14 DEF TakeStamp, At, Local, x
  <2> HIDE DEF s, r
  <2>2. s.tmp.key = r.tmp.key /\ s.tmp.count = r.tmp.count
    BY <1>2, <2>1 DEF AnyItem
  <2>3. Copies(r, x) /\ Whole(Was(r, x)) /\ r.item.key \in Flow =>
          /\ Was(s, x).key = Was(r, x).key /\ Was(s, x).count = Was(r, x).count
          /\ Copies(s, x)
    BY <2>1, <2>2 DEF Was, Whole, Empty, Copies, Seen, Merging, Taking, Writing
  <2>4. QED
    BY <2>1, <2>3
<1>15. QED
  BY <1>6, <1>7, <1>8, <1>9, <1>10, <1>11, <1>12, <1>13, <1>14

\* So does every store before the last of an exchange or a placing, and the store of
\* a stamp: key and count of before the exchange are in tmp, or there were none.
LEMMA StoreTrees ==
  ASSUME OVSInv, OVSInv', TreesInv, NEW p \in Cpu,
         StoreStamp(p) \/ PutBlock(p) \/ PutKey(p) \/ PutCount(p)
  PROVE  TreesInv'
<1> DEFINE r == cpu[p]
           x == cache[at(p)]
<1>1. Busy(p)
  BY DEF Busy, At, StoreStamp, PutBlock, PutKey, PutCount
<1>2. /\ r \in Local /\ x \in AnyItem /\ at(p) \in Bucket /\ cache \in [Bucket -> AnyItem]
  BY <1>1, InsideFacts DEF OVSInv, ArrayInv
<1>3. Inside(r, cache, truth) => Copies(r, x)
  BY DEF Inside, at
<1>4. SUFFICES \E s, y : /\ cpu' = [cpu EXCEPT ![p] = s] /\ s.pc # "idle"
                         /\ s.pkt = r.pkt /\ s.level = r.level /\ s.item = r.item
                         /\ Store(p, y)
                         /\ Copies(r, x) => /\ Was(s, y).key = Was(r, x).key
                                            /\ Was(s, y).count = Was(r, x).count
                                            /\ Copies(s, y)
  <2>1. PICK s, y : /\ cpu' = [cpu EXCEPT ![p] = s] /\ s.pc # "idle"
                    /\ s.pkt = r.pkt /\ s.level = r.level /\ s.item = r.item
                    /\ Store(p, y)
                    /\ Copies(r, x) => /\ Was(s, y).key = Was(r, x).key
                                       /\ Was(s, y).count = Was(r, x).count
                                       /\ Copies(s, y)
    BY <1>4
  <2>2. /\ cache'[at(p)] = y /\ \A b \in Bucket : b # at(p) => cache'[b] = cache[b]
        /\ UNCHANGED <<truth, raced>>
    BY <1>2, <2>1 DEF Store, history
  <2> HIDE DEF r
  <2>3. QED
    BY <1>1, <1>3, <2>1, <2>2, WithinLevel DEF r
<1> HIDE DEF x
<1>5. CASE StoreStamp(p)
  <2> DEFINE s == [r EXCEPT !.pc = "load_count"]
             y == [x EXCEPT !.time = r.item.time]
  <2>1. /\ r.pc = "store_stamp" /\ cpu' = [cpu EXCEPT ![p] = s] /\ Store(p, y)
        /\ s.pkt = r.pkt /\ s.level = r.level /\ s.item = r.item /\ s.pc = "load_count"
        /\ y.key = x.key /\ y.count = x.count
    BY <1>2, <1>5 DEF StoreStamp, At, Goto, Local, AnyItem, x
  <2> HIDE DEF s, y, r
  <2>2. Copies(r, x) =>
          Was(s, y).key = Was(r, x).key /\ Was(s, y).count = Was(r, x).count /\ Copies(s, y)
    BY <2>1 DEF Was, Copies, Seen, Merging, Taking, Writing
  <2>3. QED
    BY <2>1, <2>2
<1>6. CASE PutBlock(p)
  <2> DEFINE s == [r EXCEPT !.pc = "put_key"]
             y == [x EXCEPT !.key = Torn]
  <2>1. /\ r.pc = "put_block" /\ cpu' = [cpu EXCEPT ![p] = s] /\ Store(p, y)
        /\ s.pkt = r.pkt /\ s.level = r.level /\ s.item = r.item /\ s.pc = "put_key"
        /\ s.kicks = r.kicks /\ s.tmp = r.tmp
    BY <1>2, <1>6 DEF PutBlock, At, Goto, Local, x
  <2> HIDE DEF s, y, r
  <2>2. Copies(r, x) => Was(s, y) = Was(r, x) /\ Copies(s, y)
    BY <2>1 DEF Was, Copies, Seen, Merging, Taking, Writing
  <2>3. QED
    BY <2>1, <2>2
<1>7. CASE PutKey(p)
  <2> DEFINE s == [r EXCEPT !.pc = "put_count"]
             y == [x EXCEPT !.key = r.item.key]
  <2>1. /\ r.pc = "put_key" /\ cpu' = [cpu EXCEPT ![p] = s] /\ Store(p, y)
        /\ s.pkt = r.pkt /\ s.level = r.level /\ s.item = r.item /\ s.pc = "put_count"
        /\ s.kicks = r.kicks /\ s.tmp = r.tmp /\ y.key = r.item.key
    BY <1>2, <1>7 DEF PutKey, At, Goto, Local, AnyItem, x
  <2> HIDE DEF s, y, r
  <2>2. Copies(r, x) => Was(s, y) = Was(r, x) /\ Copies(s, y)
    BY <2>1 DEF Was, Copies, Seen, Merging, Taking, Writing
  <2>3. QED
    BY <2>1, <2>2
<1>8. CASE PutCount(p)
  <2> DEFINE s == [r EXCEPT !.pc = "put_stamp"]
             y == [x EXCEPT !.count = r.item.count]
  <2>1. /\ r.pc = "put_count" /\ cpu' = [cpu EXCEPT ![p] = s] /\ Store(p, y)
        /\ s.pkt = r.pkt /\ s.level = r.level /\ s.item = r.item /\ s.pc = "put_stamp"
        /\ s.kicks = r.kicks /\ s.tmp = r.tmp /\ y.key = x.key /\ y.count = r.item.count
    BY <1>2, <1>8 DEF PutCount, At, Goto, Local, AnyItem, x
  <2> HIDE DEF s, y, r
  <2>2. Copies(r, x) => Was(s, y) = Was(r, x) /\ Copies(s, y)
    BY <2>1 DEF Was, Copies, Seen, Merging, Taking, Writing
  <2>3. QED
    BY <2>1, <2>2
<1>9. QED
  BY <1>5, <1>6, <1>7, <1>8

\* A step that ends a level, with an item on in hand to go on with or nothing, keeps
\* the invariant if bucket and hand together hold no more of any flow than before.
LEMMA LevelEnds ==
  ASSUME OVSInv, OVSInv', TreesInv, NEW p \in Cpu, Busy(p), NEW s, NEW on \in AnyItem,
         cpu' = [cpu EXCEPT ![p] = s],
         \/ s = Idle /\ on = Empty
         \/ s.pc = "look" /\ s.pkt = cpu[p].pkt /\ s.item = on,
         \A b \in Bucket : b # at(p) => cache'[b] = cache[b],
         UNCHANGED <<truth, raced>>,
         Inside(cpu[p], cache, truth) =>
           /\ Whole(cache'[at(p)])
           /\ \A g \in Flow :
                IF PathBucket(g, cpu[p].level) = at(p)
                THEN PartOf(cache'[at(p)], g) + PartOf(on, g)
                       <= PartOf(Was(cpu[p], cache[at(p)]), g) + PartOf(cpu[p].item, g)
                ELSE PartOf(on, g) <= PartOf(cpu[p].item, g)
           /\ s.pc = "look" => on.key \in Flow /\ on.count > 0
  PROVE  TreesInv'
<1> DEFINE r == cpu[p]
           b == at(p)
           c == Before(cache, r)
<1>1. /\ r \in Local /\ r.pkt \in Flow /\ r.level \in Level /\ r.item \in AnyItem
      /\ b = PathBucket(r.pkt, r.level) /\ b \in Bucket
      /\ cache \in [Bucket -> AnyItem] /\ cache' \in [Bucket -> AnyItem]
      /\ truth \in [Flow -> Nat]
  BY InsideFacts DEF at, OVSInv, ArrayInv
<1>2. Was(r, cache[b]) \in AnyItem
  BY <1>1 DEF Was, Local, Empty, AnyItem, AnyKey
<1>3. c \in [Bucket -> AnyItem] /\ c[b] = Was(r, cache[b]) /\ \A e \in Bucket : e # b => c[e] = cache[e]
  BY <1>1, <1>2 DEF Before
<1> HIDE DEF c
<1>4. ASSUME Inside(r, cache, truth)  PROVE Balanced(cache', on, Tree(r.pkt), truth)
  <2>1. Balanced(c, r.item, Tree(r.pkt), truth)
    BY <1>4 DEF Inside, c
  <2>2. \A e \in Bucket : e # b => cache'[e] = c[e]
    BY <1>3
  <2>3. Whole(cache'[b])
    BY <1>4
  <2> DEFINE f == r.pkt
             l == r.level
  <2>4. f \in Flow /\ l \in Level /\ b = PathBucket(f, l) /\ Balanced(c, r.item, Tree(f), truth)
    BY <1>1, <2>1
  <2>5. \A g \in Flow :
          IF PathBucket(g, l) = b
          THEN PartOf(cache'[b], g) + PartOf(on, g) <= PartOf(c[b], g) + PartOf(r.item, g)
          ELSE PartOf(on, g) <= PartOf(r.item, g)
    BY <1>3, <1>4
  <2>6. r.item \in AnyItem /\ cache' \in [Bucket -> AnyItem] /\ truth \in [Flow -> Nat]
    BY <1>1
  <2> HIDE DEF r, b, f, l
  <2>7. Balanced(cache', on, Tree(f), truth)
    BY ONLY <1>3, <2>2, <2>3, <2>4, <2>5, <2>6, on \in AnyItem, BalancedMoved
  <2>8. QED
    BY <2>7 DEF f
<1>5. CASE s = Idle /\ on = Empty
  <2>1. s.pc = "idle"
    BY <1>5 DEF Idle
  <2>2. Inside(cpu[p], cache, truth) => Balanced(cache', Empty, Tree(cpu[p].pkt), truth)
    BY <1>4, <1>5
  <2>3. QED
    BY <2>1, <2>2, TreeStep
<1>6. CASE s.pc = "look" /\ s.pkt = r.pkt /\ s.item = on
  <2>1. ASSUME Inside(r, cache, truth)  PROVE Inside(s, cache', truth)
    <3>1. on.key \in Flow /\ on.count > 0
      BY <1>6, <2>1
    <3>2. Before(cache', s) = cache'
      BY <1>1, <1>6 DEF Before, Was, Writing
    <3> HIDE DEF r
    <3>3. QED
      BY <1>4, <1>6, <2>1, <3>1, <3>2 DEF Inside, Copies, Seen, Merging, Taking, Writing
  <2>2. QED
    BY <1>6, <2>1, TreeStep
<1>7. QED
  BY <1>5, <1>6

\* Leaving a resident, whether for the next level or for good, keeps it; so does
\* deciding for the exchange.
LEMMA JudgeTrees ==
  ASSUME OVSInv, OVSInv', TreesInv, NEW p \in Cpu, Judge(p)
  PROVE  TreesInv'
<1> DEFINE r == cpu[p]
           x == cache[at(p)]
<1>1. Busy(p) /\ r.pc = "judge"
  BY DEF Busy, At, Judge
<1>2. r \in Local /\ r.item \in AnyItem /\ x \in AnyItem /\ r.level \in Level
  BY <1>1, InsideFacts
<1>3. UNCHANGED <<cache, truth, raced>>
  BY DEF Judge, Private, history
<1>4. Was(r, x) = x
  BY <1>1 DEF Was, Writing
<1>5. Inside(r, cache, truth) => Copies(r, x) /\ Whole(x) /\ r.item.key \in Flow /\ r.item.count > 0
  BY <1>1, <1>4, WasWhole DEF Inside, at
<1>6. \A g \in Flow : /\ PartOf(x, g) \in Nat /\ PartOf(r.item, g) \in Nat
                      /\ PartOf(Empty, g) = 0
  BY <1>2 DEF PartOf, AnyItem, Empty
<1>7. Goto(p, "take_key") \/ Return(p) \/ (r.level < 2 /\ Descend(p, r.item))
  BY DEF Judge
<1>8. CASE Goto(p, "take_key")
  <2> DEFINE s == [r EXCEPT !.pc = "take_key"]
  <2>1. /\ cpu' = [cpu EXCEPT ![p] = s] /\ s.pc = "take_key"
        /\ s.pkt = r.pkt /\ s.level = r.level /\ s.item = r.item
    BY <1>2, <1>8 DEF Goto, Local
  <2> HIDE DEF s, r, x
  <2>2. Copies(r, x) => Was(s, x) = x /\ Copies(s, x)
    BY <1>1, <2>1 DEF Was, Copies, Seen, Merging, Taking, Writing
  <2>3. QED
    BY <1>1, <1>3, <1>4, <1>5, <2>1, <2>2, WithinLevel DEF r, x
<1>9. CASE Return(p)
  <2>1. cpu' = [cpu EXCEPT ![p] = Idle] /\ Idle.pc # "look" /\ Empty \in AnyItem
    BY <1>9 DEF Return, Idle, Empty, AnyItem, AnyKey
  <2>2. \A g \in Flow : PartOf(x, g) + PartOf(Empty, g) <= PartOf(x, g) + PartOf(r.item, g)
                        /\ PartOf(Empty, g) <= PartOf(r.item, g)
    BY <1>6
  <2>3. QED
    BY <1>1, <1>3, <1>4, <1>5, <2>1, <2>2, LevelEnds
<1>10. CASE r.level < 2 /\ Descend(p, r.item)
  <2> DEFINE s == [r EXCEPT !.pc = "look", !.level = @ + 1, !.item = r.item]
  <2>1. cpu' = [cpu EXCEPT ![p] = s] /\ s.pc = "look" /\ s.pkt = r.pkt /\ s.item = r.item
    BY <1>2, <1>10 DEF Descend, Level, Local
  <2> HIDE DEF s
  <2>2. Inside(r, cache, truth) =>
          /\ Whole(cache'[at(p)])
          /\ \A g \in Flow :
               IF PathBucket(g, r.level) = at(p)
               THEN PartOf(cache'[at(p)], g) + PartOf(r.item, g)
                      <= PartOf(Was(r, x), g) + PartOf(r.item, g)
               ELSE PartOf(r.item, g) <= PartOf(r.item, g)
          /\ r.item.key \in Flow /\ r.item.count > 0
    BY <1>3, <1>4, <1>5, <1>6
  <2>3. QED
    BY <1>1, <1>2, <1>3, <2>1, <2>2, LevelEnds
<1>11. QED
  BY <1>7, <1>8, <1>9, <1>10

\* A merge adds to the resident what is in hand, or a part of it.
LEMMA StoreCountTrees ==
  ASSUME OVSInv, OVSInv', TreesInv, NEW p \in Cpu, StoreCount(p)
  PROVE  TreesInv'
<1> DEFINE r == cpu[p]
           x == cache[at(p)]
           k == IF r.level = 3 THEN r.item.count ELSE 1
           y == [x EXCEPT !.count = r.reg + k]
<1>1. Busy(p) /\ r.pc = "store_count"
  BY DEF Busy, At, StoreCount
<1>2. /\ r \in Local /\ r.item \in AnyItem /\ x \in AnyItem /\ at(p) \in Bucket
      /\ cache \in [Bucket -> AnyItem]
  BY <1>1, InsideFacts DEF OVSInv, ArrayInv
<1>3. /\ cache'[at(p)] = y /\ \A b \in Bucket : b # at(p) => cache'[b] = cache[b]
      /\ UNCHANGED <<truth, raced>>
  BY <1>2 DEF StoreCount, Store, history
<1>4. Was(r, x) = x
  BY <1>1 DEF Was, Writing
<1>5. cpu' = [cpu EXCEPT ![p] = Idle] /\ Idle.pc # "look" /\ Empty \in AnyItem
  BY DEF StoreCount, Return, Idle, Empty, AnyItem, AnyKey
<1>6. y.key = x.key /\ y.count = r.reg + k
  BY <1>2 DEF AnyItem
<1>7. ASSUME Inside(r, cache, truth)
      PROVE  /\ Whole(y)
             /\ \A g \in Flow :
                  /\ PartOf(y, g) + PartOf(Empty, g) <= PartOf(x, g) + PartOf(r.item, g)
                  /\ PartOf(Empty, g) <= PartOf(r.item, g)
  <2>1. Copies(r, x) /\ Whole(x) /\ r.item.key \in Flow /\ r.item.count > 0
    BY <1>1, <1>4, <1>7, WasWhole DEF Inside, at
  <2>2. x.key = r.item.key /\ r.reg = x.count /\ x.count # 0
    BY <1>1, <2>1 DEF Copies, Seen, Merging
  <2>3. x.count \in Nat /\ r.item.count \in Nat /\ k \in Nat /\ k <= r.item.count
    BY <1>2, <2>1 DEF AnyItem
  <2> HIDE DEF x, y, r, k
  <2>4. Whole(y)
    BY <1>6, <2>1, <2>2, <2>3 DEF Whole
  <2>5. \A g \in Flow : PartOf(Empty, g) = 0
    BY DEF PartOf, Empty
  <2>6. QED
    BY <1>6, <2>2, <2>3, <2>4, <2>5 DEF PartOf
<1> HIDE DEF y
<1>8. QED
  BY <1>1, <1>3, <1>4, <1>5, <1>7, LevelEnds

\* The last store of a placing or an exchange: what was in hand is in the bucket, what
\* was there before is in hand.
LEMMA PutStampTrees ==
  ASSUME OVSInv, OVSInv', TreesInv, NEW p \in Cpu, PutStamp(p)
  PROVE  TreesInv'
<1> DEFINE r == cpu[p]
           x == cache[at(p)]
           y == [x EXCEPT !.time = r.item.time]
           w == Was(r, x)
<1>1. Busy(p) /\ r.pc = "put_stamp"
  BY DEF Busy, At, PutStamp
<1>2. /\ r \in Local /\ r.item \in AnyItem /\ r.tmp \in AnyItem /\ x \in AnyItem
      /\ r.level \in Level /\ at(p) = PathBucket(r.pkt, r.level) /\ at(p) \in Bucket
      /\ cache \in [Bucket -> AnyItem] /\ LocalInv(r, cache)
  BY <1>1, InsideFacts DEF OVSInv, ArrayInv, Local, at
<1>3. /\ cache'[at(p)] = y /\ \A b \in Bucket : b # at(p) => cache'[b] = cache[b]
      /\ UNCHANGED <<truth, raced>>
  BY <1>2 DEF PutStamp, Store, history
<1>4. w = IF r.kicks THEN r.tmp ELSE Empty
  BY <1>1 DEF Was, Writing
<1>5. y.key = x.key /\ y.count = x.count
  BY <1>2 DEF AnyItem
<1>6. \A g \in Flow : /\ PartOf(w, g) \in Nat /\ PartOf(r.item, g) \in Nat
                      /\ PartOf(Empty, g) = 0
  BY <1>2, <1>4 DEF PartOf, AnyItem, Empty
<1>7. Inside(r, cache, truth) => Copies(r, x) /\ Whole(w) /\ r.item.key \in Flow /\ r.item.count > 0
  BY <1>1, WasWhole DEF Inside, at
<1> HIDE DEF y, w
<1>8. ASSUME Inside(r, cache, truth)
      PROVE  Whole(y) /\ \A g \in Flow : PartOf(y, g) = PartOf(r.item, g)
  <2>1. x.key = r.item.key /\ x.count = r.item.count
    BY <1>1, <1>7, <1>8 DEF Copies
  <2>2. r.item.key # NoKey /\ r.item.key # Torn /\ r.item.count # 0
    BY <1>7, <1>8, FlowAssumption
  <2> HIDE DEF r, x
  <2>3. QED
    BY <1>5, <2>1, <2>2 DEF Whole, PartOf
<1>9. CASE r.kicks /\ r.level < 3
  <2> DEFINE s == [r EXCEPT !.pc = "look", !.level = @ + 1, !.item = r.tmp]
  <2>1. cpu' = [cpu EXCEPT ![p] = s] /\ s.pc = "look" /\ s.pkt = r.pkt /\ s.item = r.tmp
    BY <1>2, <1>9 DEF PutStamp, Descend, Local
  <2>2. Fits(r.tmp.key, r.pkt, r.level) /\ w = r.tmp
    BY <1>1, <1>2, <1>4, <1>9 DEF LocalInv, Taken
  <2>3. \A g \in Flow : PathBucket(g, r.level) # at(p) => PartOf(r.tmp, g) = 0
    BY <1>2, <2>2 DEF Fits, PartOf
  <2>4. ASSUME Inside(r, cache, truth)  PROVE r.tmp.key \in Flow /\ r.tmp.count > 0
    <3>1. r.tmp.count # 0
      BY <1>1, <1>7, <1>9, <2>4 DEF Copies, Writing
    <3>2. Whole(r.tmp)
      BY <1>7, <2>2, <2>4
    <3>3. QED
      BY <1>2, <3>1, <3>2 DEF Whole, AnyItem, AnyKey
  <2> HIDE DEF s
  <2>5. Inside(r, cache, truth) =>
          /\ Whole(y)
          /\ \A g \in Flow :
               IF PathBucket(g, r.level) = at(p)
               THEN PartOf(y, g) + PartOf(r.tmp, g) <= PartOf(w, g) + PartOf(r.item, g)
               ELSE PartOf(r.tmp, g) <= PartOf(r.item, g)
          /\ r.tmp.key \in Flow /\ r.tmp.count > 0
    <3> HIDE DEF r
    <3>1. QED
      BY <1>6, <1>8, <2>2, <2>3, <2>4
  <2>6. QED
    BY <1>1, <1>2, <1>3, <2>1, <2>5, LevelEnds DEF w
<1>10. CASE ~(r.kicks /\ r.level < 3)
  <2>1. cpu' = [cpu EXCEPT ![p] = Idle] /\ Idle.pc # "look" /\ Empty \in AnyItem
    BY <1>10 DEF PutStamp, Descend, Return, Idle, Empty, AnyItem, AnyKey
  <2>2. Inside(r, cache, truth) =>
          /\ Whole(y)
          /\ \A g \in Flow :
               /\ PartOf(y, g) + PartOf(Empty, g) <= PartOf(w, g) + PartOf(r.item, g)
               /\ PartOf(Empty, g) <= PartOf(r.item, g)
    <3> HIDE DEF r
    <3>1. QED
      BY <1>6, <1>8
  <2>3. QED
    BY <1>1, <1>3, <2>1, <2>2, LevelEnds DEF w
<1>11. QED
  BY <1>9, <1>10

\* Damage stays in the tree where two CPUs met: every other tree, once nobody is
\* inside it, has whole buckets and overestimates no flow.
THEOREM OVSRaceConfined == Spec => []RaceConfined
<1>1. Init => TreesInv
  <2> SUFFICES ASSUME Init, NEW f \in Flow  PROVE TreeInv(Tree(f))
    BY DEF TreesInv
  <2>1. \A q \in Cpu : ~In(q, Tree(f))
    BY DEF Init, In, Busy, Idle
  <2>2. Balanced(cache, Empty, Tree(f), truth)
    <3> SUFFICES ASSUME NEW g \in Flow
                 PROVE  /\ Recorded(cache, g) + PartOf(Empty, g) <= truth[g]
                        /\ \A l \in Level : Whole(cache[PathBucket(g, l)])
      BY DEF Balanced
    <3>1. \A l \in Level : cache[PathBucket(g, l)] = Empty
      BY PathInArray DEF Init
    <3>2. \A l \in Level : Share(cache, g, l) = 0
      BY <3>1 DEF Share, Empty
    <3>3. Recorded(cache, g) = 0
      BY <3>2 DEF Recorded, Level
    <3>4. Whole(Empty) /\ PartOf(Empty, g) = 0 /\ truth[g] = 0
      BY DEF Whole, PartOf, Empty, Init
    <3>5. QED
      BY <3>1, <3>3, <3>4
  <2>3. QED
    BY <2>1, <2>2 DEF TreeInv
<1>2. OVSInv /\ OVSInv' /\ TreesInv /\ [Next]_vars => TreesInv'
  <2> SUFFICES ASSUME OVSInv, OVSInv', TreesInv, [Next]_vars  PROVE TreesInv'
    OBVIOUS
  <2>1. CASE UNCHANGED vars
    BY <2>1 DEF vars, history, TreesInv, TreeInv, In, Busy
  <2>2. ASSUME NEW p \in Cpu, Step(p)  PROVE TreesInv'
    BY <2>2, PrivateTrees, JudgeTrees, StoreTrees, StoreCountTrees, PutStampTrees DEF Step
  <2>3. ASSUME NEW p \in Cpu, NEW f \in Flow, Receive(p, f)  PROVE TreesInv'
    BY <2>3, ReceiveTrees
  <2>4. QED
    BY <2>1, <2>2, <2>3 DEF Next
<1>3. OVSInv /\ TreesInv => RaceConfined
  <2> SUFFICES ASSUME OVSInv, TreesInv, NEW f \in Flow, Tree(f) \notin raced,
                      \A p \in Cpu : Busy(p) => Tree(cpu[p].pkt) # Tree(f)
               PROVE  /\ Recorded(cache, f) <= truth[f]
                      /\ \A l \in Level : Whole(cache[PathBucket(f, l)])
    BY DEF RaceConfined, Whole
  <2>1. Balanced(cache, Empty, Tree(f), truth)
    BY DEF TreesInv, TreeInv, In
  <2>2. PartOf(Empty, f) = 0
    BY DEF PartOf, Empty
  <2>3. \A l \in Level : Share(cache, f, l) \in Nat
    BY PathInArray DEF OVSInv, ArrayInv, Share, AnyItem
  <2>4. Recorded(cache, f) \in Nat
    BY <2>3 DEF Recorded, Level
  <2>5. QED
    BY <2>1, <2>2, <2>4 DEF Balanced
<1>4. QED
  BY <1>1, <1>2, <1>3, OVSInvariant, PTL DEF Spec
===============================================================================
