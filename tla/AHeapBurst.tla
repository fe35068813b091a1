------------------------------ MODULE AHeapBurst ------------------------------
(***************************************************************************)
(* AHeap::insert_for_burst and Burst.h, as burstTest drives them.  The top *)
(* four bits of a counter are the bursty field: how many times the flow    *)
(* came back to its bucket since it was put there.  The field is kept here *)
(* in a function of its own, next to the count in the lower 28 bits.       *)
(***************************************************************************)
EXTENDS AHeapItems

CONSTANT EIGHT   \* the field at which burstTest reports a burst, 8 in Burst.h

\* The count never runs into the bursty field.
ASSUME BurstAssumption == EIGHT \in Nat \ {0} /\ EIGHT < 16 /\ 16 * MaxPackets < Word

VARIABLES
  bursty,   \* GET_BURSTY_FIELD of each bucket; 0 for a carried item
  found,    \* what insert_for_burst returned last
  run       \* history: how many packets in a row the latest flow has sent

burstVars == <<vars, bursty, found, run>>

------------------------------------------------------------------------------
(* Burst.h *)

\* Bug for a mutation run: the field runs over to zero.
increment_bursty_Wraps(field) == IF field < EIGHT THEN field + 1 ELSE 0

\* Bug for a mutation run: the last case of the switch is missing.
increment_bursty_CaseMissing(field) == IF field < EIGHT - 1 THEN field + 1 ELSE field

increment_bursty(field) == IF field < EIGHT THEN field + 1 ELSE field

------------------------------------------------------------------------------
(* One level: an outcome of the item, with the bursty fields after it and  *)
(* the value returned.                                                     *)

With(r, b, v) == [cache |-> r.cache, item |-> r.item, done |-> r.done,
                  bursty |-> b, found |-> v]

\* The item is put in the bucket and starts a new burst there.
Restarted(b, at) == [b EXCEPT ![at] = 1]

\* increment_same_key: 1 is returned if the field had already reached EIGHT.
increment_same_key(c, b, it, at) ==
  With(Merged(c, it, at, it.count), [b EXCEPT ![at] = increment_bursty(@)],
       IF b[at] = EIGHT THEN 1 ELSE 0)

\* Bug for a mutation run: a kicked resident leaves its field in the bucket.
level_FieldKept(c, b, it, at, kicks, d) ==
  IF Vacant(c, at)         THEN With(Placed(c, it, at), Restarted(b, at), 0)
  ELSE IF Holds(c, at, it) THEN increment_same_key(c, b, it, at)
  ELSE IF kicks            THEN With(Exchanged(c, it, at, d), b, 0)
  ELSE With(Passed(c, it, d), b, 0)

\* One level of insert_for_burst: "kicks" is its condition for exchanging the
\* item with the resident, and d is TRUE at the last level.
level(c, b, it, at, kicks, d) ==
  IF Vacant(c, at)         THEN With(Placed(c, it, at), Restarted(b, at), 0)
  ELSE IF Holds(c, at, it) THEN increment_same_key(c, b, it, at)
  ELSE IF kicks            THEN With(Exchanged(c, it, at, d), Restarted(b, at), 0)
  ELSE With(Passed(c, it, d), b, 0)

\* At the first level the value of increment_same_key is not passed on.
leaf_level(c, b, it, at) ==
  LET r == level(c, b, it, at, c[at].count = 1, FALSE) IN With(r, r.bursty, 0)

insert_for_burst(f) ==
  LET at(l) == PathBucket(f, l)
      r0 == leaf_level(cache, bursty, Packet(f), at(0))
      r1 == IF r0.done THEN r0
            ELSE level(r0.cache, r0.bursty, r0.item, at(1), r0.cache[at(1)].count = 1, FALSE)
      r2 == IF r1.done THEN r1
            ELSE level(r1.cache, r1.bursty, r1.item, at(2), TRUE, FALSE)
      r3 == IF r2.done THEN r2
            ELSE level(r2.cache, r2.bursty, r2.item, at(3),
                       r2.cache[at(3)].count < r2.item.count, TRUE)
  IN  cache' = r3.cache /\ bursty' = r3.bursty /\ found' = r3.found

------------------------------------------------------------------------------
(* The task loop of burstTest *)

BurstInit ==
  /\ Init
  /\ bursty = [b \in Bucket |-> 0]
  /\ found = 0
  /\ run = 0

InsertBurst(f) ==
  /\ Arrive(f)
  /\ insert_for_burst(f)
  /\ run' = IF now > 0 /\ lastSeen[f] = now - 1 THEN run + 1 ELSE 1

BurstNext == \E f \in Flow : InsertBurst(f)

BurstSpec == BurstInit /\ [][BurstNext]_burstVars

\* burst_1 of burstTest: a flow is reported if one of its buckets is at EIGHT.
Reported(f) == \E b \in Bucket : cache[b].key = f /\ bursty[b] = EIGHT

------------------------------------------------------------------------------
(* Properties *)

\* The type invariant; the two parts of a counter are zero together (AHeap.h:405
\* reads the whole word to see whether a bucket is vacant).
BurstTypeOK ==
  /\ TypeOK
  /\ bursty \in [Bucket -> 0..EIGHT]
  /\ \A b \in Bucket : cache[b].count = 0 <=> bursty[b] = 0
  /\ found \in {0, 1}
  /\ run \in Nat

\* A bursty field never claims more than the bucket counted, although kicked
\* items that merge further down advance a field no packet arrived for; so
\* burstTest never reports a flow of fewer than EIGHT packets.
NoFalseBurst ==
  /\ \A b \in Bucket : bursty[b] <= cache[b].count
  /\ \A f \in Flow : Reported(f) => truth[f] >= EIGHT

\* EIGHT packets of a flow in a row are always reported while the flow is the
\* latest, wherever on its path the first of them was put.
BackToBackFound ==
  \A f \in Flow : now > 0 /\ lastSeen[f] = now - 1 /\ run >= EIGHT => Reported(f)

\* A packet that takes a bucket to EIGHT, or counts in one that is there, is
\* answered with 1: the comments of both functions say that 1 is a burst.
FoundWhenReached ==
  [][\A b \in Bucket :
       /\ bursty'[b] = EIGHT
       /\ cache'[b].key = cache[b].key
       /\ cache'[b].count > cache[b].count
       => found' = 1]_burstVars

\* The lower parts of the counters implement the same promise to clients as the
\* other insertions: kicking and merging bursty items makes up no packets.
BurstImplementsCounter == ImplementsCounter
===============================================================================
