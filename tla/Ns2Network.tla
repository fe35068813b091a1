------------------------------ MODULE Ns2Network ------------------------------
(***************************************************************************)
(* The ns-2 experiment: every switch of a fat tree has an ECtreap, which   *)
(* inserts a fragment of each packet's key into the switch's FlowCache,    *)
(* counts the packet in TrueLoss too, and writes both to files at certain  *)
(* times (ECtreap.cc).  At a given time the aggregation switches turn into *)
(* blackholes for some destinations (8PodFatTree.tcl).  calres then reads  *)
(* the files of a rack switch, an aggregation switch above it and a core   *)
(* switch, decodes the three arrays together and reports the flows that    *)
(* lose packets between the aggregation switch and the rack (calres.cc).   *)
(*                                                                         *)
(* FlowCache, Util.h and ec.h of the experiment are copies of the program's*)
(* AHeap, Util.h and CODEC.h, with the return of d_left_level that the     *)
(* program's copy lacks: FragmentCode.  Links and hosts are the simulator's.*)
(***************************************************************************)
EXTENDS FragmentCode, SequencesExt

CONSTANTS
  ONE, TWO, THREE,  \* the rack, aggregation and core switch, their ids % 128
  Route,            \* Route[f]: the switches on the way of f's packets
  Target,           \* the flows to the destination that calres asks for
  BlackholeAt,      \* when TWO's route to it becomes Agent/Null (0.13)
  FirstPoint,       \* the first test point (0.132)
  TESTPOINT,        \* how many there are
  Recent,           \* the stamp a reported flow must have reached (0.120)
  limit_,           \* the packets a DropTail queue holds
  MaxTime, MaxPackets  \* bounds: of the clock, and of the packets sent

ASSUME SwitchAssumption == Cacheid = {ONE, TWO, THREE} /\ ONE # TWO
ASSUME ReturnAssumption == Mistaken = {} /\ ~TestGone
\* Up the tree and down again: no switch is on a way twice.
ASSUME RouteAssumption ==
  /\ IsFiniteSet(DOMAIN Route) /\ DOMAIN Route \subseteq Flow
  /\ \A f \in DOMAIN Route : Route[f] \in Seq(Cacheid) \ {<<>>} /\ IsInjective(Route[f])
ASSUME PointAssumption == TESTPOINT \in Nat \ {0} /\ FirstPoint \in Nat
\* testPoint[TESTPOINT] = 100 is after the end of the simulation.
ASSUME TimeAssumption ==
  limit_ \in Nat /\ Recent \in Nat /\ MaxTime \in Nat /\ MaxPackets \in Nat

VARIABLES
  flowcache,   \* flowcache[id]: the array of switch id
  TrueLoss,    \* TrueLoss[id][f]: the packets of f the switch received
  last,        \* last[id][f]: when it received the last of them
  saved,       \* saved[id]: the files it wrote; curTestPoint is their number
  wire,        \* wire[<<a, b>>]: the packets on the link from a to b
  clock

vars == <<flowcache, TrueLoss, last, saved, wire, clock>>

Link == {l \in Cacheid \X Cacheid :
           \E f \in DOMAIN Route : \E i \in 1..(Len(Route[f]) - 1) :
              l = <<Route[f][i], Route[f][i + 1]>>}

Init ==
  /\ flowcache = [id \in Cacheid |-> [b \in Bucket |-> Empty]]
  /\ TrueLoss = [id \in Cacheid |-> [f \in Flow |-> 0]]
  /\ last = [id \in Cacheid |-> [f \in Flow |-> 0]]
  /\ saved = [id \in Cacheid |-> <<>>]
  /\ wire = [l \in Link |-> <<>>]
  /\ clock = 0

------------------------------------------------------------------------------
(* A switch *)

\* The constructor's test points, and one that is never reached.
testPoint(i) == IF i < TESTPOINT THEN FirstPoint + i ELSE MaxTime

\* FlowCacheInsert, with the id of the switch and the clock.
FlowCacheInsert(id, f) == AHeapInsert(flowcache[id], id, f, clock)

\* Bug for a mutation run: one map for all switches.
Counted_Shared(id, f) == [x \in Cacheid |-> [TrueLoss[x] EXCEPT ![f] = @ + 1]]

Counted(id, f) == [TrueLoss EXCEPT ![id][f] = @ + 1]

\* The archives: the array and the map, as they are after the packet.
Archive(id) ==
  [flowcache |-> flowcache'[id], TrueLoss |-> TrueLoss'[id], last |-> last'[id]]

\* At most one pair of files for each packet, however late it is.
Serialize(id) ==
  saved' = IF clock > testPoint(Len(saved[id]))
             THEN [saved EXCEPT ![id] = Append(@, Archive(id))] ELSE saved

\* The switches after id on the way of f.
Onward(id, f) ==
  LET i == CHOOSE j \in DOMAIN Route[f] : Route[f][j] = id
  IN  SubSeq(Route[f], i + 1, Len(Route[f]))

Blackholed(id, f) == id = TWO /\ f \in Target /\ clock >= BlackholeAt

\* send: the packet, taken from a link, goes on to the next.  w is the links without
\* it.  A full queue drops it; the link has one more packet, the one being sent.
send(w, id, f) ==
  IF Onward(id, f) = <<>> \/ Blackholed(id, f) THEN wire' = w
  ELSE LET l == <<id, Head(Onward(id, f))>>
       IN  \/ wire' = [w EXCEPT ![l] = Append(@, f)]
           \/ Len(w[l]) >= limit_ /\ wire' = w

recv(w, id, f) ==
  /\ flowcache' = [flowcache EXCEPT ![id] = FlowCacheInsert(id, f)]
  /\ TrueLoss' = Counted(id, f)
  /\ last' = [last EXCEPT ![id][f] = clock]
  /\ Serialize(id)
  /\ send(w, id, f)
  /\ UNCHANGED clock

------------------------------------------------------------------------------
(* The network *)

SentPackets ==
  MapThenSumSet(LAMBDA f : TrueLoss[Route[f][1]][f], DOMAIN Route)

\* A host's packet reaches its first switch.
Send(f) ==
  /\ SentPackets < MaxPackets
  /\ recv(wire, Route[f][1], f)

\* The next packet of a link arrives: links keep the order.
Deliver(l) ==
  /\ wire[l] # <<>>
  /\ recv([wire EXCEPT ![l] = Tail(@)], l[2], Head(wire[l]))

Tick ==
  /\ clock < MaxTime
  /\ clock' = clock + 1
  /\ UNCHANGED <<flowcache, TrueLoss, last, saved, wire>>

Next ==
  \/ \E f \in DOMAIN Route : Send(f)
  \/ \E l \in Link : Deliver(l)
  \/ Tick

Spec == Init /\ [][Next]_vars

------------------------------------------------------------------------------
(* calres, for test point number t (from 1) *)

getFlowCache(t) == [id \in Cacheid |-> saved[id][t].flowcache]

\* _DecodeCaches: the keys of the three arrays.
DecodeCaches(t) == [id \in Cacheid |-> un_map(getFlowCache(t), id)]

getFlowCount(id, t) == saved[id][t].TrueLoss

\* The items decoded of f, as MergeSingleCache collects them in vectors.
Items(map, f) == {map[b] : b \in {x \in Bucket : map[x].count > 0 /\ map[x].key = f}}

\* Bug for a mutation run: the age of a flow is read at the rack switch.
Blackhole_AgeOfOne(one, two, f) ==
  LET a == MergeSingleCache(two, f)
      b == MergeSingleCache(one, f)
  IN  /\ a > 0
      /\ 10 * (a - b) >= 3 * a
      /\ \E it \in Items(one, f) : it.time >= Recent

\* main: three tenths of what TWO counted is not at ONE, and TWO's newest packet
\* is recent.
Blackhole(one, two, f) ==
  LET a == MergeSingleCache(two, f)
      b == MergeSingleCache(one, f)
  IN  /\ a > 0
      /\ 10 * (a - b) >= 3 * a
      /\ \E it \in Items(two, f) : it.time >= Recent

\* getdst and judge.
judge(f) == f \in Target

\* What main prints, of the decoded flows.
Alarms(t) ==
  LET maps == DecodeCaches(t)
  IN  {f \in Flow : judge(f) /\ Blackhole(maps[ONE], maps[TWO], f)}

------------------------------------------------------------------------------
(* Properties *)

\* get_i: every bucket a flow can be in that is in bucket b.
get_i == [b \in Bucket |-> {x \in Bucket : x \in places[b] \/ b \in places[x]}]

\* A switch only has fragments of flows it received, where check will look for
\* them; there is an archive for each test point at most; a link only has packets
\* that go over it.
NetTypeOK ==
  /\ \A id \in Cacheid :
       /\ \A b \in Bucket :
            IF Vacant(flowcache[id], b) THEN flowcache[id][b] = Empty
            ELSE \E f \in Flow : /\ TrueLoss[id][f] > 0
                                 /\ flowcache[id][b].key = encode(id, f)
                                 /\ b \in get_i[PathBucket(f, 0)]
       /\ Len(saved[id]) <= TESTPOINT
  /\ \A l \in Link : \A f \in ToSet(wire[l]) : IsPrefix(<<l[2]>>, Onward(l[1], f))
  /\ clock \in 0..MaxTime

Downward == {f \in DOMAIN Route : TWO \in ToSet(Route[f]) /\ IsPrefix(<<ONE>>, Onward(TWO, f))}

Down(id, t) == MapThenSumSet(LAMBDA f : getFlowCount(id, t)[f], Downward)

\* The two archives of a test point are written at different times, each by a
\* packet that happens to come.  ONE's may have packets that TWO's does not have
\* yet, but no more than the test points written by then: a packet from TWO makes
\* ONE catch up by one.
SkewBounded ==
  \A t \in 1..TESTPOINT :
    (t <= Len(saved[ONE]) /\ t <= Len(saved[TWO])) => Down(ONE, t) <= Down(TWO, t) + t

\* Nothing is on the way; the simulation may end here.
Quiet == \A l \in Link : wire[l] = <<>>

\* Of a flow of which the three arrays have kept everything and that does not share
\* a fragment, calres knows what the switches counted, if no fragments made up the
\* key of a flow that one of them has not seen.  So it is reported if and only if
\* TWO's archive has at least 3/7 more packets than ONE's, the last of them recent,
\* and all three switches have seen the flow: one that was lost from the first packet
\* on is never reported, for there is nothing of it at ONE to decode it with.
AlarmsExact ==
  Quiet =>
    \A t \in 1..TESTPOINT :
      (\A id \in Cacheid : t <= Len(saved[id])) =>
        LET count(id, f) == getFlowCount(id, t)[f]
            seen == [id \in Cacheid |-> {f \in Flow : count(id, f) > 0}]
            everywhere == {f \in Flow : \A id \in Cacheid : f \in seen[id]}
            exact(f) == \A id \in Cacheid :
                          /\ ~Shared(id, f, seen[id])
                          /\ Kept(saved[id][t].flowcache, id, f) = count(id, f)
        IN  Unmixed(getFlowCache(t), everywhere) =>
              Alarms(t) \intersect {f \in Flow : exact(f)}
                = {f \in Target : /\ exact(f)
                                  /\ f \in everywhere
                                  /\ 7 * count(TWO, f) >= 10 * count(ONE, f)
                                  /\ saved[TWO][t].last[f] >= Recent}
===============================================================================
