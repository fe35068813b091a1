------------------------------ MODULE WindowTasks ------------------------------
(***************************************************************************)
(* The tasks that look at a trace window by window, PACKET_PER_W packets   *)
(* each: persistent flows and flowlets (AHeap_KVTasks.h), and the same     *)
(* tasks and the bursts for FlowRadar (FlowRadar_KVTasks.h).  The AHeap is *)
(* never cleared: who came in a window is told by the stamps.  FlowRadar   *)
(* has no stamps; its burst task clears it after each window, its other    *)
(* tasks do not.  Both structures get the same trace, as the demos do it.  *)
(***************************************************************************)
EXTENDS AHeapKV, TaskReports, SequencesExt

CONSTANTS
  w_iblt, bf_hash, iblt_hash,  \* the FlowRadar
  srcIP, dstIP,                \* the addresses in each key
  thre,                        \* threshold of a task, and window_thre
  gap,                         \* thre of flowletTest, 1 if it is not given
  tuples                       \* bound: the flows each packet of the trace may be of

ASSUME TaskAssumption ==
  /\ thre \in Nat \ {0} /\ gap \in Nat /\ time_thre > 0
  /\ tuples \in [1..MaxPackets -> SUBSET Flow]
  /\ DOMAIN srcIP = Flow /\ DOMAIN dstIP = Flow
ASSUME RadarAssumption ==
  /\ w_iblt \in Nat \ {0} /\ IsFiniteSet(Flow)
  /\ DOMAIN bf_hash = Flow /\ DOMAIN iblt_hash = Flow
  /\ \A f \in Flow : iblt_hash[f] \in Seq(0..(w_iblt - 1))

Radar == INSTANCE FlowRadar

VARIABLES
  radar,     \* iblt
  clears,    \* whether the task clears it
  flowCount, \* the packets of each flow in the window
  tables,    \* of each window that is over: flowCount, and what the dump gave
  seen       \* the windows the tasks saw each flow in, by the AHeap

windowVars == <<kvVars, radar, clears, flowCount, tables, seen>>

PACKET_PER_W == time_thre

WindowInit ==
  /\ KVInit
  /\ radar = Radar!InsertableIBLT
  /\ clears \in BOOLEAN
  /\ flowCount = [f \in Flow |-> 0]
  /\ tables = <<>>
  /\ seen = [f \in Flow |-> {}]

------------------------------------------------------------------------------
(* The windows *)

\* Bug for a mutation run: every flow the array holds counts.
InWindow_AnyStamp(c, f, start) == \E b \in Bucket : c[b].count # 0 /\ c[b].key = f

\* A stamp of the window on one of its items is enough.
InWindow(c, f, start) ==
  \E b \in Bucket : c[b].count # 0 /\ c[b].key = f /\ c[b].time >= start

\* After the last packet of window w, when r is the FlowRadar.
EndWindow(w, r) ==
  LET start  == w * PACKET_PER_W
      dumped == Radar!dump(r)
  IN  /\ seen' = [f \in Flow |-> IF InWindow(cache', f, start)
                                   THEN seen[f] \union {w} ELSE seen[f]]
      /\ tables' = Append(tables, [flowCount |-> flowCount', sum |-> dumped.result])
      /\ radar' = IF clears THEN Radar!clear(r) ELSE dumped.radar

Window(f) ==
  LET r == Radar!insert(radar, f)
      before == IF now % PACKET_PER_W = 0 THEN [g \in Flow |-> 0] ELSE flowCount
  IN  /\ flowCount' = [before EXCEPT ![f] = @ + 1]
      /\ UNCHANGED clears
      /\ IF now' % PACKET_PER_W = 0
           THEN EndWindow(now \div PACKET_PER_W, r)
           ELSE radar' = r /\ UNCHANGED <<tables, seen>>

persistentTest_packet(f) == InsertPersistent(f) /\ Window(f)
flowletTest_packet(f)    == InsertFlowlet(f) /\ Window(f)
rfTest_packet(f)         == InsertRecent(f) /\ Window(f)

WindowNext ==
  /\ now < MaxPackets
  /\ \E f \in tuples[now + 1] :
       persistentTest_packet(f) \/ flowletTest_packet(f) \/ rfTest_packet(f)

WindowSpec == WindowInit /\ [][WindowNext]_windowVars

------------------------------------------------------------------------------
(* What the tasks make of the windows *)

\* The windows a flow came in, and those FlowRadar decoded it in.
came == [f \in Flow |-> {w \in 0..(Len(tables) - 1) : tables[w + 1].flowCount[f] > 0}]
decoded == [f \in Flow |-> {w \in 0..(Len(tables) - 1) : f \in DOMAIN tables[w + 1].sum}]

\* persistentTest
Persistent(windows) == {f \in Flow : Cardinality(windows[f]) >= thre}

\* A flowlet is <<its first window, its last window>>; one whose last window is not
\* more than gap windows back goes on.
extend(flowlets, w) ==
  IF flowlets # <<>> /\ w - Last(flowlets)[2] <= gap
    THEN Append(Front(flowlets), <<Last(flowlets)[1], w>>)
    ELSE Append(flowlets, <<w, w>>)

\* flowletTest: the flowlets of a flow that came in the windows ws, after n of them.
FlowletsOf(ws, n) ==
  LET after[w \in 0..n] ==
        IF w = 0 THEN <<>>
        ELSE IF w - 1 \in ws THEN extend(after[w - 1], w - 1) ELSE after[w - 1]
  IN  after[n]

Flowlets(windows, f) == FlowletsOf(windows[f], Len(tables))

\* Bug for a mutation run: a gap does not end a burst.
count_GapKept(bf, w) ==
  IF bf.second < thre THEN [first |-> w, second |-> bf.second + 1]
  ELSE [bf EXCEPT !.first = w]

\* burstTest: the windows in a row; the count stays when it reached window_thre.
count(bf, w) ==
  IF bf.second < thre
    THEN [first |-> w, second |-> IF w - bf.first = 1 THEN bf.second + 1 ELSE 1]
    ELSE [bf EXCEPT !.first = w]

BurstOf(ws, n) ==
  LET after[w \in 0..n] ==
        IF w = 0 THEN [first |-> -1, second |-> 0]
        ELSE IF w - 1 \in ws THEN count(after[w - 1], w - 1) ELSE after[w - 1]
  IN  after[n]

burstTest(windows) == {f \in Flow : BurstOf(windows[f], Len(tables)).second >= thre}

\* rfTest: the newest stamp of each flow in the array, -1 for one that is not.
NewestStamps ==
  [f \in Flow |-> Max({-1} \union {cache[b].time : b \in {x \in Bucket : cache[x].count # 0 /\ cache[x].key = f}})]

\* The flows with the n newest stamps.
rfTest(stamps, n) ==
  {f \in Flow : stamps[f] >= 0 /\ Cardinality({g \in Flow : stamps[g] > stamps[f]}) < n}

(* The counting tasks of FlowRadar, of the flows of one dump *)

radar_accTest == Last(tables).sum
radar_hhTest == HeavyHitters(radar_accTest, thre)
radar_fsdTest == Transform2Fsd(radar_accTest)
radar_ddosTest == CountIP(radar_accTest, dstIP, srcIP, thre)
radar_spreaderTest == CountIP(radar_accTest, srcIP, dstIP, thre)

\* Of two tables, a flow missing in one has 0 packets there.
radar_hcTest(t1, t2) ==
  LET est(t) == [f \in Flow |-> IF f \in DOMAIN t.sum THEN t.sum[f] ELSE 0]
  IN  HeavyChanges(est(t1), est(t2), thre)

------------------------------------------------------------------------------
(* Properties *)

Closed == now > 0 /\ now % PACKET_PER_W = 0

\* The AHeap is one array for all windows, but no stamp makes it report a flow in a
\* window the flow did not come in: its persistent flows are real, and each of its
\* flowlets is part of a real one.  It never misses the flow a window ends with, and
\* the flow it takes for the most recent one is.
WindowReports ==
  /\ \A f \in Flow : seen[f] \subseteq came[f]
  /\ Persistent(seen) \subseteq Persistent(came)
  /\ \A f \in Flow : \A s \in ToSet(Flowlets(seen, f)) :
       \E r \in ToSet(Flowlets(came, f)) : r[1] <= s[1] /\ s[2] <= r[2]
  /\ Closed => \A f \in Flow : lastSeen[f] = now - 1 => now \div PACKET_PER_W - 1 \in seen[f]
  /\ now > 0 => rfTest(NewestStamps, 1) = rfTest(lastSeen, 1)

\* Cleared before the window, and without a false positive of the Bloom filter, the
\* dump gives the exact counts of all flows but those that no order of decoding
\* could get at, so whatever a task reports of it is there, and heavy changes are
\* only wrong of flows that could not be decoded before or after.
RadarDump ==
  LET flows(t)  == {f \in Flow : t.flowCount[f] > 0}
      real(t)   == [f \in flows(t) |-> t.flowCount[f]]
      fresh(w)  == w = 1 \/ clears
      exact(t)  == Radar!BloomExact(flows(t))
      stuck(t)  == Radar!Stuck(flows(t))
  IN  Closed =>
        LET n == Len(tables)
            t == tables[n]
        IN  /\ fresh(n) => DOMAIN t.sum \subseteq flows(t)
            /\ fresh(n) /\ exact(t) =>
                 /\ t.sum = [f \in flows(t) \ stuck(t) |-> t.flowCount[f]]
                 /\ radar_hhTest \subseteq HeavyHitters(real(t), thre)
                 /\ radar_ddosTest \subseteq CountIP(real(t), dstIP, srcIP, thre)
                 /\ radar_spreaderTest \subseteq CountIP(real(t), srcIP, dstIP, thre)
                 /\ stuck(t) = {} => radar_fsdTest = Transform2Fsd(real(t))
            /\ n > 1 /\ clears /\ exact(t) /\ exact(tables[n - 1]) =>
                 SymDiff(radar_hcTest(tables[n - 1], t),
                         HeavyChanges(tables[n - 1].flowCount, t.flowCount, thre))
                   \subseteq stuck(tables[n - 1]) \union stuck(t)

\* A task that does not clear it gets a flow from FlowRadar in one window at most,
\* the first the flow came in: later the Bloom filter knows it, but the dump has
\* taken it out of the cells.  So no persistent flow is found, and a flowlet is one
\* window.  When cleared, a burst is reported if and only if the flow was decoded in
\* that many windows in a row.
RadarWindows ==
  /\ ~clears => \A f \in Flow :
       /\ decoded[f] \subseteq {w \in came[f] : \A v \in came[f] : w <= v}
       /\ \A s \in ToSet(Flowlets(decoded, f)) : s[1] = s[2]
  /\ ~clears /\ thre > 1 => Persistent(decoded) = {}
  /\ clears => \A f \in Flow :
       /\ decoded[f] \subseteq came[f]
       /\ f \in burstTest(decoded)
            <=> \E w \in decoded[f] : w..(w + thre - 1) \subseteq decoded[f]
===============================================================================
