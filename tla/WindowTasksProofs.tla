-------------------------- MODULE WindowTasksProofs --------------------------
(***************************************************************************)
(* The tasks by windows for every trace, size of the array and of the      *)
(* FlowRadar, hash functions and thresholds: what the peeling of a         *)
(* FlowRadar decodes and that it ends, and what the tasks report of the    *)
(* windows.                                                                *)
(***************************************************************************)
EXTENDS WindowTasks, AHeapProofs, SequenceTheorems

------------------------------------------------------------------------------
\* The instance of FlowRadar brings library operators of its own: the same ones.
LEMMA SameCardinality ==
  \A S : Radar!Cardinality(S) = Cardinality(S)
BY DEF Radar!Cardinality, Cardinality

LEMMA SameSymDiff ==
  \A S, T : Radar!SymDiff(S, T) = SymDiff(S, T)
BY DEF Radar!SymDiff, SymDiff

------------------------------------------------------------------------------
(* The recursive functions *)

\* A round starts with the flag that says it decoded nothing.
Flagged(s) == [iblt |-> s.iblt, result |-> s.result, flag |-> TRUE]

\* One by one through the cells: each gets what the one before it left.
Rounding(g, s, n) ==
  g = [i \in 0..n |-> IF i = 0 THEN Flagged(s) ELSE Radar!peel(g[i - 1], i - 1)]

LEMMA RoundingExists ==
  ASSUME NEW s, NEW n \in Nat
  PROVE  \E g : Rounding(g, s, n)
<1> DEFINE Good == {m \in Nat : \E g : Rounding(g, s, m)}
<1>1. 0 \in Good
  <2> DEFINE g == [i \in 0..0 |-> Flagged(s)]
  <2>1. Rounding(g, s, 0)
    BY DEF Rounding
  <2>2. QED
    BY <2>1
<1>2. ASSUME NEW m \in Nat, m \in Good PROVE m + 1 \in Good
  <2>1. PICK g : Rounding(g, s, m)
    BY <1>2
  <2> DEFINE h == [i \in 0..(m + 1) |-> IF i = m + 1 THEN Radar!peel(g[m], m) ELSE g[i]]
             start == Flagged(s)
  <2>2. ASSUME NEW i \in 0..(m + 1)
        PROVE  h[i] = IF i = 0 THEN start ELSE Radar!peel(h[i - 1], i - 1)
    <3>1. CASE i = m + 1
      <4>1. h[i] = Radar!peel(g[m], m) /\ h[m] = g[m] /\ i - 1 = m /\ i # 0
        BY <3>1
      <4>2. QED
        BY <4>1
    <3>2. CASE i # m + 1
      <4>1. i \in 0..m /\ h[i] = g[i] /\ (i # 0 => h[i - 1] = g[i - 1])
        BY <3>2
      <4>2. g[i] = IF i = 0 THEN start ELSE Radar!peel(g[i - 1], i - 1)
        BY <2>1, <4>1 DEF Rounding
      <4>3. QED
        BY <4>1, <4>2
    <3>3. QED
      BY <3>1, <3>2
  <2> DEFINE k == [i \in 0..(m + 1) |-> IF i = 0 THEN start ELSE Radar!peel(h[i - 1], i - 1)]
  <2>3. h = k
    <3>1. \A i \in 0..(m + 1) : h[i] = k[i]
      BY <2>2
    <3>2. /\ DOMAIN h = 0..(m + 1) /\ h = [i \in DOMAIN h |-> h[i]]
          /\ DOMAIN k = 0..(m + 1) /\ k = [i \in DOMAIN k |-> k[i]]
      OBVIOUS
    <3> HIDE DEF h, k
    <3>3. QED
      BY <3>1, <3>2
  <2>4. Rounding(h, s, m + 1)
    BY <2>3 DEF Rounding
  <2>5. QED
    BY <2>4
<1>3. n \in Good
  <2> HIDE DEF Good
  <2>1. QED
    BY <1>1, <1>2, AllNumbers
<1>4. QED
  BY <1>3

\* A round of dump goes from one cell to the next.
LEMMA RoundIs ==
  ASSUME NEW s, w_iblt \in Nat
  PROVE  \E g : /\ g[0] = Flagged(s)
                /\ \A i \in 1..w_iblt : g[i] = Radar!peel(g[i - 1], i - 1)
                /\ Radar!round(s) = g[w_iblt]
<1> DEFINE g == CHOOSE g : Rounding(g, s, w_iblt)
<1>1. Rounding(g, s, w_iblt)
  BY RoundingExists
<1>2. Radar!round(s) = g[w_iblt]
  BY DEF Radar!round, Rounding, Flagged
<1> HIDE DEF g
<1>3. g[0] = Flagged(s)
  BY <1>1 DEF Rounding
<1>4. ASSUME NEW i \in 1..w_iblt PROVE g[i] = Radar!peel(g[i - 1], i - 1)
  <2>1. i \in 0..w_iblt /\ i # 0
    OBVIOUS
  <2>2. QED
    BY <1>1, <2>1 DEF Rounding
<1>5. QED
  BY <1>2, <1>3, <1>4

------------------------------------------------------------------------------
(***************************************************************************)
(* The cells, as a function of the set P of the flows that are in them and *)
(* of the packets n that are; a flow's packets may be there without it.    *)
(***************************************************************************)
HitsAt(i) == [f \in Flow |-> Radar!hits(f, i)]
PacketsAt(n, i) == [f \in Flow |-> n[f] * HitsAt(i)[f]]

Cell(P, n, i) ==
  [flow_sum   |-> {f \in P : HitsAt(i)[f] % 2 # 0},
   flow_num   |-> SumOf(HitsAt(i), P),
   packet_num |-> SumOf(PacketsAt(n, i), Flow)]

Cells(P, n) == [i \in 0..(w_iblt - 1) |-> Cell(P, n, i)]

LEMMA HitsType ==
  ASSUME NEW i
  PROVE  /\ HitsAt(i) \in [Flow -> Nat]
         /\ \A f \in Flow : HitsAt(i)[f] = Radar!hits(f, i)
<1>1. ASSUME NEW f \in Flow PROVE Radar!hits(f, i) \in Nat
  <2> DEFINE h == iblt_hash[f]
  <2>1. h \in Seq(0..(w_iblt - 1))
    BY RadarAssumption
  <2>2. DOMAIN h = 1..Len(h) /\ Len(h) \in Nat
    BY <2>1
  <2> DEFINE js == {j \in DOMAIN h : h[j] = i}
  <2>3. Radar!hits(f, i) = Cardinality(js)
    BY SameCardinality DEF Radar!hits
  <2> HIDE DEF h
  <2>4. IsFiniteSet(DOMAIN h) /\ js \in SUBSET (DOMAIN h)
    BY <2>2, FS_Interval
  <2> HIDE DEF js
  <2>5. IsFiniteSet(js)
    BY <2>4, FS_Subset
  <2>6. Cardinality(js) \in Nat
    BY <2>5, FS_CardinalityType
  <2>7. QED
    BY <2>3, <2>6
<1>2. QED
  BY <1>1 DEF HitsAt

LEMMA PacketsType ==
  ASSUME NEW i, NEW n \in [Flow -> Int]
  PROVE  PacketsAt(n, i) \in [Flow -> Int]
<1> DEFINE h == HitsAt(i)
<1>1. h \in [Flow -> Nat]
  BY HitsType
<1> HIDE DEF h
<1>2. ASSUME NEW f \in Flow PROVE n[f] * h[f] \in Int
  <2>1. n[f] \in Int /\ h[f] \in Int
    BY <1>1
  <2>2. QED
    BY ONLY <2>1
<1>3. PacketsAt(n, i) = [f \in Flow |-> n[f] * h[f]]
  BY DEF PacketsAt, h
<1>4. QED
  BY <1>2, <1>3

\* p more packets of f.
Plus(n, f, p) == [n EXCEPT ![f] = @ + p]

LEMMA MorePackets ==
  ASSUME NEW i, NEW n \in [Flow -> Int], NEW f \in Flow, NEW p \in Int
  PROVE  SumOf(PacketsAt(Plus(n, f, p), i), Flow)
           = SumOf(PacketsAt(n, i), Flow) + p * Radar!hits(f, i)
<1> DEFINE m == Plus(n, f, p)
           h == HitsAt(i)
           d == p * h[f]
<1>1. h \in [Flow -> Nat] /\ h[f] = Radar!hits(f, i)
  BY HitsType
<1>2. d \in Int
  <2>1. p \in Int /\ h[f] \in Int
    BY <1>1
  <2>2. QED
    BY <2>1
<1>3. ASSUME NEW g \in Flow
      PROVE  PacketsAt(m, i)[g] = PacketsAt(n, i)[g] + IF g = f THEN d ELSE 0
  <2>1. PacketsAt(m, i)[g] = m[g] * h[g] /\ PacketsAt(n, i)[g] = n[g] * h[g]
    BY DEF PacketsAt
  <2>2. n[g] \in Int /\ h[g] \in Int
    BY <1>1
  <2>3. CASE g = f
    <3>1. m[g] = n[g] + p
      BY <2>3 DEF Plus
    <3>2. (n[g] + p) * h[g] = n[g] * h[g] + p * h[g]
      BY ONLY <2>2, p \in Int
    <3>3. QED
      BY <2>1, <2>3, <3>1, <3>2
  <2>4. CASE g # f
    <3>1. m[g] = n[g]
      BY <2>4 DEF Plus
    <3>2. n[g] * h[g] \in Int
      BY ONLY <2>2
    <3> HIDE DEF m, h, d
    <3>3. QED
      BY <2>1, <2>4, <3>1, <3>2
  <2>5. QED
    BY <2>3, <2>4
<1>4. IsFiniteSet(Flow)
  BY RadarAssumption
<1>5. \A g \in Flow : PacketsAt(n, i)[g] \in Int
  BY PacketsType
<1> HIDE DEF d, m
<1>6. SumOf(PacketsAt(m, i), Flow) = SumOf(PacketsAt(n, i), Flow) + IF f \in Flow THEN d ELSE 0
  BY <1>2, <1>3, <1>4, <1>5, SumMoved
<1>7. QED
  BY <1>1, <1>6 DEF d, m

\* A flow and its packets are added.
LEMMA AddedFlow ==
  ASSUME NEW P \in SUBSET Flow, NEW n \in [Flow -> Int], NEW f \in Flow \ P, NEW p \in Int
  PROVE  Radar!Added(Cells(P, n), f, 1, p) = Cells(P \union {f}, Plus(n, f, p))
<1> DEFINE m == Plus(n, f, p)
           Q == P \union {f}
           A == Radar!Added(Cells(P, n), f, 1, p)
<1>1. ASSUME NEW i \in 0..(w_iblt - 1)
      PROVE  A[i] = Cell(Q, m, i)
  <2> DEFINE h == HitsAt(i)
             c == Cell(P, n, i)
  <2>1. h \in [Flow -> Nat] /\ h[f] = Radar!hits(f, i) /\ h[f] \in Nat
    BY HitsType
  <2>2. A[i] = [flow_sum   |-> IF (1 * h[f]) % 2 = 0 THEN c.flow_sum ELSE SymDiff(c.flow_sum, {f}),
                flow_num   |-> c.flow_num + 1 * h[f],
                packet_num |-> c.packet_num + p * h[f]]
    <3>1. Cells(P, n)[i] = c /\ i \in DOMAIN Cells(P, n)
      BY DEF Cells
    <3> HIDE DEF h, c
    <3>2. QED
      BY <2>1, <3>1, SameSymDiff DEF Radar!Added
  <2>3. c.packet_num + p * h[f] = SumOf(PacketsAt(m, i), Flow)
    <3>1. c.packet_num = SumOf(PacketsAt(n, i), Flow)
      BY DEF Cell
    <3>2. SumOf(PacketsAt(m, i), Flow) = SumOf(PacketsAt(n, i), Flow) + p * Radar!hits(f, i)
      BY MorePackets
    <3> HIDE DEF h, c, m
    <3>3. QED
      BY <2>1, <3>1, <3>2
  <2>4. c.flow_num + 1 * h[f] = SumOf(h, Q)
    <3>1. IsFiniteSet(Q) /\ IsFiniteSet(P)
      BY RadarAssumption, FS_Subset
    <3>2. \A g \in Q : h[g] \in Int
      BY <2>1
    <3>3. SumOf(h, Q) = h[f] + SumOf(h, Q \ {f})
      BY <3>1, <3>2, SumTake
    <3>4. Q \ {f} = P
      OBVIOUS
    <3>5. SumOf(h, P) \in Int
      BY <3>1, <3>2, SumOfType
    <3>6. c.flow_num = SumOf(h, P)
      BY DEF Cell
    <3> HIDE DEF h, c, Q
    <3>7. SumOf(h, Q) = h[f] + SumOf(h, P)
      BY <3>3, <3>4
    <3>8. h[f] \in Nat
      BY <2>1
    <3>9. QED
      BY ONLY <3>5, <3>6, <3>7, <3>8
  <2>5. (IF (1 * h[f]) % 2 = 0 THEN c.flow_sum ELSE SymDiff(c.flow_sum, {f}))
          = {g \in Q : h[g] % 2 # 0}
    <3>1. c.flow_sum = {g \in P : h[g] % 2 # 0}
      BY DEF Cell
    <3>2. 1 * h[f] = h[f]
      BY <2>1
    <3> HIDE DEF h, c
    <3>3. CASE h[f] % 2 = 0
      BY <3>1, <3>2, <3>3
    <3>4. CASE h[f] % 2 # 0
      BY <3>1, <3>2, <3>4 DEF SymDiff
    <3>5. QED
      BY <3>3, <3>4
  <2>6. QED
    BY <2>2, <2>3, <2>4, <2>5 DEF Cell
<1>2. A = [i \in 0..(w_iblt - 1) |-> A[i]]
  BY DEF Radar!Added, Cells
<1> HIDE DEF A, m, Q
<1>3. A = Cells(Q, m)
  BY <1>1, <1>2 DEF Cells
<1>4. QED
  BY <1>3 DEF A, m, Q

\* A flow that is in the cells gets packets, or it has none of its own there.
LEMMA AddedPackets ==
  ASSUME NEW P \in SUBSET Flow, NEW n \in [Flow -> Int], NEW f \in Flow, NEW p \in Int
  PROVE  Radar!Added(Cells(P, n), f, 0, p) = Cells(P, Plus(n, f, p))
<1> DEFINE m == Plus(n, f, p)
           A == Radar!Added(Cells(P, n), f, 0, p)
<1>1. ASSUME NEW i \in 0..(w_iblt - 1)
      PROVE  A[i] = Cell(P, m, i)
  <2> DEFINE h == HitsAt(i)
             c == Cell(P, n, i)
  <2>1. h[f] = Radar!hits(f, i) /\ h[f] \in Nat /\ \A g \in P : h[g] \in Int
    BY HitsType
  <2>2. Cells(P, n)[i] = c /\ i \in DOMAIN Cells(P, n)
    BY DEF Cells
  <2>3. /\ c.flow_sum = {g \in P : h[g] % 2 # 0}
        /\ c.flow_num = SumOf(h, P)
        /\ c.packet_num = SumOf(PacketsAt(n, i), Flow)
    BY DEF Cell
  <2>4. SumOf(h, P) \in Int
    BY <2>1, RadarAssumption, FS_Subset, SumOfType
  <2>5. SumOf(PacketsAt(m, i), Flow) = SumOf(PacketsAt(n, i), Flow) + p * Radar!hits(f, i)
    BY MorePackets
  <2>6. Cell(P, m, i) = [flow_sum   |-> {g \in P : h[g] % 2 # 0},
                         flow_num   |-> SumOf(h, P),
                         packet_num |-> SumOf(PacketsAt(m, i), Flow)]
    BY DEF Cell
  <2> HIDE DEF h, c, m
  <2>7. A[i] = [flow_sum   |-> IF (0 * h[f]) % 2 = 0 THEN c.flow_sum ELSE SymDiff(c.flow_sum, {f}),
                flow_num   |-> c.flow_num + 0 * h[f],
                packet_num |-> c.packet_num + p * h[f]]
    BY <2>1, <2>2, SameSymDiff DEF Radar!Added
  <2>8. (0 * h[f]) % 2 = 0 /\ c.flow_num + 0 * h[f] = SumOf(h, P)
    BY ONLY <2>1, <2>3, <2>4
  <2>9. A[i] = [flow_sum   |-> c.flow_sum,
                flow_num   |-> c.flow_num + 0 * h[f],
                packet_num |-> c.packet_num + p * h[f]]
    BY <2>7, <2>8
  <2> HIDE DEF A
  <2>10. QED
    BY <2>1, <2>3, <2>5, <2>6, <2>8, <2>9
<1>2. A = [i \in 0..(w_iblt - 1) |-> A[i]]
  BY DEF Radar!Added, Cells
<1> HIDE DEF A, m
<1>3. A = Cells(P, m)
  BY <1>1, <1>2 DEF Cells
<1>4. QED
  BY <1>3 DEF A, m

\* A flow is taken out, with as many packets.
LEMMA TakenFlow ==
  ASSUME NEW P \in SUBSET Flow, NEW n \in [Flow -> Int], NEW f \in P, NEW p \in Int
  PROVE  Radar!Added(Cells(P, n), f, -1, p) = Cells(P \ {f}, Plus(n, f, p))
<1> DEFINE m == Plus(n, f, p)
           Q == P \ {f}
           A == Radar!Added(Cells(P, n), f, -1, p)
<1>1. ASSUME NEW i \in 0..(w_iblt - 1)
      PROVE  A[i] = Cell(Q, m, i)
  <2> DEFINE h == HitsAt(i)
             c == Cell(P, n, i)
  <2>1. h[f] = Radar!hits(f, i) /\ h[f] \in Nat /\ \A g \in P : h[g] \in Int
    BY HitsType
  <2>2. Cells(P, n)[i] = c /\ i \in DOMAIN Cells(P, n)
    BY DEF Cells
  <2>3. /\ c.flow_sum = {g \in P : h[g] % 2 # 0}
        /\ c.flow_num = SumOf(h, P)
        /\ c.packet_num = SumOf(PacketsAt(n, i), Flow)
    BY DEF Cell
  <2>4. SumOf(h, P) = h[f] + SumOf(h, Q) /\ SumOf(h, Q) \in Int
    <3>1. IsFiniteSet(P) /\ IsFiniteSet(Q) /\ \A g \in Q : h[g] \in Int
      BY <2>1, RadarAssumption, FS_Subset
    <3>2. QED
      BY <2>1, <3>1, SumTake, SumOfType
  <2>5. SumOf(PacketsAt(m, i), Flow) = SumOf(PacketsAt(n, i), Flow) + p * Radar!hits(f, i)
    BY MorePackets
  <2>6. Cell(Q, m, i) = [flow_sum   |-> {g \in Q : h[g] % 2 # 0},
                         flow_num   |-> SumOf(h, Q),
                         packet_num |-> SumOf(PacketsAt(m, i), Flow)]
    BY DEF Cell
  <2> HIDE DEF h, c, m
  <2>7. A[i] = [flow_sum   |-> IF ((-1) * h[f]) % 2 = 0 THEN c.flow_sum ELSE SymDiff(c.flow_sum, {f}),
                flow_num   |-> c.flow_num + (-1) * h[f],
                packet_num |-> c.packet_num + p * h[f]]
    BY <2>1, <2>2, SameSymDiff DEF Radar!Added
  <2>8. (IF ((-1) * h[f]) % 2 = 0 THEN c.flow_sum ELSE SymDiff(c.flow_sum, {f}))
          = {g \in Q : h[g] % 2 # 0}
    <3>1. ((-1) * h[f]) % 2 = 0 <=> h[f] % 2 = 0
      BY ONLY <2>1
    <3>2. CASE h[f] % 2 = 0
      BY <2>3, <3>1, <3>2
    <3>3. CASE h[f] % 2 # 0
      BY <2>3, <3>1, <3>3 DEF SymDiff
    <3>4. QED
      BY <3>2, <3>3
  <2>9. c.flow_num + (-1) * h[f] = SumOf(h, Q)
    BY ONLY <2>1, <2>3, <2>4
  <2>10. QED
    BY <2>1, <2>3, <2>5, <2>6, <2>7, <2>8, <2>9
<1>2. A = [i \in 0..(w_iblt - 1) |-> A[i]]
  BY DEF Radar!Added, Cells
<1> HIDE DEF A, m, Q
<1>3. A = Cells(Q, m)
  BY <1>1, <1>2 DEF Cells
<1>4. QED
  BY <1>3 DEF A, m, Q

------------------------------------------------------------------------------
(***************************************************************************)
(* Decoding.  A set of flows stops it when no cell has a single flow of    *)
(* the set.  Whatever is decoded, and in what order, such a set stays as a *)
(* whole; and what is left when a round decodes nothing is one.            *)
(***************************************************************************)
Stopping(T) == \A i \in 0..(w_iblt - 1) : SumOf(HitsAt(i), T) # 1

LEMMA HitsSum ==
  ASSUME NEW s \in SUBSET Flow, NEW i
  PROVE  Radar!AllHits(s, i) = SumOf(HitsAt(i), s)
<1> DEFINE u == HitsAt(i)
           v == [f \in s |-> u[f]]
           Q(iter) == iter = [r \in SUBSET s |->
                        IF r = {} THEN 0
                        ELSE Radar!hits(CHOOSE x \in r : TRUE, i)
                               + iter[r \ {CHOOSE x \in r : TRUE}]]
<1>1. Radar!AllHits(s, i) = (CHOOSE iter : Q(iter))[s]
  BY DEF Radar!AllHits, Radar!MapThenSumSet, Radar!MapThenFoldSet
<1>2. IsFiniteSet(s) /\ \A f \in s : u[f] \in Int
  BY RadarAssumption, FS_Subset, HitsType
<1>3. ASSUME NEW iter PROVE Summing(iter, v, s) <=> Q(iter)
  <2>1. ASSUME NEW r \in SUBSET s, r # {}
        PROVE  v[CHOOSE x \in r : TRUE] = Radar!hits(CHOOSE x \in r : TRUE, i)
    <3>1. (CHOOSE x \in r : TRUE) \in s
      BY <2>1
    <3>2. QED
      BY <3>1, HitsType
  <2> HIDE DEF v
  <2>2. QED
    BY <2>1 DEF Summing
<1>4. PICK iter : Summing(iter, v, s)
  BY <1>2, SumOfIterated
<1>5. Summing(CHOOSE g : Q(g), v, s)
  <2> HIDE DEF Q, u, v
  <2>1. Q(CHOOSE g : Q(g))
    BY <1>3, <1>4
  <2>2. QED
    BY <1>3, <2>1
<1> HIDE DEF Q
<1>6. SumOf(u, s) = (CHOOSE g : Q(g))[s]
  BY <1>2, <1>5, SumOfPart
<1>7. QED
  BY <1>1, <1>6

LEMMA StuckIs ==
  ASSUME NEW flows \in SUBSET Flow
  PROVE  Radar!Stuck(flows) = UNION {s \in SUBSET flows : Stopping(s)}
<1>1. ASSUME NEW s \in SUBSET flows
      PROVE  (\A i \in 0..(w_iblt - 1) : Radar!AllHits(s, i) # 1) <=> Stopping(s)
  <2>1. s \in SUBSET Flow
    OBVIOUS
  <2>2. QED
    BY <2>1, HitsSum DEF Stopping
<1>2. QED
  BY <1>1 DEF Radar!Stuck

\* Dump s has decoded the flows of P0 that are not in P; if flows had n0 packets in
\* the cells and no other had any, it has their numbers.
Peels(s, P, n, P0, n0) ==
  /\ P \in SUBSET P0 /\ n \in [Flow -> Int]
  /\ s = [iblt |-> Cells(P, n), result |-> s.result, flag |-> s.flag]
  /\ s.result \in [P0 \ P -> Int]
  /\ \A T \in SUBSET P0 : Stopping(T) => T \in SUBSET P
  /\ (\A f \in Flow \ P0 : n0[f] = 0) =>
       /\ n = [f \in Flow |-> IF f \in P THEN n0[f] ELSE 0]
       /\ s.result = [f \in P0 \ P |-> n0[f]]

\* A cell that shows a single flow shows one of those left, and its packets.
LEMMA SingleFlow ==
  ASSUME NEW P \in SUBSET Flow, NEW n \in [Flow -> Int], NEW i \in 0..(w_iblt - 1),
         SumOf(HitsAt(i), P) = 1
  PROVE  \E f \in P : /\ HitsAt(i)[f] = 1 /\ \A g \in P \ {f} : HitsAt(i)[g] = 0
                      /\ Cells(P, n)[i].flow_sum = {f}
                      /\ (\A g \in Flow \ P : n[g] = 0) => Cells(P, n)[i].packet_num = n[f]
<1> DEFINE h == HitsAt(i)
<1>1. IsFiniteSet(Flow) /\ IsFiniteSet(P) /\ h \in [Flow -> Nat] /\ \A f \in P : h[f] \in Nat
  BY RadarAssumption, FS_Subset, HitsType
<1>2. PICK f \in P : h[f] = 1 /\ \A g \in P \ {f} : h[g] = 0
  BY <1>1, SumIsOne
<1>3. Cells(P, n)[i].flow_sum = {f}
  <2>1. Cells(P, n)[i].flow_sum = {g \in P : h[g] % 2 # 0}
    BY DEF Cells, Cell
  <2>2. 1 % 2 # 0 /\ 0 % 2 = 0
    OBVIOUS
  <2> HIDE DEF h
  <2>3. QED
    BY <1>2, <2>1, <2>2
<1>4. ASSUME \A g \in Flow \ P : n[g] = 0 PROVE Cells(P, n)[i].packet_num = n[f]
  <2> DEFINE v == PacketsAt(n, i)
  <2>1. Cells(P, n)[i].packet_num = SumOf(v, Flow)
    BY DEF Cells, Cell
  <2>2. v \in [Flow -> Int] /\ \A g \in Flow : v[g] = n[g] * h[g]
    BY PacketsType DEF PacketsAt
  <2>3. ASSUME NEW g \in Flow \ {f} PROVE v[g] = 0
    <3>1. n[g] = 0 \/ h[g] = 0
      BY <1>2, <1>4
    <3>2. n[g] \in Int /\ h[g] \in Int /\ v[g] = n[g] * h[g]
      BY <1>1, <2>2
    <3> HIDE DEF v, h
    <3>3. QED
      BY ONLY <3>1, <3>2
  <2>4. v[f] = n[f]
    <3>1. v[f] = n[f] * 1 /\ n[f] \in Int
      BY <1>2, <2>2
    <3>2. n[f] * 1 = n[f]
      BY ONLY <3>1
    <3>3. QED
      BY <3>1, <3>2
  <2> HIDE DEF v
  <2>5. SumOf(v, Flow \ {f}) = 0
    BY <1>1, <2>3, FS_Subset, SumOfZeros
  <2>6. SumOf(v, Flow) = v[f] + SumOf(v, Flow \ {f})
    BY <1>1, <2>2, SumTake
  <2>7. QED
    BY <2>1, <2>4, <2>5, <2>6
<1>5. QED
  BY <1>2, <1>3, <1>4

\* A set that stops the decoding has no flow that is alone in a cell.
LEMMA StoppingKept ==
  ASSUME NEW P \in SUBSET Flow, NEW T \in SUBSET P, Stopping(T),
         NEW i \in 0..(w_iblt - 1), NEW f \in P,
         HitsAt(i)[f] = 1, \A g \in P \ {f} : HitsAt(i)[g] = 0
  PROVE  f \notin T
<1>1. SUFFICES ASSUME f \in T PROVE FALSE
  OBVIOUS
<1> DEFINE h == HitsAt(i)
<1>2. IsFiniteSet(T) /\ IsFiniteSet(T \ {f}) /\ \A g \in T : h[g] \in Int
  BY RadarAssumption, FS_Subset, HitsType
<1>3. SumOf(h, T) = h[f] + SumOf(h, T \ {f})
  BY <1>1, <1>2, SumTake
<1>4. SumOf(h, T \ {f}) = 0
  BY <1>2, SumOfZeros
<1>5. QED
  BY <1>3, <1>4 DEF Stopping

LEMMA PeelsFields ==
  ASSUME NEW s, NEW P, NEW n, NEW P0, NEW n0, Peels(s, P, n, P0, n0)
  PROVE  /\ P \in SUBSET P0 /\ n \in [Flow -> Int] /\ s.iblt = Cells(P, n)
         /\ \A i \in 0..(w_iblt - 1) : s.iblt[i].flow_num = SumOf(HitsAt(i), P)
<1> DEFINE c == Cells(P, n)
<1>1. \A i \in 0..(w_iblt - 1) : c[i].flow_num = SumOf(HitsAt(i), P)
  BY DEF Cells, Cell
<1>2. P \in SUBSET P0 /\ n \in [Flow -> Int]
  BY DEF Peels
<1>3. s = [iblt |-> c, result |-> s.result, flag |-> s.flag]
  BY DEF Peels
<1> HIDE DEF c
<1>4. s.iblt = c
  BY <1>3
<1>5. QED
  BY <1>1, <1>2, <1>4 DEF c

\* A turn of dump takes out the flow of a cell that has a single one.
LEMMA PeelOne ==
  ASSUME NEW P0 \in SUBSET Flow, NEW n0, NEW s, NEW P, NEW n, Peels(s, P, n, P0, n0),
         NEW i \in 0..(w_iblt - 1), SumOf(HitsAt(i), P) = 1
  PROVE  \E f \in P : \E m : Peels(Radar!peel(s, i), P \ {f}, m, P0, n0)
<1> DEFINE t == Radar!peel(s, i)
           c == Cells(P, n)
<1>1. P \in SUBSET Flow /\ P \in SUBSET P0 /\ n \in [Flow -> Int] /\ s.iblt = c
  BY PeelsFields
<1>2. PICK f \in P : /\ HitsAt(i)[f] = 1 /\ \A g \in P \ {f} : HitsAt(i)[g] = 0
                     /\ c[i].flow_sum = {f}
                     /\ (\A g \in Flow \ P : n[g] = 0) => c[i].packet_num = n[f]
  BY <1>1, SingleFlow
<1> DEFINE p == c[i].packet_num
           m == Plus(n, f, -p)
           Q == P \ {f}
           r == Radar!Set(s.result, f, p)
<1>3. s.iblt[i].flow_num = 1
  BY PeelsFields
<1>4. p \in Int
  <2>1. p = SumOf(PacketsAt(n, i), Flow)
    BY <1>1 DEF Cells, Cell
  <2>2. IsFiniteSet(Flow) /\ \A g \in Flow : PacketsAt(n, i)[g] \in Int
    BY <1>1, PacketsType, RadarAssumption
  <2>3. QED
    BY <2>1, <2>2, SumOfType
<1>5. t = [iblt |-> Cells(Q, m), result |-> r, flag |-> FALSE]
  <2>1. t = [iblt |-> Radar!Added(c, f, -1, -p), result |-> r, flag |-> FALSE]
    <3> HIDE DEF c
    <3>1. QED
      BY <1>1, <1>2, <1>3 DEF Radar!peel
  <2> DEFINE d == -p
  <2>2. d \in Int
    BY <1>4
  <2> HIDE DEF d
  <2>3. Radar!Added(Cells(P, n), f, -1, d) = Cells(P \ {f}, Plus(n, f, d))
    BY <1>1, <2>2, TakenFlow
  <2>4. QED
    BY <2>1, <2>3 DEF d
<1>6. r = [g \in P0 \ Q |-> IF g = f THEN p ELSE s.result[g]]
  <2>1. DOMAIN s.result = P0 \ P
    BY DEF Peels
  <2>2. {f} \union (P0 \ P) = P0 \ Q
    BY <1>1
  <2>3. QED
    BY <2>1, <2>2 DEF Radar!Set
<1>7. m \in [Flow -> Int]
  BY <1>1, <1>4 DEF Plus
<1>8. ASSUME NEW T \in SUBSET P0, Stopping(T) PROVE T \in SUBSET Q
  <2>1. T \in SUBSET P
    BY <1>8 DEF Peels
  <2>2. f \notin T
    <3> HIDE DEF t, c, p, m, Q, r
    <3>1. Stopping(T) /\ HitsAt(i)[f] = 1 /\ \A g \in P \ {f} : HitsAt(i)[g] = 0
      BY <1>2, <1>8
    <3>2. P \in SUBSET Flow
      BY <1>1
    <3>3. QED
      BY <2>1, <3>1, <3>2, StoppingKept
  <2>3. QED
    BY <2>1, <2>2
<1>9. ASSUME \A g \in Flow \ P0 : n0[g] = 0
      PROVE  /\ m = [g \in Flow |-> IF g \in Q THEN n0[g] ELSE 0]
             /\ r = [g \in P0 \ Q |-> n0[g]]
  <2>1. n = [g \in Flow |-> IF g \in P THEN n0[g] ELSE 0] /\ s.result = [g \in P0 \ P |-> n0[g]]
    BY <1>9 DEF Peels
  <2>2. p = n[f] /\ n[f] = n0[f]
    BY <1>1, <1>2, <2>1
  <2>3. ASSUME NEW g \in Flow PROVE m[g] = IF g \in Q THEN n0[g] ELSE 0
    <3>1. CASE g = f
      <4>1. m[g] = n[f] + (-p)
        BY <1>1, <3>1 DEF Plus
      <4>2. m[g] = 0
        BY <1>4, <2>2, <4>1
      <4>3. QED
        BY <3>1, <4>2
    <3>2. CASE g # f
      BY <2>1, <3>2 DEF Plus
    <3>3. QED
      BY <3>1, <3>2
  <2>4. m = [g \in Flow |-> IF g \in Q THEN n0[g] ELSE 0]
    BY <1>7, <2>3
  <2>5. ASSUME NEW g \in P0 \ Q PROVE r[g] = n0[g]
    BY <1>6, <2>1, <2>2
  <2>6. QED
    BY <1>6, <2>4, <2>5
<1>10. t.flag = FALSE /\ t.iblt = Cells(Q, m) /\ t.result = r
  BY <1>5
<1>11. Q \in SUBSET P0 /\ r \in [P0 \ Q -> Int]
  <2>1. s.result \in [P0 \ P -> Int]
    BY DEF Peels
  <2>2. \A g \in P0 \ Q : g # f => g \in P0 \ P
    OBVIOUS
  <2>3. QED
    BY <1>1, <1>4, <1>6, <2>1, <2>2
<1> HIDE DEF t, m, Q, r
<1>12. Peels(t, Q, m, P0, n0)
  BY <1>5, <1>7, <1>8, <1>9, <1>10, <1>11 DEF Peels
<1>13. QED
  BY <1>10, <1>12 DEF t, Q

\* A round takes out some flow, unless those that are left stop it.
LEMMA RoundPeels ==
  ASSUME NEW P0 \in SUBSET Flow, NEW n0, NEW s, NEW P, NEW n, Peels(s, P, n, P0, n0)
  PROVE  LET t == Radar!round(s)
         IN  \/ t.flag = TRUE /\ Stopping(P) /\ Peels(t, P, n, P0, n0)
             \/ t.flag = FALSE /\ \E Q \in SUBSET P : \E m : Q # P /\ Peels(t, Q, m, P0, n0)
<1>1. w_iblt \in Nat
  BY RadarAssumption
<1>2. PICK g : /\ g[0] = Flagged(s)
               /\ \A i \in 1..w_iblt : g[i] = Radar!peel(g[i - 1], i - 1)
               /\ Radar!round(s) = g[w_iblt]
  BY <1>1, RoundIs
<1> DEFINE Nothing(i) == /\ g[i].flag = TRUE /\ Peels(g[i], P, n, P0, n0)
                         /\ \A j \in 0..(i - 1) : SumOf(HitsAt(j), P) # 1
           Something(i) == /\ g[i].flag = FALSE
                           /\ \E Q \in SUBSET P : \E m : Q # P /\ Peels(g[i], Q, m, P0, n0)
           Good == {i \in Nat : i <= w_iblt => Nothing(i) \/ Something(i)}
<1>3. 0 \in Good
  <2>1. g[0] = [iblt |-> Cells(P, n), result |-> s.result, flag |-> TRUE]
    <3>1. s.iblt = Cells(P, n)
      BY PeelsFields
    <3>2. QED
      BY <1>2, <3>1 DEF Flagged
  <2>2. g[0].result = s.result /\ g[0].flag = TRUE
    BY <2>1
  <2>3. Nothing(0)
    BY <2>1, <2>2 DEF Peels
  <2>4. QED
    BY <2>3
<1>4. ASSUME NEW i \in Nat, i \in Good PROVE i + 1 \in Good
  <2> HIDE DEF Nothing, Something
  <2>1. SUFFICES ASSUME i + 1 <= w_iblt PROVE Nothing(i + 1) \/ Something(i + 1)
    OBVIOUS
  <2>2. i \in 0..(w_iblt - 1) /\ i + 1 \in 1..w_iblt /\ (i + 1) - 1 = i /\ i <= w_iblt
    BY <1>1, <2>1
  <2>3. g[i + 1] = Radar!peel(g[i], i)
    BY <1>2, <2>2
  <2>4. ASSUME NEW Q \in SUBSET P, NEW m, Peels(g[i], Q, m, P0, n0), SumOf(HitsAt(i), Q) # 1
        PROVE  g[i + 1] = g[i]
    <3>1. g[i].iblt[i].flow_num = SumOf(HitsAt(i), Q)
      BY <2>2, <2>4, PeelsFields
    <3>2. QED
      BY <2>3, <2>4, <3>1 DEF Radar!peel
  <2>5. ASSUME NEW Q \in SUBSET P, NEW m, Peels(g[i], Q, m, P0, n0), SumOf(HitsAt(i), Q) = 1
        PROVE  Something(i + 1)
    <3>0. PICK f \in Q : \E k : Peels(Radar!peel(g[i], i), Q \ {f}, k, P0, n0)
      BY <2>2, <2>5, PeelOne
    <3>1. PICK k : Peels(Radar!peel(g[i], i), Q \ {f}, k, P0, n0)
      BY <3>0
    <3>2. g[i + 1].flag = FALSE
      <4>1. g[i].iblt[i].flow_num = SumOf(HitsAt(i), Q)
        BY <2>2, <2>5, PeelsFields
      <4>2. QED
        BY <2>3, <2>5, <4>1 DEF Radar!peel
    <3>3. Q \ {f} \in SUBSET P /\ Q \ {f} # P
      OBVIOUS
    <3>4. QED
      BY <2>3, <3>1, <3>2, <3>3 DEF Something
  <2>6. CASE Nothing(i)
    <3>1. CASE SumOf(HitsAt(i), P) = 1
      BY <2>5, <2>6, <3>1 DEF Nothing
    <3>2. CASE SumOf(HitsAt(i), P) # 1
      <4>1. g[i + 1] = g[i]
        BY <2>4, <2>6, <3>2 DEF Nothing
      <4>2. \A j \in 0..((i + 1) - 1) : j = i \/ j \in 0..(i - 1)
        OBVIOUS
      <4>3. QED
        BY <2>6, <3>2, <4>1, <4>2 DEF Nothing
    <3>3. QED
      BY <3>1, <3>2
  <2>7. CASE Something(i)
    <3>0. PICK Q \in SUBSET P : \E m : Q # P /\ Peels(g[i], Q, m, P0, n0)
      BY <2>7 DEF Something
    <3>1. PICK m : Q # P /\ Peels(g[i], Q, m, P0, n0)
      BY <3>0
    <3>2. CASE SumOf(HitsAt(i), Q) = 1
      BY <2>5, <3>1, <3>2
    <3>3. CASE SumOf(HitsAt(i), Q) # 1
      BY <2>4, <2>7, <3>1, <3>3 DEF Something
    <3>4. QED
      BY <3>2, <3>3
  <2>8. QED
    BY <1>4, <2>2, <2>6, <2>7
<1> HIDE DEF Good
<1>5. w_iblt \in Good
  BY <1>1, <1>3, <1>4, AllNumbers
<1>6. Nothing(w_iblt) \/ Something(w_iblt)
  BY <1>1, <1>5 DEF Good
<1>7. QED
  BY <1>2, <1>6 DEF Stopping

\* Round by round, until one decodes nothing.
Undumped(cells) == [iblt |-> cells, result |-> [f \in {} |-> 0], flag |-> FALSE]

Dumping(g, s, n) == g = [k \in 0..n |-> IF k = 0 THEN s ELSE Radar!again(g[k - 1])]

LEMMA DumpingExists ==
  ASSUME NEW s, NEW n \in Nat
  PROVE  \E g : Dumping(g, s, n)
<1> DEFINE Good == {m \in Nat : \E g : Dumping(g, s, m)}
<1>1. 0 \in Good
  <2> DEFINE g == [k \in 0..0 |-> s]
  <2>1. Dumping(g, s, 0)
    BY DEF Dumping
  <2>2. QED
    BY <2>1
<1>2. ASSUME NEW m \in Nat, m \in Good PROVE m + 1 \in Good
  <2>1. PICK g : Dumping(g, s, m)
    BY <1>2
  <2> DEFINE h == [k \in 0..(m + 1) |-> IF k = m + 1 THEN Radar!again(g[m]) ELSE g[k]]
  <2>2. ASSUME NEW k \in 0..(m + 1)
        PROVE  h[k] = IF k = 0 THEN s ELSE Radar!again(h[k - 1])
    <3>1. CASE k = m + 1
      <4>1. h[k] = Radar!again(g[m]) /\ h[m] = g[m] /\ k - 1 = m /\ k # 0
        BY <3>1
      <4>2. QED
        BY <4>1
    <3>2. CASE k # m + 1
      <4>1. k \in 0..m /\ h[k] = g[k] /\ (k # 0 => h[k - 1] = g[k - 1])
        BY <3>2
      <4>2. g[k] = IF k = 0 THEN s ELSE Radar!again(g[k - 1])
        BY <2>1, <4>1 DEF Dumping
      <4>3. QED
        BY <4>1, <4>2
    <3>3. QED
      BY <3>1, <3>2
  <2> DEFINE k == [i \in 0..(m + 1) |-> IF i = 0 THEN s ELSE Radar!again(h[i - 1])]
  <2>3. h = k
    <3>1. \A i \in 0..(m + 1) : h[i] = k[i]
      BY <2>2
    <3>2. /\ DOMAIN h = 0..(m + 1) /\ h = [i \in DOMAIN h |-> h[i]]
          /\ DOMAIN k = 0..(m + 1) /\ k = [i \in DOMAIN k |-> k[i]]
      OBVIOUS
    <3> HIDE DEF h, k
    <3>3. QED
      BY <3>1, <3>2
  <2>4. Dumping(h, s, m + 1)
    BY <2>3 DEF Dumping
  <2>5. QED
    BY <2>4
<1>3. n \in Good
  <2> HIDE DEF Good
  <2>1. QED
    BY <1>1, <1>2, AllNumbers
<1>4. QED
  BY <1>3

LEMMA DumpIs ==
  ASSUME NEW r
  PROVE  LET last == Cardinality(Flow) + 1
         IN  /\ last \in Nat
             /\ \E g : /\ g[0] = Undumped(r.iblt)
                       /\ \A k \in 1..last : g[k] = Radar!again(g[k - 1])
                       /\ Radar!dump(r) = [result |-> g[last].result,
                                           radar  |-> [bf |-> r.bf, iblt |-> g[last].iblt]]
<1> DEFINE last == Cardinality(Flow) + 1
           g == CHOOSE g : Dumping(g, Undumped(r.iblt), last)
<1>1. last \in Nat /\ DOMAIN iblt_hash = Flow
  BY RadarAssumption, FS_CardinalityType
<1>2. Radar!Cardinality(DOMAIN iblt_hash) + 1 = last
  BY <1>1, SameCardinality
<1>3. Dumping(g, Undumped(r.iblt), last)
  <2> HIDE DEF last
  <2>1. QED
    BY <1>1, DumpingExists
<1>4. Radar!dump(r) = [result |-> g[last].result, radar |-> [bf |-> r.bf, iblt |-> g[last].iblt]]
  <2> HIDE DEF last
  <2>1. QED
    BY <1>2 DEF Radar!dump, Dumping, Undumped
<1> HIDE DEF g, last
<1>5. g[0] = Undumped(r.iblt)
  BY <1>1, <1>3 DEF Dumping
<1>6. ASSUME NEW k \in 1..last PROVE g[k] = Radar!again(g[k - 1])
  <2>1. k \in 0..last /\ k # 0
    BY <1>1
  <2>2. QED
    BY <1>3, <2>1 DEF Dumping
<1>7. QED
  BY <1>1, <1>4, <1>5, <1>6 DEF last

HasLeft(r, B, P) == \E n \in [Flow -> Int] : r = [bf |-> B, iblt |-> Cells(P, n)]

Exact(sum, P, n) == (\A f \in Flow \ P : n[f] = 0) => \A f \in P \ Radar!Stuck(P) : sum[f] = n[f]

\* InsertableIBLT::dump ends, whatever flows and packets are in the cells: it leaves
\* the flows that no order of decoding can get at, the largest set no cell of which
\* is down to one flow, and gives the others with the packets the cells have of them.
THEOREM DumpDecodes ==
  ASSUME NEW P0 \in SUBSET Flow, NEW n0 \in [Flow -> Int], NEW r, r.iblt = Cells(P0, n0)
  PROVE  LET d == Radar!dump(r)
             stuck == Radar!Stuck(P0)
         IN  /\ stuck \in SUBSET P0 /\ Stopping(stuck)
             /\ \A T \in SUBSET P0 : Stopping(T) => T \in SUBSET stuck
             /\ d.result \in [P0 \ stuck -> Int]
             /\ HasLeft(d.radar, r.bf, stuck) /\ Exact(d.result, P0, n0)
<1> DEFINE last == Cardinality(Flow) + 1
<1>1. last \in Nat
  BY DumpIs
<1>2. PICK g : /\ g[0] = Undumped(r.iblt)
               /\ \A k \in 1..last : g[k] = Radar!again(g[k - 1])
               /\ Radar!dump(r) = [result |-> g[last].result,
                                   radar  |-> [bf |-> r.bf, iblt |-> g[last].iblt]]
  BY DumpIs
<1>3. ASSUME NEW Q \in SUBSET P0
      PROVE  /\ Cardinality(Q) \in Nat /\ Cardinality(Q) <= Cardinality(P0)
             /\ IsFiniteSet(Q)
             /\ \A R \in SUBSET Q : R # Q => Cardinality(R) + 1 <= Cardinality(Q)
  <2>1. IsFiniteSet(P0) /\ IsFiniteSet(Q)
    BY RadarAssumption, FS_Subset
  <2>2. Cardinality(Q) \in Nat /\ Cardinality(Q) <= Cardinality(P0)
    BY <2>1, FS_Subset, FS_CardinalityType
  <2>3. ASSUME NEW R \in SUBSET Q, R # Q PROVE Cardinality(R) + 1 <= Cardinality(Q)
    <3>1. IsFiniteSet(R) /\ Cardinality(R) \in Nat /\ Cardinality(R) <= Cardinality(Q) /\ Cardinality(R) # Cardinality(Q)
      BY <2>1, <2>3, FS_Subset, FS_CardinalityType
    <3>2. QED
      BY <2>2, <3>1
  <2>4. QED
    BY <2>1, <2>2, <2>3
<1> DEFINE Done(k) == g[k].flag = TRUE /\ \E Q, n : Stopping(Q) /\ Peels(g[k], Q, n, P0, n0)
           More(k) == g[k].flag = FALSE /\ \E Q, n : /\ Peels(g[k], Q, n, P0, n0)
                                                     /\ Cardinality(Q) + k <= Cardinality(P0)
           Good == {k \in Nat : k <= last => Done(k) \/ More(k)}
<1>4. 0 \in Good
  <2>1. g[0].iblt = Cells(P0, n0) /\ g[0].flag = FALSE /\ g[0].result = [f \in {} |-> 0]
    BY <1>2 DEF Undumped
  <2>2. g[0] = [iblt |-> Cells(P0, n0), result |-> g[0].result, flag |-> g[0].flag]
    BY <1>2, <2>1 DEF Undumped
  <2>3. P0 \ P0 = {}
    OBVIOUS
  <2>4. /\ g[0].result \in [P0 \ P0 -> Int]
        /\ g[0].result = [f \in P0 \ P0 |-> n0[f]]
    BY <2>1, <2>3
  <2>5. (\A f \in Flow \ P0 : n0[f] = 0) => n0 = [f \in Flow |-> IF f \in P0 THEN n0[f] ELSE 0]
    OBVIOUS
  <2>6. Peels(g[0], P0, n0, P0, n0)
    BY <2>2, <2>4, <2>5 DEF Peels
  <2>7. Cardinality(P0) + 0 <= Cardinality(P0)
    BY <1>3
  <2>8. QED
    BY <2>1, <2>6, <2>7
<1>5. ASSUME NEW k \in Nat, k \in Good PROVE k + 1 \in Good
  <2> HIDE DEF Done, More, last
  <2>1. SUFFICES ASSUME k + 1 <= last PROVE Done(k + 1) \/ More(k + 1)
    OBVIOUS
  <2>2. Done(k) \/ More(k)
    BY <1>1, <1>5, <2>1
  <2>3. g[k + 1] = Radar!again(g[k])
    BY <1>1, <1>2, <2>1
  <2>4. CASE Done(k)
    BY <2>3, <2>4 DEF Done, Radar!again
  <2>5. CASE More(k)
    <3>1. PICK Q, n : Peels(g[k], Q, n, P0, n0) /\ Cardinality(Q) + k <= Cardinality(P0)
      BY <2>5 DEF More
    <3>2. Q \in SUBSET P0
      BY <3>1, PeelsFields
    <3>3. g[k + 1] = Radar!round(g[k])
      BY <2>3, <2>5 DEF More, Radar!again
    <3> DEFINE t == Radar!round(g[k])
    <3>4. \/ t.flag = TRUE /\ Stopping(Q) /\ Peels(t, Q, n, P0, n0)
          \/ t.flag = FALSE /\ \E R \in SUBSET Q : \E m : R # Q /\ Peels(t, R, m, P0, n0)
      BY <3>1, RoundPeels
    <3> HIDE DEF t
    <3>5. CASE t.flag = TRUE /\ Stopping(Q) /\ Peels(t, Q, n, P0, n0)
      BY <3>3, <3>5 DEF Done, t
    <3>6. ASSUME t.flag = FALSE, NEW R \in SUBSET Q, NEW m, R # Q, Peels(t, R, m, P0, n0)
          PROVE  More(k + 1)
      <4>1. Cardinality(R) + 1 <= Cardinality(Q) /\ Cardinality(R) \in Nat /\ Cardinality(Q) \in Nat /\ Cardinality(P0) \in Nat
        BY <1>3, <3>2, <3>6
      <4>2. Cardinality(R) + (k + 1) <= Cardinality(P0)
        BY <3>1, <4>1
      <4>3. QED
        BY <3>3, <3>6, <4>2 DEF More, t
    <3>7. QED
      BY <3>4, <3>5, <3>6
  <2>6. QED
    BY <2>2, <2>4, <2>5
<1> HIDE DEF Good
<1>6. last \in Good
  BY <1>1, <1>4, <1>5, AllNumbers
<1>7. Done(last)
  <2>0. Done(last) \/ More(last)
    <3> HIDE DEF Done, More, last
    <3>1. QED
      BY <1>1, <1>6 DEF Good
  <2>1. SUFFICES ASSUME More(last) PROVE FALSE
    BY <2>0
  <2>2. PICK Q, n : Peels(g[last], Q, n, P0, n0) /\ Cardinality(Q) + last <= Cardinality(P0)
    BY <2>1
  <2>3. Q \in SUBSET P0
    BY <2>2, PeelsFields
  <2>4. Cardinality(P0) <= Cardinality(Flow) /\ Cardinality(Flow) \in Nat /\ Cardinality(P0) \in Nat
    BY RadarAssumption, FS_Subset, FS_CardinalityType
  <2>5. Cardinality(Q) \in Nat
    BY <1>3, <2>3
  <2>6. QED
    BY <2>2, <2>4, <2>5
<1>8. PICK Q, n : Stopping(Q) /\ Peels(g[last], Q, n, P0, n0)
  BY <1>7
<1>9. Q \in SUBSET P0 /\ n \in [Flow -> Int] /\ g[last].iblt = Cells(Q, n)
  BY <1>8, PeelsFields
<1>10. \A T \in SUBSET P0 : Stopping(T) => T \in SUBSET Q
  BY <1>8 DEF Peels
<1>11. Radar!Stuck(P0) = Q
  <2>1. Radar!Stuck(P0) = UNION {s \in SUBSET P0 : Stopping(s)}
    BY StuckIs
  <2>2. QED
    BY <1>8, <1>9, <1>10, <2>1
<1>12. /\ g[last].result \in [P0 \ Q -> Int]
       /\ (\A f \in Flow \ P0 : n0[f] = 0) => \A f \in P0 \ Q : g[last].result[f] = n0[f]
  BY <1>8 DEF Peels
<1>13. Radar!dump(r).result = g[last].result /\ HasLeft(Radar!dump(r).radar, r.bf, Q)
  BY <1>2, <1>9 DEF HasLeft
<1>14. QED
  BY <1>8, <1>9, <1>10, <1>11, <1>12, <1>13 DEF Exact

------------------------------------------------------------------------------
(* Packet numbers and windows *)

LEMMA NextWindow ==
  ASSUME NEW n \in Nat, NEW W \in Nat \ {0}
  PROVE  /\ n % W \in 0..(W - 1) /\ n \div W \in Nat
         /\ IF n % W = W - 1 THEN (n + 1) % W = 0 /\ (n + 1) \div W = n \div W + 1
            ELSE (n + 1) % W = (n % W) + 1 /\ (n + 1) \div W = n \div W
<1>1. n % W \in 0..(W - 1) /\ n \div W \in Nat
  OBVIOUS
<1>2. IF n % W = W - 1 THEN (n + 1) % W = 0 /\ (n + 1) \div W = n \div W + 1
      ELSE (n + 1) % W = (n % W) + 1 /\ (n + 1) \div W = n \div W
  OBVIOUS
<1>3. QED
  BY ONLY <1>1, <1>2

LEMMA WindowStart ==
  ASSUME NEW n \in Nat, NEW W \in Nat \ {0}
  PROVE  n = (n \div W) * W + (n % W)
<1> DEFINE Good == {m \in Nat : m = (m \div W) * W + (m % W)}
<1>1. 0 \in Good
  <2>1. 0 \div W = 0 /\ 0 % W = 0 /\ 0 * W = 0
    OBVIOUS
  <2>2. QED
    BY <2>1
<1>2. ASSUME NEW m \in Nat, m \in Good PROVE m + 1 \in Good
  <2> DEFINE q == m \div W
             r == m % W
             p == (m + 1) \div W
             s == (m + 1) % W
  <2>1. q \in Nat /\ r \in 0..(W - 1) /\ m = q * W + r
    BY <1>2, NextWindow
  <2>2. IF r = W - 1 THEN s = 0 /\ p = q + 1 ELSE s = r + 1 /\ p = q
    BY NextWindow
  <2> HIDE DEF q, r, p, s
  <2>3. q * W \in Nat /\ (q + 1) * W = q * W + W
    BY <2>1
  <2>4. m + 1 = p * W + s
    <3>1. CASE r = W - 1
      BY ONLY <2>1, <2>2, <2>3, <3>1, m \in Nat, W \in Nat
    <3>2. CASE r # W - 1
      BY ONLY <2>1, <2>2, <2>3, <3>2, m \in Nat, W \in Nat
    <3>3. QED
      BY <3>1, <3>2
  <2>5. m + 1 = ((m + 1) \div W) * W + ((m + 1) % W)
    BY <2>4 DEF p, s
  <2>6. m + 1 \in Nat
    OBVIOUS
  <2>7. QED
    BY <2>5, <2>6
<1> HIDE DEF Good
<1>3. n \in Good
  BY <1>1, <1>2, AllNumbers
<1>4. QED
  BY <1>3 DEF Good

------------------------------------------------------------------------------
(* The insertions are those of the key-value tasks *)

LEMMA NowNat == WindowSpec => [](now \in Nat)
<1>1. WindowInit => now \in Nat
  BY DEF WindowInit, KVInit, Init
<1>2. now \in Nat /\ [WindowNext]_windowVars => (now \in Nat)'
  <2> SUFFICES ASSUME now \in Nat, [WindowNext]_windowVars PROVE (now \in Nat)'
    OBVIOUS
  <2>1. CASE WindowNext
    <3>1. PICK f : Arrive(f)
      BY <2>1 DEF WindowNext, persistentTest_packet, flowletTest_packet, rfTest_packet,
                  InsertPersistent, InsertFlowlet, InsertRecent
    <3>2. QED
      BY <3>1 DEF Arrive
  <2>2. CASE UNCHANGED windowVars
    BY <2>2 DEF windowVars, kvVars, vars
  <2>3. QED
    BY <2>1, <2>2
<1>3. QED
  BY <1>1, <1>2, PTL DEF WindowSpec

\* A packet of the trace is inserted, and counted in its window.
LEMMA WindowStep ==
  ASSUME now \in Nat, WindowNext
  PROVE  KVNext /\ \E f \in Flow : Arrive(f) /\ Window(f)
<1>1. PICK f \in tuples[now + 1] :
        persistentTest_packet(f) \/ flowletTest_packet(f) \/ rfTest_packet(f)
  BY DEF WindowNext
<1>2. f \in Flow
  <2>1. now + 1 \in 1..MaxPackets
    BY WordAssumption DEF WindowNext
  <2>2. tuples[now + 1] \in SUBSET Flow
    BY <2>1, TaskAssumption
  <2>3. QED
    BY <1>1, <2>2
<1>3. /\ InsertPersistent(f) \/ InsertRecent(f) \/ InsertFlowlet(f)
      /\ Window(f)
  BY <1>1 DEF persistentTest_packet, flowletTest_packet, rfTest_packet
<1>4. Arrive(f)
  BY <1>3 DEF InsertPersistent, InsertFlowlet, InsertRecent
<1>5. QED
  BY <1>2, <1>3, <1>4 DEF KVNext

\* So every theorem about the key-value insertions holds here.
THEOREM WindowsImplementKV == WindowSpec => KVSpec
<1>1. WindowInit => KVInit
  BY DEF WindowInit
<1>2. now \in Nat /\ [WindowNext]_windowVars => [KVNext]_kvVars
  BY WindowStep DEF windowVars
<1>3. QED
  BY <1>1, <1>2, NowNat, PTL DEF WindowSpec, KVSpec

ArrayInv == ItemsInv /\ StampsInv /\ LatestVisible

LEMMA ArrayInvariant == WindowSpec => []ArrayInv
<1>1. ItemsInv /\ StampsInv /\ LatestVisible => ArrayInv
  BY DEF ArrayInv
<1>2. QED
  BY <1>1, WindowsImplementKV, KVInvariant, KVStampsInvariant, KVLatestVisible, PTL

------------------------------------------------------------------------------
(* The windows that are over and the one that is not *)

NoPackets == [f \in Flow |-> 0]

\* The packets of each flow in the window that is not over.
Current == IF now % PACKET_PER_W = 0 THEN NoPackets ELSE flowCount

Table == [flowCount : [Flow -> Nat], sum : UNION {[S -> Int] : S \in SUBSET Flow}]

WindowsType ==
  /\ clears \in BOOLEAN
  /\ flowCount \in [Flow -> Nat]
  /\ tables \in Seq(Table) /\ Len(tables) = now \div PACKET_PER_W
  /\ seen \in [Flow -> SUBSET Nat]

\* A packet within a window.
Within(f) ==
  /\ now' % PACKET_PER_W # 0 /\ now' \div PACKET_PER_W = now \div PACKET_PER_W
  /\ Current' = flowCount'
  /\ radar' = Radar!insert(radar, f) /\ tables' = tables /\ seen' = seen

\* The last packet of a window.
Closing(f) ==
  /\ now' % PACKET_PER_W = 0 /\ now' \div PACKET_PER_W = now \div PACKET_PER_W + 1
  /\ (now' \div PACKET_PER_W) * PACKET_PER_W = now'
  /\ Current' = NoPackets
  /\ EndWindow(now \div PACKET_PER_W, Radar!insert(radar, f))

LEMMA PacketOfWindow ==
  ASSUME now \in Nat, WindowsType, NEW f \in Flow, Arrive(f), Window(f)
  PROVE  /\ now' = now + 1 /\ clears' = clears
         /\ now \div PACKET_PER_W \in Nat
         /\ (now \div PACKET_PER_W) * PACKET_PER_W \in Nat
         /\ (now \div PACKET_PER_W) * PACKET_PER_W <= now
         /\ now % PACKET_PER_W = 0 => (now \div PACKET_PER_W) * PACKET_PER_W = now
         /\ Current \in [Flow -> Nat]
         /\ flowCount' = Plus(Current, f, 1) /\ flowCount' \in [Flow -> Nat]
         /\ Within(f) \/ Closing(f)
<1> DEFINE W == PACKET_PER_W
           q == now \div W
           r == now % W
<1>1. W \in Nat \ {0}
  BY TaskAssumption, ThresholdAssumption DEF PACKET_PER_W
<1>2. now' = now + 1 /\ clears' = clears
  BY DEF Arrive, Window
<1> HIDE DEF W
<1>3. q \in Nat /\ r \in 0..(W - 1) /\ now = q * W + r
  BY <1>1, NextWindow, WindowStart
<1>4. IF r = W - 1 THEN now' % W = 0 /\ now' \div W = q + 1
      ELSE now' % W = r + 1 /\ now' \div W = q
  BY <1>1, <1>2, NextWindow
<1>5. now' \in Nat /\ now' = (now' \div W) * W + (now' % W)
  BY <1>1, <1>2, WindowStart
<1>6. Current \in [Flow -> Nat] /\ flowCount' = Plus(Current, f, 1)
  <2>1. Current \in [Flow -> Nat]
    BY DEF Current, WindowsType, NoPackets
  <2>2. flowCount' = [(IF now % PACKET_PER_W = 0 THEN [g \in Flow |-> 0] ELSE flowCount)
                        EXCEPT ![f] = @ + 1]
    BY DEF Window
  <2>3. QED
    BY <2>1, <2>2 DEF Current, NoPackets, Plus
<1>7. flowCount' \in [Flow -> Nat]
  BY <1>6 DEF Plus
<1> HIDE DEF q, r
<1>8. q * W \in Nat /\ q * W <= now /\ (r = 0 => q * W = now)
  BY <1>1, <1>3
<1>9. CASE r = W - 1
  <2>1. now' % W = 0 /\ now' \div W = q + 1
    BY <1>4, <1>9
  <2>2. (now' \div W) * W = now'
    <3> DEFINE p == (now' \div W) * W
    <3>1. p \in Nat
      BY <1>1, <1>3, <2>1
    <3>2. now' = p + 0
      BY <1>5, <2>1
    <3> HIDE DEF p
    <3>3. now' = p
      BY <3>1, <3>2
    <3>4. QED
      BY <3>3 DEF p
  <2>3. Current' = NoPackets
    BY <2>1 DEF Current, NoPackets, W, PACKET_PER_W
  <2>4. EndWindow(q, Radar!insert(radar, f))
    BY <2>1 DEF Window, W, q, PACKET_PER_W
  <2>5. Closing(f)
    BY <2>1, <2>2, <2>3, <2>4 DEF Closing, W, q
  <2>6. QED
    BY <1>2, <1>3, <1>6, <1>7, <1>8, <2>5 DEF W, q, r
<1>10. CASE r # W - 1
  <2>1. now' % W # 0 /\ now' \div W = q
    <3>1. r + 1 # 0
      BY <1>3
    <3>2. QED
      BY <1>4, <1>10, <3>1
  <2>2. Current' = flowCount'
    BY <2>1 DEF Current, W, PACKET_PER_W
  <2>3. radar' = Radar!insert(radar, f) /\ tables' = tables /\ seen' = seen
    BY <2>1 DEF Window, W, PACKET_PER_W
  <2>4. Within(f)
    BY <2>1, <2>2, <2>3 DEF Within, W, q
  <2>5. QED
    BY <1>2, <1>3, <1>6, <1>7, <1>8, <2>4 DEF W, q, r
<1>11. QED
  BY <1>9, <1>10

------------------------------------------------------------------------------
(***************************************************************************)
(* What is in a FlowRadar: its Bloom filter B, the flows P in its cells    *)
(* and their packets n.                                                    *)
(***************************************************************************)
RadarIs(r, B, P, n) ==
  /\ P \in SUBSET Flow /\ n \in [Flow -> Int]
  /\ r = [bf |-> B, iblt |-> Cells(P, n)]
  /\ \A f \in P : bf_hash[f] \subseteq B

CameIn(c) == {f \in Flow : c[f] > 0}

\* It was empty before the packets c.
FreshIs(B, P, n, c) ==
  /\ B = UNION {bf_hash[f] : f \in CameIn(c)}
  /\ P \subseteq CameIn(c) /\ n = c
  /\ Radar!BloomExact(CameIn(c)) => P = CameIn(c)

\* The flows of the set past came before the packets c, and the cells were dumped
\* in between: what can be decoded came later.
KeptIs(B, P, past, c) ==
  /\ \A f \in past \union CameIn(c) : bf_hash[f] \subseteq B
  /\ \E S \in SUBSET P : Stopping(S) /\ P \ S \subseteq CameIn(c) \ past

LEMMA EmptyRadar ==
  /\ RadarIs(Radar!InsertableIBLT, {}, {}, NoPackets)
  /\ CameIn(NoPackets) = {}
  /\ FreshIs({}, {}, NoPackets, NoPackets)
  /\ KeptIs({}, {}, {}, NoPackets)
<1>1. NoPackets \in [Flow -> Int] /\ CameIn(NoPackets) = {}
  BY DEF NoPackets, CameIn
<1>2. ASSUME NEW i \in 0..(w_iblt - 1)
      PROVE  Cell({}, NoPackets, i) = Radar!Node
  <2>1. SumOf(HitsAt(i), {}) = 0
    BY SumOfNone
  <2>2. ASSUME NEW f \in Flow PROVE PacketsAt(NoPackets, i)[f] = 0
    <3>1. PacketsAt(NoPackets, i)[f] = 0 * HitsAt(i)[f]
      BY DEF PacketsAt, NoPackets
    <3>2. HitsAt(i)[f] \in Int
      BY HitsType
    <3> DEFINE h == HitsAt(i)[f]
    <3> HIDE DEF h
    <3>3. h \in Int => 0 * h = 0
      OBVIOUS
    <3>4. QED
      BY <3>1, <3>2, <3>3 DEF h
  <2>3. SumOf(PacketsAt(NoPackets, i), Flow) = 0
    BY <2>2, RadarAssumption, SumOfZeros
  <2>4. QED
    BY <2>1, <2>3 DEF Cell, Radar!Node
<1>3. Cells({}, NoPackets) = [i \in 0..(w_iblt - 1) |-> Radar!Node]
  BY <1>2 DEF Cells
<1>4. RadarIs(Radar!InsertableIBLT, {}, {}, NoPackets)
  BY <1>1, <1>3 DEF RadarIs, Radar!InsertableIBLT
<1>5. Stopping({})
  <2>1. \A i : SumOf(HitsAt(i), {}) = 0
    BY SumOfNone
  <2>2. QED
    BY <2>1 DEF Stopping
<1>6. QED
  BY <1>1, <1>4, <1>5 DEF FreshIs, KeptIs

LEMMA InsertIs ==
  ASSUME NEW r, NEW B, NEW P, NEW n, RadarIs(r, B, P, n), NEW f \in Flow
  PROVE  LET Q == IF bf_hash[f] \subseteq B THEN P ELSE P \union {f}
         IN  RadarIs(Radar!insert(r, f), B \union bf_hash[f], Q, Plus(n, f, 1))
<1>1. /\ P \in SUBSET Flow /\ n \in [Flow -> Int] /\ r.bf = B /\ r.iblt = Cells(P, n)
      /\ \A g \in P : bf_hash[g] \subseteq B
  BY DEF RadarIs
<1>2. Plus(n, f, 1) \in [Flow -> Int]
  BY <1>1 DEF Plus
<1>3. Radar!insert(r, f) =
        [bf   |-> B \union bf_hash[f],
         iblt |-> Radar!Added(Cells(P, n), f, IF bf_hash[f] \subseteq B THEN 0 ELSE 1, 1)]
  BY <1>1 DEF Radar!insert
<1>4. CASE bf_hash[f] \subseteq B
  <2>1. Radar!Added(Cells(P, n), f, 0, 1) = Cells(P, Plus(n, f, 1))
    BY <1>1, AddedPackets
  <2>2. QED
    BY <1>1, <1>2, <1>3, <1>4, <2>1 DEF RadarIs
<1>5. CASE ~(bf_hash[f] \subseteq B)
  <2>1. f \in Flow \ P
    BY <1>1, <1>5
  <2>2. Radar!Added(Cells(P, n), f, 1, 1) = Cells(P \union {f}, Plus(n, f, 1))
    BY <1>1, <2>1, AddedFlow
  <2>3. \A g \in P \union {f} : bf_hash[g] \subseteq B \union bf_hash[f]
    BY <1>1
  <2>4. QED
    BY <1>1, <1>2, <1>3, <1>5, <2>2, <2>3 DEF RadarIs
<1>6. QED
  BY <1>4, <1>5

LEMMA MoreCame ==
  ASSUME NEW c \in [Flow -> Nat], NEW f \in Flow
  PROVE  CameIn(Plus(c, f, 1)) = CameIn(c) \union {f}
BY DEF CameIn, Plus

LEMMA FreshInsert ==
  ASSUME NEW B, NEW P, NEW n, NEW c \in [Flow -> Nat], FreshIs(B, P, n, c), NEW f \in Flow
  PROVE  LET Q == IF bf_hash[f] \subseteq B THEN P ELSE P \union {f}
         IN  FreshIs(B \union bf_hash[f], Q, Plus(n, f, 1), Plus(c, f, 1))
<1> DEFINE F == CameIn(c)
           G == F \union {f}
           Q == IF bf_hash[f] \subseteq B THEN P ELSE P \union {f}
<1>1. /\ B = UNION {bf_hash[g] : g \in F} /\ P \subseteq F /\ n = c
      /\ Radar!BloomExact(F) => P = F
  BY DEF FreshIs
<1>2. CameIn(Plus(c, f, 1)) = G
  BY MoreCame
<1> HIDE DEF F
<1>3. B \union bf_hash[f] = UNION {bf_hash[g] : g \in G}
  BY <1>1
<1>4. Q \subseteq G
  BY <1>1
<1>5. ASSUME Radar!BloomExact(G) PROVE Q = G
  <2>1. Radar!BloomExact(F)
    <3> SUFFICES ASSUME NEW g \in F, bf_hash[g] \subseteq UNION {bf_hash[h] : h \in F \ {g}}
                 PROVE  FALSE
      BY DEF Radar!BloomExact
    <3>1. UNION {bf_hash[h] : h \in F \ {g}} \subseteq UNION {bf_hash[h] : h \in G \ {g}}
      OBVIOUS
    <3>2. QED
      BY <1>5, <3>1 DEF Radar!BloomExact
  <2>2. P = F
    BY <1>1, <2>1
  <2>3. CASE f \in F
    <3>1. bf_hash[f] \subseteq B
      BY <1>1, <2>3
    <3>2. QED
      BY <2>2, <2>3, <3>1
  <2>4. CASE f \notin F
    <3>1. G \ {f} = F /\ f \in G
      BY <2>4
    <3>2. ~(bf_hash[f] \subseteq B)
      BY <1>1, <1>5, <3>1 DEF Radar!BloomExact
    <3>3. QED
      BY <2>2, <3>2
  <2>5. QED
    BY <2>3, <2>4
<1> HIDE DEF G, Q
<1>6. FreshIs(B \union bf_hash[f], Q, Plus(n, f, 1), Plus(c, f, 1))
  BY <1>1, <1>2, <1>3, <1>4, <1>5 DEF FreshIs
<1>7. QED
  BY <1>6 DEF Q

LEMMA KeptInsert ==
  ASSUME NEW B, NEW P, NEW past, NEW c \in [Flow -> Nat], KeptIs(B, P, past, c), NEW f \in Flow
  PROVE  LET Q == IF bf_hash[f] \subseteq B THEN P ELSE P \union {f}
         IN  KeptIs(B \union bf_hash[f], Q, past, Plus(c, f, 1))
<1> DEFINE F == CameIn(c)
           Q == IF bf_hash[f] \subseteq B THEN P ELSE P \union {f}
<1>1. CameIn(Plus(c, f, 1)) = F \union {f}
  BY MoreCame
<1>2. \A g \in past \union F : bf_hash[g] \subseteq B
  BY DEF KeptIs
<1>3. PICK S \in SUBSET P : Stopping(S) /\ P \ S \subseteq F \ past
  BY DEF KeptIs
<1> HIDE DEF F
<1>4. \A g \in past \union (F \union {f}) : bf_hash[g] \subseteq B \union bf_hash[f]
  BY <1>2
<1>5. S \in SUBSET Q /\ Q \ S \subseteq (F \union {f}) \ past
  <2>1. ~(bf_hash[f] \subseteq B) => f \notin past
    BY <1>2
  <2>2. QED
    BY <1>3, <2>1
<1> HIDE DEF Q
<1>6. KeptIs(B \union bf_hash[f], Q, past, Plus(c, f, 1))
  BY <1>1, <1>3, <1>4, <1>5 DEF KeptIs
<1>7. QED
  BY <1>6 DEF Q

\* What RadarDump says of the sums of a table.
TableTrue(t) ==
  LET F == CameIn(t.flowCount)
  IN  /\ DOMAIN t.sum \subseteq F
      /\ Radar!BloomExact(F) => t.sum = [f \in F \ Radar!Stuck(F) |-> t.flowCount[f]]

LEMMA DumpType ==
  ASSUME NEW r, NEW B, NEW P, NEW n, RadarIs(r, B, P, n)
  PROVE  Radar!dump(r).result \in UNION {[S -> Int] : S \in SUBSET Flow}
<1>1. P \in SUBSET Flow /\ n \in [Flow -> Int] /\ r.iblt = Cells(P, n)
  BY DEF RadarIs
<1>2. Radar!dump(r).result \in [P \ Radar!Stuck(P) -> Int]
  BY <1>1, DumpDecodes
<1>3. P \ Radar!Stuck(P) \in SUBSET Flow
  BY <1>1
<1>4. QED
  BY <1>2, <1>3

LEMMA FreshDump ==
  ASSUME NEW r, NEW B, NEW P, NEW n, RadarIs(r, B, P, n),
         NEW c \in [Flow -> Nat], FreshIs(B, P, n, c)
  PROVE  TableTrue([flowCount |-> c, sum |-> Radar!dump(r).result])
<1> DEFINE sum == Radar!dump(r).result
           F == CameIn(c)
<1>1. P \in SUBSET Flow /\ n \in [Flow -> Int] /\ r.iblt = Cells(P, n)
  BY DEF RadarIs
<1>2. sum \in [P \ Radar!Stuck(P) -> Int]
  BY <1>1, DumpDecodes
<1>3. (\A f \in Flow \ P : n[f] = 0) => \A f \in P \ Radar!Stuck(P) : sum[f] = n[f]
  <2>1. Exact(sum, P, n)
    BY <1>1, DumpDecodes
  <2>2. QED
    BY <2>1 DEF Exact
<1>4. P \subseteq F /\ n = c /\ (Radar!BloomExact(F) => P = F)
  BY DEF FreshIs
<1>5. \A f \in Flow \ F : c[f] = 0
  BY DEF CameIn
<1> HIDE DEF sum, F
<1>6. DOMAIN sum \subseteq F
  BY <1>2, <1>4
<1>7. Radar!BloomExact(F) => sum = [f \in F \ Radar!Stuck(F) |-> c[f]]
  BY <1>2, <1>3, <1>4, <1>5
<1> DEFINE t == [flowCount |-> c, sum |-> sum]
<1>8. t.flowCount = c /\ t.sum = sum
  OBVIOUS
<1> HIDE DEF t
<1>9. TableTrue(t)
  BY <1>6, <1>7, <1>8 DEF TableTrue, F
<1>10. QED
  BY <1>9 DEF t, sum

LEMMA KeptDump ==
  ASSUME NEW r, NEW B, NEW P, NEW n, RadarIs(r, B, P, n),
         NEW past, NEW c \in [Flow -> Nat], KeptIs(B, P, past, c)
  PROVE  LET d == Radar!dump(r)
             Q == Radar!Stuck(P)
         IN  /\ DOMAIN d.result \subseteq CameIn(c) \ past
             /\ \E m : RadarIs(d.radar, B, Q, m)
             /\ KeptIs(B, Q, past \union CameIn(c), NoPackets)
<1> DEFINE d == Radar!dump(r)
           Q == Radar!Stuck(P)
           F == CameIn(c)
<1>1. /\ P \in SUBSET Flow /\ n \in [Flow -> Int] /\ r.iblt = Cells(P, n) /\ r.bf = B
      /\ \A f \in P : bf_hash[f] \subseteq B
  BY DEF RadarIs
<1>2. /\ Q \in SUBSET P /\ Stopping(Q)
      /\ \A T \in SUBSET P : Stopping(T) => T \in SUBSET Q
  BY <1>1, DumpDecodes
<1>3. d.result \in [P \ Q -> Int]
  BY <1>1, DumpDecodes
<1>4. PICK m \in [Flow -> Int] : d.radar = [bf |-> r.bf, iblt |-> Cells(Q, m)]
  <2>1. HasLeft(d.radar, r.bf, Q)
    BY <1>1, DumpDecodes
  <2>2. QED
    BY <2>1 DEF HasLeft
<1>5. /\ \A f \in past \union F : bf_hash[f] \subseteq B
      /\ \E S \in SUBSET P : Stopping(S) /\ P \ S \subseteq F \ past
  BY DEF KeptIs
<1>6. CameIn(NoPackets) = {}
  BY EmptyRadar
<1> HIDE DEF d, Q, F
<1>7. DOMAIN d.result \subseteq F \ past
  BY <1>2, <1>3, <1>5
<1>8. RadarIs(d.radar, B, Q, m)
  BY <1>1, <1>2, <1>4 DEF RadarIs
<1>9. Q \in SUBSET Q /\ Q \ Q = {}
  OBVIOUS
<1>10. KeptIs(B, Q, past \union F, NoPackets)
  BY <1>2, <1>5, <1>6, <1>9 DEF KeptIs
<1>11. QED
  BY <1>7, <1>8, <1>10 DEF d, Q, F

------------------------------------------------------------------------------
(* The invariant *)

\* The array and the stamps: who was stamped in this window has packets in it.
SeenInv ==
  /\ \A f \in Flow : lastSeen[f] >= (now \div PACKET_PER_W) * PACKET_PER_W => Current[f] > 0
  /\ \A f \in Flow : seen[f] \subseteq came[f]
  /\ Closed => \A f \in Flow : lastSeen[f] = now - 1 => now \div PACKET_PER_W - 1 \in seen[f]
  /\ now > 0 => \E f \in Flow : /\ lastSeen[f] = now - 1
                                /\ \A g \in Flow \ {f} : lastSeen[g] < now - 1

Past == {f \in Flow : came[f] # {}}

RadarInv ==
  \E B, P, n :
    /\ RadarIs(radar, B, P, n)
    /\ clears \/ tables = <<>> => FreshIs(B, P, n, Current)
    /\ ~clears => KeptIs(B, P, Past, Current)

TablesInv ==
  /\ \A w \in 1..Len(tables) : clears \/ w = 1 => TableTrue(tables[w])
  /\ ~clears => \A f \in Flow : \A w \in decoded[f] : w \in came[f] /\ \A v \in came[f] : w <= v

WindowInv == WindowsType /\ SeenInv /\ RadarInv /\ TablesInv

LEMMA InitWindowInv == WindowInit => WindowInv
<1> SUFFICES ASSUME WindowInit PROVE WindowInv
  OBVIOUS
<1> DEFINE W == PACKET_PER_W
<1>1. now = 0 /\ W \in Nat \ {0}
  BY TaskAssumption, ThresholdAssumption DEF WindowInit, KVInit, Init, PACKET_PER_W
<1>2. 0 % W = 0 /\ 0 \div W = 0 /\ 0 * W = 0
  <2> HIDE DEF W
  <2>1. QED
    BY <1>1
<1>3. Current = NoPackets /\ now \div PACKET_PER_W = 0 /\ 0 * PACKET_PER_W = 0
  BY <1>1, <1>2 DEF Current
<1>4. tables = <<>> /\ Len(tables) = 0 /\ tables \in Seq(Table)
  BY DEF WindowInit
<1>5. /\ \A f \in Flow : seen[f] = {} /\ came[f] = {} /\ decoded[f] = {} /\ lastSeen[f] = -1
      /\ Past = {}
  BY <1>4 DEF WindowInit, KVInit, Init, came, decoded, Past
<1>6. WindowsType
  BY <1>3, <1>4 DEF WindowInit, WindowsType
<1>7. SeenInv
  BY <1>1, <1>3, <1>5 DEF SeenInv, Closed
<1>8. RadarInv
  <2>1. radar = Radar!InsertableIBLT
    BY DEF WindowInit
  <2>2. QED
    BY <1>3, <1>5, <2>1, EmptyRadar DEF RadarInv
<1>9. TablesInv
  BY <1>4, <1>5 DEF TablesInv
<1>10. QED
  BY <1>6, <1>7, <1>8, <1>9 DEF WindowInv

\* One more table.
LEMMA TablesGrow ==
  ASSUME WindowsType, NEW t \in Table, tables' = Append(tables, t)
  PROVE  /\ tables' \in Seq(Table) /\ Len(tables') = Len(tables) + 1
         /\ \A w \in 1..Len(tables) : tables'[w] = tables[w]
         /\ tables'[Len(tables) + 1] = t
         /\ \A f \in Flow :
              /\ came'[f] = came[f] \union IF t.flowCount[f] > 0 THEN {Len(tables)} ELSE {}
              /\ decoded'[f] = decoded[f] \union IF f \in DOMAIN t.sum THEN {Len(tables)} ELSE {}
<1> DEFINE n == Len(tables)
<1>1. tables \in Seq(Table) /\ n \in Nat
  BY DEF WindowsType
<1>2. /\ tables' \in Seq(Table) /\ Len(tables') = n + 1
      /\ \A w \in 1..n : tables'[w] = tables[w]
      /\ tables'[n + 1] = t
  BY <1>1
<1>3. ASSUME NEW f \in Flow
      PROVE  /\ came'[f] = came[f] \union IF t.flowCount[f] > 0 THEN {n} ELSE {}
             /\ decoded'[f] = decoded[f] \union IF f \in DOMAIN t.sum THEN {n} ELSE {}
  <2>1. /\ came'[f] = {w \in 0..((n + 1) - 1) : tables'[w + 1].flowCount[f] > 0}
        /\ decoded'[f] = {w \in 0..((n + 1) - 1) : f \in DOMAIN tables'[w + 1].sum}
    BY <1>2 DEF came, decoded
  <2>2. /\ came[f] = {w \in 0..(n - 1) : tables[w + 1].flowCount[f] > 0}
        /\ decoded[f] = {w \in 0..(n - 1) : f \in DOMAIN tables[w + 1].sum}
    BY DEF came, decoded
  <2> HIDE DEF n
  <2>3. \A w \in 0..((n + 1) - 1) : w = n \/ w \in 0..(n - 1)
    BY <1>1
  <2>4. n \in 0..((n + 1) - 1) /\ \A w \in 0..(n - 1) : w \in 0..((n + 1) - 1) /\ w # n /\ w + 1 \in 1..n
    BY <1>1
  <2>5. \A w \in 0..(n - 1) : tables'[w + 1] = tables[w + 1]
    BY <1>2, <2>4
  <2>6. QED
    BY <1>2, <2>1, <2>2, <2>3, <2>4, <2>5
<1>4. QED
  BY <1>2, <1>3

\* A FlowRadar with the packet.
LEMMA InsertedRadar ==
  ASSUME RadarInv, NEW f \in Flow, Current \in [Flow -> Nat], flowCount' = Plus(Current, f, 1)
  PROVE  \E B, P, n :
           /\ RadarIs(Radar!insert(radar, f), B, P, n)
           /\ clears \/ tables = <<>> => FreshIs(B, P, n, flowCount')
           /\ ~clears => KeptIs(B, P, Past, flowCount')
<1>1. PICK B, P, n : /\ RadarIs(radar, B, P, n)
                     /\ clears \/ tables = <<>> => FreshIs(B, P, n, Current)
                     /\ ~clears => KeptIs(B, P, Past, Current)
  BY DEF RadarInv
<1> DEFINE A == B \union bf_hash[f]
           Q == IF bf_hash[f] \subseteq B THEN P ELSE P \union {f}
           m == Plus(n, f, 1)
<1>2. RadarIs(Radar!insert(radar, f), A, Q, m)
  BY <1>1, InsertIs
<1>3. clears \/ tables = <<>> => FreshIs(A, Q, m, flowCount')
  BY <1>1, FreshInsert
<1>4. ~clears => KeptIs(A, Q, Past, flowCount')
  BY <1>1, KeptInsert
<1> HIDE DEF A, Q, m
<1>5. QED
  BY <1>2, <1>3, <1>4

\* The table a window leaves.
TableOf(f) == [flowCount |-> flowCount', sum |-> Radar!dump(Radar!insert(radar, f)).result]

LEMMA ClosedTable ==
  ASSUME RadarInv, WindowsType, NEW f \in Flow, Closing(f),
         Current \in [Flow -> Nat], flowCount' = Plus(Current, f, 1), flowCount' \in [Flow -> Nat]
  PROVE  /\ TableOf(f) \in Table /\ tables' = Append(tables, TableOf(f))
         /\ TableOf(f).flowCount = flowCount'
         /\ TableOf(f).sum = Radar!dump(Radar!insert(radar, f)).result
         /\ radar' = IF clears THEN Radar!InsertableIBLT ELSE Radar!dump(Radar!insert(radar, f)).radar
<1> DEFINE sum == Radar!dump(Radar!insert(radar, f)).result
<1>1. sum \in UNION {[S -> Int] : S \in SUBSET Flow}
  BY InsertedRadar, DumpType
<1>2. /\ tables' = Append(tables, TableOf(f))
      /\ radar' = IF clears THEN Radar!InsertableIBLT ELSE Radar!dump(Radar!insert(radar, f)).radar
  BY DEF Closing, EndWindow, TableOf, Radar!clear
<1> HIDE DEF sum
<1>3. /\ TableOf(f) = [flowCount |-> flowCount', sum |-> sum]
      /\ TableOf(f).flowCount = flowCount' /\ TableOf(f).sum = sum
  BY DEF TableOf, sum
<1>4. TableOf(f) \in Table
  BY <1>1, <1>3 DEF Table
<1>5. QED
  BY <1>2, <1>3, <1>4 DEF sum

LEMMA StepWindowsType ==
  ASSUME WindowInv, now \in Nat, NEW f \in Flow, Arrive(f), Window(f)
  PROVE  WindowsType'
<1> DEFINE q == now \div PACKET_PER_W
<1>1. WindowsType /\ RadarInv
  BY DEF WindowInv
<1>2. /\ q \in Nat /\ clears' = clears /\ flowCount' \in [Flow -> Nat]
      /\ Current \in [Flow -> Nat] /\ flowCount' = Plus(Current, f, 1)
      /\ Within(f) \/ Closing(f)
  BY <1>1, PacketOfWindow
<1>3. CASE Within(f)
  BY <1>1, <1>2, <1>3 DEF Within, WindowsType
<1>4. CASE Closing(f)
  <2>1. tables' \in Seq(Table) /\ Len(tables') = Len(tables) + 1
    BY <1>1, <1>2, <1>4, ClosedTable, TablesGrow
  <2>2. now' \div PACKET_PER_W = q + 1 /\ Len(tables) = q
    BY <1>1, <1>4 DEF Closing, WindowsType
  <2>3. seen' \in [Flow -> SUBSET Nat]
    <3>1. seen' = [g \in Flow |-> IF InWindow(cache', g, q * PACKET_PER_W)
                                    THEN seen[g] \union {q} ELSE seen[g]]
      BY <1>4 DEF Closing, EndWindow
    <3>2. \A g \in Flow : seen[g] \in SUBSET Nat
      BY <1>1 DEF WindowsType
    <3> HIDE DEF q
    <3>3. QED
      BY <1>2, <3>1, <3>2
  <2>4. QED
    BY <1>1, <1>2, <2>1, <2>2, <2>3 DEF WindowsType
<1>5. QED
  BY <1>2, <1>3, <1>4

LEMMA StepRadarInv ==
  ASSUME WindowInv, now \in Nat, NEW f \in Flow, Arrive(f), Window(f)
  PROVE  RadarInv' /\ TablesInv'
<1> DEFINE r == Radar!insert(radar, f)
           c == flowCount'
           t == TableOf(f)
           len == Len(tables)
<1>1. WindowsType /\ RadarInv /\ TablesInv
  BY DEF WindowInv
<1>2. /\ clears' = clears /\ c \in [Flow -> Nat]
      /\ Current \in [Flow -> Nat] /\ c = Plus(Current, f, 1)
      /\ Within(f) \/ Closing(f)
  BY <1>1, PacketOfWindow
<1>3. PICK B, P, n : /\ RadarIs(r, B, P, n)
                     /\ clears \/ tables = <<>> => FreshIs(B, P, n, c)
                     /\ ~clears => KeptIs(B, P, Past, c)
  BY <1>1, <1>2, InsertedRadar
<1>4. CASE Within(f)
  <2>1. radar' = r /\ tables' = tables /\ Current' = c
    BY <1>4 DEF Within
  <2>2. Past' = Past /\ came' = came /\ decoded' = decoded
    BY <2>1 DEF Past, came, decoded
  <2>3. RadarInv'
    BY <1>2, <1>3, <2>1, <2>2 DEF RadarInv
  <2>4. TablesInv'
    BY <1>1, <1>2, <2>1, <2>2 DEF TablesInv
  <2>5. QED
    BY <2>3, <2>4
<1>5. CASE Closing(f)
  <2>1. /\ t \in Table /\ tables' = Append(tables, t) /\ t.flowCount = c
        /\ t.sum = Radar!dump(r).result
        /\ radar' = IF clears THEN Radar!InsertableIBLT ELSE Radar!dump(r).radar
    BY <1>1, <1>2, <1>5, ClosedTable
  <2>2. /\ Len(tables') = len + 1 /\ tables'[len + 1] = t /\ len \in Nat
        /\ \A w \in 1..len : tables'[w] = tables[w]
    BY <1>1, <2>1, TablesGrow DEF WindowsType
  <2>3. \A g \in Flow :
          /\ came'[g] = came[g] \union IF c[g] > 0 THEN {len} ELSE {}
          /\ decoded'[g] = decoded[g] \union IF g \in DOMAIN t.sum THEN {len} ELSE {}
    BY <1>1, <2>1, TablesGrow
  <2>4. \A g \in Flow : came[g] \in SUBSET (0..(len - 1)) /\ decoded[g] \in SUBSET (0..(len - 1))
    BY DEF came, decoded
  <2>5. Current' = NoPackets /\ tables' # <<>>
    BY <1>5, <2>1, <2>2 DEF Closing
  <2> HIDE DEF t, len, r
  <2>6. Past' = Past \union CameIn(c)
    <3>1. Past = {g \in Flow : came[g] # {}} /\ Past' = {g \in Flow : came'[g] # {}}
      BY DEF Past
    <3>2. CameIn(c) = {g \in Flow : c[g] > 0}
      BY DEF CameIn
    <3>3. \A g \in Flow : came'[g] # {} <=> came[g] # {} \/ c[g] > 0
      BY <2>3
    <3> HIDE DEF c
    <3>4. QED
      BY <3>1, <3>2, <3>3
  <2>7. ~clears => DOMAIN t.sum \subseteq CameIn(c) \ Past
    BY <1>2, <1>3, <2>1, KeptDump
  <2>8. RadarInv'
    <3>1. CASE clears
      <4>1. RadarIs(radar', {}, {}, NoPackets) /\ FreshIs({}, {}, NoPackets, Current')
        BY <2>1, <2>5, <3>1, EmptyRadar
      <4>2. QED
        BY <1>2, <3>1, <4>1 DEF RadarInv
    <3>2. CASE ~clears
      <4>1. /\ \E m : RadarIs(radar', B, Radar!Stuck(P), m)
            /\ KeptIs(B, Radar!Stuck(P), Past', Current')
        <5>1. /\ \E m : RadarIs(Radar!dump(r).radar, B, Radar!Stuck(P), m)
              /\ KeptIs(B, Radar!Stuck(P), Past \union CameIn(c), NoPackets)
          BY <1>2, <1>3, <3>2, KeptDump
        <5>2. QED
          BY <2>1, <2>5, <2>6, <3>2, <5>1
      <4>2. QED
        BY <1>2, <2>5, <3>2, <4>1 DEF RadarInv
    <3>3. QED
      BY <3>1, <3>2
  <2>9. ASSUME NEW w \in 1..(len + 1), clears \/ w = 1 PROVE TableTrue(tables'[w])
    <3>1. CASE w = len + 1
      <4>1. clears \/ tables = <<>>
        BY <1>1, <2>2, <2>9, <3>1 DEF len, WindowsType
      <4>2. TableTrue([flowCount |-> c, sum |-> Radar!dump(r).result])
        BY <1>2, <1>3, <4>1, FreshDump
      <4>3. QED
        BY <2>2, <3>1, <4>2 DEF t, TableOf, r
    <3>2. CASE w # len + 1
      <4>1. w \in 1..len
        BY <2>2, <3>2
      <4>2. QED
        BY <1>1, <2>2, <2>9, <4>1 DEF TablesInv, len
    <3>3. QED
      BY <3>1, <3>2
  <2>10. ASSUME ~clears, NEW g \in Flow, NEW w \in decoded'[g]
         PROVE  w \in came'[g] /\ \A v \in came'[g] : w <= v
    <3>1. CASE w \in decoded[g]
      <4>1. w \in came[g] /\ \A v \in came[g] : w <= v
        BY <1>1, <2>10, <3>1 DEF TablesInv
      <4>2. w <= len
        BY <2>2, <2>4, <3>1
      <4>3. QED
        BY <2>3, <4>1, <4>2
    <3>2. CASE w \notin decoded[g]
      <4>1. g \in DOMAIN t.sum /\ w = len
        BY <2>3, <2>10, <3>2
      <4>2. g \in CameIn(c) /\ g \notin Past
        BY <2>7, <2>10, <4>1
      <4>3. c[g] > 0 /\ came[g] = {}
        BY <4>2 DEF CameIn, Past
      <4>4. came'[g] = {len}
        BY <2>3, <4>3
      <4>5. QED
        BY <2>2, <4>1, <4>4
    <3>3. QED
      BY <3>1, <3>2
  <2>11. TablesInv'
    <3>1. Len(tables') = len + 1 /\ clears' = clears
      BY <1>2, <2>2
    <3>2. QED
      BY <2>9, <2>10, <3>1 DEF TablesInv
  <2>12. QED
    BY <2>8, <2>11
<1>6. QED
  BY <1>2, <1>4, <1>5

LEMMA StepSeenInv ==
  ASSUME ArrayInv, ArrayInv', WindowInv, now \in Nat, NEW f \in Flow, Arrive(f), Window(f)
  PROVE  SeenInv'
<1> DEFINE q == now \div PACKET_PER_W
           start == q * PACKET_PER_W
           c == flowCount'
           t == TableOf(f)
<1>1. WindowsType /\ RadarInv /\ SeenInv
  BY DEF WindowInv
<1>2. /\ q \in Nat /\ start \in Nat /\ start <= now /\ now' = now + 1
      /\ now % PACKET_PER_W = 0 => start = now
      /\ Current \in [Flow -> Nat] /\ c \in [Flow -> Nat] /\ c = Plus(Current, f, 1)
      /\ Within(f) \/ Closing(f)
  BY <1>1, PacketOfWindow
<1>3. /\ lastSeen \in [Flow -> Int] /\ lastSeen' = [lastSeen EXCEPT ![f] = now]
      /\ \A g \in Flow : lastSeen[g] < now
      /\ \A g \in Flow : lastSeen'[g] < now'
  BY DEF ArrayInv, ItemsInv, TypeOK, StampsInv, Arrive
<1>4. ASSUME NEW g \in Flow, lastSeen'[g] >= start PROVE c[g] > 0
  <2>1. Current[g] \in Nat /\ c[g] = Current[g] + IF g = f THEN 1 ELSE 0
    BY <1>2 DEF Plus
  <2>2. g # f => Current[g] > 0
    <3>1. \A h \in Flow : lastSeen[h] >= start => Current[h] > 0
      BY <1>1 DEF SeenInv
    <3>2. g # f => lastSeen'[g] = lastSeen[g]
      BY <1>3
    <3> HIDE DEF start, q
    <3>3. QED
      BY <1>4, <3>1, <3>2
  <2> HIDE DEF c, start
  <2>3. QED
    BY <2>1, <2>2
<1>5. now' > 0 => \E h \in Flow : /\ lastSeen'[h] = now' - 1
                                  /\ \A g \in Flow \ {h} : lastSeen'[g] < now' - 1
  <2>1. lastSeen'[f] = now' - 1
    BY <1>2, <1>3
  <2>2. \A g \in Flow \ {f} : lastSeen'[g] < now' - 1
    BY <1>2, <1>3
  <2>3. QED
    BY <2>1, <2>2
<1>6. CASE Within(f)
  <2>1. /\ Current' = c /\ seen' = seen /\ came' = came /\ now' \div PACKET_PER_W = q
        /\ ~Closed'
    BY <1>6 DEF Within, came, Closed
  <2>2. \A g \in Flow : lastSeen'[g] >= (now' \div PACKET_PER_W) * PACKET_PER_W => Current'[g] > 0
    BY <1>4, <2>1
  <2>3. \A g \in Flow : seen'[g] \subseteq came'[g]
    BY <1>1, <2>1 DEF SeenInv
  <2>4. QED
    BY <1>5, <2>1, <2>2, <2>3 DEF SeenInv
<1>7. CASE Closing(f)
  <2>1. /\ (now' \div PACKET_PER_W) * PACKET_PER_W = now' /\ now' \div PACKET_PER_W = q + 1
        /\ seen' = [g \in Flow |-> IF InWindow(cache', g, start) THEN seen[g] \union {q} ELSE seen[g]]
    BY <1>7 DEF Closing, EndWindow
  <2>2. \A g \in Flow : came'[g] = came[g] \union IF c[g] > 0 THEN {q} ELSE {}
    <3>1. t \in Table /\ tables' = Append(tables, t) /\ t.flowCount = c
      BY <1>1, <1>2, <1>7, ClosedTable
    <3>2. Len(tables) = q
      BY <1>1 DEF WindowsType
    <3> HIDE DEF t, q, c
    <3>3. QED
      BY <1>1, <3>1, <3>2, TablesGrow
  <2> HIDE DEF q, start, c
  <2>3. ASSUME NEW g \in Flow PROVE seen'[g] \subseteq came'[g]
    <3>1. seen[g] \subseteq came[g]
      BY <1>1 DEF SeenInv
    <3>2. InWindow(cache', g, start) => c[g] > 0
      <4>1. SUFFICES ASSUME InWindow(cache', g, start) PROVE c[g] > 0
        OBVIOUS
      <4>2. PICK b \in Bucket : cache'[b].key = g /\ cache'[b].time >= start
        BY <4>1 DEF InWindow
      <4>3. cache'[b].time <= lastSeen'[g]
        BY <4>2 DEF ArrayInv, StampsInv
      <4>4. cache'[b].time \in Nat /\ lastSeen'[g] \in Int
        BY <1>2, <1>3 DEF ArrayInv, ItemsInv, TypeOK, Typed, Item
      <4>5. QED
        BY <1>2, <1>4, <4>2, <4>3, <4>4
    <3>3. QED
      BY <2>1, <2>2, <3>1, <3>2
  <2>4. ASSUME NEW g \in Flow, lastSeen'[g] = now' - 1
        PROVE  now' \div PACKET_PER_W - 1 \in seen'[g]
    <3>1. PICK l \in Level : /\ cache'[PathBucket(g, l)].key = g
                             /\ cache'[PathBucket(g, l)].time = now' - 1
      BY <1>2, <2>4 DEF ArrayInv, LatestVisible
    <3>2. PathBucket(g, l) \in Bucket
      BY PathInArray
    <3>3. cache'[PathBucket(g, l)].count # 0
      <4>1. g # NoKey
        BY FlowAssumption
      <4>2. QED
        BY <3>1, <3>2, <4>1 DEF ArrayInv, ItemsInv, TypeOK, Typed
    <3>4. now' - 1 >= start
      BY <1>2
    <3>5. InWindow(cache', g, start)
      BY <3>1, <3>2, <3>3, <3>4 DEF InWindow
    <3>6. (q + 1) - 1 = q
      BY <1>2
    <3>7. QED
      BY <2>1, <3>5, <3>6
  <2>5. \A g \in Flow : ~(lastSeen'[g] >= (now' \div PACKET_PER_W) * PACKET_PER_W)
    BY <1>2, <1>3, <2>1
  <2>6. QED
    BY <1>5, <2>3, <2>4, <2>5 DEF SeenInv
<1>8. QED
  BY <1>2, <1>6, <1>7

LEMMA StutterWindowInv == WindowInv /\ UNCHANGED windowVars => WindowInv'
<1> SUFFICES ASSUME WindowInv, UNCHANGED windowVars PROVE WindowInv'
  OBVIOUS
<1>1. /\ now' = now /\ lastSeen' = lastSeen /\ radar' = radar /\ clears' = clears
      /\ flowCount' = flowCount /\ tables' = tables /\ seen' = seen
  BY DEF windowVars, kvVars, vars
<1>2. Current' = Current /\ came' = came /\ decoded' = decoded /\ Past' = Past /\ Closed' = Closed
  BY <1>1 DEF Current, came, decoded, Past, Closed
<1>3. WindowsType'
  BY <1>1 DEF WindowInv, WindowsType
<1>4. SeenInv'
  BY <1>1, <1>2 DEF WindowInv, SeenInv
<1>5. RadarInv'
  BY <1>1, <1>2 DEF WindowInv, RadarInv
<1>6. TablesInv'
  BY <1>1, <1>2 DEF WindowInv, TablesInv
<1>7. QED
  BY <1>3, <1>4, <1>5, <1>6 DEF WindowInv

\* The invariant of the windows, with that of the array.
THEOREM WindowInvariant == WindowSpec => [](ArrayInv /\ WindowInv)
<1>1. WindowInit => WindowInv
  BY InitWindowInv
<1>2. ArrayInv /\ ArrayInv' /\ now \in Nat /\ WindowInv /\ [WindowNext]_windowVars => WindowInv'
  <2> SUFFICES ASSUME ArrayInv, ArrayInv', now \in Nat, WindowInv, [WindowNext]_windowVars
               PROVE  WindowInv'
    OBVIOUS
  <2>1. CASE WindowNext
    <3>1. PICK f \in Flow : Arrive(f) /\ Window(f)
      BY <2>1, WindowStep
    <3>2. WindowsType' /\ SeenInv' /\ RadarInv' /\ TablesInv'
      BY <3>1, StepWindowsType, StepSeenInv, StepRadarInv
    <3>3. QED
      BY <3>2 DEF WindowInv
  <2>2. CASE UNCHANGED windowVars
    BY <2>2, StutterWindowInv
  <2>3. QED
    BY <2>1, <2>2
<1>3. QED
  BY <1>1, <1>2, NowNat, ArrayInvariant, PTL DEF WindowSpec

------------------------------------------------------------------------------
(***************************************************************************)
(* Flowlets and bursts: the windows ws a flow was in, gone through one by  *)
(* one.                                                                    *)
(***************************************************************************)
Advance(report, ws, x, w) ==
  IF w \in ws THEN (IF report = "flowlet" THEN extend(x, w) ELSE count(x, w)) ELSE x

Advancing(report, g, s, ws, n) ==
  g = [w \in 0..n |-> IF w = 0 THEN s ELSE Advance(report, ws, g[w - 1], w - 1)]

LEMMA AdvancingExists ==
  ASSUME NEW report, NEW s, NEW ws, NEW n \in Nat
  PROVE  \E g : Advancing(report, g, s, ws, n)
<1> DEFINE Good == {m \in Nat : \E g : Advancing(report, g, s, ws, m)}
<1>1. 0 \in Good
  <2> DEFINE g == [k \in 0..0 |-> s]
  <2>1. Advancing(report, g, s, ws, 0)
    BY DEF Advancing
  <2>2. QED
    BY <2>1
<1>2. ASSUME NEW m \in Nat, m \in Good PROVE m + 1 \in Good
  <2>1. PICK g : Advancing(report, g, s, ws, m)
    BY <1>2
  <2> DEFINE h == [k \in 0..(m + 1) |-> IF k = m + 1 THEN Advance(report, ws, g[m], m) ELSE g[k]]
  <2>2. ASSUME NEW k \in 0..(m + 1)
        PROVE  h[k] = IF k = 0 THEN s ELSE Advance(report, ws, h[k - 1], k - 1)
    <3>1. CASE k = m + 1
      <4>1. h[k] = Advance(report, ws, g[m], m) /\ h[m] = g[m] /\ k - 1 = m /\ k # 0
        BY <3>1
      <4>2. QED
        BY <4>1
    <3>2. CASE k # m + 1
      <4>1. k \in 0..m /\ h[k] = g[k] /\ (k # 0 => h[k - 1] = g[k - 1])
        BY <3>2
      <4>2. g[k] = IF k = 0 THEN s ELSE Advance(report, ws, g[k - 1], k - 1)
        BY <2>1, <4>1 DEF Advancing
      <4>3. QED
        BY <4>1, <4>2
    <3>3. QED
      BY <3>1, <3>2
  <2> DEFINE k == [i \in 0..(m + 1) |-> IF i = 0 THEN s ELSE Advance(report, ws, h[i - 1], i - 1)]
  <2>3. h = k
    <3>1. \A i \in 0..(m + 1) : h[i] = k[i]
      BY <2>2
    <3>2. /\ DOMAIN h = 0..(m + 1) /\ h = [i \in DOMAIN h |-> h[i]]
          /\ DOMAIN k = 0..(m + 1) /\ k = [i \in DOMAIN k |-> k[i]]
      OBVIOUS
    <3> HIDE DEF h, k
    <3>3. QED
      BY <3>1, <3>2
  <2>4. Advancing(report, h, s, ws, m + 1)
    <3> HIDE DEF h
    <3>1. QED
      BY <2>3 DEF Advancing
  <2>5. QED
    BY <2>4
<1>3. n \in Good
  <2> HIDE DEF Good
  <2>1. QED
    BY <1>1, <1>2, AllNumbers
<1>4. QED
  BY <1>3

LEMMA AdvancingSteps ==
  ASSUME NEW report, NEW g, NEW s, NEW ws, NEW n \in Nat, Advancing(report, g, s, ws, n)
  PROVE  g[0] = s /\ \A k \in 1..n : g[k] = Advance(report, ws, g[k - 1], k - 1)
<1>1. g[0] = s
  BY DEF Advancing
<1>2. ASSUME NEW k \in 1..n PROVE g[k] = Advance(report, ws, g[k - 1], k - 1)
  <2>1. k \in 0..n /\ k # 0
    OBVIOUS
  <2>2. QED
    BY <2>1 DEF Advancing
<1>3. QED
  BY <1>1, <1>2

LEMMA FlowletsSteps ==
  ASSUME NEW ws, NEW n \in Nat
  PROVE  \E g : /\ g[0] = <<>> /\ FlowletsOf(ws, n) = g[n]
                /\ \A k \in 1..n : g[k] = Advance("flowlet", ws, g[k - 1], k - 1)
<1> DEFINE g == CHOOSE g : Advancing("flowlet", g, <<>>, ws, n)
<1>1. Advancing("flowlet", g, <<>>, ws, n)
  BY AdvancingExists
<1>2. FlowletsOf(ws, n) = g[n]
  BY DEF FlowletsOf, Advancing, Advance
<1> HIDE DEF g
<1>3. QED
  BY <1>1, <1>2, AdvancingSteps

LEMMA BurstSteps ==
  ASSUME NEW ws, NEW n \in Nat
  PROVE  \E g : /\ g[0] = [first |-> -1, second |-> 0] /\ BurstOf(ws, n) = g[n]
                /\ \A k \in 1..n : g[k] = Advance("burst", ws, g[k - 1], k - 1)
<1> DEFINE s == [first |-> -1, second |-> 0]
           g == CHOOSE g : Advancing("burst", g, s, ws, n)
<1>1. Advancing("burst", g, s, ws, n)
  BY AdvancingExists
<1>2. BurstOf(ws, n) = g[n]
  BY DEF BurstOf, Advancing, Advance
<1> HIDE DEF g
<1>3. QED
  BY <1>1, <1>2, AdvancingSteps

\* Windows x and y are in ws, and every one after x up to y is gap windows at most
\* after one that is.
Linked(ws, x, y) ==
  /\ x \in ws /\ y \in ws
  /\ \A v \in (x + 1)..y : \E u \in ws : u < v /\ v <= u + gap

\* A row of windows of ws before n that no earlier window leads to.
FirstLinked(ws, x, y, n) ==
  /\ x <= y /\ y < n /\ Linked(ws, x, y)
  /\ \A u \in ws : u < x => u + gap < x

\* The flowlets of the windows of ws before n: longest rows, all of them.
Covered(fl, ws, n) ==
  /\ fl \in Seq(Nat \X Nat)
  /\ \A i \in 1..Len(fl) : FirstLinked(ws, fl[i][1], fl[i][2], n)
  /\ \A w \in ws : w < n => fl # <<>> /\ w <= fl[Len(fl)][2]
  /\ \A x, y \in Nat : x <= y /\ y < n /\ Linked(ws, x, y) =>
       \E i \in 1..Len(fl) : fl[i][1] <= x /\ y <= fl[i][2]

LEMMA Appended ==
  ASSUME NEW fl \in Seq(Nat \X Nat), NEW s \in Nat \X Nat
  PROVE  /\ Append(fl, s) \in Seq(Nat \X Nat) /\ Len(Append(fl, s)) = Len(fl) + 1
         /\ \A i \in 1..Len(fl) : Append(fl, s)[i] = fl[i]
         /\ Append(fl, s)[Len(fl) + 1] = s /\ Append(fl, s) # <<>>
<1> DEFINE S == Nat \X Nat
<1>1. fl \in Seq(S) /\ s \in S
  OBVIOUS
<1>2. Append(fl, s) \in Seq(Nat \X Nat) <=> Append(fl, s) \in Seq(S)
  OBVIOUS
<1> HIDE DEF S
<1>3. QED
  BY <1>1, <1>2, AppendProperties

\* A flowlet of one window, at the end.
LEMMA NewFlowlet ==
  ASSUME NEW ws \in SUBSET Nat, NEW fl, NEW n \in Nat, Covered(fl, ws, n), n \in ws,
         \A u \in ws : u < n => u + gap < n
  PROVE  Covered(Append(fl, <<n, n>>), ws, n + 1)
<1> DEFINE new == Append(fl, <<n, n>>)
           len == Len(fl)
<1>1. fl \in Seq(Nat \X Nat) /\ len \in Nat
  BY DEF Covered
<1>2. /\ new \in Seq(Nat \X Nat) /\ Len(new) = len + 1
      /\ \A i \in 1..len : new[i] = fl[i]
      /\ new[len + 1] = <<n, n>> /\ new # <<>>
  <2>1. <<n, n>> \in Nat \X Nat
    OBVIOUS
  <2>2. QED
    BY <1>1, <2>1, Appended
<1>3. ASSUME NEW i \in 1..(len + 1)
      PROVE  FirstLinked(ws, new[i][1], new[i][2], n + 1)
  <2>1. CASE i = len + 1
    <3>1. FirstLinked(ws, n, n, n + 1)
      BY DEF FirstLinked, Linked
    <3>2. new[i][1] = n /\ new[i][2] = n
      BY <1>2, <2>1
    <3> HIDE DEF new
    <3>3. QED
      BY <3>1, <3>2
  <2>2. CASE i # len + 1
    <3>1. i \in 1..len /\ new[i] = fl[i]
      BY <1>1, <1>2, <2>2
    <3>2. fl[i] \in Nat \X Nat
      BY <1>1, <3>1
    <3>3. FirstLinked(ws, fl[i][1], fl[i][2], n)
      BY <3>1 DEF Covered
    <3>4. FirstLinked(ws, fl[i][1], fl[i][2], n + 1)
      BY <3>2, <3>3 DEF FirstLinked
    <3> HIDE DEF new
    <3>5. QED
      BY <3>1, <3>4
  <2>3. QED
    BY <2>1, <2>2
<1>4. ASSUME NEW x \in Nat, NEW y \in Nat, x <= y, y < n + 1, Linked(ws, x, y)
      PROVE  \E i \in 1..(len + 1) : new[i][1] <= x /\ y <= new[i][2]
  <2>1. CASE y = n
    <3>1. x = n
      <4>1. ASSUME x < n PROVE FALSE
        <5>1. n \in (x + 1)..y
          BY <2>1, <4>1
        <5>2. PICK u \in ws : u < n /\ n <= u + gap
          BY <1>4, <5>1 DEF Linked
        <5>3. u \in Nat /\ u + gap < n
          BY <5>2
        <5>4. QED
          BY <5>2, <5>3, TaskAssumption
      <4>2. QED
        BY <1>4, <2>1, <4>1
    <3>2. new[len + 1][1] = n /\ new[len + 1][2] = n /\ len + 1 \in 1..(len + 1)
      BY <1>1, <1>2
    <3> HIDE DEF new
    <3>3. QED
      BY <2>1, <3>1, <3>2
  <2>2. CASE y # n
    <3>1. y < n
      BY <1>4, <2>2
    <3>2. PICK i \in 1..len : fl[i][1] <= x /\ y <= fl[i][2]
      BY <1>4, <3>1 DEF Covered
    <3>3. i \in 1..(len + 1) /\ new[i] = fl[i]
      BY <1>1, <1>2
    <3> HIDE DEF new
    <3>4. QED
      BY <3>2, <3>3
  <2>3. QED
    BY <2>1, <2>2
<1>5. \A w \in ws : w < n + 1 => new # <<>> /\ w <= new[Len(new)][2]
  <2>1. new[Len(new)][2] = n
    BY <1>2
  <2> HIDE DEF new
  <2>2. QED
    BY <1>2, <2>1
<1> HIDE DEF new
<1>6. QED
  BY <1>2, <1>3, <1>4, <1>5 DEF Covered, new

\* The last flowlet goes on.
LEMMA LongerFlowlet ==
  ASSUME NEW ws \in SUBSET Nat, NEW fl, NEW n \in Nat, Covered(fl, ws, n), n \in ws,
         fl # <<>>, n - fl[Len(fl)][2] <= gap
  PROVE  Covered(Append(Front(fl), <<fl[Len(fl)][1], n>>), ws, n + 1)
<1> DEFINE len == Len(fl)
           first == fl[len][1]
           new == Append(Front(fl), <<first, n>>)
<1>1. fl \in Seq(Nat \X Nat) /\ len \in Nat /\ len >= 1
  BY DEF Covered
<1>2. Front(fl) \in Seq(Nat \X Nat) /\ Len(Front(fl)) = len - 1 /\ \A i \in 1..(len - 1) : Front(fl)[i] = fl[i]
  <2>1. Front(fl) = SubSeq(fl, 1, len - 1)
    BY DEF Front
  <2>2. \A i \in 1..(len - 1) : i \in 1..len
    BY <1>1
  <2>3. \A i \in 1..(len - 1) : fl[i] \in Nat \X Nat
    BY <1>1, <2>2
  <2> HIDE DEF len
  <2>4. /\ SubSeq(fl, 1, len - 1) \in Seq(Nat \X Nat)
        /\ Len(SubSeq(fl, 1, len - 1)) = IF 1 <= len - 1 THEN (len - 1) - 1 + 1 ELSE 0
        /\ \A i \in 1..((len - 1) - 1 + 1) : SubSeq(fl, 1, len - 1)[i] = fl[1 + i - 1]
    BY <1>1, <2>3, SubSeqProperties
  <2>5. (len - 1) - 1 + 1 = len - 1 /\ \A i \in 1..(len - 1) : 1 + i - 1 = i
    BY <1>1
  <2>6. QED
    BY <1>1, <2>1, <2>4, <2>5
<1>3. first \in Nat /\ fl[len] \in Nat \X Nat
  BY <1>1
<1>4. /\ new \in Seq(Nat \X Nat) /\ Len(new) = len
      /\ \A i \in 1..(len - 1) : new[i] = fl[i]
      /\ new[len] = <<first, n>> /\ new # <<>>
  <2> DEFINE front == Front(fl)
  <2> HIDE DEF front, first, len
  <2>1. front \in Seq(Nat \X Nat) /\ Len(front) = len - 1 /\ \A i \in 1..(len - 1) : front[i] = fl[i]
    BY <1>2 DEF front
  <2>2. <<first, n>> \in Nat \X Nat
    BY <1>3
  <2> HIDE DEF new
  <2>3. /\ Append(front, <<first, n>>) \in Seq(Nat \X Nat)
        /\ Len(Append(front, <<first, n>>)) = Len(front) + 1
        /\ \A i \in 1..Len(front) : Append(front, <<first, n>>)[i] = front[i]
        /\ Append(front, <<first, n>>)[Len(front) + 1] = <<first, n>>
        /\ Append(front, <<first, n>>) # <<>>
    BY <2>1, <2>2, Appended
  <2>4. Len(front) = len - 1 /\ Len(front) + 1 = len
    BY <1>1, <2>1
  <2>5. QED
    BY <2>1, <2>3, <2>4 DEF front, new
<1>5. \A i \in 1..len : FirstLinked(ws, fl[i][1], fl[i][2], n) /\ fl[i] \in Nat \X Nat
  BY <1>1 DEF Covered
<1> DEFINE last == fl[len][2]
<1>6. len \in 1..len /\ last < n /\ n - last <= gap /\ last \in Nat /\ gap \in Nat
  BY <1>1, <1>3, <1>5, TaskAssumption DEF FirstLinked
<1>7. /\ first <= last /\ Linked(ws, first, last)
      /\ \A u \in ws : u < first => u + gap < first
  BY <1>5, <1>6 DEF FirstLinked
<1> HIDE DEF new, len, first, last
<1>8. Linked(ws, first, n) /\ first < n
  <2>1. ASSUME NEW v \in (first + 1)..n PROVE \E u \in ws : u < v /\ v <= u + gap
    <3>1. CASE v <= last
      <4>1. v \in (first + 1)..last
        BY <1>3, <1>6, <3>1
      <4>2. QED
        BY <1>7, <4>1 DEF Linked
    <3>2. CASE ~(v <= last)
      <4>1. last \in ws /\ last < v /\ v <= last + gap
        BY <1>3, <1>6, <1>7, <3>2 DEF Linked
      <4>2. QED
        BY <4>1
    <3>3. QED
      BY <3>1, <3>2
  <2>2. first < n
    BY <1>3, <1>6, <1>7
  <2>3. QED
    BY <1>7, <2>1, <2>2 DEF Linked
<1>9. ASSUME NEW i \in 1..len
      PROVE  FirstLinked(ws, new[i][1], new[i][2], n + 1)
  <2>1. CASE i = len
    <3>1. new[i][1] = first /\ new[i][2] = n
      BY <1>4, <2>1
    <3>2. first <= n /\ n < n + 1
      BY <1>3, <1>8
    <3>3. FirstLinked(ws, first, n, n + 1)
      BY <1>7, <1>8, <3>2 DEF FirstLinked
    <3>4. QED
      BY <3>1, <3>3
  <2>2. CASE i # len
    <3>1. new[i] = fl[i]
      BY <1>1, <1>4, <2>2
    <3>2. fl[i] \in Nat \X Nat /\ FirstLinked(ws, fl[i][1], fl[i][2], n)
      BY <1>5
    <3>3. FirstLinked(ws, fl[i][1], fl[i][2], n + 1)
      BY <3>2 DEF FirstLinked
    <3>4. QED
      BY <3>1, <3>3
  <2>3. QED
    BY <2>1, <2>2
<1>10. ASSUME NEW x \in Nat, NEW y \in Nat, x <= y, y < n + 1, Linked(ws, x, y)
       PROVE  \E i \in 1..len : new[i][1] <= x /\ y <= new[i][2]
  <2>0. new[len][1] = first /\ new[len][2] = n
    BY <1>4
  <2>1. CASE y = n
    <3>1. ASSUME x < first PROVE FALSE
      <4>1. first \in (x + 1)..y
        BY <1>3, <1>8, <2>1, <3>1
      <4>2. PICK u \in ws : u < first /\ first <= u + gap
        BY <1>10, <4>1 DEF Linked
      <4>3. u \in Nat /\ u + gap < first
        BY <1>7, <4>2
      <4>4. QED
        BY <1>3, <1>6, <4>2, <4>3
    <3>2. first <= x
      BY <1>3, <3>1
    <3>3. QED
      BY <1>6, <2>0, <2>1, <3>2
  <2>2. CASE y # n
    <3>1. y < n
      BY <1>10, <2>2
    <3>2. PICK i \in 1..len : fl[i][1] <= x /\ y <= fl[i][2]
      <4>1. \E i \in 1..Len(fl) : fl[i][1] <= x /\ y <= fl[i][2]
        BY <1>10, <3>1 DEF Covered
      <4>2. QED
        BY <4>1 DEF len
    <3>3. CASE i = len
      BY <1>6, <2>0, <3>1, <3>2, <3>3 DEF first
    <3>4. CASE i # len
      <4>1. i \in 1..(len - 1)
        BY <1>1, <3>4
      <4>2. new[i] = fl[i]
        BY <1>4, <4>1
      <4>3. QED
        BY <3>2, <4>2
    <3>5. QED
      BY <3>3, <3>4
  <2>3. QED
    BY <2>1, <2>2
<1>11. \A w \in ws : w < n + 1 => new # <<>> /\ w <= new[Len(new)][2]
  <2>1. new[Len(new)][2] = n
    BY <1>4
  <2>2. QED
    BY <1>4, <2>1
<1>12. Covered(new, ws, n + 1)
  BY <1>4, <1>9, <1>10, <1>11 DEF Covered
<1>13. QED
  BY <1>12 DEF new, first, len

LEMMA AdvanceFlowlets ==
  ASSUME NEW ws \in SUBSET Nat, NEW fl, NEW n \in Nat, Covered(fl, ws, n)
  PROVE  Covered(Advance("flowlet", ws, fl, n), ws, n + 1)
<1>1. fl \in Seq(Nat \X Nat) /\ Len(fl) \in Nat
  BY DEF Covered
<1>2. CASE n \notin ws
  <2>1. Advance("flowlet", ws, fl, n) = fl
    BY <1>2 DEF Advance
  <2>2. \A w \in Nat : w < n + 1 => w = n \/ w < n
    OBVIOUS
  <2>3. \A w \in ws : w < n + 1 => fl # <<>> /\ w <= fl[Len(fl)][2]
    BY <1>2, <2>2 DEF Covered
  <2>4. \A i \in 1..Len(fl) : FirstLinked(ws, fl[i][1], fl[i][2], n + 1)
    <3>1. ASSUME NEW i \in 1..Len(fl) PROVE FirstLinked(ws, fl[i][1], fl[i][2], n + 1)
      <4>1. fl[i] \in Nat \X Nat /\ FirstLinked(ws, fl[i][1], fl[i][2], n)
        BY <1>1, <3>1 DEF Covered
      <4>2. QED
        BY <4>1 DEF FirstLinked
    <3>2. QED
      BY <3>1
  <2>5. \A x, y \in Nat : x <= y /\ y < n + 1 /\ Linked(ws, x, y) => y < n
    BY <1>2, <2>2 DEF Linked
  <2>6. Covered(fl, ws, n + 1)
    BY <1>1, <2>3, <2>4, <2>5 DEF Covered
  <2>7. QED
    BY <2>1, <2>6
<1>3. CASE n \in ws /\ fl # <<>> /\ n - Last(fl)[2] <= gap
  <2>1. Len(fl) \in 1..Len(fl) /\ fl[Len(fl)] \in Nat \X Nat
    BY <1>1, <1>3
  <2>2. fl[Len(fl)][2] < n
    BY <2>1 DEF Covered, FirstLinked
  <2>3. Last(fl) = fl[Len(fl)]
    BY DEF Last
  <2>4. n - fl[Len(fl)][2] <= gap
    BY <1>3, <2>3
  <2>5. Advance("flowlet", ws, fl, n) = Append(Front(fl), <<fl[Len(fl)][1], n>>)
    BY <1>3, <2>3 DEF Advance, extend
  <2>6. QED
    BY <1>3, <2>4, <2>5, LongerFlowlet
<1>4. CASE n \in ws /\ ~(fl # <<>> /\ n - Last(fl)[2] <= gap)
  <2>1. ASSUME NEW u \in ws, u < n PROVE u + gap < n
    <3>1. fl # <<>> /\ u <= fl[Len(fl)][2]
      BY <2>1 DEF Covered
    <3>2. fl[Len(fl)] \in Nat \X Nat
      BY <1>1, <3>1
    <3>3. ~(n - fl[Len(fl)][2] <= gap)
      BY <1>4, <3>1 DEF Last
    <3>4. u \in Nat /\ gap \in Nat
      BY TaskAssumption
    <3>5. QED
      BY <3>1, <3>2, <3>3, <3>4
  <2>2. Advance("flowlet", ws, fl, n) = Append(fl, <<n, n>>)
    BY <1>4 DEF Advance, extend
  <2>3. QED
    BY <1>4, <2>1, <2>2, NewFlowlet
<1>5. QED
  BY <1>2, <1>3, <1>4

\* flowletTest finds the longest rows of windows.
LEMMA FlowletsAre ==
  ASSUME NEW ws \in SUBSET Nat, NEW n \in Nat
  PROVE  Covered(FlowletsOf(ws, n), ws, n)
<1>1. PICK g : /\ g[0] = <<>> /\ FlowletsOf(ws, n) = g[n]
               /\ \A k \in 1..n : g[k] = Advance("flowlet", ws, g[k - 1], k - 1)
  BY FlowletsSteps
<1> DEFINE Good == {k \in Nat : k <= n => Covered(g[k], ws, k)}
<1>2. 0 \in Good
  <2>1. Covered(<<>>, ws, 0)
    BY DEF Covered
  <2>2. QED
    BY <1>1, <2>1
<1>3. ASSUME NEW k \in Nat, k \in Good PROVE k + 1 \in Good
  <2>1. SUFFICES ASSUME k + 1 <= n PROVE Covered(g[k + 1], ws, k + 1)
    OBVIOUS
  <2>2. Covered(g[k], ws, k)
    BY <1>3, <2>1
  <2>3. k + 1 \in 1..n /\ (k + 1) - 1 = k
    BY <2>1
  <2>4. g[k + 1] = Advance("flowlet", ws, g[k], k)
    BY <1>1, <2>3
  <2>5. QED
    BY <2>2, <2>4, AdvanceFlowlets
<1>4. n \in Good
  <2> HIDE DEF Good
  <2>1. QED
    BY <1>2, <1>3, AllNumbers
<1>5. QED
  BY <1>1, <1>4

\* All windows from x to y are in ws.
InRow(ws, x, y) == \A v \in x..y : v \in ws

\* thre windows in a row, before window n.
ThreInRow(ws, n) == \E x \in Nat : x + thre - 1 < n /\ InRow(ws, x, x + thre - 1)

\* The count of burstTest after the windows before n: the length of the last row of
\* ws, or thre once a row was that long.
Counted(bf, ws, n) ==
  /\ bf \in [first : Int, second : 0..thre]
  /\ -1 <= bf.first /\ bf.first < n
  /\ \A w \in ws : w < n => w <= bf.first
  /\ bf.second < thre => /\ InRow(ws, bf.first - bf.second + 1, bf.first)
                         /\ bf.first - bf.second \notin ws
                         /\ ~ThreInRow(ws, n)
  /\ bf.second = thre => ThreInRow(ws, n)

\* A row that is there is there for more windows; a new one ends with the last.
LEMMA OneMoreWindow ==
  ASSUME NEW ws \in SUBSET Nat, NEW n \in Nat
  PROVE  ThreInRow(ws, n + 1)
           <=> ThreInRow(ws, n) \/ (n - thre + 1 \in Nat /\ InRow(ws, n - thre + 1, n))
<1>0. thre \in Nat \ {0}
  BY TaskAssumption
<1>1. ASSUME ThreInRow(ws, n + 1), ~ThreInRow(ws, n)
      PROVE  n - thre + 1 \in Nat /\ InRow(ws, n - thre + 1, n)
  <2>1. PICK x \in Nat : x + thre - 1 < n + 1 /\ InRow(ws, x, x + thre - 1)
    BY <1>1 DEF ThreInRow
  <2>2. ~(x + thre - 1 < n)
    BY <1>1, <2>1 DEF ThreInRow
  <2>3. x + thre - 1 = n /\ x = n - thre + 1
    BY <1>0, <2>1, <2>2
  <2>4. QED
    BY <2>1, <2>3
<1>2. ASSUME ThreInRow(ws, n) PROVE ThreInRow(ws, n + 1)
  <2>1. PICK x \in Nat : x + thre - 1 < n /\ InRow(ws, x, x + thre - 1)
    BY <1>2 DEF ThreInRow
  <2>2. x + thre - 1 < n + 1
    BY <1>0, <2>1
  <2>3. QED
    BY <2>1, <2>2 DEF ThreInRow
<1>3. ASSUME n - thre + 1 \in Nat, InRow(ws, n - thre + 1, n) PROVE ThreInRow(ws, n + 1)
  <2>1. (n - thre + 1) + thre - 1 = n /\ n < n + 1
    BY <1>0
  <2>2. QED
    BY <1>3, <2>1 DEF ThreInRow
<1>4. QED
  BY <1>1, <1>2, <1>3

LEMMA AdvanceBurst ==
  ASSUME NEW ws \in SUBSET Nat, NEW bf, NEW n \in Nat, Counted(bf, ws, n)
  PROVE  Counted(Advance("burst", ws, bf, n), ws, n + 1)
<1>0. thre \in Nat \ {0}
  BY TaskAssumption
<1> DEFINE first == bf.first
           second == bf.second
           next == Advance("burst", ws, bf, n)
<1>1. /\ first \in Int /\ second \in 0..thre /\ -1 <= first /\ first < n
      /\ bf = [first |-> first, second |-> second]
      /\ \A w \in ws : w < n => w <= first
      /\ second < thre => /\ InRow(ws, first - second + 1, first)
                          /\ first - second \notin ws
                          /\ ~ThreInRow(ws, n)
      /\ second = thre => ThreInRow(ws, n)
  BY DEF Counted
<1> HIDE DEF first, second
<1>2. \A w \in Nat : w < n + 1 <=> w < n \/ w = n
  OBVIOUS
<1>3. CASE n \notin ws
  <2>1. next = bf
    BY <1>3 DEF Advance
  <2>2. ~InRow(ws, n - thre + 1, n)
    <3>1. n \in (n - thre + 1)..n
      BY <1>0
    <3>2. QED
      BY <1>3, <3>1 DEF InRow
  <2>3. ThreInRow(ws, n + 1) <=> ThreInRow(ws, n)
    BY <2>2, OneMoreWindow
  <2>4. \A w \in ws : w < n + 1 => w <= first
    BY <1>1, <1>2, <1>3
  <2>5. first < n + 1 /\ bf.first = first /\ bf.second = second
    BY <1>1 DEF first, second
  <2> HIDE DEF next
  <2>6. QED
    BY <1>1, <2>1, <2>3, <2>4, <2>5 DEF Counted, next
<1>4. CASE n \in ws /\ second = thre
  <2>1. next = [first |-> n, second |-> thre]
    BY <1>0, <1>1, <1>4 DEF Advance, count, first, second
  <2>2. ThreInRow(ws, n + 1)
    BY <1>1, <1>4, OneMoreWindow
  <2>3. next.first = n /\ next.second = thre /\ next \in [first : Int, second : 0..thre]
    BY <1>0, <2>1
  <2> HIDE DEF next
  <2>4. Counted(next, ws, n + 1)
    BY <1>0, <1>2, <2>2, <2>3 DEF Counted
  <2>5. QED
    BY <2>4 DEF next
<1>5. CASE n \in ws /\ second < thre /\ n - first = 1
  <2>1. next = [first |-> n, second |-> second + 1]
    BY <1>5 DEF Advance, count, first, second
  <2>2. next.first = n /\ next.second = second + 1 /\ next \in [first : Int, second : 0..thre]
    BY <1>0, <1>1, <1>5, <2>1
  <2>3. InRow(ws, n - (second + 1) + 1, n)
    <3>1. \A v \in (n - (second + 1) + 1)..n : v = n \/ v \in (first - second + 1)..first
      BY <1>1, <1>5
    <3>2. QED
      BY <1>1, <1>5, <3>1 DEF InRow
  <2>4. n - (second + 1) \notin ws
    <3>1. n - (second + 1) = first - second
      BY <1>1, <1>5
    <3>2. QED
      BY <1>1, <1>5, <3>1
  <2>5. ASSUME second + 1 < thre PROVE ~ThreInRow(ws, n + 1)
    <3>1. first - second \in (n - thre + 1)..n
      BY <1>0, <1>1, <1>5, <2>5
    <3>2. ~InRow(ws, n - thre + 1, n)
      BY <1>1, <1>5, <3>1 DEF InRow
    <3>3. QED
      BY <1>1, <1>5, <3>2, OneMoreWindow
  <2>6. ASSUME second + 1 = thre PROVE ThreInRow(ws, n + 1)
    <3>1. n - thre + 1 = n - (second + 1) + 1
      BY <2>6
    <3>2. InRow(ws, n - thre + 1, n)
      BY <2>3, <3>1
    <3>3. n - thre + 1 \in Nat
      <4>1. n - thre + 1 \in (n - thre + 1)..n
        BY <1>0
      <4>2. n - thre + 1 \in ws
        BY <3>2, <4>1 DEF InRow
      <4>3. QED
        BY <4>2
    <3>4. QED
      BY <3>2, <3>3, OneMoreWindow
  <2> HIDE DEF next
  <2>7. Counted(next, ws, n + 1)
    BY <1>0, <1>2, <2>2, <2>3, <2>4, <2>5, <2>6 DEF Counted
  <2>8. QED
    BY <2>7 DEF next
<1>6. CASE n \in ws /\ second < thre /\ n - first # 1
  <2>1. next = [first |-> n, second |-> 1]
    BY <1>6 DEF Advance, count, first, second
  <2>2. next.first = n /\ next.second = 1 /\ next \in [first : Int, second : 0..thre]
    BY <1>0, <2>1
  <2>3. InRow(ws, n - 1 + 1, n)
    BY <1>6 DEF InRow
  <2>4. n - 1 \notin ws
    <3>1. n - 1 \in ws => n - 1 <= first
      BY <1>1
    <3>2. QED
      BY <1>1, <1>6, <3>1
  <2>5. ASSUME 1 < thre PROVE ~ThreInRow(ws, n + 1)
    <3>1. n - 1 \in (n - thre + 1)..n
      BY <1>0, <2>5
    <3>2. ~InRow(ws, n - thre + 1, n)
      BY <2>4, <3>1 DEF InRow
    <3>3. QED
      BY <1>1, <1>6, <3>2, OneMoreWindow
  <2>6. ASSUME 1 = thre PROVE ThreInRow(ws, n + 1)
    <3>1. n - thre + 1 = n - 1 + 1 /\ n - thre + 1 \in Nat
      BY <2>6
    <3>2. InRow(ws, n - thre + 1, n)
      BY <2>3, <3>1
    <3>3. QED
      BY <3>1, <3>2, OneMoreWindow
  <2> HIDE DEF next
  <2>7. Counted(next, ws, n + 1)
    BY <1>0, <1>2, <2>2, <2>3, <2>4, <2>5, <2>6 DEF Counted
  <2>8. QED
    BY <2>7 DEF next
<1>7. second = thre \/ second < thre
  BY <1>0, <1>1
<1>8. QED
  BY <1>3, <1>4, <1>5, <1>6, <1>7

\* burstTest reports a flow if and only if it was there for thre windows in a row.
LEMMA BurstIs ==
  ASSUME NEW ws \in SUBSET Nat, NEW n \in Nat
  PROVE  BurstOf(ws, n).second >= thre <=> ThreInRow(ws, n)
<1>0. thre \in Nat \ {0}
  BY TaskAssumption
<1>1. PICK g : /\ g[0] = [first |-> -1, second |-> 0] /\ BurstOf(ws, n) = g[n]
               /\ \A k \in 1..n : g[k] = Advance("burst", ws, g[k - 1], k - 1)
  BY BurstSteps
<1> DEFINE Good == {k \in Nat : k <= n => Counted(g[k], ws, k)}
<1>2. 0 \in Good
  <2>1. Counted([first |-> -1, second |-> 0], ws, 0)
    <3>1. ~ThreInRow(ws, 0)
      BY <1>0 DEF ThreInRow
    <3>2. InRow(ws, (-1) - 0 + 1, -1) /\ (-1) - 0 \notin ws
      BY DEF InRow
    <3>3. QED
      BY <1>0, <3>1, <3>2 DEF Counted
  <2>2. QED
    BY <1>1, <2>1
<1>3. ASSUME NEW k \in Nat, k \in Good PROVE k + 1 \in Good
  <2>1. SUFFICES ASSUME k + 1 <= n PROVE Counted(g[k + 1], ws, k + 1)
    OBVIOUS
  <2>2. Counted(g[k], ws, k)
    BY <1>3, <2>1
  <2>3. k + 1 \in 1..n /\ (k + 1) - 1 = k
    BY <2>1
  <2>4. g[k + 1] = Advance("burst", ws, g[k], k)
    BY <1>1, <2>3
  <2>5. QED
    BY <2>2, <2>4, AdvanceBurst
<1>4. n \in Good
  <2> HIDE DEF Good
  <2>1. QED
    BY <1>2, <1>3, AllNumbers
<1>5. Counted(BurstOf(ws, n), ws, n)
  BY <1>1, <1>4
<1>6. QED
  BY <1>0, <1>5 DEF Counted

LEMMA TableWindows ==
  ASSUME WindowsType
  PROVE  /\ Len(tables) \in Nat
         /\ \A w \in 1..Len(tables) : tables[w] \in Table
         /\ \A f \in Flow : came[f] \in SUBSET (0..(Len(tables) - 1)) /\ decoded[f] \in SUBSET (0..(Len(tables) - 1))
         /\ \A f \in Flow : came[f] \in SUBSET Nat /\ decoded[f] \in SUBSET Nat
<1>1. tables \in Seq(Table) /\ Len(tables) \in Nat
  BY DEF WindowsType
<1>2. \A w \in 1..Len(tables) : tables[w] \in Table
  BY <1>1
<1>3. \A f \in Flow : came[f] \in SUBSET (0..(Len(tables) - 1)) /\ decoded[f] \in SUBSET (0..(Len(tables) - 1))
  BY DEF came, decoded
<1>4. 0..(Len(tables) - 1) \subseteq Nat
  BY <1>1
<1>5. QED
  BY <1>1, <1>2, <1>3, <1>4

\* The flowlets of a flow are rows of its windows.
LEMMA FlowletRows ==
  ASSUME WindowsType, NEW windows, NEW f, windows[f] \in SUBSET Nat, NEW s \in ToSet(Flowlets(windows, f))
  PROVE  /\ s \in Nat \X Nat /\ s[1] <= s[2] /\ s[2] < Len(tables)
         /\ Linked(windows[f], s[1], s[2])
<1> DEFINE fl == Flowlets(windows, f)
<1>1. Covered(fl, windows[f], Len(tables))
  BY TableWindows, FlowletsAre DEF Flowlets
<1> HIDE DEF fl
<1>2. fl \in Seq(Nat \X Nat)
  BY <1>1 DEF Covered
<1>3. PICK i \in 1..Len(fl) : s = fl[i]
  BY <1>2 DEF ToSet, fl
<1>4. s \in Nat \X Nat
  BY <1>2, <1>3
<1>5. FirstLinked(windows[f], fl[i][1], fl[i][2], Len(tables))
  BY <1>1 DEF Covered
<1>6. QED
  BY <1>3, <1>4, <1>5 DEF FirstLinked

LEMMA RadarWindowsHold == WindowInv => RadarWindows
<1> SUFFICES ASSUME WindowInv PROVE RadarWindows
  OBVIOUS
<1> DEFINE len == Len(tables)
<1>0. thre \in Nat \ {0}
  BY TaskAssumption
<1>1. /\ WindowsType /\ TablesInv /\ len \in Nat
      /\ \A f \in Flow : came[f] \in SUBSET (0..(len - 1)) /\ decoded[f] \in SUBSET (0..(len - 1))
      /\ \A f \in Flow : came[f] \in SUBSET Nat /\ decoded[f] \in SUBSET Nat
  BY TableWindows DEF WindowInv
<1>2. ASSUME ~clears, NEW f \in Flow, NEW w \in decoded[f]
      PROVE  w \in came[f] /\ \A v \in came[f] : w <= v
  BY <1>1, <1>2 DEF TablesInv
<1>3. ASSUME ~clears, NEW f \in Flow, NEW v \in decoded[f], NEW w \in decoded[f]
      PROVE  v = w
  <2>1. v \in Nat /\ w \in Nat
    BY <1>1
  <2>2. v <= w /\ w <= v
    BY <1>2, <1>3
  <2>3. QED
    BY <2>1, <2>2
<1>4. ASSUME ~clears, NEW f \in Flow, NEW s \in ToSet(Flowlets(decoded, f))
      PROVE  s[1] = s[2]
  <2>1. /\ s \in Nat \X Nat /\ s[1] <= s[2]
        /\ Linked(decoded[f], s[1], s[2])
    BY <1>1, FlowletRows
  <2>2. s[1] \in decoded[f] /\ s[2] \in decoded[f]
    BY <2>1 DEF Linked
  <2>3. QED
    BY <1>3, <1>4, <2>2
<1>5. ASSUME ~clears, thre > 1, NEW f \in Flow PROVE ~(Cardinality(decoded[f]) >= thre)
  <2>1. CASE decoded[f] = {}
    <3>1. Cardinality(decoded[f]) = 0
      BY <2>1, FS_EmptySet
    <3>2. QED
      BY <1>0, <3>1
  <2>2. CASE decoded[f] # {}
    <3>1. PICK w : w \in decoded[f]
      BY <2>2
    <3>2. decoded[f] = {w}
      BY <1>3, <1>5, <3>1
    <3>3. Cardinality(decoded[f]) = 1
      BY <3>2, FS_Singleton
    <3>4. QED
      BY <1>0, <1>5, <3>3
  <2>3. QED
    BY <2>1, <2>2
<1>6. ASSUME clears, NEW f \in Flow, NEW w \in decoded[f] PROVE w \in came[f]
  <2>1. w \in 0..(len - 1) /\ f \in DOMAIN tables[w + 1].sum
    BY DEF decoded
  <2>2. w + 1 \in 1..len
    BY <1>1, <2>1
  <2>3. TableTrue(tables[w + 1])
    BY <1>1, <1>6, <2>2 DEF TablesInv
  <2>4. f \in CameIn(tables[w + 1].flowCount)
    BY <2>1, <2>3 DEF TableTrue
  <2>5. QED
    BY <2>1, <2>4 DEF CameIn, came
<1>7. ASSUME NEW f \in Flow
      PROVE  f \in burstTest(decoded)
               <=> \E w \in decoded[f] : w..(w + thre - 1) \subseteq decoded[f]
  <2> DEFINE ws == decoded[f]
  <2>1. f \in burstTest(decoded) <=> ThreInRow(ws, len)
    <3>1. BurstOf(ws, len).second >= thre <=> ThreInRow(ws, len)
      BY <1>1, BurstIs
    <3>2. QED
      BY <3>1 DEF burstTest
  <2>2. ws \in SUBSET Nat /\ \A w \in ws : w < len
    BY <1>1
  <2> HIDE DEF ws, len
  <2>3. ASSUME ThreInRow(ws, len) PROVE \E w \in ws : w..(w + thre - 1) \subseteq ws
    <3>1. PICK x \in Nat : InRow(ws, x, x + thre - 1)
      BY <2>3 DEF ThreInRow
    <3>2. x \in x..(x + thre - 1)
      BY <1>0
    <3>3. QED
      BY <3>1, <3>2 DEF InRow
  <2>4. ASSUME NEW w \in ws, w..(w + thre - 1) \subseteq ws PROVE ThreInRow(ws, len)
    <3>1. w \in Nat
      BY <2>2
    <3>2. w + thre - 1 \in w..(w + thre - 1)
      BY <1>0, <3>1
    <3>3. w + thre - 1 < len
      BY <2>2, <2>4, <3>2
    <3>4. InRow(ws, w, w + thre - 1)
      BY <2>4 DEF InRow
    <3>5. QED
      BY <3>1, <3>3, <3>4 DEF ThreInRow
  <2>5. QED
    BY <2>1, <2>3, <2>4 DEF ws
<1>8. ~clears /\ thre > 1 => Persistent(decoded) = {}
  BY <1>5 DEF Persistent
<1> HIDE DEF len
<1>9. QED
  BY <1>2, <1>4, <1>6, <1>7, <1>8 DEF RadarWindows

\* A FlowRadar that is not cleared (persistentTest, flowletTest of FlowRadar_KVTasks.h)
\* reports a flow in one window at most, the first it came in, so no persistent flow
\* and no flowlet of two windows; the burst test, which clears it, reports a flow if
\* and only if it was decoded in window_thre windows in a row.  For any hash
\* functions, window size, threshold and trace.
THEOREM RadarWindowsTrue == WindowSpec => []RadarWindows
<1>1. WindowInv => RadarWindows
  BY RadarWindowsHold
<1>2. QED
  BY <1>1, WindowInvariant, PTL

------------------------------------------------------------------------------
(* What the tasks report *)

LEMMA GreatestOf ==
  ASSUME NEW T, T \subseteq Int, T # {}, NEW n \in Int, \A x \in T : x <= n
  PROVE  Max(T) \in T
<1> DEFINE U == {n - x : x \in T}
<1>1. U \subseteq Nat /\ U # {}
  OBVIOUS
<1>2. PICK u \in U : \A v \in U : u <= v
  <2> HIDE DEF U
  <2>1. QED
    BY <1>1, LeastOf
<1>3. PICK x \in T : u = n - x
  OBVIOUS
<1>4. ASSUME NEW y \in T PROVE x >= y
  <2>1. n - y \in U
    OBVIOUS
  <2>2. n - x <= n - y
    BY <1>2, <1>3, <2>1
  <2>3. x \in Int /\ y \in Int
    OBVIOUS
  <2>4. QED
    BY <2>2, <2>3
<1>5. \E z \in T : \A y \in T : z >= y
  BY <1>4
<1>6. QED
  BY <1>5 DEF Max

\* A stamp that is newer than all others.
LEMMA RecentIs ==
  ASSUME NEW s, NEW f \in Flow, \A g \in Flow : s[g] \in Int, s[f] >= 0,
         \A g \in Flow \ {f} : s[g] < s[f]
  PROVE  rfTest(s, 1) = {f}
<1> DEFINE Ahead(g) == {h \in Flow : s[h] > s[g]}
<1>1. \A g \in Flow : IsFiniteSet(Ahead(g)) /\ Cardinality(Ahead(g)) \in Nat
  <2>1. \A g \in Flow : Ahead(g) \in SUBSET Flow
    OBVIOUS
  <2> HIDE DEF Ahead
  <2>2. QED
    BY <2>1, RadarAssumption, FS_Subset, FS_CardinalityType
<1>2. Ahead(f) = {}
  <2>1. \A g \in Flow : ~(s[g] > s[f])
    <3>1. ASSUME NEW g \in Flow PROVE ~(s[g] > s[f])
      <4>1. g = f \/ s[g] < s[f]
        OBVIOUS
      <4>2. QED
        BY <4>1
    <3>2. QED
      BY <3>1
  <2>2. QED
    BY <2>1
<1>3. Cardinality(Ahead(f)) < 1
  <2> HIDE DEF Ahead
  <2>1. Cardinality(Ahead(f)) = 0
    BY <1>2, FS_EmptySet
  <2>2. QED
    BY <2>1
<1>4. ASSUME NEW g \in Flow \ {f} PROVE ~(Cardinality(Ahead(g)) < 1)
  <2>1. f \in Ahead(g)
    OBVIOUS
  <2> HIDE DEF Ahead
  <2>2. Cardinality(Ahead(g)) # 0
    BY <1>1, <2>1, FS_EmptySet
  <2>3. QED
    BY <1>1, <2>2
<1>5. rfTest(s, 1) = {g \in Flow : s[g] >= 0 /\ Cardinality(Ahead(g)) < 1}
  BY DEF rfTest
<1> HIDE DEF Ahead
<1>6. QED
  BY <1>3, <1>4, <1>5

\* The stamps in the array are the ones the flows were seen at, or older.
LEMMA NewestIs ==
  ASSUME ArrayInv, now \in Nat, now > 0, NEW f \in Flow, lastSeen[f] = now - 1,
         \A g \in Flow \ {f} : lastSeen[g] < now - 1
  PROVE  /\ \A g \in Flow : NewestStamps[g] \in Int
         /\ NewestStamps[f] = now - 1
         /\ \A g \in Flow \ {f} : NewestStamps[g] < now - 1
<1> DEFINE At(g) == {b \in Bucket : cache[b].count # 0 /\ cache[b].key = g}
           T(g) == {-1} \union {cache[b].time : b \in At(g)}
<1>1. \A g \in Flow : NewestStamps[g] = Max(T(g))
  BY DEF NewestStamps
<1>2. lastSeen \in [Flow -> Int]
  BY DEF ArrayInv, ItemsInv, TypeOK
<1>3. ASSUME NEW g \in Flow PROVE T(g) \subseteq Int /\ T(g) # {}
  <2>1. \A b \in Bucket : cache[b].time \in Int
    BY DEF ArrayInv, ItemsInv, TypeOK, Typed, Item
  <2>2. QED
    BY <2>1
<1>4. ASSUME NEW g \in Flow, NEW x \in T(g) PROVE x = -1 \/ x <= lastSeen[g]
  <2>1. CASE x = -1
    BY <2>1
  <2>2. CASE x # -1
    <3>1. PICK b \in At(g) : x = cache[b].time
      BY <2>2
    <3>2. b \in Bucket /\ cache[b].key = g
      OBVIOUS
    <3> HIDE DEF At, T
    <3>3. x <= lastSeen[g]
      BY <3>1, <3>2 DEF ArrayInv, StampsInv
    <3>4. QED
      BY <3>3
  <2>3. QED
    BY <2>1, <2>2
<1>5. ASSUME NEW g \in Flow, NEW x \in T(g) PROVE x <= now - 1
  <2>1. lastSeen[g] <= now - 1 /\ lastSeen[g] \in Int
    <3>1. g = f \/ lastSeen[g] < now - 1
      OBVIOUS
    <3>2. lastSeen[g] \in Int
      BY <1>2
    <3>3. QED
      BY <3>1, <3>2
  <2>2. x \in Int
    BY <1>3
  <2>3. QED
    BY <1>4, <2>1, <2>2
<1>6. ASSUME NEW g \in Flow PROVE NewestStamps[g] \in T(g)
  <2>1. now - 1 \in Int
    OBVIOUS
  <2> HIDE DEF T
  <2>2. QED
    BY <1>1, <1>3, <1>5, <2>1, GreatestOf
<1>7. now - 1 \in T(f)
  <2>1. PICK l \in Level : cache[PathBucket(f, l)].key = f /\ cache[PathBucket(f, l)].time = now - 1
    BY DEF ArrayInv, LatestVisible
  <2>2. PathBucket(f, l) \in Bucket
    BY PathInArray
  <2>3. cache[PathBucket(f, l)].count # 0
    <3>1. f # NoKey
      BY FlowAssumption
    <3>2. QED
      BY <2>1, <2>2, <3>1 DEF ArrayInv, ItemsInv, TypeOK, Typed
  <2>4. PathBucket(f, l) \in At(f)
    BY <2>1, <2>2, <2>3
  <2> HIDE DEF At
  <2>5. QED
    BY <2>1, <2>4
<1>8. NewestStamps[f] = now - 1
  <2>1. \A x \in T(f) : now - 1 >= x
    BY <1>3, <1>5
  <2>2. \A x \in T(f) : (\A y \in T(f) : x >= y) => x = now - 1
    <3> HIDE DEF T
    <3>1. ASSUME NEW x \in T(f), \A y \in T(f) : x >= y PROVE x = now - 1
      <4>1. x >= now - 1 /\ now - 1 >= x /\ x \in Int
        BY <1>3, <1>7, <2>1, <3>1
      <4>2. QED
        BY <4>1
    <3>2. QED
      BY <3>1
  <2> HIDE DEF T
  <2>3. Max(T(f)) = now - 1
    BY <1>7, <2>1, <2>2 DEF Max
  <2>4. QED
    BY <1>1, <2>3
<1>9. ASSUME NEW g \in Flow \ {f} PROVE NewestStamps[g] < now - 1
  <2>1. NewestStamps[g] = -1 \/ NewestStamps[g] <= lastSeen[g]
    BY <1>4, <1>6
  <2>2. lastSeen[g] < now - 1 /\ lastSeen[g] \in Int /\ NewestStamps[g] \in Int
    BY <1>2, <1>3, <1>6
  <2>3. QED
    BY <2>1, <2>2
<1>10. \A g \in Flow : NewestStamps[g] \in Int
  BY <1>3, <1>6
<1>11. QED
  BY <1>8, <1>9, <1>10

LEMMA WindowReportsTrue == ArrayInv /\ WindowInv /\ now \in Nat => WindowReports
<1> SUFFICES ASSUME ArrayInv, WindowInv, now \in Nat PROVE WindowReports
  OBVIOUS
<1> DEFINE len == Len(tables)
<1>0. thre \in Nat \ {0}
  BY TaskAssumption
<1>1. /\ WindowsType /\ SeenInv /\ len \in Nat
      /\ \A f \in Flow : came[f] \in SUBSET (0..(len - 1)) /\ came[f] \in SUBSET Nat
  BY TableWindows DEF WindowInv
<1>2. \A f \in Flow : seen[f] \subseteq came[f]
  BY <1>1 DEF SeenInv
<1>3. ASSUME NEW f \in Flow, Cardinality(seen[f]) >= thre PROVE Cardinality(came[f]) >= thre
  <2>1. IsFiniteSet(0..(len - 1))
    <3> HIDE DEF len
    <3>1. len - 1 \in Int
      BY <1>1
    <3>2. QED
      BY <3>1, FS_Interval
  <2>2. IsFiniteSet(came[f])
    BY <1>1, <2>1, FS_Subset
  <2>3. Cardinality(seen[f]) <= Cardinality(came[f]) /\ IsFiniteSet(seen[f])
    BY <1>2, <2>2, FS_Subset
  <2>4. Cardinality(seen[f]) \in Nat /\ Cardinality(came[f]) \in Nat
    BY <2>2, <2>3, FS_CardinalityType
  <2>5. QED
    BY <1>0, <1>3, <2>3, <2>4
<1>4. Persistent(seen) \subseteq Persistent(came)
  BY <1>3 DEF Persistent
<1>5. ASSUME NEW f \in Flow, NEW s \in ToSet(Flowlets(seen, f))
      PROVE  \E r \in ToSet(Flowlets(came, f)) : r[1] <= s[1] /\ s[2] <= r[2]
  <2>1. seen[f] \in SUBSET Nat
    BY <1>1, <1>2
  <2>2. /\ s \in Nat \X Nat /\ s[1] <= s[2] /\ s[2] < len
        /\ Linked(seen[f], s[1], s[2])
    BY <1>1, <2>1, FlowletRows
  <2>3. Linked(came[f], s[1], s[2])
    BY <1>2, <2>2 DEF Linked
  <2> DEFINE fl == Flowlets(came, f)
  <2>4. Covered(fl, came[f], len)
    BY <1>1, FlowletsAre DEF Flowlets
  <2> HIDE DEF fl, len
  <2>5. PICK i \in 1..Len(fl) : fl[i][1] <= s[1] /\ s[2] <= fl[i][2]
    BY <2>2, <2>3, <2>4 DEF Covered
  <2>6. fl[i] \in ToSet(fl)
    BY <2>4 DEF Covered, ToSet
  <2>7. QED
    BY <2>5, <2>6 DEF fl
<1>6. Closed => \A f \in Flow : lastSeen[f] = now - 1 => now \div PACKET_PER_W - 1 \in seen[f]
  BY <1>1 DEF SeenInv
<1>7. ASSUME now > 0 PROVE rfTest(NewestStamps, 1) = rfTest(lastSeen, 1)
  <2>1. PICK f \in Flow : lastSeen[f] = now - 1 /\ \A g \in Flow \ {f} : lastSeen[g] < now - 1
    BY <1>1, <1>7 DEF SeenInv
  <2>2. /\ \A g \in Flow : NewestStamps[g] \in Int
        /\ NewestStamps[f] = now - 1
        /\ \A g \in Flow \ {f} : NewestStamps[g] < now - 1
    BY <1>7, <2>1, NewestIs
  <2>3. rfTest(NewestStamps, 1) = {f}
    BY <1>7, <2>2, RecentIs
  <2>4. \A g \in Flow : lastSeen[g] \in Int
    BY DEF ArrayInv, ItemsInv, TypeOK
  <2>5. rfTest(lastSeen, 1) = {f}
    BY <1>7, <2>1, <2>4, RecentIs
  <2>6. QED
    BY <2>3, <2>5
<1>8. QED
  BY <1>2, <1>4, <1>5, <1>6, <1>7 DEF WindowReports

\* What the tasks of AHeap_KVTasks.h report of the windows (persistentTest,
\* flowletTest, rfTest) is never more than what came: no stamp in the array puts a
\* flow in a window it was not in, the last flow of a window is never missed, and
\* the most recent flow is right.  For any number of buckets and flows, any window,
\* threshold and trace.
THEOREM WindowReportsHold == WindowSpec => []WindowReports
<1>1. ArrayInv /\ WindowInv /\ now \in Nat => WindowReports
  BY WindowReportsTrue
<1>2. QED
  BY <1>1, NowNat, WindowInvariant, PTL

Part(c, S) == [f \in S |-> c[f]]

\* Counting the addresses of some of the flows never gives more.
LEMMA CountIPOfPart ==
  ASSUME NEW S \in SUBSET Flow, NEW P \in SUBSET S, NEW c, NEW key, NEW val
  PROVE  CountIP(Part(c, P), key, val, thre) \subseteq CountIP(Part(c, S), key, val, thre)
<1> DEFINE e1 == Part(c, P)
           e2 == Part(c, S)
<1>0. thre \in Nat \ {0}
  BY TaskAssumption
<1>1. /\ DOMAIN e1 = P /\ DOMAIN e2 = S
      /\ \A f \in P : f \in S /\ e1[f] = e2[f]
  BY DEF Part
<1> HIDE DEF e1, e2
<1> SUFFICES ASSUME NEW ip \in CountIP(e1, key, val, thre)
             PROVE  ip \in CountIP(e2, key, val, thre)
  BY DEF e1, e2
<1> DEFINE few == {g \in P : e1[g] > 0 /\ key[g] = ip}
           many == {g \in S : e2[g] > 0 /\ key[g] = ip}
           A == {val[f] : f \in few}
           B == {val[f] : f \in many}
<1>2. ip \in {key[f] : f \in P} /\ Cardinality(A) >= thre
  BY <1>1 DEF CountIP
<1>3. IsFiniteSet(many)
  <2>1. many \in SUBSET Flow
    OBVIOUS
  <2> HIDE DEF many
  <2>2. QED
    BY <2>1, RadarAssumption, FS_Subset
<1>4. IsFiniteSet(B)
  <2> DEFINE map == [g \in many |-> val[g]]
  <2>1. map \in Surjection(many, B)
    <3> HIDE DEF many
    <3>1. QED
      BY DEF Surjection
  <2> HIDE DEF many, B, map
  <2>2. QED
    BY <1>3, <2>1, FS_Surjection
<1>5. A \subseteq B
  <2>1. few \subseteq many
    BY <1>1
  <2> HIDE DEF few, many
  <2>2. QED
    BY <2>1
<1>6. Cardinality(B) >= thre
  <2> HIDE DEF A, B
  <2>1. Cardinality(A) <= Cardinality(B) /\ Cardinality(A) \in Nat /\ Cardinality(B) \in Nat
    BY <1>4, <1>5, FS_Subset, FS_CardinalityType
  <2>2. QED
    BY <1>0, <1>2, <2>1
<1>7. ip \in {key[f] : f \in S}
  BY <1>2
<1>8. QED
  BY <1>1, <1>6, <1>7 DEF CountIP

\* What a table that lacks only the flows of stuck says of a flow that is not.
LEMMA EstimateIs ==
  ASSUME NEW t \in Table, NEW stuck, t.sum = [g \in CameIn(t.flowCount) \ stuck |-> t.flowCount[g]],
         NEW f \in Flow, f \notin stuck
  PROVE  (IF f \in DOMAIN t.sum THEN t.sum[f] ELSE 0) = t.flowCount[f]
<1>1. t.flowCount[f] \in Nat
  BY DEF Table
<1>2. DOMAIN t.sum = CameIn(t.flowCount) \ stuck
  OBVIOUS
<1>3. CASE f \in CameIn(t.flowCount)
  BY <1>2, <1>3
<1>4. CASE f \notin CameIn(t.flowCount)
  <2>1. t.flowCount[f] = 0
    BY <1>1, <1>4 DEF CameIn
  <2>2. QED
    BY <1>2, <1>4, <2>1
<1>5. QED
  BY <1>3, <1>4

LEMMA ChangesIs ==
  ASSUME NEW t1 \in Table, NEW t2 \in Table, NEW stuck1, NEW stuck2,
         t1.sum = [f \in CameIn(t1.flowCount) \ stuck1 |-> t1.flowCount[f]],
         t2.sum = [f \in CameIn(t2.flowCount) \ stuck2 |-> t2.flowCount[f]]
  PROVE  SymDiff(radar_hcTest(t1, t2), HeavyChanges(t1.flowCount, t2.flowCount, thre))
           \subseteq stuck1 \union stuck2
<1> DEFINE est(t) == [f \in Flow |-> IF f \in DOMAIN t.sum THEN t.sum[f] ELSE 0]
           e1 == est(t1)
           e2 == est(t2)
           c1 == t1.flowCount
           c2 == t2.flowCount
<1>1. radar_hcTest(t1, t2) = HeavyChanges(e1, e2, thre)
  BY DEF radar_hcTest
<1>2. ASSUME NEW f \in Flow, f \notin stuck1 \union stuck2 PROVE e1[f] = c1[f] /\ e2[f] = c2[f]
  BY <1>2, EstimateIs
<1>3. DOMAIN e1 = Flow /\ DOMAIN c1 = Flow
  BY DEF Table
<1> HIDE DEF e1, e2, c1, c2
<1>4. ASSUME NEW f \in SymDiff(HeavyChanges(e1, e2, thre), HeavyChanges(c1, c2, thre)),
             f \notin stuck1 \union stuck2
      PROVE  FALSE
  <2>1. f \in Flow
    BY <1>3, <1>4 DEF SymDiff, HeavyChanges
  <2>2. e1[f] = c1[f] /\ e2[f] = c2[f]
    BY <1>2, <1>4, <2>1
  <2>3. f \in HeavyChanges(e1, e2, thre) <=> f \in HeavyChanges(c1, c2, thre)
    BY <1>3, <2>1, <2>2 DEF HeavyChanges
  <2>4. QED
    BY <1>4, <2>3 DEF SymDiff
<1>5. QED
  BY <1>1, <1>4 DEF c1, c2

\* The counting tasks of a table that lacks only the flows of stuck.
LEMMA CountingTasks ==
  ASSUME tables # <<>>, NEW t, t = tables[Len(tables)], NEW F \in SUBSET Flow, NEW stuck, NEW c,
         t.sum = Part(c, F \ stuck)
  PROVE  LET real == Part(c, F)
         IN  /\ radar_hhTest \subseteq HeavyHitters(real, thre)
             /\ radar_ddosTest \subseteq CountIP(real, dstIP, srcIP, thre)
             /\ radar_spreaderTest \subseteq CountIP(real, srcIP, dstIP, thre)
             /\ stuck = {} => radar_fsdTest = Transform2Fsd(real)
<1> DEFINE real == Part(c, F)
           P == F \ stuck
           e == Part(c, P)
<1>1. radar_accTest = e
  BY DEF radar_accTest, Last
<1>2. P \in SUBSET F
  OBVIOUS
<1>3. HeavyHitters(e, thre) \subseteq HeavyHitters(real, thre)
  <2>1. \A f \in P : f \in F /\ e[f] = real[f]
    BY DEF Part
  <2>2. DOMAIN e = P /\ DOMAIN real = F
    BY DEF Part
  <2> HIDE DEF e, real, P
  <2>3. QED
    BY <2>1, <2>2 DEF HeavyHitters
<1>4. stuck = {} => e = real
  <2>1. stuck = {} => P = F
    OBVIOUS
  <2> HIDE DEF P
  <2>2. QED
    BY <2>1
<1>5. /\ CountIP(e, dstIP, srcIP, thre) \subseteq CountIP(real, dstIP, srcIP, thre)
      /\ CountIP(e, srcIP, dstIP, thre) \subseteq CountIP(real, srcIP, dstIP, thre)
  <2> HIDE DEF P
  <2>1. QED
    BY <1>2, CountIPOfPart
<1> HIDE DEF e, real
<1>6. QED
  BY <1>1, <1>3, <1>4, <1>5 DEF radar_hhTest, radar_ddosTest, radar_spreaderTest, radar_fsdTest, real

LEMMA RadarDumpTrue == WindowInv /\ now \in Nat => RadarDump
<1> SUFFICES ASSUME WindowInv, now \in Nat, Closed PROVE RadarDump
  BY DEF RadarDump
<1> DEFINE flows(t) == {f \in Flow : t.flowCount[f] > 0}
           real(t) == [f \in flows(t) |-> t.flowCount[f]]
           fresh(w) == w = 1 \/ clears
           exact(t) == Radar!BloomExact(flows(t))
           stuck(t) == Radar!Stuck(flows(t))
           n == Len(tables)
           t == tables[n]
<1>1. WindowsType /\ TablesInv
  BY DEF WindowInv
<1>2. n \in Nat /\ n >= 1
  <2> DEFINE W == PACKET_PER_W
             q == now \div W
  <2>1. W \in Nat \ {0}
    BY TaskAssumption, ThresholdAssumption DEF PACKET_PER_W
  <2>2. now % W = 0 /\ now > 0
    BY DEF Closed
  <2>3. n = q
    BY <1>1 DEF WindowsType
  <2> HIDE DEF n, W
  <2>4. q \in Nat /\ now = q * W + (now % W)
    BY <2>1, WindowStart
  <2> HIDE DEF q
  <2>5. q # 0
    <3>1. SUFFICES ASSUME q = 0 PROVE FALSE
      OBVIOUS
    <3>2. 0 * W = 0
      BY <2>1
    <3>3. QED
      BY <2>2, <2>4, <3>1, <3>2
  <2>6. QED
    BY <2>3, <2>4, <2>5
<1>3. \A w \in 1..n : tables[w] \in Table /\ (fresh(w) => TableTrue(tables[w]))
  BY <1>1, TableWindows DEF TablesInv
<1>4. \A w \in 1..n : CameIn(tables[w].flowCount) = flows(tables[w])
  BY DEF CameIn
<1>5. n \in 1..n /\ (n > 1 => n - 1 \in 1..n) /\ tables # <<>>
  <2>1. tables # <<>>
    BY <1>2
  <2> HIDE DEF n
  <2>2. QED
    BY <1>2, <2>1
<1> HIDE DEF n
<1>6. ASSUME NEW w \in 1..n, fresh(w)
      PROVE  /\ DOMAIN tables[w].sum \subseteq flows(tables[w])
             /\ exact(tables[w]) =>
                  tables[w].sum = [f \in flows(tables[w]) \ stuck(tables[w]) |-> tables[w].flowCount[f]]
  BY <1>3, <1>4, <1>6 DEF TableTrue
<1>7. ASSUME fresh(n), exact(t)
      PROVE  /\ radar_hhTest \subseteq HeavyHitters(real(t), thre)
             /\ radar_ddosTest \subseteq CountIP(real(t), dstIP, srcIP, thre)
             /\ radar_spreaderTest \subseteq CountIP(real(t), srcIP, dstIP, thre)
             /\ stuck(t) = {} => radar_fsdTest = Transform2Fsd(real(t))
  <2>1. t.sum = [f \in flows(t) \ stuck(t) |-> t.flowCount[f]]
    BY <1>5, <1>6, <1>7
  <2>2. flows(t) \in SUBSET Flow /\ t = tables[Len(tables)]
    BY DEF n
  <2> DEFINE F == flows(t)
             S == stuck(t)
             c == t.flowCount
             u == t
  <2>3. u.sum = Part(c, F \ S) /\ F \in SUBSET Flow /\ u = tables[Len(tables)]
    BY <2>1, <2>2 DEF Part
  <2> HIDE DEF F, S, c, u
  <2>4. LET all == Part(c, F)
        IN  /\ radar_hhTest \subseteq HeavyHitters(all, thre)
            /\ radar_ddosTest \subseteq CountIP(all, dstIP, srcIP, thre)
            /\ radar_spreaderTest \subseteq CountIP(all, srcIP, dstIP, thre)
            /\ S = {} => radar_fsdTest = Transform2Fsd(all)
    BY <1>5, <2>3, CountingTasks
  <2>5. QED
    BY <2>4 DEF F, S, c, Part
<1>8. ASSUME n > 1, clears, exact(t), exact(tables[n - 1])
      PROVE  SymDiff(radar_hcTest(tables[n - 1], t),
                     HeavyChanges(tables[n - 1].flowCount, t.flowCount, thre))
               \subseteq stuck(tables[n - 1]) \union stuck(t)
  <2> DEFINE t1 == tables[n - 1]
             t2 == t
             S1 == stuck(t1)
             S2 == stuck(t2)
  <2>1. /\ t1.sum = [f \in flows(t1) \ S1 |-> t1.flowCount[f]]
        /\ t2.sum = [f \in flows(t2) \ S2 |-> t2.flowCount[f]]
    BY <1>5, <1>6, <1>8
  <2>2. /\ flows(t1) = CameIn(t1.flowCount) /\ flows(t2) = CameIn(t2.flowCount)
        /\ t1 \in Table /\ t2 \in Table
    BY <1>3, <1>4, <1>5, <1>8
  <2> HIDE DEF S1, S2, t1, t2
  <2>3. /\ t1.sum = [f \in CameIn(t1.flowCount) \ S1 |-> t1.flowCount[f]]
        /\ t2.sum = [f \in CameIn(t2.flowCount) \ S2 |-> t2.flowCount[f]]
    BY <2>1, <2>2
  <2>4. SymDiff(radar_hcTest(t1, t2), HeavyChanges(t1.flowCount, t2.flowCount, thre)) \subseteq S1 \union S2
    BY <2>2, <2>3, ChangesIs
  <2>5. QED
    BY <2>4 DEF S1, S2, t1, t2
<1>9. QED
  BY <1>5, <1>6, <1>7, <1>8 DEF RadarDump, n

\* FlowRadar decodes as much as any order of decoding could: when it was cleared
\* before the window, all it dumps came in the window; and without a false positive
\* of the Bloom filter it dumps every flow but those no order could get at, with the
\* right number of packets, so its tasks (FlowRadar_KVTasks.h) report nothing that is
\* not there.  For any number of cells, hash functions, flows and packets.
THEOREM RadarDumpHolds == WindowSpec => []RadarDump
<1>1. WindowInv /\ now \in Nat => RadarDump
  BY RadarDumpTrue
<1>2. QED
  BY <1>1, NowNat, WindowInvariant, PTL
===============================================================================
