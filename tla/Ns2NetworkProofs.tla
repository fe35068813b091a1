-------------------------- MODULE Ns2NetworkProofs ---------------------------
(***************************************************************************)
(* The ns-2 experiment for every topology, code, size of the arrays and    *)
(* choice of the test points: what a switch and its files know of a flow,  *)
(* how far the archives of a test point can be apart, and which alarms are *)
(* raised.                                                                 *)
(***************************************************************************)
EXTENDS Ns2Network, FragmentCodeProofs, SequenceTheorems

------------------------------------------------------------------------------
(* Ways through the network *)

\* The links on f's way.
Hops(f) == {<<Route[f][j], Route[f][j + 1]>> : j \in 1..(Len(Route[f]) - 1)}

\* The flows that go over a link.
Users(l) == {f \in DOMAIN Route : l \in Hops(f)}

LEMMA WayType ==
  ASSUME NEW f \in DOMAIN Route
  PROVE  /\ f \in Flow /\ Route[f] \in Seq(Cacheid) /\ Len(Route[f]) \in Nat \ {0}
         /\ \A j \in 1..Len(Route[f]) : Route[f][j] \in Cacheid
         /\ \A i, j \in 1..Len(Route[f]) : Route[f][i] = Route[f][j] => i = j
<1> DEFINE r == Route[f]
<1>1. f \in Flow /\ r \in Seq(Cacheid) /\ r # <<>> /\ IsInjective(r)
  BY RouteAssumption
<1> HIDE DEF r
<1>2. Len(r) \in Nat /\ r \in [1..Len(r) -> Cacheid] /\ DOMAIN r = 1..Len(r)
  BY <1>1, LenProperties
<1>3. Len(r) # 0
  BY <1>1, EmptySeq
<1>4. QED
  BY <1>1, <1>2, <1>3 DEF IsInjective, r

\* What is left of the way after its j-th switch.
LEMMA OnwardIs ==
  ASSUME NEW f \in DOMAIN Route, NEW j \in 1..Len(Route[f])
  PROVE  LET o == Onward(Route[f][j], f)
         IN  /\ o \in Seq(Cacheid) /\ Len(o) = Len(Route[f]) - j
             /\ \A i \in 1..(Len(Route[f]) - j) : o[i] = Route[f][j + i]
<1> DEFINE r == Route[f]
           n == Len(r)
<1>1. /\ r \in Seq(Cacheid) /\ n \in Nat /\ \A i \in 1..n : r[i] \in Cacheid
      /\ \A i, k \in 1..n : r[i] = r[k] => i = k
  BY WayType
<1>2. DOMAIN r = 1..n
  BY <1>1, LenProperties
<1>3. (CHOOSE k \in DOMAIN Route[f] : Route[f][k] = Route[f][j]) = j
  BY <1>1, <1>2
<1>4. Onward(r[j], f) = SubSeq(r, j + 1, n)
  BY <1>3 DEF Onward
<1>5. j + 1 \in Int /\ n \in Int /\ \A i \in (j + 1)..n : r[i] \in Cacheid
  BY <1>1
<1> HIDE DEF r, n
<1>6. /\ SubSeq(r, j + 1, n) \in Seq(Cacheid)
      /\ Len(SubSeq(r, j + 1, n)) = IF j + 1 <= n THEN n - (j + 1) + 1 ELSE 0
      /\ \A i \in 1..(n - (j + 1) + 1) : SubSeq(r, j + 1, n)[i] = r[j + 1 + i - 1]
  BY <1>5, SubSeqProperties
<1>7. j \in 1..n /\ n \in Nat
  BY <1>1 DEF n, r
<1>8. \A i \in 1..(n - j) : i \in 1..(n - (j + 1) + 1) /\ j + 1 + i - 1 = j + i
  BY <1>7
<1>9. Len(SubSeq(r, j + 1, n)) = n - j
  BY <1>6, <1>7
<1>10. QED
  BY <1>4, <1>6, <1>8, <1>9 DEF n, r

\* A way goes on to a switch exactly if that is the next one.
LEMMA PrefixOfOne ==
  ASSUME NEW A, NEW s \in Seq(A), NEW a \in A
  PROVE  IsPrefix(<<a>>, s) <=> s # <<>> /\ s[1] = a
<1>1. Len(s) \in Nat /\ (s # <<>> <=> Len(s) >= 1) /\ \A i \in 1..Len(s) : s[i] \in A
  BY LenProperties, EmptySeq, ElementOfSeq
<1>2. <<a>> \in Seq(A) /\ Len(<<a>>) = 1 /\ <<a>>[1] = a
  OBVIOUS
<1>3. ASSUME NEW u \in Seq(A), Len(u) >= 1
      PROVE  /\ SubSeq(u, 1, 1) \in Seq(A) /\ Len(SubSeq(u, 1, 1)) = 1
             /\ SubSeq(u, 1, 1)[1] = u[1]
  <2>1. \A i \in 1..1 : u[i] \in A
    BY <1>3, LenProperties, ElementOfSeq
  <2>2. /\ SubSeq(u, 1, 1) \in Seq(A)
        /\ Len(SubSeq(u, 1, 1)) = IF 1 <= 1 THEN 1 - 1 + 1 ELSE 0
        /\ \A i \in 1..(1 - 1 + 1) : SubSeq(u, 1, 1)[i] = u[1 + i - 1]
    BY <2>1, SubSeqProperties
  <2>3. QED
    BY <2>2
<1>4. IsPrefix(<<a>>, s) <=> 1 <= Len(s) /\ SubSeq(<<a>>, 1, 1) = SubSeq(s, 1, 1)
  BY <1>2 DEF IsPrefix
<1>5. Len(s) >= 1 => (SubSeq(<<a>>, 1, 1) = SubSeq(s, 1, 1) <=> s[1] = a)
  <2> SUFFICES ASSUME Len(s) >= 1
               PROVE  SubSeq(<<a>>, 1, 1) = SubSeq(s, 1, 1) <=> s[1] = a
    OBVIOUS
  <2> DEFINE p == SubSeq(<<a>>, 1, 1)
             q == SubSeq(s, 1, 1)
  <2>1. p \in Seq(A) /\ Len(p) = 1 /\ p[1] = a
    BY <1>2, <1>3
  <2>2. q \in Seq(A) /\ Len(q) = 1 /\ q[1] = s[1]
    BY <1>3
  <2> HIDE DEF p, q
  <2>3. s[1] = a => p = q
    BY <2>1, <2>2, SeqEqual
  <2>4. QED
    BY <2>1, <2>2, <2>3 DEF p, q
<1>6. QED
  BY <1>1, <1>4, <1>5

\* The next switch of f's packet after the j-th.
LEMMA NextHop ==
  ASSUME NEW f \in DOMAIN Route, NEW j \in 1..Len(Route[f])
  PROVE  /\ Onward(Route[f][j], f) = <<>> <=> j = Len(Route[f])
         /\ j # Len(Route[f]) =>
              /\ Head(Onward(Route[f][j], f)) = Route[f][j + 1]
              /\ <<Route[f][j], Route[f][j + 1]>> \in Hops(f)
              /\ IsPrefix(<<Route[f][j + 1]>>, Onward(Route[f][j], f))
         /\ \A x \in Cacheid : IsPrefix(<<x>>, Onward(Route[f][j], f)) =>
              j # Len(Route[f]) /\ x = Route[f][j + 1]
<1> DEFINE o == Onward(Route[f][j], f)
           n == Len(Route[f])
<1>1. o \in Seq(Cacheid) /\ Len(o) = n - j /\ \A i \in 1..(n - j) : o[i] = Route[f][j + i]
  BY OnwardIs
<1>2. n \in Nat /\ \A i \in 1..n : Route[f][i] \in Cacheid
  BY WayType
<1>3. /\ Len(o) \in Nat
      /\ o # <<>> => Len(o) \in Nat \ {0}
      /\ o = <<>> => Len(o) = 0
  BY <1>1, LenProperties, EmptySeq
<1>4. o = <<>> <=> j = n
  <2> HIDE DEF o
  <2>1. QED
    BY <1>1, <1>2, <1>3
<1>5. ASSUME j # n
      PROVE  /\ Head(o) = Route[f][j + 1] /\ o # <<>> /\ o[1] = Route[f][j + 1]
             /\ <<Route[f][j], Route[f][j + 1]>> \in Hops(f)
             /\ Route[f][j + 1] \in Cacheid
  <2>1. j \in 1..(n - 1) /\ 1 \in 1..(n - j) /\ j + 1 \in 1..n
    BY <1>2, <1>5
  <2>2. o[1] = Route[f][j + 1]
    BY <1>1, <2>1
  <2>3. Head(o) = o[1]
    BY DEF Head
  <2>4. QED
    BY <1>2, <1>4, <1>5, <2>1, <2>2, <2>3 DEF Hops
<1> HIDE DEF o, n
<1>6. \A x \in Cacheid : IsPrefix(<<x>>, o) <=> o # <<>> /\ o[1] = x
  BY <1>1, PrefixOfOne
<1>7. QED
  BY <1>4, <1>5, <1>6 DEF o, n

\* The links are those on the ways, between switches.
LEMMA LinksAreHops ==
  /\ \A f \in DOMAIN Route : Hops(f) \subseteq Link
  /\ \A l \in Link : l \in Cacheid \X Cacheid /\ \E f \in DOMAIN Route : l \in Hops(f)
<1>1. ASSUME NEW f \in DOMAIN Route, NEW j \in 1..(Len(Route[f]) - 1)
      PROVE  <<Route[f][j], Route[f][j + 1]>> \in Cacheid \X Cacheid
  <2>1. Len(Route[f]) \in Nat /\ \A i \in 1..Len(Route[f]) : Route[f][i] \in Cacheid
    BY WayType
  <2>2. j \in 1..Len(Route[f]) /\ j + 1 \in 1..Len(Route[f])
    BY <2>1
  <2>3. QED
    BY <2>1, <2>2
<1>2. QED
  BY <1>1 DEF Link, Hops

\* The flows that come down from TWO to ONE are those of that link.
LEMMA DownwardFlows ==
  /\ IsFiniteSet(Downward)
  /\ \A f \in DOMAIN Route : f \in Downward <=> <<TWO, ONE>> \in Hops(f)
<1>1. IsFiniteSet(Downward)
  BY RouteAssumption, FS_Subset DEF Downward
<1>2. ASSUME NEW f \in DOMAIN Route PROVE f \in Downward <=> <<TWO, ONE>> \in Hops(f)
  <2> DEFINE n == Len(Route[f])
  <2>1. /\ n \in Nat /\ \A i \in 1..n : Route[f][i] \in Cacheid
        /\ Route[f] \in Seq(Cacheid)
    BY WayType
  <2>2. ToSet(Route[f]) = {Route[f][j] : j \in 1..n}
    BY <2>1, LenProperties DEF ToSet
  <2>3. ONE \in Cacheid
    BY SwitchAssumption
  <2>4. ASSUME f \in Downward PROVE <<TWO, ONE>> \in Hops(f)
    <3>1. PICK j \in 1..n : Route[f][j] = TWO
      BY <2>2, <2>4 DEF Downward
    <3>2. IsPrefix(<<ONE>>, Onward(Route[f][j], f))
      BY <2>4, <3>1 DEF Downward
    <3>3. QED
      BY <2>3, <3>1, <3>2, NextHop
  <2>5. ASSUME <<TWO, ONE>> \in Hops(f) PROVE f \in Downward
    <3>1. PICK j \in 1..(n - 1) : Route[f][j] = TWO /\ Route[f][j + 1] = ONE
      BY <2>5 DEF Hops
    <3>2. j \in 1..n /\ j # n
      BY <2>1
    <3>3. TWO \in ToSet(Route[f])
      BY <2>2, <3>1, <3>2
    <3>4. IsPrefix(<<ONE>>, Onward(TWO, f))
      BY <3>1, <3>2, NextHop
    <3>5. QED
      BY <3>3, <3>4 DEF Downward
  <2>6. QED
    BY <2>4, <2>5
<1>3. QED
  BY <1>1, <1>2

------------------------------------------------------------------------------
(* What a switch knows, now and in its files *)

\* The flows that came.
Seen(s) == {f \in Flow : s.TrueLoss[f] > 0}

\* The array has fragments of the flows that came, on their paths; and of a flow that
\* shares none, no more packets than came and, while they are all there, the last.
Truthful(id, s) ==
  /\ s.TrueLoss \in [Flow -> Nat] /\ s.last \in [Flow -> Nat]
  /\ Coded(id, s.flowcache) /\ Located(id, s.flowcache, Seen(s))
  /\ \A f \in Flow :
       ~Shared(id, f, Seen(s)) => Faithful(s.flowcache, id, f, s.TrueLoss[f], s.last[f])

\* The same switch after a packet of h at time t.
Received(id, s, h, t) ==
  [flowcache |-> AHeapInsert(s.flowcache, id, h, t),
   TrueLoss |-> [s.TrueLoss EXCEPT ![h] = @ + 1],
   last |-> [s.last EXCEPT ![h] = t]]

\* An array that is faithful to f is so with a packet of h in hand.
LEMMA PacketFaithful ==
  ASSUME NEW id, NEW c, Coded(id, c), NEW S, NEW h \in S, NEW t \in Nat,
         NEW f \in Flow, ~Shared(id, f, S), NEW n \in Nat, NEW u \in Nat, u <= t,
         Faithful(c, id, f, n, u)
  PROVE  FaithfulWith(c, Fragment(id, h, t), id, f,
                      IF f = h THEN n + 1 ELSE n, IF f = h THEN t ELSE u, h)
<1> DEFINE it == Fragment(id, h, t)
           k == Kept(c, id, f)
<1>1. it.key = encode(id, h) /\ it.count = 1 /\ it.time = t
  BY DEF Fragment
<1>2. k \in Nat
  BY KeptSome
<1> HIDE DEF it
<1>3. CASE f = h
  <2>1. Mine(id, it, f, h) /\ InHand(id, it, f, h) = 1
    BY <1>1, <1>3 DEF Mine, PartCount, InHand
  <2>2. k + 1 <= n + 1
    BY <1>2 DEF Faithful
  <2>3. ASSUME NEW l \in Level, KeptShare(c, id, f)[l] > 0
        PROVE  c[PathBucket(f, l)].time <= t
    <3>1. c[PathBucket(f, l)].time <= u
      BY <2>3 DEF Faithful
    <3>2. c[PathBucket(f, l)].time \in Nat
      BY PathInArray DEF Coded
    <3>3. QED
      BY <3>1, <3>2
  <2>4. QED
    BY <1>1, <1>3, <2>1, <2>2, <2>3 DEF FaithfulWith, it
<1>4. CASE f # h
  <2>1. ~Mine(id, it, f, h)
    <3>1. SUFFICES ASSUME Mine(id, it, f, h) PROVE FALSE
      OBVIOUS
    <3>2. encode(id, h) = encode(id, f) /\ Tree(h) = Tree(f)
      BY <1>1, <3>1 DEF Mine, PartCount
    <3>3. QED
      BY <1>4, <3>2 DEF Shared
  <2>2. InHand(id, it, f, h) = 0
    BY <2>1 DEF InHand
  <2>3. k + 0 <= n /\ (k + 0 = n => k = n)
    BY <1>2 DEF Faithful
  <2>4. FaithfulWith(c, it, id, f, n, u, h)
    BY <2>1, <2>2, <2>3 DEF FaithfulWith, Faithful
  <2>5. QED
    BY <1>4, <2>4 DEF it
<1>5. QED
  BY <1>3, <1>4

\* What a switch knows stays true with each packet.
LEMMA StaysTruthful ==
  ASSUME NEW id, NEW s, Truthful(id, s), NEW h \in Flow, NEW t \in Nat,
         \A f \in Flow : s.last[f] <= t
  PROVE  Truthful(id, Received(id, s, h, t))
<1> DEFINE c == s.flowcache
           r == Received(id, s, h, t)
           it == Fragment(id, h, t)
           S == Seen(r)
<1>1. /\ r.flowcache = insert(c, it, h)
      /\ r.TrueLoss = [s.TrueLoss EXCEPT ![h] = @ + 1]
      /\ r.last = [s.last EXCEPT ![h] = t]
  BY DEF Received, AHeapInsert
<1>2. s.TrueLoss \in [Flow -> Nat] /\ s.last \in [Flow -> Nat]
  BY DEF Truthful
<1> HIDE DEF r
<1>3. /\ r.TrueLoss \in [Flow -> Nat] /\ r.last \in [Flow -> Nat]
      /\ \A f \in Flow : /\ r.TrueLoss[f] = IF f = h THEN s.TrueLoss[f] + 1 ELSE s.TrueLoss[f]
                         /\ r.last[f] = IF f = h THEN t ELSE s.last[f]
  BY <1>1, <1>2
<1>4. Seen(s) \subseteq S /\ h \in S /\ S \subseteq Flow
  <2>1. \A f \in Flow : s.TrueLoss[f] \in Nat
    BY <1>2
  <2>2. QED
    BY <1>3, <2>1 DEF Seen
<1> HIDE DEF S, c, it
<1>5. Coded(id, c) /\ Located(id, c, S)
  <2>1. Located(id, c, Seen(s)) /\ Coded(id, c)
    BY DEF Truthful, c
  <2>2. QED
    BY <1>4, <2>1 DEF Located
<1>6. Carries(id, it, h, 0, S)
  <2>1. it = [key |-> encode(id, h), count |-> 1, time |-> t]
    BY DEF it, Fragment
  <2>2. encode(id, h) \in Fragments(id)
    BY DEF Fragments
  <2>3. QED
    BY <1>4, <2>1, <2>2 DEF Carries, Parts
<1>7. Coded(id, insert(c, it, h)) /\ Located(id, insert(c, it, h), S)
  <2>1. 0 \in Nat
    OBVIOUS
  <2>2. QED
    BY <1>4, <1>5, <1>6, <2>1, InsertFaithful
<1>8. ASSUME NEW f \in Flow, ~Shared(id, f, S)
      PROVE  Faithful(r.flowcache, id, f, r.TrueLoss[f], r.last[f])
  <2> DEFINE n == s.TrueLoss[f]
             u == s.last[f]
             m == r.TrueLoss[f]
             v == r.last[f]
  <2>1. n \in Nat /\ u \in Nat /\ m \in Nat /\ v \in Nat /\ u <= t
    BY <1>2, <1>3
  <2>2. m = (IF f = h THEN n + 1 ELSE n) /\ v = (IF f = h THEN t ELSE u)
    BY <1>3
  <2>3. ~Shared(id, f, Seen(s))
    BY <1>4, <1>8 DEF Shared
  <2>4. Faithful(c, id, f, n, u)
    BY <2>3 DEF Truthful, c
  <2> HIDE DEF n, u, m, v
  <2>5. FaithfulWith(c, it, id, f, m, v, h)
    BY <1>4, <1>5, <1>8, <2>1, <2>2, <2>4, PacketFaithful DEF it
  <2>6. Faithful(insert(c, it, h), id, f, m, v)
    BY <1>4, <1>5, <1>6, <1>8, <2>1, <2>5, InsertFaithful
  <2>7. QED
    BY <1>1, <2>6 DEF c, it, m, v
<1>9. QED
  BY <1>1, <1>3, <1>7, <1>8 DEF Truthful, r, S, c, it

\* At first there is nothing to know.
LEMMA NothingIsTruthful ==
  ASSUME NEW id, NEW s,
         s = [flowcache |-> [b \in Bucket |-> Empty], TrueLoss |-> [f \in Flow |-> 0],
              last |-> [f \in Flow |-> 0]]
  PROVE  Truthful(id, s)
<1> DEFINE c == [b \in Bucket |-> Empty]
<1>1. s.flowcache = c /\ s.TrueLoss = [f \in Flow |-> 0] /\ s.last = [f \in Flow |-> 0]
  OBVIOUS
<1>2. \A b \in Bucket : c[b] = Empty /\ c[b].count = 0 /\ c[b].key = NoKey
  BY DEF Empty
<1>3. Coded(id, c) /\ Located(id, c, Seen(s))
  <2>1. c \in [Bucket -> [key : Fragments(id) \union {NoKey}, count : Nat, time : Nat]]
    BY DEF Empty
  <2> HIDE DEF c
  <2>2. QED
    BY <1>2, <2>1 DEF Coded, Located, Vacant
<1> HIDE DEF c
<1>4. ASSUME NEW f \in Flow PROVE Faithful(c, id, f, 0, 0)
  <2>1. \A l \in Level : KeptShare(c, id, f)[l] = 0
    BY <1>2, PathInArray DEF KeptShare
  <2>2. Kept(c, id, f) \in Nat /\ ~(Kept(c, id, f) > 0)
    BY <1>3, <2>1, KeptSome
  <2>3. QED
    BY <2>1, <2>2 DEF Faithful
<1>5. QED
  BY <1>1, <1>3, <1>4 DEF Truthful

------------------------------------------------------------------------------
(* The inductive invariant *)

Arrays ==
  [Bucket -> [key : (UNION {Fragments(id) : id \in Cacheid}) \union {NoKey},
              count : Nat, time : Nat]]

Archives == [flowcache : Arrays, TrueLoss : [Flow -> Nat], last : [Flow -> Nat]]

\* The values, the packets on a link among those whose way it is on.
NetTyped ==
  /\ flowcache \in [Cacheid -> Arrays]
  /\ TrueLoss \in [Cacheid -> [Flow -> Nat]]
  /\ last \in [Cacheid -> [Flow -> Nat]]
  /\ saved \in [Cacheid -> Seq(Archives)]
  /\ DOMAIN wire = Link /\ \A l \in Link : wire[l] \in Seq(Users(l))
  /\ clock \in 0..MaxTime

\* What an archive of the switch would be now.
Here(id) == [flowcache |-> flowcache[id], TrueLoss |-> TrueLoss[id], last |-> last[id]]

\* The switch and its files know what came; the files were not written too early.
SwitchTrue(id) ==
  /\ Truthful(id, Here(id))
  /\ \A f \in Flow : last[id][f] <= clock
  /\ Len(saved[id]) <= TESTPOINT
  /\ \A t \in 1..Len(saved[id]) : Truthful(id, saved[id][t]) /\ clock > testPoint(t - 1)

\* The packets that came down to a switch, or were to, and those on the way.
Sum(id) == SumOf(TrueLoss[id], Downward)

OnWire(w) == IF <<TWO, ONE>> \in Link THEN Len(w[<<TWO, ONE>>]) ELSE 0

\* ONE has no packets that TWO did not have.  When TWO has written an archive and ONE has
\* yet to, ONE is ahead of it by no more than the archives it has, for it writes one
\* with the next packet.
Skew ==
  /\ Sum(ONE) + OnWire(wire) <= Sum(TWO)
  /\ \A t \in 1..Len(saved[TWO]) :
       t > Len(saved[ONE]) => Sum(ONE) <= Down(TWO, t) + Len(saved[ONE])
  /\ \A t \in 1..Len(saved[ONE]) :
       IF t <= Len(saved[TWO]) THEN Down(ONE, t) <= Down(TWO, t) + t
       ELSE Down(ONE, t) <= Sum(TWO)

NetInv == NetTyped /\ (\A id \in Cacheid : SwitchTrue(id)) /\ Skew

------------------------------------------------------------------------------
(* The steps *)

\* A packet that reaches the j-th switch of its way comes off the link before it.
TookOff(w, f, j) ==
  \/ j = 1 /\ w = wire
  \/ /\ j > 1
     /\ LET l == <<Route[f][j - 1], Route[f][j]>>
        IN  /\ l \in Link /\ wire[l] # <<>> /\ Head(wire[l]) = f
            /\ w = [wire EXCEPT ![l] = Tail(@)]

\* f's packet reaches the j-th switch of its way.
Reaches(w, f, j) == TookOff(w, f, j) /\ recv(w, Route[f][j], f)

\* That is what every step is, but for the clock's.
LEMMA StepIs ==
  ASSUME NetTyped, Next
  PROVE  Tick \/ \E f \in DOMAIN Route : \E j \in 1..Len(Route[f]) : \E w : Reaches(w, f, j)
<1>1. ASSUME NEW f \in DOMAIN Route, Send(f)
      PROVE  1 \in 1..Len(Route[f]) /\ Reaches(wire, f, 1)
  <2>1. 1 \in 1..Len(Route[f])
    BY WayType
  <2>2. QED
    BY <1>1, <2>1 DEF Send, Reaches, TookOff
<1>2. ASSUME NEW l \in Link, Deliver(l)
      PROVE  \E f \in DOMAIN Route : \E j \in 1..Len(Route[f]) : \E w : Reaches(w, f, j)
  <2> DEFINE f == Head(wire[l])
             w == [wire EXCEPT ![l] = Tail(@)]
  <2>1. wire[l] \in Seq(Users(l)) /\ wire[l] # <<>>
    BY <1>2 DEF NetTyped, Deliver
  <2>2. f \in Users(l)
    BY <2>1, HeadTailProperties
  <2>3. recv(w, l[2], f)
    BY <1>2 DEF Deliver
  <2>4. w = [wire EXCEPT ![l] = Tail(@)]
    OBVIOUS
  <2>5. f = Head(wire[l])
    OBVIOUS
  <2> HIDE DEF f, w
  <2>6. PICK i \in 1..(Len(Route[f]) - 1) : l = <<Route[f][i], Route[f][i + 1]>>
    BY <2>2 DEF Users, Hops
  <2>7. f \in DOMAIN Route /\ Len(Route[f]) \in Nat
    BY <2>2, WayType DEF Users
  <2>8. i + 1 \in 1..Len(Route[f]) /\ i + 1 > 1 /\ (i + 1) - 1 = i
    BY <2>7
  <2>9. l[2] = Route[f][i + 1]
    BY <2>6
  <2>10. TookOff(w, f, i + 1)
    BY <2>1, <2>4, <2>5, <2>6, <2>8 DEF TookOff
  <2>11. Reaches(w, f, i + 1)
    BY <2>3, <2>9, <2>10 DEF Reaches
  <2>12. QED
    BY <2>7, <2>8, <2>11
<1>3. QED
  BY <1>1, <1>2 DEF Next

\* The links a packet has come off have the others.
LEMMA OffTheLink ==
  ASSUME NetTyped, NEW f \in DOMAIN Route, NEW j \in 1..Len(Route[f]), NEW w,
         TookOff(w, f, j)
  PROVE  DOMAIN w = Link /\ \A l \in Link : w[l] \in Seq(Users(l))
<1>1. CASE j = 1 /\ w = wire
  BY <1>1 DEF NetTyped
<1>2. CASE j > 1
  <2> DEFINE l == <<Route[f][j - 1], Route[f][j]>>
  <2>1. l \in Link /\ wire[l] # <<>> /\ w = [wire EXCEPT ![l] = Tail(@)]
    BY <1>2 DEF TookOff
  <2> HIDE DEF l
  <2>2. wire[l] \in Seq(Users(l)) /\ DOMAIN wire = Link
    BY <2>1 DEF NetTyped
  <2>3. Tail(wire[l]) \in Seq(Users(l))
    BY <2>1, <2>2, HeadTailProperties
  <2>4. \A k \in Link : w[k] = IF k = l THEN Tail(wire[l]) ELSE wire[k]
    BY <2>1, <2>2
  <2>5. QED
    BY <2>1, <2>2, <2>3, <2>4 DEF NetTyped
<1>3. QED
  BY <1>1, <1>2 DEF TookOff

\* Where the packet goes then.
LEMMA SentOn ==
  ASSUME NetTyped, NEW f \in DOMAIN Route, NEW j \in 1..Len(Route[f]), NEW w,
         TookOff(w, f, j), send(w, Route[f][j], f)
  PROVE  \/ wire' = w
         \/ LET l == <<Route[f][j], Route[f][j + 1]>>
            IN  /\ j # Len(Route[f]) /\ l \in Link /\ f \in Users(l)
                /\ wire' = [w EXCEPT ![l] = Append(@, f)]
<1>1. CASE Onward(Route[f][j], f) = <<>>
  BY <1>1 DEF send
<1>2. CASE Onward(Route[f][j], f) # <<>>
  <2> DEFINE l == <<Route[f][j], Route[f][j + 1]>>
  <2>1. j # Len(Route[f]) /\ Head(Onward(Route[f][j], f)) = Route[f][j + 1] /\ l \in Hops(f)
    BY <1>2, NextHop
  <2>2. l \in Link /\ f \in Users(l)
    BY <2>1, LinksAreHops DEF Users
  <2>3. wire' = w \/ wire' = [w EXCEPT ![l] = Append(@, f)]
    BY <1>2, <2>1 DEF send
  <2>4. QED
    BY <2>1, <2>2, <2>3
<1>3. QED
  BY <1>1, <1>2

\* What a switch has received, and what the others have.
LEMMA SwitchReceived ==
  ASSUME NetTyped, NEW id \in Cacheid, NEW f \in Flow, NEW w, recv(w, id, f)
  PROVE  /\ \A x \in Cacheid : Here(x)' = IF x = id THEN Received(id, Here(id), f, clock)
                                          ELSE Here(x)
         /\ DOMAIN flowcache' = Cacheid
         /\ DOMAIN TrueLoss' = Cacheid /\ DOMAIN last' = Cacheid
<1>1. /\ flowcache' = [flowcache EXCEPT ![id] = AHeapInsert(flowcache[id], id, f, clock)]
      /\ TrueLoss' = [TrueLoss EXCEPT ![id] = [TrueLoss[id] EXCEPT ![f] = @ + 1]]
      /\ last' = [last EXCEPT ![id] = [last[id] EXCEPT ![f] = clock]]
  BY DEF recv, FlowCacheInsert, Counted
<1>2. DOMAIN flowcache = Cacheid /\ DOMAIN TrueLoss = Cacheid /\ DOMAIN last = Cacheid
  BY DEF NetTyped
<1>3. \A x \in Cacheid :
        /\ flowcache'[x] = IF x = id THEN AHeapInsert(flowcache[id], id, f, clock)
                           ELSE flowcache[x]
        /\ TrueLoss'[x] = IF x = id THEN [TrueLoss[id] EXCEPT ![f] = @ + 1] ELSE TrueLoss[x]
        /\ last'[x] = IF x = id THEN [last[id] EXCEPT ![f] = clock] ELSE last[x]
  BY <1>1, <1>2
<1>4. \A x \in Cacheid :
        Here(x)' = [flowcache |-> flowcache'[x], TrueLoss |-> TrueLoss'[x], last |-> last'[x]]
  BY DEF Here
<1>5. Received(id, Here(id), f, clock)
        = [flowcache |-> AHeapInsert(flowcache[id], id, f, clock),
           TrueLoss |-> [TrueLoss[id] EXCEPT ![f] = @ + 1],
           last |-> [last[id] EXCEPT ![f] = clock]]
  BY DEF Received, Here
<1>6. ASSUME NEW x \in Cacheid
      PROVE  Here(x)' = IF x = id THEN Received(id, Here(id), f, clock) ELSE Here(x)
  <2>1. CASE x = id
    BY <1>3, <1>4, <1>5, <2>1
  <2>2. CASE x # id
    BY <1>3, <1>4, <2>2 DEF Here
  <2>3. QED
    BY <2>1, <2>2
<1>7. QED
  BY <1>1, <1>2, <1>6

\* What every switch has is true after a step.
LEMMA StepTruthful ==
  ASSUME NetTyped, \A x \in Cacheid : SwitchTrue(x), NEW id \in Cacheid, NEW f \in Flow,
         NEW w, recv(w, id, f), NEW x \in Cacheid
  PROVE  /\ Truthful(x, Here(x)') /\ Here(x)' \in Archives
         /\ \A g \in Flow : last'[x][g] <= clock
<1> DEFINE r == Here(x)'
<1>1. r = IF x = id THEN Received(id, Here(id), f, clock) ELSE Here(x)
  BY SwitchReceived
<1>2. /\ Truthful(x, Here(x)) /\ \A g \in Flow : last[x][g] <= clock
      /\ Here(x).last = last[x] /\ last[x] \in [Flow -> Nat]
  BY DEF SwitchTrue, Here, NetTyped
<1>3. clock \in Nat
  BY TimeAssumption DEF NetTyped
<1>4. r = [flowcache |-> flowcache'[x], TrueLoss |-> TrueLoss'[x], last |-> last'[x]]
  BY DEF Here
<1> HIDE DEF r
<1>5. Truthful(x, r)
  <2>1. CASE x = id
    <3>1. Truthful(x, Received(x, Here(x), f, clock))
      BY <1>2, <1>3, StaysTruthful
    <3>2. QED
      BY <1>1, <2>1, <3>1
  <2>2. CASE x # id
    BY <1>1, <1>2, <2>2
  <2>3. QED
    BY <2>1, <2>2
<1>6. \A g \in Flow : r.last[g] <= clock
  <2>1. CASE x = id
    <3>1. r.last = [last[x] EXCEPT ![f] = clock]
      BY <1>1, <1>2, <2>1 DEF Received
    <3>2. QED
      BY <1>2, <1>3, <3>1
  <2>2. CASE x # id
    BY <1>1, <1>2, <2>2
  <2>3. QED
    BY <2>1, <2>2
<1>7. r \in Archives
  <2>1. /\ r.TrueLoss \in [Flow -> Nat] /\ r.last \in [Flow -> Nat]
        /\ r.flowcache \in [Bucket -> [key : Fragments(x) \union {NoKey}, count : Nat, time : Nat]]
    BY <1>5 DEF Truthful, Coded
  <2>2. r.flowcache \in Arrays
    <3> DEFINE U == (UNION {Fragments(y) : y \in Cacheid}) \union {NoKey}
               F == Fragments(x) \union {NoKey}
               A == [key : F, count : Nat, time : Nat]
               B == [key : U, count : Nat, time : Nat]
    <3>1. F \subseteq U
      <4> DEFINE fs == {Fragments(y) : y \in Cacheid}
                 p == Fragments(x)
      <4>1. p \in fs
        OBVIOUS
      <4> HIDE DEF fs, p
      <4>2. p \subseteq UNION fs
        BY <4>1
      <4>3. QED
        BY <4>2 DEF fs, p
    <3> HIDE DEF U, F
    <3>2. A \subseteq B
      BY <3>1
    <3>3. r.flowcache \in [Bucket -> A]
      BY <2>1 DEF F
    <3> HIDE DEF A, B
    <3>4. r.flowcache \in [Bucket -> B]
      BY <3>2, <3>3
    <3>5. QED
      BY <3>4 DEF Arrays, B, U
  <2>3. QED
    BY <1>4, <2>1, <2>2 DEF Archives
<1>8. r.last = last'[x]
  BY <1>4
<1>9. QED
  BY <1>5, <1>6, <1>7, <1>8 DEF r

\* The files a switch writes.
LEMMA FilesWritten ==
  ASSUME NetTyped, NEW id \in Cacheid, NEW f, NEW w, recv(w, id, f), Here(id)' \in Archives
  PROVE  /\ DOMAIN saved' = Cacheid
         /\ \A x \in Cacheid \ {id} : saved'[x] = saved[x]
         /\ saved[id] \in Seq(Archives) /\ saved'[id] \in Seq(Archives)
         /\ \/ /\ clock > testPoint(Len(saved[id]))
               /\ Len(saved'[id]) = Len(saved[id]) + 1
               /\ \A t \in 1..Len(saved[id]) : saved'[id][t] = saved[id][t]
               /\ saved'[id][Len(saved[id]) + 1] = Here(id)'
            \/ ~(clock > testPoint(Len(saved[id]))) /\ saved'[id] = saved[id]
<1>1. DOMAIN saved = Cacheid /\ saved[id] \in Seq(Archives)
  BY DEF NetTyped
<1>2. Serialize(id)
  BY DEF recv
<1>3. CASE clock > testPoint(Len(saved[id]))
  <2> DEFINE a == Here(id)'
             s == saved[id]
  <2>1. Archive(id) = a
    BY DEF Archive, Here
  <2>2. saved' = [saved EXCEPT ![id] = Append(saved[id], a)]
    BY <1>2, <1>3, <2>1 DEF Serialize
  <2> HIDE DEF a
  <2>3. saved'[id] = Append(s, a) /\ \A x \in Cacheid \ {id} : saved'[x] = saved[x]
    BY <1>1, <2>2
  <2>4. a \in Archives /\ s \in Seq(Archives)
    BY <1>1 DEF a
  <2>5. DOMAIN saved' = Cacheid
    BY <1>1, <2>2
  <2> HIDE DEF s
  <2>6. /\ Append(s, a) \in Seq(Archives) /\ Len(Append(s, a)) = Len(s) + 1
        /\ \A t \in 1..Len(s) : Append(s, a)[t] = s[t]
        /\ Append(s, a)[Len(s) + 1] = a
    BY <2>4, AppendProperties
  <2>7. QED
    BY <1>3, <2>3, <2>4, <2>5, <2>6 DEF a, s
<1>4. CASE ~(clock > testPoint(Len(saved[id])))
  <2>1. saved' = saved
    BY <1>2, <1>4 DEF Serialize
  <2>2. QED
    BY <1>1, <1>4, <2>1
<1>5. QED
  BY <1>3, <1>4

\* The values stay as they are typed.
LEMMA StepNetTyped ==
  ASSUME NetTyped, \A x \in Cacheid : SwitchTrue(x), NEW f \in DOMAIN Route,
         NEW j \in 1..Len(Route[f]), NEW w, Reaches(w, f, j)
  PROVE  NetTyped'
<1> DEFINE id == Route[f][j]
<1>1. f \in Flow /\ id \in Cacheid
  BY WayType
<1>2. TookOff(w, f, j) /\ recv(w, id, f)
  BY DEF Reaches
<1>3. send(w, id, f) /\ clock' = clock
  BY <1>2 DEF recv
<1>4. DOMAIN wire' = Link /\ \A l \in Link : wire'[l] \in Seq(Users(l))
  <2>1. DOMAIN w = Link /\ \A l \in Link : w[l] \in Seq(Users(l))
    BY <1>2, OffTheLink
  <2>2. ASSUME NEW l \in Link, f \in Users(l), wire' = [w EXCEPT ![l] = Append(@, f)]
        PROVE  DOMAIN wire' = Link /\ \A k \in Link : wire'[k] \in Seq(Users(k))
    <3>1. Append(w[l], f) \in Seq(Users(l))
      BY <2>1, <2>2, AppendProperties
    <3>2. \A k \in Link : wire'[k] = IF k = l THEN Append(w[l], f) ELSE w[k]
      BY <2>1, <2>2
    <3>3. QED
      BY <2>1, <2>2, <3>1, <3>2
  <2>3. QED
    BY <1>2, <1>3, <2>1, <2>2, SentOn
<1> HIDE DEF id
<1>5. \A x \in Cacheid : Here(x)' \in Archives
  BY <1>1, <1>2, StepTruthful
<1>6. DOMAIN flowcache' = Cacheid /\ DOMAIN TrueLoss' = Cacheid /\ DOMAIN last' = Cacheid
  BY <1>1, <1>2, SwitchReceived
<1>7. \A x \in Cacheid :
        /\ flowcache'[x] \in Arrays /\ TrueLoss'[x] \in [Flow -> Nat] /\ last'[x] \in [Flow -> Nat]
  BY <1>5 DEF Here, Archives
<1>8. /\ flowcache' = [x \in Cacheid |-> flowcache'[x]]
      /\ TrueLoss' = [x \in Cacheid |-> TrueLoss'[x]]
      /\ last' = [x \in Cacheid |-> last'[x]]
  <2>1. /\ flowcache \in [Cacheid -> Arrays] /\ TrueLoss \in [Cacheid -> [Flow -> Nat]]
        /\ last \in [Cacheid -> [Flow -> Nat]]
    BY DEF NetTyped
  <2>2. QED
    BY <1>2, <2>1 DEF recv, Counted
<1>9. saved' \in [Cacheid -> Seq(Archives)]
  <2>1. /\ DOMAIN saved' = Cacheid /\ saved'[id] \in Seq(Archives)
        /\ \A x \in Cacheid \ {id} : saved'[x] = saved[x]
    BY <1>1, <1>2, <1>5, FilesWritten
  <2>2. saved \in [Cacheid -> Seq(Archives)]
    BY DEF NetTyped
  <2>3. saved' = [x \in Cacheid |-> saved'[x]]
    <3>1. Serialize(id)
      BY <1>2 DEF recv
    <3>2. QED
      BY <2>2, <3>1 DEF Serialize
  <2>4. \A x \in Cacheid : saved'[x] \in Seq(Archives)
    BY <2>1, <2>2
  <2>5. QED
    BY <2>3, <2>4
<1>10. clock' \in 0..MaxTime
  BY <1>3 DEF NetTyped
<1>11. /\ flowcache' \in [Cacheid -> Arrays]
       /\ TrueLoss' \in [Cacheid -> [Flow -> Nat]] /\ last' \in [Cacheid -> [Flow -> Nat]]
  BY <1>7, <1>8
<1>12. QED
  BY <1>4, <1>9, <1>10, <1>11 DEF NetTyped

\* What the switches and their files know stays true.
LEMMA StepSwitchTrue ==
  ASSUME NetTyped, \A x \in Cacheid : SwitchTrue(x), NEW f \in DOMAIN Route,
         NEW j \in 1..Len(Route[f]), NEW w, Reaches(w, f, j), NEW x \in Cacheid
  PROVE  SwitchTrue(x)'
<1> DEFINE id == Route[f][j]
<1>1. f \in Flow /\ id \in Cacheid /\ recv(w, id, f) /\ clock' = clock
  BY WayType DEF Reaches, recv
<1> HIDE DEF id
<1>2. /\ Truthful(x, Here(x)') /\ Here(x)' \in Archives /\ Here(id)' \in Archives
      /\ \A g \in Flow : last'[x][g] <= clock'
  BY <1>1, StepTruthful
<1>3. /\ \A y \in Cacheid \ {id} : saved'[y] = saved[y]
      /\ \/ /\ clock > testPoint(Len(saved[id]))
            /\ Len(saved'[id]) = Len(saved[id]) + 1
            /\ \A t \in 1..Len(saved[id]) : saved'[id][t] = saved[id][t]
            /\ saved'[id][Len(saved[id]) + 1] = Here(id)'
         \/ saved'[id] = saved[id]
  BY <1>1, <1>2, FilesWritten
<1>4. /\ Len(saved[x]) \in Nat /\ Len(saved[x]) <= TESTPOINT
      /\ \A t \in 1..Len(saved[x]) : Truthful(x, saved[x][t]) /\ clock > testPoint(t - 1)
  <2>1. saved[x] \in Seq(Archives)
    BY DEF NetTyped
  <2>2. QED
    BY <2>1, LenProperties DEF SwitchTrue
<1>5. /\ Len(saved'[x]) <= TESTPOINT
      /\ \A t \in 1..Len(saved'[x]) : Truthful(x, saved'[x][t]) /\ clock > testPoint(t - 1)
  <2>1. CASE saved'[x] = saved[x]
    BY <1>4, <2>1
  <2>2. CASE saved'[x] # saved[x]
    <3> DEFINE n == Len(saved[x])
    <3>1. /\ clock > testPoint(n) /\ Len(saved'[x]) = n + 1
          /\ \A t \in 1..n : saved'[x][t] = saved[x][t]
          /\ saved'[x][n + 1] = Here(x)'
      BY <1>3, <2>2
    <3>2. n < TESTPOINT
      <4>1. n # TESTPOINT
        <5>1. clock <= MaxTime /\ clock \in Int /\ MaxTime \in Int
          BY TimeAssumption DEF NetTyped
        <5>2. ~(TESTPOINT < TESTPOINT)
          BY PointAssumption
        <5>3. n = TESTPOINT => testPoint(n) = MaxTime
          BY <5>2 DEF testPoint
        <5>4. QED
          BY <3>1, <5>1, <5>3
      <4>2. n \in Nat /\ n <= TESTPOINT /\ TESTPOINT \in Nat
        BY <1>4, PointAssumption
      <4> HIDE DEF n
      <4>3. QED
        BY <4>1, <4>2
    <3> DEFINE m == n + 1
    <3>3. n \in Nat /\ TESTPOINT \in Nat /\ m - 1 = n /\ \A t \in 1..m : t \in 1..n \/ t = m
      BY <1>4, PointAssumption
    <3>4. ASSUME NEW t \in 1..m PROVE Truthful(x, saved'[x][t]) /\ clock > testPoint(t - 1)
      <4>1. CASE t \in 1..n
        BY <1>4, <3>1, <4>1
      <4>2. CASE t = m
        <5>1. saved'[x][t] = Here(x)' /\ t - 1 = n
          BY <3>1, <3>3, <4>2
        <5> HIDE DEF n
        <5>2. QED
          BY <1>2, <3>1, <5>1
      <4>3. QED
        BY <3>3, <4>1, <4>2
    <3>5. m <= TESTPOINT
      BY <3>2, <3>3
    <3>6. QED
      BY <3>1, <3>4, <3>5
  <2>3. QED
    BY <2>1, <2>2
<1>6. QED
  BY <1>1, <1>2, <1>5 DEF SwitchTrue, testPoint

------------------------------------------------------------------------------
(* How far apart the archives are *)

\* What the archives of a test point count on the way down.
FileSum(s, id, t) == SumOf(s[id][t].TrueLoss, Downward)

\* The sums are numbers.
LEMMA SumsTyped ==
  ASSUME NetTyped, NEW id \in Cacheid
  PROVE  /\ Sum(id) \in Int /\ Len(saved[id]) \in Nat
         /\ \A t \in 1..Len(saved[id]) : Down(id, t) = FileSum(saved, id, t)
                                         /\ FileSum(saved, id, t) \in Int
<1>1. IsFiniteSet(Downward) /\ Downward \subseteq Flow
  BY DownwardFlows, RouteAssumption DEF Downward
<1>2. TrueLoss[id] \in [Flow -> Nat] /\ saved[id] \in Seq(Archives)
  BY DEF NetTyped
<1>3. Sum(id) \in Int
  <2>1. \A f \in Downward : TrueLoss[id][f] \in Int
    BY <1>1, <1>2
  <2>2. QED
    BY <1>1, <2>1, SumOfType DEF Sum
<1>4. Len(saved[id]) \in Nat
  BY <1>2, LenProperties
<1>5. ASSUME NEW t \in 1..Len(saved[id])
      PROVE  Down(id, t) = FileSum(saved, id, t) /\ FileSum(saved, id, t) \in Int
  <2>1. saved[id][t] \in Archives
    BY <1>2, ElementOfSeq
  <2>2. \A f \in Downward : saved[id][t].TrueLoss[f] \in Int
    BY <1>1, <2>1 DEF Archives
  <2>3. FileSum(saved, id, t) \in Int
    BY <1>1, <2>2, SumOfType DEF FileSum
  <2>4. Down(id, t) = FileSum(saved, id, t)
    BY DEF Down, getFlowCount, FileSum, SumOf
  <2>5. QED
    BY <2>3, <2>4
<1>6. QED
  BY <1>3, <1>4, <1>5

\* A packet that comes down counts at the switch it has come to.
LEMMA SumsReceived ==
  ASSUME NetTyped, NEW id \in Cacheid, NEW f \in Flow, NEW w, recv(w, id, f),
         NEW x \in Cacheid
  PROVE  SumOf(TrueLoss'[x], Downward)
           = Sum(x) + IF x = id /\ f \in Downward THEN 1 ELSE 0
<1> DEFINE u == TrueLoss[x]
           v == TrueLoss'[x]
           d == IF x = id THEN 1 ELSE 0
<1>1. IsFiniteSet(Downward) /\ Downward \subseteq Flow
  BY DownwardFlows, RouteAssumption DEF Downward
<1>2. TrueLoss \in [Cacheid -> [Flow -> Nat]] /\ TrueLoss' = Counted(id, f)
  BY DEF NetTyped, recv
<1>3. v = IF x = id THEN [u EXCEPT ![f] = @ + 1] ELSE u
  BY <1>2 DEF Counted
<1>4. u \in [Flow -> Nat] /\ d \in Int
  BY <1>2
<1> HIDE DEF u, v
<1>5. /\ \A g \in Downward : u[g] \in Int
      /\ \A g \in Downward : v[g] = u[g] + IF g = f THEN d ELSE 0
  BY <1>1, <1>3, <1>4
<1> HIDE DEF d
<1>6. SumOf(v, Downward) = SumOf(u, Downward) + IF f \in Downward THEN d ELSE 0
  <2> DEFINE D == Downward
  <2>1. /\ IsFiniteSet(D) /\ d \in Int /\ \A g \in D : u[g] \in Int
        /\ \A g \in D : v[g] = u[g] + IF g = f THEN d ELSE 0
    BY <1>1, <1>4, <1>5
  <2> HIDE DEF D
  <2>2. SumOf(v, D) = SumOf(u, D) + IF f \in D THEN d ELSE 0
    BY ONLY <2>1, SumMoved
  <2>3. QED
    BY <2>2 DEF D
<1>7. (IF f \in Downward THEN d ELSE 0) = IF x = id /\ f \in Downward THEN 1 ELSE 0
  BY DEF d
<1>8. SumOf(u, Downward) = Sum(x)
  BY DEF Sum, u
<1>9. SumOf(v, Downward) = Sum(x) + IF x = id /\ f \in Downward THEN 1 ELSE 0
  BY <1>6, <1>7, <1>8
<1>10. QED
  BY <1>9 DEF v

\* A packet that comes down to ONE was on the link from TWO, and no other way.
LEMMA OffTheWire ==
  ASSUME NetTyped, NEW f \in DOMAIN Route, NEW j \in 1..Len(Route[f]), NEW w,
         TookOff(w, f, j)
  PROVE  /\ OnWire(w) \in Nat /\ OnWire(wire) \in Nat
         /\ OnWire(w) + (IF Route[f][j] = ONE /\ f \in Downward THEN 1 ELSE 0) <= OnWire(wire)
<1> DEFINE k == <<TWO, ONE>>
           l == <<Route[f][j - 1], Route[f][j]>>
<1>1. /\ DOMAIN wire = Link /\ DOMAIN w = Link
      /\ \A x \in Link : wire[x] \in Seq(Users(x)) /\ w[x] \in Seq(Users(x))
  BY OffTheLink DEF NetTyped
<1>2. OnWire(w) \in Nat /\ OnWire(wire) \in Nat
  BY <1>1, LenProperties DEF OnWire
<1>3. Len(Route[f]) \in Nat
  BY WayType
<1>4. ASSUME Route[f][j] = ONE, f \in Downward
      PROVE  j > 1 /\ l = k
  <2>1. PICK i \in 1..(Len(Route[f]) - 1) : Route[f][i] = TWO /\ Route[f][i + 1] = ONE
    BY <1>4, DownwardFlows DEF Hops
  <2>2. i + 1 \in 1..Len(Route[f]) /\ i + 1 > 1 /\ (i + 1) - 1 = i
    BY <1>3
  <2>3. j = i + 1
    BY <1>4, <2>1, <2>2, WayType
  <2>4. j - 1 = i /\ j > 1
    BY <2>2, <2>3
  <2>5. QED
    BY <1>4, <2>1, <2>4
<1>5. CASE j = 1 /\ w = wire
  <2>1. ~(Route[f][j] = ONE /\ f \in Downward)
    BY <1>4, <1>5
  <2>2. QED
    BY <1>2, <1>5, <2>1
<1>6. CASE j > 1
  <2>1. l \in Link /\ wire[l] # <<>> /\ w = [wire EXCEPT ![l] = Tail(@)]
    BY <1>6 DEF TookOff
  <2> HIDE DEF l
  <2>2. Len(Tail(wire[l])) = Len(wire[l]) - 1 /\ Len(wire[l]) \in Nat
    BY <1>1, <2>1, HeadTailProperties, LenProperties
  <2>3. \A x \in Link : w[x] = IF x = l THEN Tail(wire[l]) ELSE wire[x]
    BY <1>1, <2>1
  <2>4. CASE l = k
    <3>1. OnWire(wire) = Len(wire[l]) /\ OnWire(w) = Len(wire[l]) - 1
      BY <2>1, <2>2, <2>3, <2>4 DEF OnWire
    <3>2. QED
      BY <1>2, <2>2, <3>1
  <2>5. CASE l # k
    <3>1. OnWire(w) = OnWire(wire)
      BY <2>3, <2>5 DEF OnWire
    <3>2. ~(Route[f][j] = ONE /\ f \in Downward)
      BY <1>4, <2>5
    <3>3. QED
      BY <1>2, <3>1, <3>2
  <2>6. QED
    BY <2>4, <2>5
<1>7. QED
  BY <1>5, <1>6 DEF TookOff

\* Only TWO puts a packet on it, and one that goes down.
LEMMA OntoTheWire ==
  ASSUME NetTyped, NEW f \in DOMAIN Route, NEW j \in 1..Len(Route[f]), NEW w,
         TookOff(w, f, j), send(w, Route[f][j], f)
  PROVE  /\ OnWire(wire') \in Nat
         /\ OnWire(wire') <= OnWire(w) + IF Route[f][j] = TWO /\ f \in Downward THEN 1 ELSE 0
<1> DEFINE k == <<TWO, ONE>>
           l == <<Route[f][j], Route[f][j + 1]>>
<1>1. DOMAIN w = Link /\ \A x \in Link : w[x] \in Seq(Users(x))
  BY OffTheLink
<1>2. OnWire(w) \in Nat
  BY <1>1, LenProperties DEF OnWire
<1>3. CASE wire' = w
  BY <1>2, <1>3
<1>4. CASE l \in Link /\ f \in Users(l) /\ wire' = [w EXCEPT ![l] = Append(@, f)]
  <2>1. l = k => Route[f][j] = TWO /\ f \in Downward
    BY <1>4, DownwardFlows DEF Users
  <2> HIDE DEF l
  <2>2. Len(Append(w[l], f)) = Len(w[l]) + 1 /\ Len(w[l]) \in Nat
    BY <1>1, <1>4, AppendProperties, LenProperties
  <2>3. \A x \in Link : wire'[x] = IF x = l THEN Append(w[l], f) ELSE w[x]
    BY <1>1, <1>4
  <2>4. CASE l = k
    <3>1. OnWire(wire') = Len(w[l]) + 1 /\ OnWire(w) = Len(w[l])
      BY <1>4, <2>2, <2>3, <2>4 DEF OnWire
    <3>2. QED
      BY <2>1, <2>2, <2>4, <3>1
  <2>5. CASE l # k
    <3>1. OnWire(wire') = OnWire(w)
      BY <2>3, <2>5 DEF OnWire
    <3>2. QED
      BY <1>2, <3>1
  <2>6. QED
    BY <2>4, <2>5
<1>5. QED
  BY <1>3, <1>4, SentOn

\* The test points come one after the other.
LEMMA PointsGrow ==
  ASSUME NEW i \in Nat, NEW n \in Nat, i <= n, n < TESTPOINT
  PROVE  testPoint(i) <= testPoint(n)
<1>1. i < TESTPOINT
  BY PointAssumption
<1>2. testPoint(i) = FirstPoint + i /\ testPoint(n) = FirstPoint + n
  BY <1>1 DEF testPoint
<1>3. QED
  BY <1>2, PointAssumption

\* A file stays as it is, and a new one has what the switch has then.
LEMMA FileSums ==
  ASSUME NetTyped, NEW id \in Cacheid, NEW f, NEW w, recv(w, id, f), Here(id)' \in Archives
  PROVE  /\ Len(saved'[id]) \in Nat
         /\ \A t \in 1..Len(saved[id]) : FileSum(saved', id, t) = FileSum(saved, id, t)
         /\ \/ /\ clock > testPoint(Len(saved[id])) /\ Len(saved'[id]) = Len(saved[id]) + 1
               /\ FileSum(saved', id, Len(saved[id]) + 1) = SumOf(TrueLoss'[id], Downward)
            \/ ~(clock > testPoint(Len(saved[id]))) /\ Len(saved'[id]) = Len(saved[id])
<1>1. /\ saved[id] \in Seq(Archives) /\ saved'[id] \in Seq(Archives)
      /\ \/ /\ clock > testPoint(Len(saved[id]))
            /\ Len(saved'[id]) = Len(saved[id]) + 1
            /\ \A t \in 1..Len(saved[id]) : saved'[id][t] = saved[id][t]
            /\ saved'[id][Len(saved[id]) + 1] = Here(id)'
         \/ ~(clock > testPoint(Len(saved[id]))) /\ saved'[id] = saved[id]
  BY FilesWritten
<1>2. Len(saved'[id]) \in Nat
  BY <1>1, LenProperties
<1>3. \A t \in 1..Len(saved[id]) : FileSum(saved', id, t) = FileSum(saved, id, t)
  BY <1>1 DEF FileSum
<1>4. (Here(id)').TrueLoss = TrueLoss'[id]
  BY DEF Here
<1>5. CASE saved'[id][Len(saved[id]) + 1] = Here(id)'
  <2>1. FileSum(saved', id, Len(saved[id]) + 1) = SumOf(TrueLoss'[id], Downward)
    BY <1>4, <1>5 DEF FileSum
  <2>2. QED
    BY <1>1, <1>2, <1>3, <2>1
<1>6. CASE saved'[id] = saved[id]
  <2>1. Len(saved'[id]) = Len(saved[id]) /\ Len(saved[id]) \in Nat
    BY <1>1, <1>6, LenProperties
  <2>2. ~(Len(saved'[id]) = Len(saved[id]) + 1)
    BY <2>1
  <2>3. QED
    BY <1>1, <1>2, <1>3, <2>1, <2>2
<1>7. QED
  BY <1>1, <1>5, <1>6

\* The same of sums given by name: what came to the two switches, what is on the way,
\* how many files they have and what is in them.
Apart(s1, s2, on, n1, n2, files) ==
  /\ s1 + on <= s2
  /\ \A t \in 1..n2 : t > n1 => s1 <= FileSum(files, TWO, t) + n1
  /\ \A t \in 1..n1 : IF t <= n2 THEN FileSum(files, ONE, t) <= FileSum(files, TWO, t) + t
                      ELSE FileSum(files, ONE, t) <= s2

LEMMA SkewIsApart ==
  NetTyped => (Skew <=> Apart(Sum(ONE), Sum(TWO), OnWire(wire), Len(saved[ONE]),
                              Len(saved[TWO]), saved))
<1> SUFFICES ASSUME NetTyped
             PROVE  Skew <=> Apart(Sum(ONE), Sum(TWO), OnWire(wire), Len(saved[ONE]),
                                   Len(saved[TWO]), saved)
  OBVIOUS
<1>1. ONE \in Cacheid /\ TWO \in Cacheid
  BY SwitchAssumption
<1>2. /\ Len(saved[ONE]) \in Nat /\ Len(saved[TWO]) \in Nat
      /\ \A t \in 1..Len(saved[ONE]) : Down(ONE, t) = FileSum(saved, ONE, t)
      /\ \A t \in 1..Len(saved[TWO]) : Down(TWO, t) = FileSum(saved, TWO, t)
  BY <1>1, SumsTyped
<1> DEFINE n1 == Len(saved[ONE])
           n2 == Len(saved[TWO])
<1>3. \A t \in 1..n1 : t <= n2 => t \in 1..n2
  BY <1>2
<1> HIDE DEF n1, n2
<1>4. (\A t \in 1..n2 : t > n1 => Sum(ONE) <= Down(TWO, t) + n1)
        <=> \A t \in 1..n2 : t > n1 => Sum(ONE) <= FileSum(saved, TWO, t) + n1
  BY <1>2 DEF n1, n2
<1>5. (\A t \in 1..n1 : IF t <= n2 THEN Down(ONE, t) <= Down(TWO, t) + t
                        ELSE Down(ONE, t) <= Sum(TWO))
        <=> \A t \in 1..n1 : IF t <= n2 THEN FileSum(saved, ONE, t) <= FileSum(saved, TWO, t) + t
                             ELSE FileSum(saved, ONE, t) <= Sum(TWO)
  BY <1>2, <1>3 DEF n1, n2
<1>6. QED
  BY <1>4, <1>5 DEF Skew, Apart, n1, n2

\* These are numbers.
Counts(s1, s2, on, n1, n2, files) ==
  /\ s1 \in Int /\ s2 \in Int /\ on \in Nat /\ n1 \in Nat /\ n2 \in Nat
  /\ \A t \in 1..n1 : FileSum(files, ONE, t) \in Int
  /\ \A t \in 1..n2 : FileSum(files, TWO, t) \in Int

\* The files that were there have what they had.
SameFiles(n1, n2, old, new) ==
  /\ \A t \in 1..n1 : FileSum(new, ONE, t) = FileSum(old, ONE, t)
  /\ \A t \in 1..n2 : FileSum(new, TWO, t) = FileSum(old, TWO, t)

\* A packet at ONE, which may have come down from TWO; if TWO has written the next file
\* already, so does ONE.
AtOne(s1, on, n1, n2, r1, on2, m1, new) ==
  /\ r1 \in Int /\ s1 <= r1 /\ r1 <= s1 + 1
  /\ on2 \in Nat /\ on2 + (r1 - s1) <= on
  /\ m1 \in Nat /\ (m1 = n1 \/ (m1 = n1 + 1 /\ FileSum(new, ONE, n1 + 1) = r1))
  /\ n2 > n1 => m1 = n1 + 1

\* A packet at TWO, which may be put on the link to ONE, or anywhere else.
AtTwo(s2, on, n2, r2, on2, m2, new) ==
  /\ r2 \in Int /\ s2 <= r2 /\ on2 \in Nat /\ on2 <= on + (r2 - s2)
  /\ m2 \in Nat /\ (m2 = n2 \/ (m2 = n2 + 1 /\ FileSum(new, TWO, n2 + 1) = r2))

LEMMA ApartAtOne ==
  ASSUME NEW s1, NEW s2, NEW on, NEW n1, NEW n2, NEW files, NEW r1, NEW on2, NEW m1, NEW files2,
         Counts(s1, s2, on, n1, n2, files), Apart(s1, s2, on, n1, n2, files),
         SameFiles(n1, n2, files, files2), AtOne(s1, on, n1, n2, r1, on2, m1, files2)
  PROVE  Apart(r1, s2, on2, m1, n2, files2)
<1>0. /\ s1 \in Int /\ s2 \in Int /\ on \in Nat /\ n1 \in Nat /\ n2 \in Nat
      /\ \A t \in 1..n1 : FileSum(files, ONE, t) \in Int
      /\ \A t \in 1..n2 : FileSum(files, TWO, t) \in Int
      /\ \A t \in 1..n1 : FileSum(files2, ONE, t) = FileSum(files, ONE, t)
      /\ \A t \in 1..n2 : FileSum(files2, TWO, t) = FileSum(files, TWO, t)
      /\ r1 \in Int /\ s1 <= r1 /\ r1 <= s1 + 1
      /\ on2 \in Nat /\ on2 + (r1 - s1) <= on
      /\ m1 \in Nat /\ (m1 = n1 \/ (m1 = n1 + 1 /\ FileSum(files2, ONE, n1 + 1) = r1))
      /\ n2 > n1 => m1 = n1 + 1
  BY DEF Counts, SameFiles, AtOne
<1>1. r1 \in Int /\ r1 <= s1 + 1 /\ s1 + on <= s2
  BY <1>0 DEF Apart
<1>2. r1 + on2 <= s2
  BY <1>0, <1>1
<1>3. ASSUME NEW t \in 1..n2, t > m1
      PROVE  r1 <= FileSum(files2, TWO, t) + m1
  <2> DEFINE x == FileSum(files2, TWO, t)
  <2>1. t > n1 /\ m1 = n1 + 1
    BY <1>0, <1>3
  <2>2. s1 <= x + n1 /\ x \in Int
    BY <1>0, <2>1 DEF Apart
  <2> HIDE DEF x
  <2>3. r1 <= x + m1
    BY <1>0, <1>1, <2>1, <2>2
  <2>4. QED
    BY <1>0, <2>3 DEF x
<1>4. ASSUME NEW t \in 1..m1
      PROVE  IF t <= n2 THEN FileSum(files2, ONE, t) <= FileSum(files2, TWO, t) + t
             ELSE FileSum(files2, ONE, t) <= s2
  <2>1. CASE t \in 1..n1
    <3>1. IF t <= n2 THEN FileSum(files, ONE, t) <= FileSum(files, TWO, t) + t
          ELSE FileSum(files, ONE, t) <= s2
      BY <1>0, <2>1 DEF Apart
    <3>2. t <= n2 => t \in 1..n2
      BY <1>0, <2>1
    <3>3. QED
      BY <1>0, <2>1, <3>1, <3>2
  <2>2. CASE t = n1 + 1 /\ FileSum(files2, ONE, n1 + 1) = r1
    <3> DEFINE x == FileSum(files2, TWO, t)
               y == FileSum(files2, ONE, t)
    <3>1. y = r1
      BY <1>0, <2>2
    <3>2. ASSUME t <= n2 PROVE y <= x + t
      <4>1. t \in 1..n2 /\ t > n1
        BY <1>0, <2>2, <3>2
      <4>2. s1 <= x + n1 /\ x \in Int
        BY <1>0, <4>1 DEF Apart
      <4> HIDE DEF x, y
      <4>3. QED
        BY <1>0, <1>1, <2>2, <3>1, <4>2
    <3>3. y <= s2
      <4> HIDE DEF y
      <4>1. QED
        BY <1>0, <1>1, <3>1
    <3>4. QED
      BY <1>0, <3>2, <3>3
  <2>3. QED
    BY <1>0, <2>1, <2>2
<1>5. QED
  BY <1>0, <1>2, <1>3, <1>4 DEF Apart

LEMMA ApartAtTwo ==
  ASSUME NEW s1, NEW s2, NEW on, NEW n1, NEW n2, NEW files, NEW r2, NEW on2, NEW m2, NEW files2,
         Counts(s1, s2, on, n1, n2, files), Apart(s1, s2, on, n1, n2, files),
         SameFiles(n1, n2, files, files2), AtTwo(s2, on, n2, r2, on2, m2, files2)
  PROVE  Apart(s1, r2, on2, n1, m2, files2)
<1>0. /\ s1 \in Int /\ s2 \in Int /\ on \in Nat /\ n1 \in Nat /\ n2 \in Nat
      /\ \A t \in 1..n1 : FileSum(files, ONE, t) \in Int
      /\ \A t \in 1..n1 : FileSum(files2, ONE, t) = FileSum(files, ONE, t)
      /\ \A t \in 1..n2 : FileSum(files2, TWO, t) = FileSum(files, TWO, t)
      /\ r2 \in Int /\ s2 <= r2 /\ on2 \in Nat /\ on2 <= on + (r2 - s2)
      /\ m2 \in Nat /\ (m2 = n2 \/ (m2 = n2 + 1 /\ FileSum(files2, TWO, n2 + 1) = r2))
  BY DEF Counts, SameFiles, AtTwo
<1>1. r2 \in Int /\ s2 <= r2 /\ s1 + on <= s2
  BY <1>0 DEF Apart
<1>2. s1 + on2 <= r2
  BY <1>0, <1>1
<1>3. ASSUME NEW t \in 1..m2, t > n1
      PROVE  s1 <= FileSum(files2, TWO, t) + n1
  <2>1. CASE t \in 1..n2
    BY <1>0, <1>3, <2>1 DEF Apart
  <2>2. CASE t = n2 + 1 /\ FileSum(files2, TWO, n2 + 1) = r2
    <3>1. s1 <= r2 + n1
      BY <1>0, <1>1
    <3>2. QED
      BY <1>0, <2>2, <3>1
  <2>3. QED
    BY <1>0, <2>1, <2>2
<1>4. ASSUME NEW t \in 1..n1
      PROVE  IF t <= m2 THEN FileSum(files2, ONE, t) <= FileSum(files2, TWO, t) + t
             ELSE FileSum(files2, ONE, t) <= r2
  <2> DEFINE y == FileSum(files2, ONE, t)
  <2>1. y = FileSum(files, ONE, t) /\ y \in Int
    BY <1>0
  <2>2. CASE t <= n2
    <3>1. t \in 1..n2 /\ t <= m2
      BY <1>0, <2>2
    <3>2. FileSum(files, ONE, t) <= FileSum(files, TWO, t) + t
      BY <1>0, <2>2 DEF Apart
    <3>3. QED
      BY <1>0, <2>1, <3>1, <3>2
  <2>3. CASE ~(t <= n2)
    <3>1. FileSum(files, ONE, t) <= s2
      BY <1>0, <2>3 DEF Apart
    <3>2. y <= s2
      BY <1>0, <2>1, <3>1
    <3> HIDE DEF y
    <3>3. y <= r2 /\ y <= r2 + t
      BY <1>0, <1>1, <2>1, <3>2
    <3>4. t <= m2 => t = n2 + 1 /\ FileSum(files2, TWO, t) = r2
      BY <1>0, <2>3
    <3>5. QED
      BY <1>0, <3>3, <3>4 DEF y
  <2>4. QED
    BY <1>0, <2>2, <2>3
<1>5. QED
  BY <1>0, <1>2, <1>3, <1>4 DEF Apart

\* Between two steps of the same switch nothing else brings the archives apart.
LEMMA StepSkew ==
  ASSUME NetInv, NEW f \in DOMAIN Route, NEW j \in 1..Len(Route[f]), NEW w,
         Reaches(w, f, j), NetTyped'
  PROVE  Skew'
<1> DEFINE id == Route[f][j]
           s1 == Sum(ONE)
           s2 == Sum(TWO)
           n1 == Len(saved[ONE])
           n2 == Len(saved[TWO])
           m1 == Len(saved'[ONE])
           m2 == Len(saved'[TWO])
           on == OnWire(wire)
           on2 == OnWire(wire')
           r1 == SumOf(TrueLoss'[ONE], Downward)
           r2 == SumOf(TrueLoss'[TWO], Downward)
           down == IF f \in Downward THEN 1 ELSE 0
<1>1. /\ f \in Flow /\ id \in Cacheid /\ TookOff(w, f, j) /\ recv(w, id, f) /\ send(w, id, f)
  BY WayType DEF Reaches, recv
<1>2. /\ NetTyped /\ ONE \in Cacheid /\ TWO \in Cacheid /\ ONE # TWO
      /\ \A x \in Cacheid : SwitchTrue(x)
  BY SwitchAssumption DEF NetInv
<1>3. /\ s1 \in Int /\ n1 \in Nat /\ \A t \in 1..n1 : FileSum(saved, ONE, t) \in Int
      /\ s2 \in Int /\ n2 \in Nat /\ \A t \in 1..n2 : FileSum(saved, TWO, t) \in Int
  BY <1>2, SumsTyped
<1>4. Apart(s1, s2, on, n1, n2, saved)
  BY <1>2, SkewIsApart DEF NetInv
<1>5. /\ OnWire(w) \in Nat /\ on \in Nat
      /\ OnWire(w) + (IF id = ONE /\ f \in Downward THEN 1 ELSE 0) <= on
  BY <1>1, <1>2, OffTheWire
<1>6. on2 \in Nat /\ on2 <= OnWire(w) + IF id = TWO /\ f \in Downward THEN 1 ELSE 0
  BY <1>1, <1>2, OntoTheWire
<1>counts. Counts(s1, s2, on, n1, n2, saved)
  BY <1>3, <1>5 DEF Counts
<1>7. /\ r1 = s1 + IF ONE = id /\ f \in Downward THEN 1 ELSE 0
      /\ r2 = s2 + IF TWO = id /\ f \in Downward THEN 1 ELSE 0
  BY <1>1, <1>2, SumsReceived
<1>8. Here(id)' \in Archives
  BY <1>1, <1>2, StepTruthful
<1>9. \A x \in Cacheid \ {id} : saved'[x] = saved[x]
  BY <1>1, <1>2, <1>8, FilesWritten
<1>10. SUFFICES Apart(r1, r2, on2, m1, m2, saved')
  <2>1. (NetTyped => (Skew <=> Apart(Sum(ONE), Sum(TWO), OnWire(wire), Len(saved[ONE]),
                                    Len(saved[TWO]), saved)))'
    BY SkewIsApart, PTL
  <2>2. Sum(ONE)' = r1 /\ Sum(TWO)' = r2 /\ OnWire(wire)' = on2
    BY DEF Sum, OnWire
  <2>3. Apart(Sum(ONE), Sum(TWO), OnWire(wire), Len(saved[ONE]), Len(saved[TWO]), saved)'
          <=> Apart(r1, r2, on2, m1, m2, saved')
    BY <2>2
  <2>4. QED
    BY <2>1, <2>3
<1>11. down \in {0, 1}
  OBVIOUS
<1>12. CASE id = ONE
  <2>1. OnWire(w) + down <= on /\ on2 <= OnWire(w) /\ r1 = s1 + down /\ r2 = s2
    BY <1>2, <1>3, <1>5, <1>6, <1>7, <1>12
  <2>2. saved'[TWO] = saved[TWO]
    BY <1>2, <1>9, <1>12
  <2>3. m2 = n2 /\ \A t \in 1..n2 : FileSum(saved', TWO, t) = FileSum(saved, TWO, t)
    BY <2>2 DEF FileSum
  <2>4. /\ m1 \in Nat
        /\ \A t \in 1..n1 : FileSum(saved', ONE, t) = FileSum(saved, ONE, t)
        /\ \/ clock > testPoint(n1) /\ m1 = n1 + 1 /\ FileSum(saved', ONE, n1 + 1) = r1
           \/ ~(clock > testPoint(n1)) /\ m1 = n1
    BY <1>1, <1>2, <1>8, <1>12, FileSums
  <2>5. n2 > n1 => m1 = n1 + 1
    <3> SUFFICES ASSUME n2 > n1 PROVE clock > testPoint(n1)
      BY <2>4
    <3>1. n2 <= TESTPOINT /\ clock > testPoint(n2 - 1)
      <4>1. n2 \in 1..n2
        BY <1>3
      <4>2. QED
        BY <1>2, <4>1 DEF SwitchTrue
    <3>2. n2 - 1 \in Nat /\ n1 <= n2 - 1 /\ n2 - 1 < TESTPOINT
      BY <1>3, <3>1, PointAssumption
    <3>3. testPoint(n1) <= testPoint(n2 - 1)
      BY <1>3, <3>2, PointsGrow
    <3>4. testPoint(n1) \in Int /\ testPoint(n2 - 1) \in Int /\ clock \in Int
      BY <1>2, <1>3, <3>2, TimeAssumption, PointAssumption DEF testPoint, NetTyped
    <3>5. QED
      BY <3>1, <3>3, <3>4
  <2> HIDE DEF s1, s2, n1, n2, m1, m2, on, on2, r1, r2, down
  <2>6. on2 + (r1 - s1) <= on /\ r1 \in Int /\ s1 <= r1 /\ r1 <= s1 + 1
    BY <1>3, <1>5, <1>6, <1>11, <2>1
  <2>7. m1 = n1 \/ (m1 = n1 + 1 /\ FileSum(saved', ONE, n1 + 1) = r1)
    BY <2>4
  <2>8. Apart(r1, s2, on2, m1, n2, saved')
    <3>1. SameFiles(n1, n2, saved, saved')
      BY <2>3, <2>4 DEF SameFiles
    <3>2. AtOne(s1, on, n1, n2, r1, on2, m1, saved')
      BY <1>6, <2>4, <2>5, <2>6, <2>7 DEF AtOne
    <3>3. QED
      BY <1>4, <1>counts, <3>1, <3>2, ApartAtOne
  <2>9. QED
    BY <2>1, <2>3, <2>8
<1>13. CASE id = TWO
  <2>1. OnWire(w) <= on /\ on2 <= OnWire(w) + down /\ r1 = s1 /\ r2 = s2 + down
    BY <1>2, <1>3, <1>5, <1>6, <1>7, <1>13
  <2>2. saved'[ONE] = saved[ONE]
    BY <1>2, <1>9, <1>13
  <2>3. m1 = n1 /\ \A t \in 1..n1 : FileSum(saved', ONE, t) = FileSum(saved, ONE, t)
    BY <2>2 DEF FileSum
  <2>4. /\ m2 \in Nat
        /\ \A t \in 1..n2 : FileSum(saved', TWO, t) = FileSum(saved, TWO, t)
        /\ \/ m2 = n2 + 1 /\ FileSum(saved', TWO, n2 + 1) = r2
           \/ m2 = n2
    BY <1>1, <1>2, <1>8, <1>13, FileSums
  <2> HIDE DEF s1, s2, n1, n2, m1, m2, on, on2, r1, r2, down
  <2>5. on2 <= on + (r2 - s2) /\ r2 \in Int /\ s2 <= r2 /\ r2 <= s2 + 1
    BY <1>3, <1>5, <1>6, <1>11, <2>1
  <2>6. m2 = n2 \/ (m2 = n2 + 1 /\ FileSum(saved', TWO, n2 + 1) = r2)
    BY <2>4
  <2>7. Apart(s1, r2, on2, n1, m2, saved')
    <3>1. SameFiles(n1, n2, saved, saved')
      BY <2>3, <2>4 DEF SameFiles
    <3>2. AtTwo(s2, on, n2, r2, on2, m2, saved')
      BY <1>6, <2>4, <2>5, <2>6 DEF AtTwo
    <3>3. QED
      BY <1>4, <1>counts, <3>1, <3>2, ApartAtTwo
  <2>8. QED
    BY <2>1, <2>3, <2>7
<1>14. CASE id # ONE /\ id # TWO
  <2>1. OnWire(w) <= on /\ on2 <= OnWire(w) /\ r1 = s1 /\ r2 = s2
    BY <1>2, <1>3, <1>5, <1>6, <1>7, <1>14
  <2>2. saved'[ONE] = saved[ONE] /\ saved'[TWO] = saved[TWO]
    BY <1>2, <1>9, <1>14
  <2>3. /\ m1 = n1 /\ \A t \in 1..n1 : FileSum(saved', ONE, t) = FileSum(saved, ONE, t)
        /\ m2 = n2 /\ \A t \in 1..n2 : FileSum(saved', TWO, t) = FileSum(saved, TWO, t)
    BY <2>2 DEF FileSum
  <2> HIDE DEF s1, s2, n1, n2, m1, m2, on, on2, r1, r2
  <2>4. on2 <= on + (r2 - s2) /\ r2 \in Int /\ s2 <= r2 /\ r2 <= s2 + 1
    BY <1>3, <1>5, <1>6, <2>1
  <2>5. Apart(s1, r2, on2, n1, n2, saved')
    <3>1. SameFiles(n1, n2, saved, saved')
      BY <2>3 DEF SameFiles
    <3>2. AtTwo(s2, on, n2, r2, on2, n2, saved')
      BY <1>3, <1>6, <2>4 DEF AtTwo
    <3>3. QED
      BY <1>4, <1>counts, <3>1, <3>2, ApartAtTwo
  <2>6. QED
    BY <2>1, <2>3, <2>4, <2>5
<1>15. QED
  BY <1>12, <1>13, <1>14

------------------------------------------------------------------------------
(* The invariant holds *)

LEMMA InitNetInv == Init => NetInv
<1> SUFFICES ASSUME Init PROVE NetInv
  OBVIOUS
<1> DEFINE none == [f \in Flow |-> 0]
           bare == [b \in Bucket |-> Empty]
<1>1. /\ flowcache = [id \in Cacheid |-> bare] /\ TrueLoss = [id \in Cacheid |-> none]
      /\ last = [id \in Cacheid |-> none] /\ saved = [id \in Cacheid |-> <<>>]
      /\ wire = [l \in Link |-> <<>>] /\ clock = 0
  BY DEF Init
<1>2. NetTyped
  <2>1. bare \in Arrays
    BY DEF Arrays, Empty
  <2>2. none \in [Flow -> Nat]
    OBVIOUS
  <2>3. \A l \in Link : wire[l] = <<>> /\ <<>> \in Seq(Users(l))
    BY <1>1, EmptySeq
  <2>4. <<>> \in Seq(Archives)
    BY EmptySeq
  <2>5. clock \in 0..MaxTime
    BY <1>1, TimeAssumption
  <2> HIDE DEF none, bare
  <2>6. QED
    BY <1>1, <2>1, <2>2, <2>3, <2>4, <2>5 DEF NetTyped
<1>3. ASSUME NEW id \in Cacheid PROVE SwitchTrue(id)
  <2>1. Here(id) = [flowcache |-> bare, TrueLoss |-> none, last |-> none]
    BY <1>1 DEF Here
  <2>2. Truthful(id, Here(id))
    BY <2>1, NothingIsTruthful
  <2>3. saved[id] = <<>> /\ \A f \in Flow : last[id][f] <= clock
    BY <1>1
  <2>4. Len(saved[id]) = 0
    BY <2>3
  <2>5. QED
    BY <2>2, <2>3, <2>4, PointAssumption DEF SwitchTrue
<1>4. Skew
  <2>1. ONE \in Cacheid /\ TWO \in Cacheid
    BY SwitchAssumption
  <2>2. Len(saved[ONE]) = 0 /\ Len(saved[TWO]) = 0
    BY <1>1, <2>1
  <2>3. OnWire(wire) = 0
    BY <1>1 DEF OnWire
  <2>4. Sum(ONE) = Sum(TWO)
    BY <1>1, <2>1 DEF Sum
  <2>5. Sum(ONE) \in Int /\ Sum(TWO) \in Int
    BY <1>2, <2>1, SumsTyped
  <2>6. Sum(ONE) + 0 <= Sum(TWO)
    BY <2>4, <2>5
  <2>7. QED
    BY <2>2, <2>3, <2>6 DEF Skew
<1>5. QED
  BY <1>2, <1>3, <1>4 DEF NetInv

\* As long as no packet moves, the archives stay as far apart as they are.
LEMMA SameSkew ==
  ASSUME NetTyped, Skew, NetTyped', UNCHANGED <<TrueLoss, saved, wire>>
  PROVE  Skew'
<1> DEFINE A == Apart(Sum(ONE), Sum(TWO), OnWire(wire), Len(saved[ONE]), Len(saved[TWO]), saved)
<1>1. A
  BY SkewIsApart
<1>2. (NetTyped => (Skew <=> A))'
  BY SkewIsApart, PTL
<1>3. Sum(ONE)' = Sum(ONE) /\ Sum(TWO)' = Sum(TWO) /\ OnWire(wire)' = OnWire(wire)
  BY DEF Sum, OnWire
<1>4. A'
  BY <1>1, <1>3
<1>5. QED
  BY <1>2, <1>4

\* The clock brings no archive forward and no stamp back.
LEMMA TickNetInv == NetInv /\ Tick => NetInv'
<1> SUFFICES ASSUME NetInv, Tick PROVE NetInv'
  OBVIOUS
<1>1. /\ clock \in Nat /\ clock < MaxTime /\ clock' = clock + 1
      /\ UNCHANGED <<flowcache, TrueLoss, last, saved, wire>>
  BY TimeAssumption DEF NetInv, NetTyped, Tick
<1>2. clock' \in 0..MaxTime
  BY <1>1, TimeAssumption
<1>3. NetTyped'
  BY <1>1, <1>2 DEF NetInv, NetTyped
<1>4. ASSUME NEW id \in Cacheid PROVE SwitchTrue(id)'
  <2>1. SwitchTrue(id) /\ last[id] \in [Flow -> Nat] /\ saved[id] \in Seq(Archives)
    BY DEF NetInv, NetTyped
  <2>2. Here(id)' = Here(id)
    BY <1>1 DEF Here
  <2>3. \A f \in Flow : last[id][f] <= clock'
    BY <1>1, <2>1 DEF SwitchTrue
  <2>4. ASSUME NEW t \in 1..Len(saved[id]) PROVE clock' > testPoint(t - 1)
    <3>1. clock > testPoint(t - 1)
      BY <2>1 DEF SwitchTrue
    <3>2. t - 1 \in Nat
      BY <2>1, LenProperties
    <3>3. testPoint(t - 1) \in Int
      BY <3>2, PointAssumption, TimeAssumption DEF testPoint
    <3>4. QED
      BY <1>1, <3>1, <3>3
  <2>5. QED
    BY <1>1, <2>1, <2>2, <2>3, <2>4 DEF SwitchTrue, testPoint
<1>5. Skew'
  <2>1. NetTyped /\ Skew
    BY DEF NetInv
  <2>2. QED
    BY <1>1, <1>3, <2>1, SameSkew
<1>6. QED
  BY <1>3, <1>4, <1>5 DEF NetInv

LEMMA StutterNetInv == NetInv /\ UNCHANGED vars => NetInv'
<1> SUFFICES ASSUME NetInv, UNCHANGED vars PROVE NetInv'
  OBVIOUS
<1>1. UNCHANGED <<flowcache, TrueLoss, last, saved, wire, clock>>
  BY DEF vars
<1>2. NetTyped'
  BY <1>1 DEF NetInv, NetTyped
<1>3. ASSUME NEW id \in Cacheid PROVE SwitchTrue(id)'
  <2>1. Here(id)' = Here(id)
    BY <1>1 DEF Here
  <2>2. QED
    BY <1>1, <2>1 DEF NetInv, SwitchTrue, testPoint
<1>4. Skew'
  <2>1. NetTyped /\ Skew
    BY DEF NetInv
  <2>2. QED
    BY <1>1, <1>2, <2>1, SameSkew
<1>5. QED
  BY <1>2, <1>3, <1>4 DEF NetInv

LEMMA StepNetInv == NetInv /\ Next => NetInv'
<1> SUFFICES ASSUME NetInv, Next PROVE NetInv'
  OBVIOUS
<1>1. NetTyped /\ \A x \in Cacheid : SwitchTrue(x)
  BY DEF NetInv
<1>2. CASE Tick
  BY <1>2, TickNetInv
<1>3. ASSUME NEW f \in DOMAIN Route, NEW j \in 1..Len(Route[f]), NEW w, Reaches(w, f, j)
      PROVE  NetInv'
  <2>1. NetTyped'
    BY <1>1, <1>3, StepNetTyped
  <2>2. \A x \in Cacheid : SwitchTrue(x)'
    BY <1>1, <1>3, StepSwitchTrue
  <2>3. Skew'
    BY <1>3, <2>1, StepSkew
  <2>4. QED
    BY <2>1, <2>2, <2>3 DEF NetInv
<1>4. QED
  BY <1>1, <1>2, <1>3, StepIs

LEMMA NetInvariant == Spec => []NetInv
BY InitNetInv, StepNetInv, StutterNetInv, PTL DEF Spec

------------------------------------------------------------------------------
(* What follows *)

\* A bucket of a flow's path is among those looked through for its first one.
LEMMA PathIsLookedAt ==
  ASSUME NEW f \in Flow, NEW b \in Bucket, check(b, f)
  PROVE  b \in get_i[PathBucket(f, 0)]
<1>1. PICK l \in Level : b = PathBucket(f, l)
  BY DEF check
<1>2. 0 \in Level /\ l \in 0..3
  BY DEF Level
<1>3. PathBucket(f, 0) \in Bucket
  BY <1>2, PathInArray
<1>4. places[PathBucket(f, 0)] = {PathBucket(f, k) : k \in 0..3}
  BY <1>2, PathPlaces
<1>5. b \in places[PathBucket(f, 0)]
  BY <1>1, <1>2, <1>4
<1>6. QED
  BY <1>3, <1>5 DEF get_i

\* In every topology a switch only has fragments of flows it received, where they
\* will be looked for (ECtreap.cc, FlowCache.h, Util.h).
THEOREM NetworkTypeOK == Spec => []NetTypeOK
<1>1. NetInv => NetTypeOK
  <2> SUFFICES ASSUME NetInv PROVE NetTypeOK
    OBVIOUS
  <2>1. ASSUME NEW id \in Cacheid, NEW b \in Bucket
        PROVE  IF Vacant(flowcache[id], b) THEN flowcache[id][b] = Empty
               ELSE \E f \in Flow : /\ TrueLoss[id][f] > 0
                                    /\ flowcache[id][b].key = encode(id, f)
                                    /\ b \in get_i[PathBucket(f, 0)]
    <3>1. Located(id, flowcache[id], Seen(Here(id)))
      BY DEF NetInv, SwitchTrue, Truthful, Here
    <3>2. \A f \in Seen(Here(id)) : f \in Flow /\ TrueLoss[id][f] > 0
      BY DEF Seen, Here
    <3>3. QED
      BY <3>1, <3>2, PathIsLookedAt DEF Located
  <2>2. \A id \in Cacheid : Len(saved[id]) <= TESTPOINT
    BY DEF NetInv, SwitchTrue
  <2>3. ASSUME NEW l \in Link, NEW f \in ToSet(wire[l])
        PROVE  IsPrefix(<<l[2]>>, Onward(l[1], f))
    <3>1. wire[l] \in Seq(Users(l))
      BY DEF NetInv, NetTyped
    <3>2. f \in Users(l)
      BY <3>1, LenProperties DEF ToSet
    <3>3. PICK j \in 1..(Len(Route[f]) - 1) : l = <<Route[f][j], Route[f][j + 1]>>
      BY <3>2 DEF Users, Hops
    <3>4. f \in DOMAIN Route /\ Len(Route[f]) \in Nat
      BY <3>2, WayType DEF Users
    <3>5. j \in 1..Len(Route[f]) /\ j # Len(Route[f])
      BY <3>4
    <3>6. IsPrefix(<<Route[f][j + 1]>>, Onward(Route[f][j], f))
      BY <3>4, <3>5, NextHop
    <3>7. QED
      BY <3>3, <3>6
  <2>4. clock \in 0..MaxTime
    BY DEF NetInv, NetTyped
  <2>5. QED
    BY <2>1, <2>2, <2>3, <2>4 DEF NetTypeOK
<1>2. QED
  BY <1>1, NetInvariant, PTL

\* However the packets of the other flows come, the archive ONE writes for a test point
\* is never further ahead of TWO's than the test points until then (ECtreap.cc).
THEOREM ArchivesNotFarApart == Spec => []SkewBounded
<1>1. NetInv => SkewBounded
  <2> SUFFICES ASSUME NetInv, NEW t \in 1..TESTPOINT, t <= Len(saved[ONE]), t <= Len(saved[TWO])
               PROVE  Down(ONE, t) <= Down(TWO, t) + t
    BY DEF SkewBounded
  <2>1. t \in 1..Len(saved[ONE])
    <3>1. Len(saved[ONE]) \in Nat
      BY SwitchAssumption, SumsTyped DEF NetInv
    <3>2. QED
      BY <3>1
  <2>2. QED
    BY <2>1 DEF NetInv, Skew
<1>2. QED
  BY <1>1, NetInvariant, PTL

------------------------------------------------------------------------------
(* The alarms *)

\* What the archives of test point t say; calres knows as much of a flow as they do if
\* they have kept all of it, alone with its fragments, and no keys are made up.
Count(id, t, f) == saved[id][t].TrueLoss[f]
Everywhere(t) == {f \in Flow : \A id \in Cacheid : Count(id, t, f) > 0}
Exact(t, f) ==
  \A id \in Cacheid : /\ ~Shared(id, f, Seen(saved[id][t]))
                      /\ Kept(saved[id][t].flowcache, id, f) = Count(id, t, f)
Written(t) == \A id \in Cacheid : t \in 1..Len(saved[id])

LEMMA ArchivesTrue ==
  ASSUME NetInv, NEW t, Written(t)
  PROVE  /\ \A id \in Cacheid : /\ Truthful(id, saved[id][t])
                                /\ getFlowCache(t)[id] = saved[id][t].flowcache
                                /\ Everywhere(t) \subseteq Seen(saved[id][t])
                                /\ \A f \in Flow : Count(id, t, f) \in Nat
         /\ AllCoded(getFlowCache(t)) /\ Everywhere(t) \subseteq Flow
<1>1. \A id \in Cacheid : Truthful(id, saved[id][t])
  BY DEF NetInv, SwitchTrue, Written
<1>2. \A id \in Cacheid : getFlowCache(t)[id] = saved[id][t].flowcache
  BY DEF getFlowCache
<1>3. \A id \in Cacheid : Everywhere(t) \subseteq Seen(saved[id][t])
  BY DEF Everywhere, Seen, Count
<1>4. \A id \in Cacheid : \A f \in Flow : Count(id, t, f) \in Nat
  BY <1>1 DEF Truthful, Count
<1>5. AllCoded(getFlowCache(t))
  BY <1>1, <1>2 DEF AllCoded, Truthful
<1>6. QED
  BY <1>1, <1>2, <1>3, <1>4, <1>5 DEF Everywhere

\* The count of such a flow is what the switch counted, once all have seen it.
LEMMA ExactCount ==
  ASSUME NetInv, NEW t, Written(t), NEW f \in Flow, Exact(t, f),
         Unmixed(getFlowCache(t), Everywhere(t)), NEW id \in Cacheid
  PROVE  MergeSingleCache(DecodeCaches(t)[id], f)
           = IF f \in Everywhere(t) THEN Count(id, t, f) ELSE 0
<1> DEFINE c == getFlowCache(t)
           E == Everywhere(t)
<1>1. /\ \A k \in Cacheid : c[k] = saved[k][t].flowcache /\ E \subseteq Seen(saved[k][t])
      /\ AllCoded(c) /\ E \subseteq Flow
  BY ArchivesTrue
<1>2. ~Shared(id, f, E)
  BY <1>1 DEF Exact, Shared
<1>3. \A k \in Cacheid : Kept(c[k], k, f) = Count(k, t, f)
  BY <1>1 DEF Exact
<1>4. DecodeCaches(t)[id] = un_map(c, id)
  BY DEF DecodeCaches
<1>5. f \in E => \A k \in Cacheid : Count(k, t, f) > 0
  BY DEF Everywhere
<1> HIDE DEF c, E
<1>6. MergeSingleCache(un_map(c, id), f)
        = IF f \in E /\ \A k \in Cacheid : Kept(c[k], k, f) > 0
          THEN Kept(c[id], id, f) ELSE 0
  <2>1. f \notin E \/ ~Shared(id, f, E)
    BY <1>2
  <2>2. Unmixed(c, E)
    BY DEF c, E
  <2>3. QED
    BY <1>1, <2>1, <2>2, DecodedCount
<1>7. QED
  BY <1>3, <1>4, <1>5, <1>6 DEF E

\* Its newest item is from when its last packet came.
LEMMA ExactStamp ==
  ASSUME NetInv, NEW t, Written(t), NEW f \in Everywhere(t), Exact(t, f),
         Unmixed(getFlowCache(t), Everywhere(t)), NEW id \in Cacheid, NEW u \in Nat
  PROVE  (\E it \in Items(DecodeCaches(t)[id], f) : it.time >= u)
           <=> saved[id][t].last[f] >= u
<1> DEFINE c == getFlowCache(t)
           E == Everywhere(t)
           m == un_map(c, id)
           a == saved[id][t]
           v == a.last[f]
<1>1. /\ \A k \in Cacheid : c[k] = saved[k][t].flowcache /\ E \subseteq Seen(saved[k][t])
      /\ AllCoded(c) /\ E \subseteq Flow /\ f \in Flow /\ f \in E
      /\ Truthful(id, a) /\ Count(id, t, f) \in Nat
  BY ArchivesTrue DEF Everywhere
<1>2. ~Shared(id, f, E) /\ ~Shared(id, f, Seen(a)) /\ Unmixed(c, E)
  BY <1>1 DEF Exact, Shared
<1>3. \A k \in Cacheid : Kept(c[k], k, f) = Count(k, t, f) /\ Count(k, t, f) > 0
  BY <1>1 DEF Exact, Everywhere
<1>4. DecodeCaches(t)[id] = m
  BY DEF DecodeCaches
<1>5. Faithful(c[id], id, f, Count(id, t, f), v)
  BY <1>1, <1>2 DEF Truthful, Count
<1>6. Coded(id, c[id]) /\ v \in Nat
  BY <1>1 DEF AllCoded, Truthful
<1>7. \A l \in Level : PathBucket(f, l) \in Bucket
  BY <1>1, PathInArray
<1> HIDE DEF c, E, m, a, v
<1>8. ASSUME NEW b \in Bucket, m[b].count > 0, m[b].key = f
      PROVE  m[b].time \in Nat /\ m[b].time <= v
  <2>1. \E at \in Accepted(c) : at[id] = b
    <3>1. (\A at \in Accepted(c) : at[id] # b) => m[b] = Empty
      BY <1>1, UnMapEmpty DEF m
    <3>2. m[b] # Empty
      BY <1>1, <1>8, FlowAssumption DEF Empty
    <3>3. QED
      BY <3>1, <3>2
  <2>2. /\ check(b, m[b].key) /\ m[b].count = c[id][b].count /\ m[b].time = c[id][b].time
        /\ c[id][b].key = encode(id, m[b].key)
    BY <1>1, <1>2, <2>1, UnMapFrom DEF m
  <2>3. PICK l \in Level : b = PathBucket(f, l)
    BY <1>8, <2>2 DEF check
  <2>4. KeptShare(c[id], id, f)[l] > 0
    BY <1>8, <2>2, <2>3 DEF KeptShare
  <2>5. c[id][b].time <= v
    BY <1>5, <2>3, <2>4 DEF Faithful
  <2>6. c[id][b].time \in Nat
    BY <1>6 DEF Coded
  <2>7. QED
    BY <2>2, <2>5, <2>6
<1>9. \E b \in Bucket : m[b].count > 0 /\ m[b].key = f /\ m[b].time = v
  <2>1. Kept(c[id], id, f) = Count(id, t, f) /\ Count(id, t, f) > 0
    BY <1>3
  <2>2. PICK l \in Level : KeptShare(c[id], id, f)[l] > 0 /\ c[id][PathBucket(f, l)].time = v
    BY <1>5, <2>1 DEF Faithful
  <2> DEFINE b == PathBucket(f, l)
  <2>3. b \in Bucket
    BY <1>7
  <2>4. c[id][b].key = encode(id, f) /\ c[id][b].count > 0
    BY <2>2 DEF KeptShare
  <2>5. ~Vacant(c[id], b)
    BY <2>4 DEF Vacant
  <2>6. m[b].key = f
    <3>1. \A k \in Cacheid : Kept(c[k], k, f) > 0
      BY <1>3
    <3>2. QED
      BY <1>1, <1>2, <2>4, <2>5, <3>1, HeldIsDecoded DEF m
  <2>7. m[b].count = c[id][b].count /\ m[b].time = c[id][b].time
    BY <1>1, <1>2, <2>3, <2>6, DecodedIsHeld DEF m
  <2>8. QED
    BY <2>2, <2>3, <2>4, <2>6, <2>7
<1>10. Items(m, f) = {m[b] : b \in {x \in Bucket : m[x].count > 0 /\ m[x].key = f}}
  BY DEF Items
<1>11. (\E it \in Items(m, f) : it.time >= u) <=> v >= u
  <2>1. ASSUME NEW it \in Items(m, f), it.time >= u PROVE v >= u
    <3>1. PICK b \in Bucket : m[b].count > 0 /\ m[b].key = f /\ it = m[b]
      BY <1>10
    <3>2. m[b].time \in Nat /\ m[b].time <= v
      BY <1>8, <3>1
    <3>3. QED
      BY <1>6, <2>1, <3>1, <3>2
  <2>2. ASSUME v >= u PROVE \E it \in Items(m, f) : it.time >= u
    <3>1. PICK b \in Bucket : m[b].count > 0 /\ m[b].key = f /\ m[b].time = v
      BY <1>9
    <3>2. m[b] \in Items(m, f)
      BY <1>10, <3>1
    <3>3. QED
      BY <2>2, <3>1, <3>2
  <2>3. QED
    BY <2>1, <2>2
<1>12. QED
  BY <1>4, <1>11 DEF a, v

\* So it is reported exactly if it has lost enough, recently, and all have seen it.
LEMMA ExactAlarm ==
  ASSUME NetInv, NEW t, Written(t), NEW f \in Flow, Exact(t, f),
         Unmixed(getFlowCache(t), Everywhere(t))
  PROVE  f \in Alarms(t) <=> /\ f \in Target /\ f \in Everywhere(t)
                             /\ 7 * Count(TWO, t, f) >= 10 * Count(ONE, t, f)
                             /\ saved[TWO][t].last[f] >= Recent
<1> DEFINE a == MergeSingleCache(DecodeCaches(t)[TWO], f)
           b == MergeSingleCache(DecodeCaches(t)[ONE], f)
           fresh == \E it \in Items(DecodeCaches(t)[TWO], f) : it.time >= Recent
<1>1. ONE \in Cacheid /\ TWO \in Cacheid
  BY SwitchAssumption
<1>2. f \in Alarms(t) <=> f \in Target /\ a > 0 /\ 10 * (a - b) >= 3 * a /\ fresh
  BY DEF Alarms, judge, Blackhole
<1>3. /\ a = IF f \in Everywhere(t) THEN Count(TWO, t, f) ELSE 0
      /\ b = IF f \in Everywhere(t) THEN Count(ONE, t, f) ELSE 0
  BY <1>1, ExactCount
<1>4. Count(ONE, t, f) \in Nat /\ Count(TWO, t, f) \in Nat
  BY <1>1, ArchivesTrue
<1>5. f \in Everywhere(t) => Count(TWO, t, f) > 0
  BY <1>1 DEF Everywhere
<1>6. f \in Everywhere(t) => (fresh <=> saved[TWO][t].last[f] >= Recent)
  BY <1>1, TimeAssumption, ExactStamp
<1> HIDE DEF a, b, fresh
<1>7. CASE f \in Everywhere(t)
  <2>1. a = Count(TWO, t, f) /\ b = Count(ONE, t, f) /\ a \in Nat /\ b \in Nat /\ a > 0
    BY <1>3, <1>4, <1>5, <1>7
  <2>2. 10 * (a - b) >= 3 * a <=> 7 * a >= 10 * b
    BY <2>1
  <2>3. QED
    BY <1>2, <1>6, <1>7, <2>1, <2>2
<1>8. CASE f \notin Everywhere(t)
  BY <1>2, <1>3, <1>8
<1>9. QED
  BY <1>7, <1>8

\* calres reports of such flows exactly those that lost three tenths of their packets
\* between the two switches, and recently: if the archives are to tell (calres.cc).
THEOREM NetworkAlarmsExact == Spec => []AlarmsExact
<1>1. NetInv => AlarmsExact
  <2> SUFFICES ASSUME NetInv, NEW t \in 1..TESTPOINT, \A id \in Cacheid : t <= Len(saved[id])
               PROVE  LET count(id, f) == getFlowCount(id, t)[f]
                          seen == [id \in Cacheid |-> {f \in Flow : count(id, f) > 0}]
                          everywhere == {f \in Flow : \A id \in Cacheid : f \in seen[id]}
                          exact(f) == \A id \in Cacheid :
                                        /\ ~Shared(id, f, seen[id])
                                        /\ Kept(saved[id][t].flowcache, id, f) = count(id, f)
                      IN  Unmixed(getFlowCache(t), everywhere) =>
                            Alarms(t) \intersect {f \in Flow : exact(f)}
                              = {f \in Target : /\ exact(f) /\ f \in everywhere
                                                /\ 7 * count(TWO, f) >= 10 * count(ONE, f)
                                                /\ saved[TWO][t].last[f] >= Recent}
    BY Zenon DEF AlarmsExact
  <2> DEFINE count(id, f) == getFlowCount(id, t)[f]
             seen == [id \in Cacheid |-> {f \in Flow : count(id, f) > 0}]
             everywhere == {f \in Flow : \A id \in Cacheid : f \in seen[id]}
             exact(f) == \A id \in Cacheid :
                           /\ ~Shared(id, f, seen[id])
                           /\ Kept(saved[id][t].flowcache, id, f) = count(id, f)
             lossy(f) == /\ 7 * count(TWO, f) >= 10 * count(ONE, f)
                         /\ saved[TWO][t].last[f] >= Recent
  <2>1. Written(t)
    <3>1. \A id \in Cacheid : Len(saved[id]) \in Nat
      BY SumsTyped DEF NetInv
    <3>2. QED
      BY <3>1 DEF Written
  <2>2. \A id \in Cacheid, f \in Flow : count(id, f) = Count(id, t, f)
    BY DEF Count, getFlowCount
  <2>3. \A id \in Cacheid : seen[id] = Seen(saved[id][t])
    BY DEF Seen, getFlowCount
  <2> HIDE DEF count, seen
  <2>4. everywhere = Everywhere(t)
    BY <2>3 DEF Everywhere, Seen, Count
  <2>5. \A f \in Flow : exact(f) <=> Exact(t, f)
    BY <2>2, <2>3 DEF Exact
  <2>6. everywhere \subseteq Flow /\ Alarms(t) \subseteq Flow
    BY DEF Alarms
  <2> HIDE DEF everywhere, exact
  <2>7. ASSUME Unmixed(getFlowCache(t), everywhere), NEW f \in Flow, exact(f)
        PROVE  f \in Alarms(t) <=> f \in Target /\ f \in everywhere /\ lossy(f)
    <3>1. f \in Alarms(t) <=> /\ f \in Target /\ f \in Everywhere(t)
                              /\ 7 * Count(TWO, t, f) >= 10 * Count(ONE, t, f)
                              /\ saved[TWO][t].last[f] >= Recent
      BY <2>1, <2>4, <2>5, <2>7, ExactAlarm
    <3>2. QED
      BY <2>2, <2>4, <3>1, SwitchAssumption
  <2> HIDE DEF lossy
  <2>8. ASSUME Unmixed(getFlowCache(t), everywhere)
        PROVE  Alarms(t) \intersect {f \in Flow : exact(f)}
                 = {f \in Target : exact(f) /\ f \in everywhere /\ lossy(f)}
    BY <2>6, <2>7, <2>8
  <2>9. QED
    BY <2>8 DEF count, seen, everywhere, exact, lossy
<1>2. QED
  BY <1>1, NetInvariant, PTL
===============================================================================
