------------------------------ MODULE CodedTasks ------------------------------
(***************************************************************************)
(* The counting tasks of the CPU program, each in its two forms: with one  *)
(* AHeap that keeps whole keys, and "with code mechanism", one AHeap per   *)
(* fragment, every packet inserted into all of them, decoded at the end    *)
(* (AHeap_CountingTasks.h, AHeap_KVTasks.h).  Both forms get the same two  *)
(* traces, tuples_1 and tuples_2 of heavy change; the other tasks read the *)
(* first.                                                                  *)
(***************************************************************************)
EXTENDS FragmentCode, TaskReports

CONSTANTS
  Sent,         \* the flows of the traces
  srcIP, dstIP, \* the addresses in each key
  thre,         \* threshold of a task
  MaxPackets    \* bound: the packets of both traces

ASSUME SentAssumption == Sent \subseteq Flow
ASSUME ThresholdAssumption == thre \in Nat \ {0}
ASSUME PacketsAssumption == MaxPackets \in Nat

VARIABLES
  ah,         \* ah[w]: the AHeap of whole keys after trace w
  coded,      \* coded[w][id]: the array of fragments
  flowCount,  \* flowCount[w]: packets of each flow, the reference
  packet_cnt  \* packet_cnt[w]: how far the traces have been read

vars == <<ah, coded, flowCount, packet_cnt>>

Trace == 1..2

Init ==
  /\ ah = [w \in Trace |-> [b \in Bucket |-> Empty]]
  /\ coded = [w \in Trace |-> [id \in Cacheid |-> [b \in Bucket |-> Empty]]]
  /\ flowCount = [w \in Trace |-> [f \in Flow |-> 0]]
  /\ packet_cnt = [w \in Trace |-> 0]

\* The loops of both input routines, for one packet; trace 2 follows trace 1.
input(w, f) ==
  LET i == packet_cnt[w]
  IN  /\ packet_cnt[1] + packet_cnt[2] < MaxPackets
      /\ w = 1 => packet_cnt[2] = 0
      /\ w = 2 => packet_cnt[1] > 0
      /\ ah' = [ah EXCEPT ![w] = insert(@, [key |-> f, count |-> 1, time |-> i], f)]
      /\ coded' = [coded EXCEPT ![w] = [id \in Cacheid |-> AHeapInsert(@[id], id, f, i)]]
      /\ flowCount' = [flowCount EXCEPT ![w][f] = @ + 1]
      /\ packet_cnt' = [packet_cnt EXCEPT ![w] = i + 1]

Next == \E w \in Trace : \E f \in Sent : input(w, f)

Spec == Init /\ [][Next]_vars

------------------------------------------------------------------------------
(* The tables read at the end *)

\* MergeSingleCache, and what every task starts from.
PlainSum(w) == [f \in Flow |-> MergeSingleCache(ah[w], f)]

\* AllRes[0]: the array with the least id.
CodedSum(w) ==
  DecodeCache(coded[w], CHOOSE id \in Cacheid : \A x \in Cacheid : id <= x)

(* The tasks, without and with code mechanism *)

hhTest == HeavyHitters(PlainSum(1), thre)
hhTest_coded == HeavyHitters(CodedSum(1), thre)

hcTest == HeavyChanges(PlainSum(1), PlainSum(2), thre)
hcTest_coded == HeavyChanges(CodedSum(1), CodedSum(2), thre)

fsdTest == Transform2Fsd(PlainSum(1))
fsdTest_coded == Transform2Fsd(CodedSum(1))

ddosTest == CountIP(PlainSum(1), dstIP, srcIP, thre)
ddosTest_coded == CountIP(CodedSum(1), dstIP, srcIP, thre)

spreaderTest == CountIP(PlainSum(1), srcIP, dstIP, thre)
spreaderTest_coded == CountIP(CodedSum(1), srcIP, dstIP, thre)

------------------------------------------------------------------------------
(* Properties *)

Came(w) == {f \in Flow : flowCount[w][f] > 0}

Distinct(w, id) == \A f \in Came(w) : ~Shared(id, f, Came(w))

\* As long as no two flows of a tree share the fragment an array keeps, the array
\* evolves as the one of whole keys does: same buckets, counts and stamps.
LockStep ==
  \A w \in Trace : \A id \in Cacheid :
    Distinct(w, id) =>
      coded[w][id] = [b \in Bucket |->
                        IF Vacant(ah[w], b) THEN Empty
                        ELSE [ah[w][b] EXCEPT !.key = encode(id, @)]]

\* Whatever the loops put together, a decoded bucket is on the path of the flow it
\* is credited to.  And unless fragments of different flows made up an acceptable
\* key, a flow that all arrays still hold is decoded in full, wherever in its path
\* each of them has it, and no other flow is decoded at all.
DecodeExact ==
  \A w \in Trace :
    LET unmixed == Unmixed(coded[w], Came(w))
        held(f) == f \in Came(w) /\ \A id \in Cacheid : Kept(coded[w][id], id, f) > 0
    IN  \A id \in Cacheid :
          LET map == un_map(coded[w], id)
          IN  /\ \A b \in Used(map) : check(b, map[b].key)
              /\ unmixed =>
                   \A f \in Flow :
                     f \notin Came(w) \/ ~Shared(id, f, Came(w)) =>
                       MergeSingleCache(map, f) =
                         IF held(f) THEN Kept(coded[w][id], id, f) ELSE 0

\* With whole keys no task reports what is not there: a heavy hitter, victim or
\* spreader is a real one.  A heavy change may be reported or missed wrongly, but
\* only where packets were lost.
PlainReportsTrue ==
  /\ hhTest \subseteq HeavyHitters(flowCount[1], thre)
  /\ ddosTest \subseteq CountIP(flowCount[1], dstIP, srcIP, thre)
  /\ spreaderTest \subseteq CountIP(flowCount[1], srcIP, dstIP, thre)
  /\ \A f \in SymDiff(hcTest, HeavyChanges(flowCount[1], flowCount[2], thre)) :
       \E w \in Trace : PlainSum(w)[f] < flowCount[w][f]

\* The tasks with code mechanism report the same, when no fragments are shared and
\* none make up a key together that nobody sent.
ReportsTrue ==
  /\ PlainReportsTrue
  /\ (\A w \in Trace : /\ Unmixed(coded[w], Came(w))
                       /\ \A id \in Cacheid : Distinct(w, id))
     => /\ hhTest_coded = hhTest /\ hcTest_coded = hcTest
        /\ fsdTest_coded = fsdTest
        /\ ddosTest_coded = ddosTest /\ spreaderTest_coded = spreaderTest
===============================================================================
