------------------------------ MODULE TaskReports ------------------------------
(***************************************************************************)
(* What the tasks report of a table of flow counts, whichever structure    *)
(* the table was read from: est[f] is the count of flow f, 0 when f is not *)
(* in the table (common/util.h and the task headers).                      *)
(***************************************************************************)
EXTENDS Integers, FiniteSets

\* hhTest
HeavyHitters(est, thre) == {f \in DOMAIN est : est[f] >= thre}

Differ(m, n, thre) == m - n >= thre \/ n - m >= thre

\* hcTest: both tables are gone through, a flow missing in the other counts 0 there.
HeavyChanges(e1, e2, thre) ==
  {f \in DOMAIN e1 : /\ e1[f] >= thre \/ e2[f] >= thre
                     /\ Differ(e1[f], e2[f], thre)}

\* How many flows have each size.
Transform2Fsd(est) ==
  [n \in {est[f] : f \in DOMAIN est} \ {0} |-> Cardinality({f \in DOMAIN est : est[f] = n})]

\* ddosTest counts the sources of each destination, spreaderTest the destinations
\* of each source.
CountIP(est, key, val, thre) ==
  {ip \in {key[f] : f \in DOMAIN est} :
     Cardinality({val[f] : f \in {g \in DOMAIN est : est[g] > 0 /\ key[g] = ip}}) >= thre}
===============================================================================
