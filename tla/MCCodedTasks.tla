----------------------------- MODULE MCCodedTasks -----------------------------
(* Instances of CodedTasks for TLC: keys of three bits, x y z, padded with a   *)
(* copy of x.                                                                  *)
EXTENDS CodedTasks

Bit == {0, 1}

MCFlow == Bit \X Bit \X Bit
MCFullKey == Bit \X Bit \X (Bit \X Bit)
MCfull_key == [f \in MCFlow |-> <<f[1], f[2], <<f[3], f[1]>>>>]
MCreal_key == [k \in MCFullKey |-> <<k[1], k[2], k[3][1]>>]

\* Fragment 0 is x itself, as the systematic code has it; 3 and 4 mix in more, and
\* 4 carries the padding.
MCCacheid == {0, 3, 4}
MCseg == [id \in MCCacheid |-> [k \in MCFullKey |->
            IF id = 0 THEN k[1]
            ELSE IF id = 3 THEN (k[1] + k[2]) % 2
            ELSE <<(k[2] + k[3][1]) % 2, k[3][2]>>]]

MCSent == {<<0, 0, 0>>, <<0, 1, 0>>, <<1, 0, 1>>}

\* All in one tree; the flows that are sent share a leaf, and two of each pair's
\* fragments differ: only 000 and 101 differ in all three.
MCHash == [f \in MCFlow |-> IF f \in MCSent THEN 0 ELSE 4 * f[1] + 2 * f[2] + f[3]]

\* The source is x y, the destination z.
MCsrcIP == [f \in MCFlow |-> <<f[1], f[2]>>]
MCdstIP == [f \in MCFlow |-> f[3]]
===============================================================================
