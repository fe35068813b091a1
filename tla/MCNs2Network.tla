----------------------------- MODULE MCNs2Network -----------------------------
(* Instances of Ns2Network for TLC: keys of two bits, padded with a copy of the *)
(* first, and a switch of each kind (x = 0, y = 0 in calres).                   *)
EXTENDS Ns2Network

Bit == {0, 1}

MCFlow == Bit \X Bit
MCFullKey == Bit \X Bit \X Bit
MCfull_key == [f \in MCFlow |-> <<f[1], f[2], f[1]>>]
MCreal_key == [k \in MCFullKey |-> <<k[1], k[2]>>]

MCCacheid == {0, 32, 64}
MCseg == [id \in MCCacheid |-> [k \in MCFullKey |->
            IF id = 0 THEN k[1] ELSE IF id = 32 THEN (k[1] + k[2]) % 2 ELSE k[3]]]

\* 00 and 10 have a leaf in common and no fragment; 01 shares fragments with both.
MCHash == [f \in MCFlow |-> IF f = <<0, 1>> THEN 1 ELSE 0]

MCRoute == <<0, 0>> :> <<64, 32, 0>> @@ <<1, 0>> :> <<64, 32, 0>> @@ <<0, 1>> :> <<32>>
MCTarget == {<<0, 0>>}
===============================================================================
