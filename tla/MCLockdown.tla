----------------------------- MODULE MCLockdown -----------------------------
(* Two kills, two failing commands and two boots.                          *)
EXTENDS Lockdown

TwoOfEach == [k \in Faults |-> 2]
=============================================================================
