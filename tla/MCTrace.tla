------------------------------- MODULE MCTrace -------------------------------
(* Two trace objects, interchangeable until they are built.                *)
EXTENDS Trace, TLC

CONSTANTS p, q

TwoSlots == {p, q}
Symmetric == Permutations(TwoSlots)
=============================================================================
