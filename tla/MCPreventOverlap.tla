-------------------------- MODULE MCPreventOverlap --------------------------
(* PreventOverlap with three pending calls at a time: one running and two  *)
(* waiting, the least in which the order of the queue matters.             *)
EXTENDS PreventOverlap, TLC

CONSTANTS c1, c2, c3

MCCall == {c1, c2, c3}
Symmetry == Permutations(MCCall)
=============================================================================
