----------------------------- MODULE Expansion -----------------------------
(***************************************************************************)
(* What the transaction table and its wrapped transactions promise their   *)
(* readers: a transaction is recorded once, and its wrapped transactions,  *)
(* Depth[t] of them, each inside the one before, are added one after the   *)
(* other, never twice and never before the transaction itself.             *)
(***************************************************************************)
EXTENDS Naturals

CONSTANTS Tx, Depth

VARIABLES
  recorded,   \* transactions in the table
  level       \* level[t]: how many of t's wrapped transactions are there

vars == <<recorded, level>>

Init ==
  /\ recorded = {}
  /\ level = [t \in Tx |-> 0]

Record(t) ==
  /\ t \notin recorded
  /\ recorded' = recorded \cup {t}
  /\ UNCHANGED level

Expand(t) ==
  /\ t \in recorded
  /\ level[t] < Depth[t]
  /\ level' = [level EXCEPT ![t] = @ + 1]
  /\ UNCHANGED recorded

Next == \E t \in Tx : Record(t) \/ Expand(t)

Spec == Init /\ [][Next]_vars
=============================================================================
