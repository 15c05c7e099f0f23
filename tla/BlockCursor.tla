---------------------------- MODULE BlockCursor ----------------------------
(***************************************************************************)
(* What a checkpointed scan of the chain promises.  Blocks are handed to   *)
(* workers (seen) only once they exist, and the cursor, the checkpoint     *)
(* that survives a restart, only ever moves forward, over blocks that have *)
(* been handed out, so no block is jumped over.                            *)
(***************************************************************************)
EXTENDS Integers

VARIABLES head,     \* the newest block of the chain
          seen,     \* blocks handed to workers so far
          cursor    \* the persisted checkpoint

vars == <<head, seen, cursor>>

Init ==
  /\ head = 0
  /\ seen = {}
  /\ cursor = 0

Grow ==
  /\ head' > head
  /\ UNCHANGED <<seen, cursor>>

See ==
  /\ seen \subseteq seen'
  /\ seen' \subseteq 1..head
  /\ UNCHANGED <<head, cursor>>

Advance ==
  /\ cursor' > cursor
  /\ 1..cursor' \subseteq seen
  /\ UNCHANGED <<head, seen>>

Next == Grow \/ See \/ Advance

Spec == Init /\ [][Next]_vars
=============================================================================
