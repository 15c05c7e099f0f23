---------------------------- MODULE AtLeastOnce ----------------------------
(***************************************************************************)
(* What the refresh stream promises of its messages, numbered in the order *)
(* they were added: batches of the oldest ones are started, and a message  *)
(* is removed, with no older one left behind, only after it was started.   *)
(* A message that stays is started again.                                  *)
(***************************************************************************)
EXTENDS Integers

VARIABLES
  last,      \* the number of the newest message
  kept,      \* the messages that have not been removed
  started    \* history: the messages that have been started

vars == <<last, kept, started>>

Init == last = 0 /\ kept = {} /\ started = {}

Add ==
  /\ last' = last + 1
  /\ kept' = kept \cup {last'}
  /\ UNCHANGED started

(* None of the messages kept is older than one of the batch, but outside.  *)
Oldest(batch) ==
  /\ batch \subseteq kept
  /\ \A i \in batch, j \in kept : j < i => j \in batch

Start(batch) ==
  /\ Oldest(batch)
  /\ started' = started \cup batch
  /\ UNCHANGED <<last, kept>>

Remove(batch) ==
  /\ Oldest(batch) /\ batch \subseteq started
  /\ kept' = kept \ batch
  /\ UNCHANGED <<last, started>>

Next == Add \/ \E batch \in SUBSET kept : Start(batch) \/ Remove(batch)

Spec == Init /\ [][Next]_vars
=============================================================================
