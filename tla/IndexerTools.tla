---------------------------- MODULE IndexerTools ----------------------------
(***************************************************************************)
(* The indexer beside its operator: apps/indexer-admin/src/indexer-tools   *)
(* writes the Redis keys that the runs of Indexing read, at any moment and *)
(* without coordination with a run in progress.                            *)
(***************************************************************************)
EXTENDS Indexing

CONSTANTS
  PostedStatus, PostedChunk, PostedBlock,   \* values the operator posts
  MaxPosts                                  \* bound: requests of the operator

ASSUME ToolsAssumption ==
  /\ PostedStatus \subseteq Nat
  /\ PostedChunk \subseteq Nat
  /\ PostedBlock \subseteq Nat
  /\ MaxPosts \in Nat

VARIABLES
  posts,     \* history: requests so far
  skipped    \* history: blocks a request moved the checkpoint over

toolVars == <<posts, skipped>>
allVars == <<vars, toolVars>>

ToolsInit ==
  /\ Init
  /\ posts = 0
  /\ skipped = {}

Post ==
  /\ posts < MaxPosts
  /\ posts' = posts + 1
  /\ UNCHANGED <<head, slot, run, tasks, seen, done, faults>>

ChangeStatus(n) ==
  /\ Post
  /\ status' = n
  /\ UNCHANGED <<latest, chunk, skipped>>

ChangeChunksSizes(n) ==
  /\ Post
  /\ chunk' = [chunk EXCEPT !["indexByBlock"] = n]
  /\ UNCHANGED <<latest, status, skipped>>

ChangeLastIndexedBlocks(n) ==
  /\ Post
  /\ latest' = [latest EXCEPT !["indexByBlock"] = n]
  /\ skipped' = skipped \cup ((latest["indexByBlock"] + 1) .. n)
  /\ UNCHANGED <<status, chunk>>

Operator ==
  \/ \E n \in PostedStatus : ChangeStatus(n)
  \/ \E n \in PostedChunk : ChangeChunksSizes(n)
  \/ \E n \in PostedBlock : ChangeLastIndexedBlocks(n)

ToolsNext ==
  \/ Next /\ UNCHANGED toolVars
  \/ Operator

ToolsSpec == ToolsInit /\ [][ToolsNext]_allVars

(* The indexer's fairness only: an operator need not do anything.          *)
ToolsFairSpec == ToolsSpec /\ Fairness

-----------------------------------------------------------------------------
ToolsTypeOK ==
  /\ TypeOK
  /\ posts \in 0..MaxPosts
  /\ skipped \subseteq Nat

(* Whatever the operator posts, and whichever run's write lands after it,  *)
(* only the operator can make the checkpoint jump over a block.            *)
SkippedOnlyByOperator ==
  1..latest["indexByBlock"] \subseteq seen["indexByBlock"] \cup skipped

(* Whatever is posted, a stored 0 included, the scan keeps up with the     *)
(* chain, unless the operator leaves the chunk size at 1.                  *)
KeepsUp ==
  <>[](chunk["indexByBlock"] # 1) => <>[](latest["indexByBlock"] >= head - 1)

(* scheduling.service.ts:51, "designed to handle large numbers of blocks   *)
(* by breaking them into smaller batches": so it does, whatever size was   *)
(* posted.  TLC refutes it: the guard of line 79 leaves out a chunk of one *)
(* block.                                                                  *)
KeepsUpAtAnySize == <>[](latest["indexByBlock"] >= head - 1)

(* scheduling.service.ts:269-270, the status "determines whether the       *)
(* indexer is on or off", "0 = OFF / 1 = ON": if it stays 0, no run gets   *)
(* past reading it, and the background work drains.  TLC refutes it: the   *)
(* default, which is 1, stands in for a stored 0 (line 276).               *)
AtRest ==
  /\ \A c \in active : run[c].at \in {"status", "setStatus"}
  /\ \A j \in Job, b \in Block : ~InFlight(j, b)

OffComesToRest == <>[](status = 0) => <>[]AtRest
=============================================================================
