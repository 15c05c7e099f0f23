----------------------------- MODULE MCIndexing -----------------------------
(* Indexing on a chain of a few blocks, one of which holds transactions,   *)
(* and another one logs.                                                   *)
EXTENDS Indexing

MCBusy == [j \in Job |-> IF j = "indexByBlock" THEN {2} ELSE {3}]
=============================================================================
