--------------------------- MODULE MCIndexerTools ---------------------------
(* IndexerTools on a short chain in which every block holds transactions.  *)
EXTENDS IndexerTools

MCBusy == [j \in Job |-> IF j = "indexByBlock" THEN Block ELSE {}]
=============================================================================
