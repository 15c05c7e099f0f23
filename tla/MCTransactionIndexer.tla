------------------------ MODULE MCTransactionIndexer ------------------------
(* Three transactions: one that executes, through a key manager and an     *)
(* account, a setData call; one that creates a contract; one that executes *)
(* a call with a parameter no column takes.  Two workers, so that both may *)
(* index the same transaction.                                             *)
EXTENDS TransactionIndexer, TLC

CONSTANTS t1, t2, t3, w1, w2, a0, a1, a2, a3

Decode == INSTANCE Decoding WITH TargetOf <- (a1 :> a2)

MCTx == {t1, t2, t3}
MCWorker == {w1, w2}
MCAddress == {a0, a1, a2, a3}
MCSender == [t \in MCTx |-> a0]

Calls == (t1 :> <<Decode!Call("LSP6.execute", TRUE, TRUE, Null),
                  Decode!Call("ERC725X.execute", TRUE, TRUE, a3),
                  Decode!Call("setData", TRUE, TRUE, Null)>>)
      @@ (t2 :> <<Decode!Call("other", FALSE, FALSE, Null)>>)
      @@ (t3 :> <<Decode!Call("ERC725X.execute", TRUE, TRUE, a2),
                  Decode!Call("other", TRUE, TRUE, Null)>>)
To == (t1 :> a1) @@ (t2 :> Null) @@ (t3 :> a3)

MCDecoded == {t \in MCTx : Decode!DecodeTransactionInput(Calls[t][1]) # Null}
MCTarget == [t \in MCTx |-> Decode!Targets(Calls[t], To[t])]
MCDepth == [t \in MCTx |-> Cardinality(DOMAIN MCTarget[t]) - 1]
MCSetsData == [t \in MCTx |-> Decode!DataLevels(Calls[t], To[t])]
MCRefused == [t \in MCTx |-> IF t = t3 THEN {<<"wrappedParams", 1>>} ELSE {}]
Symmetry == Permutations(MCWorker)
=============================================================================
