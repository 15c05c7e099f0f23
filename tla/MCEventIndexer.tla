--------------------------- MODULE MCEventIndexer ---------------------------
(***************************************************************************)
(* Short chains of one contract, each for one kind of race: two transfers  *)
(* between the same holders, one of them too long for its column or of an  *)
(* unknown interface; two transfers of a token and a change of the base    *)
(* URI; two changes of one key in one block.                               *)
(***************************************************************************)
EXTENDS EventIndexer, TLC

CONSTANTS c, ann, bob, t1, t2, w1, w2, j1, j2

Base == [topic |-> "other", address |-> c, block |-> 1, from |-> ann, to |-> bob,
         token |-> t1, key |-> "none", abi |-> TRUE, fits |-> TRUE, wide |-> FALSE]

Transfer(b) == [Base EXCEPT !.topic = "LSP7", !.block = b]
Back(b) == [Transfer(b) EXCEPT !.from = bob, !.to = ann]
Mint(t, b) == [Base EXCEPT !.topic = "LSP8", !.token = t, !.block = b]
Pass(t, b) == [Mint(t, b) EXCEPT !.to = ann]
Change(k, b) == [Base EXCEPT !.topic = "DataChanged", !.key = k, !.block = b]

Balances == {<<Transfer(1), Back(2)>>}
WideBalances == {<<Transfer(1), [Back(2) EXCEPT !.wide = TRUE]>>}
Tokens == {<<Mint(t1, 1), Pass(t1, 2), Change("tokens", 2)>>,
           <<Mint(t1, 1), Mint(t2, 2), Change("tokens", 2)>>,
           <<Mint(t2, 1), Change("token", 2)>>}
Rest == {<<Base, [Transfer(1) EXCEPT !.abi = FALSE], [Mint(t1, 1) EXCEPT !.fits = FALSE]>>,
         <<Change("contract", 1), Change("contract", 1), Change("none", 2)>>}

MCChains == Balances \cup WideBalances \cup Tokens \cup Rest

Perms == Permutations(Worker) \cup Permutations(Job)
=============================================================================
