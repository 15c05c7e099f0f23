------------------------------ MODULE Decoding ------------------------------
(***************************************************************************)
(* apps/indexer/src/decoding/decoding.service.ts: what the indexer finds   *)
(* in the input of a call.  The bytes are abstracted to what the indexer   *)
(* tells apart: the method, whether the structure database has its         *)
(* interface, and whether the ABI coder can decode the parameters.         *)
(*                                                                         *)
(* calls is a sequence: the payload of calls[k] is calls[k + 1].           *)
(***************************************************************************)
EXTENDS Integers, Sequences

CONSTANTS
  Null,       \* nothing: no interface, no contract
  TargetOf    \* TargetOf[a]: what the key manager a answers to target(), or Null

LSP6Execute == {"LSP6.execute", "LSP6.executeRelayCall"}
Batch == {"LSP6.executeBatch", "LSP6.executeRelayCallBatch", "ERC725X.executeBatch"}
Method == LSP6Execute \cup Batch \cup {"ERC725X.execute", "setData", "setDataBatch", "other"}

(* target: the contract an ERC725X.execute names.                          *)
Call(method, known, decodes, target) ==
  [method |-> method, known |-> known, decodes |-> decodes, target |-> target]

(* decodeParameters throws on an input that does not fit the parameters,   *)
(* and decodeTransactionInput keeps the name of the method.                *)
HasParameters(c) == c.known /\ c.decodes

DecodeTransactionInput(c) ==
  IF c.known THEN [methodName |-> c.method, decoded |-> HasParameters(c)] ELSE Null

(* The wrapped transaction goes to the contract the call names.            *)
UnwrapErc725XExecute(c) == c.target

(* The wrapped transaction goes to the account behind the key manager,     *)
(* which is asked for it; there is none when the answer is empty.          *)
UnwrapLSP6Execute(contract) ==
  IF contract \in DOMAIN TargetOf THEN TargetOf[contract] ELSE Null

(* The contract the transaction wrapped in c is sent to, or Null when c    *)
(* wraps none: batches are not unwrapped.                                  *)
UnwrapTransaction(c, contract) ==
  CASE ~HasParameters(c) -> Null
    [] HasParameters(c) /\ c.method \in LSP6Execute -> UnwrapLSP6Execute(contract)
    [] HasParameters(c) /\ c.method = "ERC725X.execute" -> UnwrapErc725XExecute(c)
    [] OTHER -> Null

(* The contracts that are called, level by level, until nothing is wrapped.*)
Targets(calls, to) ==
  LET target[k \in 0..Len(calls)] ==
        IF k = 0 THEN to
        ELSE IF k > 1 /\ target[k - 1] = Null THEN Null
        ELSE UnwrapTransaction(calls[k], target[k - 1])
      depth == CHOOSE k \in 0..Len(calls) :
                 /\ \A j \in 1..k : target[j] # Null
                 /\ k < Len(calls) => target[k + 1] = Null
  IN [k \in 0..depth |-> target[k]]

(* The levels that call setData or its batch with parameters to process.   *)
DataLevels(calls, to) ==
  {k \in DOMAIN Targets(calls, to) :
     /\ k < Len(calls)
     /\ HasParameters(calls[k + 1])
     /\ calls[k + 1].method \in {"setData", "setDataBatch"}}
=============================================================================
