------------------------- MODULE TransactionIndexer -------------------------
(***************************************************************************)
(* apps/indexer/src/transactions/transactions.service.ts: indexTransaction *)
(* and the tables it writes.                                               *)
(*                                                                         *)
(* A worker is one call of indexTransaction.  Nothing keeps two workers    *)
(* from indexing the same transaction: a block is handed out again when    *)
(* its run failed before it saved the checkpoint, or after a crash.  Each  *)
(* action is the code up to the next await of a database call; the calls   *)
(* to the RPC node and the decoding read nothing a worker writes and are   *)
(* part of the step after them.                                            *)
(*                                                                         *)
(* A transaction calls Target[t][0]; when that call wraps another one, its *)
(* target is Target[t][1], and so on: unwrapTransaction returns at most    *)
(* one wrapped transaction (decoding.service.ts), so the wrapped ones of t *)
(* form a chain of Depth[t] levels.                                        *)
(***************************************************************************)
EXTENDS Integers, Sequences, FiniteSets

CONSTANTS
  Tx, Worker, Address,
  Null,         \* no address, no parent
  Sender,       \* Sender[t]: the address that sent t
  Target,       \* Target[t][k]: the address called at level k of t
  Decoded,      \* transactions whose method the structure database knows
  Depth,        \* Depth[t]: number of wrapped transactions inside t
  SetsData,     \* SetsData[t]: levels of t that call setData(...)
  Refused,      \* Refused[t]: statements whose values are longer than their columns
  MaxFaults     \* bound: failed calls and crashes

(* The inserts of values that may be longer than their columns, named by   *)
(* the step and the level a worker is at when it makes them.               *)
Statement == {"row", "input", "params", "unwrap", "wrappedInput", "wrappedParams"}

ASSUME TransactionsAssumption ==
  /\ Depth \in [Tx -> Nat]
  /\ \A t \in Tx : t \notin Decoded => Depth[t] = 0 /\ SetsData[t] = {}
  /\ Sender \in [Tx -> Address]
  /\ \A t \in Tx : Target[t] \in [0..Depth[t] -> Address \cup {Null}]
  /\ \A t \in Tx : \A k \in 1..Depth[t] : Target[t][k] # Null
  /\ \A t \in Tx : SetsData[t] \subseteq 0..Depth[t]
  /\ Refused \in [Tx -> SUBSET (Statement \X Nat)]
  /\ \A t \in Tx : \A r \in Refused[t] : r[1] = "unwrap" => r[2] < Depth[t]
  /\ Null \notin Address \cup Nat
  /\ MaxFaults \in Nat

VARIABLES
  contract,     \* table contract: addresses
  transaction, transactionInput, transactionParams,   \* tables, by hash
  wrapped,      \* table wrapped_transaction: wrapped[t], in order of id
  wrappedInput, wrappedParams,   \* tables, by id of the wrapped transaction
  lastId,       \* the id sequence of wrapped_transaction
  routed,       \* history: <<k, t>>, levels of t whose data changes were processed
  worker,       \* the local variables of each worker
  launched,     \* history: transactions handed to a worker
  faults        \* history: faults so far

tables == <<transaction, transactionInput, transactionParams>>
wrappedTables == <<wrapped, wrappedInput, wrappedParams, lastId>>
vars == <<contract, tables, wrappedTables, routed, worker, launched, faults>>

Step == {"idle", "check", "from", "to", "row", "input", "params", "route", "unwrap",
         "wrappedContract", "wrappedInput", "wrappedParams", "wrappedRoute"}

(* The steps of a worker that has inserted its transaction.                *)
Owning == Step \ {"idle", "check", "from", "to", "row"}

Idle == [at |-> "idle", tx |-> Null, level |-> 0, parent |-> Null, id |-> 0]

At(w, step) == worker[w].at = step
GoTo(w, step) == worker' = [worker EXCEPT ![w].at = step]
Return(w) == worker' = [worker EXCEPT ![w] = Idle]
Fits(w) == <<worker[w].at, worker[w].level>> \notin Refused[worker[w].tx]

Init ==
  /\ contract = {}
  /\ transaction = {} /\ transactionInput = {} /\ transactionParams = {}
  /\ wrapped = [t \in Tx |-> <<>>]
  /\ wrappedInput = {} /\ wrappedParams = {}
  /\ lastId = 0
  /\ routed = {}
  /\ worker = [w \in Worker |-> Idle]
  /\ launched = {}
  /\ faults = 0

(* indexTransaction(t) is called.                                          *)
Launch(w, t) ==
  /\ At(w, "idle")
  /\ worker' = [worker EXCEPT ![w] = [Idle EXCEPT !.at = "check", !.tx = t]]
  /\ launched' = launched \cup {t}
  /\ UNCHANGED <<contract, tables, wrappedTables, routed, faults>>

-----------------------------------------------------------------------------
(* The steps of a worker, each up to the database call it awaits next.     *)

(* if (await this.isTransactionIndexed(transactionHash)) return;           *)
CheckIndexed(w) ==
  /\ At(w, "check")
  /\ IF worker[w].tx \in transaction THEN Return(w) ELSE GoTo(w, "from")
  /\ UNCHANGED <<contract, tables, wrappedTables, routed, launched, faults>>

(* A regression: no contracts for a transaction that creates one.          *)
InsertFromUnlessCreation(w) ==
  /\ At(w, "from")
  /\ contract' = IF Target[worker[w].tx][0] = Null
                 THEN contract ELSE contract \cup {Sender[worker[w].tx]}
  /\ GoTo(w, IF Target[worker[w].tx][0] = Null THEN "row" ELSE "to")
  /\ UNCHANGED <<tables, wrappedTables, routed, launched, faults>>

(* handleContracts: the sender, then the contract called, if any.          *)
InsertFrom(w) ==
  /\ At(w, "from")
  /\ contract' = contract \cup {Sender[worker[w].tx]}
  /\ GoTo(w, IF Target[worker[w].tx][0] = Null THEN "row" ELSE "to")
  /\ UNCHANGED <<tables, wrappedTables, routed, launched, faults>>

InsertTo(w) ==
  /\ At(w, "to")
  /\ contract' = contract \cup {Target[worker[w].tx][0]}
  /\ GoTo(w, "row")
  /\ UNCHANGED <<tables, wrappedTables, routed, launched, faults>>

(* A regression: inserting the row with ON CONFLICT DO NOTHING.            *)
InsertTransactionQuietly(w) ==
  /\ At(w, "row") /\ Fits(w)
  /\ transaction' = transaction \cup {worker[w].tx}
  /\ GoTo(w, "input")
  /\ UNCHANGED <<contract, transactionInput, transactionParams, wrappedTables,
                 routed, launched, faults>>

(* insertTransaction throws on a hash that is there already, and           *)
(* @ExceptionHandler(false) ends the worker.                               *)
InsertTransaction(w) ==
  /\ At(w, "row") /\ Fits(w)
  /\ \/ /\ worker[w].tx \notin transaction
        /\ transaction' = transaction \cup {worker[w].tx}
        /\ GoTo(w, "input")
     \/ /\ worker[w].tx \in transaction
        /\ UNCHANGED transaction
        /\ Return(w)
  /\ UNCHANGED <<contract, transactionInput, transactionParams, wrappedTables,
                 routed, launched, faults>>

InsertInput(w) ==
  /\ At(w, "input") /\ Fits(w)
  /\ transactionInput' = transactionInput \cup {worker[w].tx}
  /\ IF worker[w].tx \in Decoded THEN GoTo(w, "params") ELSE Return(w)
  /\ UNCHANGED <<contract, transaction, transactionParams, wrappedTables,
                 routed, launched, faults>>

InsertParams(w) ==
  /\ At(w, "params") /\ Fits(w)
  /\ transactionParams' = transactionParams \cup {worker[w].tx}
  /\ GoTo(w, "route")
  /\ UNCHANGED <<contract, transaction, transactionInput, wrappedTables,
                 routed, launched, faults>>

(* routeTransaction: setData(...) and its batch change data, other calls   *)
(* do nothing.  indexWrappedTransactions is next.                          *)
Route(w, from) ==
  /\ At(w, from)
  /\ routed' = routed \cup (({worker[w].level} \cap SetsData[worker[w].tx]) \X {worker[w].tx})
  /\ GoTo(w, "unwrap")
  /\ UNCHANGED <<contract, tables, wrappedTables, launched, faults>>

RouteTransaction(w) == Route(w, "route")

(* A regression: the row inserted without RETURNING its id.                *)
InsertWrappedWithoutId(w) ==
  /\ At(w, "unwrap") /\ Fits(w)
  /\ UNCHANGED <<contract, tables, wrappedInput, wrappedParams, routed, launched, faults>>
  /\ LET t == worker[w].tx
         k == worker[w].level + 1 IN
     IF k > Depth[t]
     THEN Return(w) /\ UNCHANGED <<wrapped, lastId>>
     ELSE /\ lastId' = lastId + 1
          /\ wrapped' = [wrapped EXCEPT ![t] =
               Append(@, [id |-> lastId', level |-> k, parent |-> worker[w].parent])]
          /\ worker' = [worker EXCEPT ![w].at = "wrappedContract",
                                      ![w].level = k, ![w].id = Null]

(* indexWrappedTransactions(..., parentId, ...): return when there is      *)
(* nothing to unwrap, else insertWrappedTx.                                *)
InsertWrapped(w) ==
  /\ At(w, "unwrap") /\ Fits(w)
  /\ UNCHANGED <<contract, tables, wrappedInput, wrappedParams, routed, launched, faults>>
  /\ LET t == worker[w].tx
         k == worker[w].level + 1 IN
     IF k > Depth[t]
     THEN Return(w) /\ UNCHANGED <<wrapped, lastId>>
     ELSE /\ lastId' = lastId + 1
          /\ wrapped' = [wrapped EXCEPT ![t] =
               Append(@, [id |-> lastId', level |-> k, parent |-> worker[w].parent])]
          /\ worker' = [worker EXCEPT ![w].at = "wrappedContract",
                                      ![w].level = k, ![w].id = lastId']

InsertWrappedContract(w) ==
  /\ At(w, "wrappedContract")
  /\ contract' = contract \cup {Target[worker[w].tx][worker[w].level]}
  /\ GoTo(w, "wrappedInput")
  /\ UNCHANGED <<tables, wrappedTables, routed, launched, faults>>

(* A regression: the parameters of a wrapped transaction left out.         *)
InsertWrappedInputOnly(w) ==
  /\ At(w, "wrappedInput") /\ Fits(w)
  /\ wrappedInput' = wrappedInput \cup {worker[w].id}
  /\ GoTo(w, "wrappedRoute")
  /\ UNCHANGED <<contract, tables, wrapped, wrappedParams, lastId, routed, launched, faults>>

InsertWrappedInput(w) ==
  /\ At(w, "wrappedInput") /\ Fits(w)
  /\ wrappedInput' = wrappedInput \cup {worker[w].id}
  /\ GoTo(w, "wrappedParams")
  /\ UNCHANGED <<contract, tables, wrapped, wrappedParams, lastId, routed, launched, faults>>

InsertWrappedParams(w) ==
  /\ At(w, "wrappedParams") /\ Fits(w)
  /\ wrappedParams' = wrappedParams \cup {worker[w].id}
  /\ GoTo(w, "wrappedRoute")
  /\ UNCHANGED <<contract, tables, wrapped, wrappedInput, lastId, routed, launched, faults>>

(* processNestedWrappedTransactions recurses with the same parentId.       *)
RouteWrapped(w) == Route(w, "wrappedRoute")

(* The database refuses a value longer than its column, each time it is    *)
(* inserted: the insert throws and what is left of the transaction is      *)
(* given up.                                                               *)
Refuse(w) ==
  /\ worker[w].at \in Statement /\ ~ Fits(w)
  /\ Return(w)
  /\ UNCHANGED <<contract, tables, wrappedTables, routed, launched, faults>>

-----------------------------------------------------------------------------
(* Failures.                                                               *)

Fault ==
  /\ faults < MaxFaults
  /\ faults' = faults + 1

(* routeTransaction throws into its own @ExceptionHandler(false): the data *)
(* change is lost and the worker goes on.                                  *)
RouteFails(w) ==
  /\ worker[w].at \in {"route", "wrappedRoute"}
  /\ Fault
  /\ GoTo(w, "unwrap")
  /\ UNCHANGED <<contract, tables, wrappedTables, routed, launched>>

(* Another await throws, or unwrapTransaction answers null after an error: *)
(* what is left of the transaction is given up.                            *)
WorkerFails(w) ==
  /\ worker[w].at \notin {"idle", "route", "wrappedRoute"}
  /\ Fault
  /\ Return(w)
  /\ UNCHANGED <<contract, tables, wrappedTables, routed, launched>>

(* The process ends; the database remains.                                 *)
Crash ==
  /\ Fault
  /\ worker' = [w \in Worker |-> Idle]
  /\ UNCHANGED <<contract, tables, wrappedTables, routed, launched>>

WorkerSteps(w) ==
  \/ CheckIndexed(w) \/ InsertFrom(w) \/ InsertTo(w) \/ InsertTransaction(w)
  \/ InsertInput(w) \/ InsertParams(w) \/ RouteTransaction(w)
  \/ InsertWrapped(w) \/ InsertWrappedContract(w) \/ InsertWrappedInput(w)
  \/ InsertWrappedParams(w) \/ RouteWrapped(w) \/ Refuse(w)

Next ==
  \/ \E w \in Worker :
       \/ \E t \in Tx : Launch(w, t)
       \/ WorkerSteps(w) \/ RouteFails(w) \/ WorkerFails(w)
  \/ Crash

Spec == Init /\ [][Next]_vars

(* Every promise a worker awaits settles.                                  *)
FairSpec == Spec /\ \A w \in Worker : WF_vars(WorkerSteps(w))

-----------------------------------------------------------------------------
(* Properties.                                                             *)

WrappedRow == [id : Nat, level : Nat, parent : Nat \cup {Null}]

TypeOK ==
  /\ contract \subseteq Address
  /\ transaction \subseteq Tx /\ transactionInput \subseteq Tx /\ transactionParams \subseteq Tx
  /\ wrapped \in [Tx -> Seq(WrappedRow)]
  /\ wrappedInput \subseteq Nat /\ wrappedParams \subseteq Nat
  /\ lastId \in Nat
  /\ routed \subseteq Nat \X Tx
  /\ worker \in [Worker -> [at : Step, tx : Tx \cup {Null}, level : Nat,
                            parent : Nat \cup {Null}, id : Nat]]
  /\ launched \subseteq Tx
  /\ faults \in 0..MaxFaults

(* However many workers index a transaction, at most one of them gets past *)
(* inserting its row: the primary key is the lock.                         *)
OneOwner ==
  \A v, w \in Worker :
    worker[v].at \in Owning /\ worker[w].at \in Owning /\ worker[v].tx = worker[w].tx => v = w

(* The wrapped transactions of a transaction are there once each, outer    *)
(* before inner, in spite of retries and crashes (their table has no key   *)
(* that would refuse a duplicate).                                         *)
WrappedOnce == \A t \in Tx : \A i \in DOMAIN wrapped[t] : wrapped[t][i].level = i

(* Whoever sent a transaction, or a wrapped one, is a known contract: it   *)
(* will be identified by processContractsToIndex, whatever failed since.   *)
SendersKnown ==
  \A t \in Tx :
    /\ t \in transaction => Sender[t] \in contract
    /\ \A i \in DOMAIN wrapped[t] : Target[t][i - 1] \in contract \cup {Null}

(* Everything there is to know of t is in the database.                    *)
Complete(t) ==
  /\ t \in transaction \cap transactionInput
  /\ t \in Decoded => t \in transactionParams
  /\ Len(wrapped[t]) = Depth[t]
  /\ \A i \in DOMAIN wrapped[t] : wrapped[t][i].id \in wrappedInput \cap wrappedParams
  /\ \A k \in SetsData[t] : <<k, t>> \in routed

(* As long as nothing failed, a transaction in the table is complete or    *)
(* being completed: isTransactionIndexed may take the row for the whole,   *)
(* but for a transaction with a value no column takes.                     *)
RowMeansComplete ==
  faults = 0 =>
    \A t \in transaction :
      Refused[t] = {} =>
        Complete(t) \/ \E w \in Worker : worker[w].tx = t /\ worker[w].at \in Owning

(* The tables implement the abstract expansion of transactions.            *)
Tables == INSTANCE Expansion WITH
  recorded <- transaction, level <- [t \in Tx |-> Len(wrapped[t])]

TablesImplementExpansion == Tables!Spec

(* Without faults, whatever is handed to a worker ends up complete, also   *)
(* when two workers race for it, if its values fit their columns.          *)
LaunchedCompletes ==
  [](faults = 0) =>
    \A t \in Tx : (t \in launched) ~> (Complete(t) \/ Refused[t] # {})

(* The doc of indexWrappedTransactions: "@param parentId - The parent ID   *)
(* of the wrapped transaction" (line 165).  A wrapped transaction found    *)
(* inside another one has that one's id as its parent.  TLC refutes it:    *)
(* the recursion passes the parent's own parentId, which is null.          *)
NestedHasParent ==
  \A t \in Tx : \A i \in DOMAIN wrapped[t] :
    i > 1 => wrapped[t][i].parent = wrapped[t][i - 1].id
=============================================================================
