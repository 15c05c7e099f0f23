--------------------- MODULE TransactionIndexer_proofs ---------------------
(***************************************************************************)
(* For any number of transactions, workers, faults and levels of wrapped   *)
(* transactions: one worker at a time expands a transaction, its wrapped   *)
(* transactions are recorded once and in order, every sender is a known    *)
(* contract, a row means a complete transaction unless something failed,   *)
(* and the tables implement Expansion.                                     *)
(***************************************************************************)
EXTENDS TransactionIndexer, TLAPS

-----------------------------------------------------------------------------
(* The inductive invariant.                                                *)

(* A busy worker is at a level its transaction has.                        *)
LevelExists(w) ==
  worker[w].at # "idle" =>
    worker[w].tx \in Tx /\ worker[w].level \in 0..Depth[worker[w].tx]

(* Before the row is inserted nothing is unwrapped, and the steps of       *)
(* handleWrappedTransactionData are taken inside a wrapped transaction.    *)
LevelFits(w) ==
  /\ worker[w].at \in {"check", "from", "to", "row"} => worker[w].level = 0
  /\ worker[w].at \in {"wrappedContract", "wrappedInput", "wrappedParams", "wrappedRoute"} =>
       worker[w].level > 0

(* An owner's transaction is in the table, with as many wrapped            *)
(* transactions as the owner has gone levels deep.                         *)
OwnerAtEnd(w) ==
  worker[w].at \in Owning =>
    worker[w].tx \in transaction /\ Len(wrapped[worker[w].tx]) = worker[w].level

(* The contracts a worker has inserted so far: the sender, and the target  *)
(* of its level, which is the sender of the next one.                      *)
ContractsKnown(w) ==
  /\ worker[w].at = "to" => Target[worker[w].tx][0] # Null
  /\ worker[w].at \in {"to", "row"} => Sender[worker[w].tx] \in contract
  /\ worker[w].at \in {"row"} \cup (Owning \ {"wrappedContract"}) =>
       Target[worker[w].tx][worker[w].level] \in contract \cup {Null}

WorkerInv(w) == LevelExists(w) /\ LevelFits(w) /\ OwnerAtEnd(w) /\ ContractsKnown(w)

WrappedOfRecorded == \A t \in Tx : wrapped[t] # <<>> => t \in transaction

(* The worker that inserts a row finds no wrapped transactions behind it   *)
(* (WrappedOfRecorded), and keeps at their end (OwnerAtEnd) since no other *)
(* worker owns the transaction (OneOwner).                                 *)
IInv ==
  /\ TypeOK
  /\ \A w \in Worker : WorkerInv(w)
  /\ OneOwner
  /\ WrappedOfRecorded
  /\ WrappedOnce
  /\ SendersKnown

-----------------------------------------------------------------------------
LEMMA InitEstablishes == Init => IInv
  <1> SUFFICES ASSUME Init PROVE IInv OBVIOUS
  <1> USE TransactionsAssumption
  <1>1. TypeOK BY DEF Init, TypeOK, Idle, Step, WrappedRow
  <1>2. \A w \in Worker : worker[w].at = "idle" BY DEF Init, Idle
  <1>3. (\A w \in Worker : WorkerInv(w)) /\ OneOwner
    BY <1>2 DEF WorkerInv, LevelExists, LevelFits, OwnerAtEnd, ContractsKnown, OneOwner, Owning
  <1>4. WrappedOfRecorded /\ WrappedOnce /\ SendersKnown
    BY DEF Init, WrappedOfRecorded, WrappedOnce, SendersKnown
  <1> QED BY <1>1, <1>3, <1>4 DEF IInv

(* A worker that does not move keeps its part when rows are only added and *)
(* nothing is unwrapped from a transaction it owns.                        *)
LEMMA Bystander ==
  ASSUME NEW v \in Worker, WorkerInv(v), worker'[v] = worker[v],
         contract \subseteq contract', transaction \subseteq transaction',
         worker[v].at \in Owning => wrapped'[worker[v].tx] = wrapped[worker[v].tx]
  PROVE  WorkerInv(v)'
  <1>1. LevelExists(v)' BY DEF WorkerInv, LevelExists
  <1>2. LevelFits(v)' BY DEF WorkerInv, LevelFits
  <1>3. OwnerAtEnd(v)' BY DEF WorkerInv, OwnerAtEnd
  <1>4. ContractsKnown(v)' BY DEF WorkerInv, ContractsKnown
  <1> QED BY <1>1, <1>2, <1>3, <1>4 DEF WorkerInv

(* A step that leaves the wrapped transactions alone and adds to the other *)
(* tables preserves the invariant when the worker it moves keeps its part. *)
LEMMA Moves ==
  ASSUME IInv, TypeOK', NEW w \in Worker, WorkerInv(w)',
         \A v \in Worker : v # w => worker'[v] = worker[v],
         UNCHANGED <<transaction, wrapped>>, contract \subseteq contract',
         worker'[w].at \in Owning =>
           worker[w].at \in Owning /\ worker'[w].tx = worker[w].tx
  PROVE  IInv'
  <1>1. ASSUME NEW v \in Worker, v # w PROVE WorkerInv(v)'
    <2>1. WorkerInv(v) BY DEF IInv
    <2> QED BY <1>1, <2>1, Bystander
  <1>2. OneOwner' BY DEF IInv, OneOwner
  <1>3. WrappedOfRecorded' /\ WrappedOnce' /\ SendersKnown'
    BY DEF IInv, WrappedOfRecorded, WrappedOnce, SendersKnown
  <1> QED BY <1>1, <1>2, <1>3 DEF IInv

(* In particular, a worker may give up at any step.                        *)
LEMMA Returning ==
  ASSUME IInv, NEW w \in Worker, Return(w), faults' \in 0..MaxFaults,
         transactionInput' \subseteq Tx,
         UNCHANGED <<contract, transaction, transactionParams, wrappedTables, routed, launched>>
  PROVE  IInv'
  <1>1. worker'[w] = Idle /\ \A v \in Worker : v # w => worker'[v] = worker[v]
    BY DEF IInv, TypeOK, Return
  <1>2. TypeOK'
    BY DEF IInv, TypeOK, Return, Idle, Step, wrappedTables
  <1>3. WorkerInv(w)'
    BY <1>1 DEF Idle, WorkerInv, LevelExists, LevelFits, OwnerAtEnd, ContractsKnown, Owning
  <1> QED
    BY <1>1, <1>2, <1>3, Moves DEF wrappedTables, Idle, Owning

(* Or go on to its next step s.                                            *)
LEMMA GoingOn ==
  ASSUME IInv, NEW w \in Worker, NEW s \in Step, GoTo(w, s), worker[w].at # "idle",
         UNCHANGED <<transaction, wrapped, lastId, launched>>,
         contract \subseteq contract', contract' \subseteq Address,
         transactionInput' \subseteq Tx, transactionParams' \subseteq Tx,
         wrappedInput' \subseteq Nat, wrappedParams' \subseteq Nat,
         routed' \subseteq Nat \X Tx, faults' \in 0..MaxFaults,
         s # "idle", s \in Owning => worker[w].at \in Owning,
         s \in {"check", "from", "to", "row"} => worker[w].level = 0,
         s \in {"wrappedContract", "wrappedInput", "wrappedParams", "wrappedRoute"} =>
           worker[w].level > 0,
         s = "to" => Target[worker[w].tx][0] # Null,
         s \in {"to", "row"} => Sender[worker[w].tx] \in contract',
         s \in {"row"} \cup (Owning \ {"wrappedContract"}) =>
           Target[worker[w].tx][worker[w].level] \in contract' \cup {Null}
  PROVE  IInv'
  <1>1. /\ worker'[w] = [worker[w] EXCEPT !.at = s]
        /\ \A v \in Worker : v # w => worker'[v] = worker[v]
    BY DEF IInv, TypeOK, GoTo
  <1>2. TypeOK' BY DEF IInv, TypeOK, GoTo
  <1>3. /\ worker'[w].at = s /\ worker'[w].tx = worker[w].tx
        /\ worker'[w].level = worker[w].level
    BY <1>1 DEF IInv, TypeOK
  <1>4. WorkerInv(w)'
    BY <1>3 DEF IInv, WorkerInv, LevelExists, LevelFits, OwnerAtEnd, ContractsKnown
  <1> QED BY <1>1, <1>2, <1>3, <1>4, Moves

(* What the invariant says of a worker at work.                            *)
LEMMA Busy ==
  ASSUME IInv, NEW w \in Worker, worker[w].at # "idle"
  PROVE  /\ worker[w].tx \in Tx
         /\ worker[w].level \in 0..Depth[worker[w].tx] /\ worker[w].level \in Nat
         /\ worker[w].id \in Nat
         /\ Sender[worker[w].tx] \in Address
         /\ Target[worker[w].tx][0] \in Address \cup {Null}
         /\ worker[w].level > 0 => Target[worker[w].tx][worker[w].level] \in Address
         /\ WorkerInv(w)
  <1>1. WorkerInv(w) /\ worker[w].id \in Nat BY DEF IInv, TypeOK
  <1>2. worker[w].tx \in Tx /\ worker[w].level \in 0..Depth[worker[w].tx]
    BY <1>1 DEF WorkerInv, LevelExists
  <1>3. Depth[worker[w].tx] \in Nat BY <1>2, TransactionsAssumption
  <1>4. /\ Target[worker[w].tx][0] \in Address \cup {Null}
        /\ worker[w].level > 0 => Target[worker[w].tx][worker[w].level] \in Address
    BY <1>2, <1>3, TransactionsAssumption
  <1> QED BY <1>1, <1>2, <1>3, <1>4, TransactionsAssumption

-----------------------------------------------------------------------------
(* The steps that do not insert a row of transaction or wrapped.           *)
LEMMA StepBeforeRow ==
  ASSUME IInv, NEW w \in Worker,
         \/ \E t \in Tx : Launch(w, t)
         \/ CheckIndexed(w) \/ InsertFrom(w) \/ InsertTo(w)
  PROVE  IInv'
  <1> USE DEF Step, Owning, At
  <1>1. CASE \E t \in Tx : Launch(w, t)
    <2>1. PICK t \in Tx : Launch(w, t) BY <1>1
    <2>2. /\ worker'[w] = [Idle EXCEPT !.at = "check", !.tx = t]
          /\ \A v \in Worker : v # w => worker'[v] = worker[v]
      BY <2>1 DEF Launch, IInv, TypeOK
    <2>3. TypeOK'
      BY <2>1 DEF Launch, Idle, IInv, TypeOK, tables, wrappedTables
    <2>4. worker'[w].at = "check" /\ worker'[w].tx = t /\ worker'[w].level = 0
      BY <2>2 DEF Idle
    <2>5. Depth[t] \in Nat BY TransactionsAssumption
    <2>6. WorkerInv(w)'
      BY <2>4, <2>5 DEF WorkerInv, LevelExists, LevelFits, OwnerAtEnd, ContractsKnown
    <2> QED
      BY <2>1, <2>2, <2>3, <2>4, <2>6, Moves DEF Launch, tables, wrappedTables
  <1>2. CASE CheckIndexed(w)
    <2>1. worker[w].level = 0
      BY <1>2 DEF CheckIndexed, IInv, WorkerInv, LevelFits
    <2>2. CASE worker[w].tx \in transaction
      BY <1>2, <2>2, Returning DEF CheckIndexed, IInv, TypeOK, tables
    <2>3. CASE worker[w].tx \notin transaction
      BY <1>2, <2>1, <2>3, GoingOn DEF CheckIndexed, IInv, TypeOK, tables, wrappedTables
    <2> QED BY <2>2, <2>3
  <1>3. CASE InsertFrom(w)
    <2>1. /\ worker[w].at = "from" /\ worker[w].level = 0
          /\ Sender[worker[w].tx] \in Address
      BY <1>3, Busy DEF InsertFrom, WorkerInv, LevelFits
    <2>2. PICK s \in {"row", "to"} :
            GoTo(w, s) /\ (s = "row" <=> Target[worker[w].tx][0] = Null)
      BY <1>3 DEF InsertFrom
    <2>3. contract' = contract \cup {Sender[worker[w].tx]}
      BY <1>3 DEF InsertFrom
    <2> QED
      BY <1>3, <2>1, <2>2, <2>3, GoingOn DEF InsertFrom, IInv, TypeOK, tables, wrappedTables
  <1>4. CASE InsertTo(w)
    <2>1. /\ worker[w].at = "to" /\ worker[w].level = 0
          /\ Target[worker[w].tx][0] \in Address
          /\ Sender[worker[w].tx] \in contract
      BY <1>4, Busy DEF InsertTo, WorkerInv, LevelFits, ContractsKnown
    <2> QED
      BY <1>4, <2>1, GoingOn DEF InsertTo, IInv, TypeOK, tables, wrappedTables
  <1> QED BY <1>1, <1>2, <1>3, <1>4

LEMMA StepOfOwner ==
  ASSUME IInv, NEW w \in Worker,
         \/ InsertInput(w) \/ InsertParams(w) \/ RouteTransaction(w)
         \/ InsertWrappedContract(w) \/ InsertWrappedInput(w)
         \/ InsertWrappedParams(w) \/ RouteWrapped(w) \/ RouteFails(w)
  PROVE  IInv'
  <1> USE DEF Step, Owning, At
  <1>1. worker[w].at \in Owning
    BY DEF InsertInput, InsertParams, RouteTransaction, InsertWrappedContract,
           InsertWrappedInput, InsertWrappedParams, RouteWrapped, RouteFails, Route
  <1>2. /\ worker[w].tx \in Tx /\ worker[w].level \in Nat /\ worker[w].id \in Nat
        /\ worker[w].level > 0 => Target[worker[w].tx][worker[w].level] \in Address
        /\ WorkerInv(w)
    BY <1>1, Busy
  <1>3. worker[w].at # "wrappedContract" =>
          Target[worker[w].tx][worker[w].level] \in contract \cup {Null}
    BY <1>1, <1>2 DEF WorkerInv, ContractsKnown
  <1>4. worker[w].at \in {"wrappedContract", "wrappedInput", "wrappedParams", "wrappedRoute"} =>
          worker[w].level > 0
    BY <1>2 DEF WorkerInv, LevelFits
  <1>5. CASE InsertInput(w)
    <2>1. CASE worker[w].tx \in Decoded
      BY <1>1, <1>2, <1>3, <1>5, <2>1, GoingOn DEF InsertInput, IInv, TypeOK, wrappedTables
    <2>2. CASE worker[w].tx \notin Decoded
      BY <1>2, <1>5, <2>2, Returning DEF InsertInput, IInv, TypeOK
    <2> QED BY <2>1, <2>2
  <1>6. CASE InsertParams(w)
    BY <1>1, <1>2, <1>3, <1>6, GoingOn DEF InsertParams, IInv, TypeOK, wrappedTables
  <1>7. ASSUME NEW at \in {"route", "wrappedRoute"}, Route(w, at) PROVE IInv'
    <2>1. routed' \subseteq Nat \X Tx
      BY <1>2, <1>7 DEF Route, IInv, TypeOK
    <2> QED
      BY <1>1, <1>2, <1>3, <1>7, <2>1, GoingOn DEF Route, IInv, TypeOK, tables, wrappedTables
  <1>8. CASE InsertWrappedContract(w)
    BY <1>1, <1>2, <1>4, <1>8, GoingOn
       DEF InsertWrappedContract, IInv, TypeOK, tables, wrappedTables
  <1>9. CASE InsertWrappedInput(w)
    BY <1>1, <1>2, <1>3, <1>4, <1>9, GoingOn DEF InsertWrappedInput, IInv, TypeOK, tables
  <1>10. CASE InsertWrappedParams(w)
    BY <1>1, <1>2, <1>3, <1>4, <1>10, GoingOn DEF InsertWrappedParams, IInv, TypeOK, tables
  <1>11. CASE RouteFails(w)
    <2>1. faults' \in 0..MaxFaults
      BY <1>11, TransactionsAssumption DEF RouteFails, Fault, IInv, TypeOK
    <2> QED
      BY <1>1, <1>2, <1>3, <1>11, <2>1, GoingOn DEF RouteFails, IInv, TypeOK, tables, wrappedTables
  <1> QED
    BY <1>5, <1>6, <1>7, <1>8, <1>9, <1>10, <1>11 DEF RouteTransaction, RouteWrapped
-----------------------------------------------------------------------------
(* Inserting the row: the primary key lets one worker through.             *)
LEMMA StepRow ==
  ASSUME IInv, NEW w \in Worker, InsertTransaction(w) PROVE IInv'
  <1> USE DEF Step, Owning
  <1>1. CASE worker[w].tx \in transaction
    BY <1>1, Returning DEF InsertTransaction, IInv, TypeOK
  <1>2. CASE worker[w].tx \notin transaction
    <2>1. /\ worker[w].at = "row" /\ worker[w].tx \in Tx /\ worker[w].level = 0
          /\ Sender[worker[w].tx] \in contract
          /\ Target[worker[w].tx][0] \in contract \cup {Null}
          /\ 0 \in 0..Depth[worker[w].tx]
      BY <1>2, Busy DEF InsertTransaction, At, WorkerInv, LevelFits, ContractsKnown
    <2>2. wrapped[worker[w].tx] = <<>>
      BY <1>2, <2>1 DEF IInv, WrappedOfRecorded
    <2>3. /\ transaction' = transaction \cup {worker[w].tx} /\ GoTo(w, "input")
          /\ UNCHANGED <<contract, transactionInput, transactionParams, wrapped, wrappedInput,
                         wrappedParams, lastId, routed, launched, faults>>
      BY <1>2 DEF InsertTransaction, wrappedTables
    <2>4. /\ worker'[w] = [worker[w] EXCEPT !.at = "input"]
          /\ \A v \in Worker : v # w => worker'[v] = worker[v]
      BY <2>3 DEF GoTo, IInv, TypeOK
    <2>5. /\ worker'[w].at = "input" /\ worker'[w].tx = worker[w].tx
          /\ worker'[w].level = 0
      BY <2>1, <2>4 DEF IInv, TypeOK
    <2>6. TypeOK' BY <2>1, <2>3 DEF GoTo, IInv, TypeOK
    <2>7. WorkerInv(w)'
      BY <2>1, <2>2, <2>3, <2>5
         DEF WorkerInv, LevelExists, LevelFits, OwnerAtEnd, ContractsKnown
    <2>8. ASSUME NEW v \in Worker, v # w PROVE WorkerInv(v)'
      <3>1. WorkerInv(v) BY DEF IInv
      <3> QED BY <2>3, <2>4, <2>8, <3>1, Bystander
    <2>9. OneOwner'
      <3>1. \A v \in Worker : v # w /\ worker[v].at \in Owning => worker[v].tx # worker[w].tx
        BY <1>2 DEF IInv, WorkerInv, OwnerAtEnd
      <3>2. \A v \in Worker : worker'[v].at \in Owning /\ worker'[v].tx = worker[w].tx => v = w
        BY <2>4, <3>1
      <3>3. ASSUME NEW u \in Worker, NEW v \in Worker, u # w, v # w,
                   worker'[u].at \in Owning, worker'[v].at \in Owning,
                   worker'[u].tx = worker'[v].tx
            PROVE  u = v
        BY <2>4, <3>3 DEF IInv, OneOwner
      <3> QED BY <2>5, <3>2, <3>3 DEF OneOwner
    <2>10. WrappedOfRecorded' /\ WrappedOnce' /\ SendersKnown'
      BY <2>1, <2>2, <2>3 DEF IInv, WrappedOfRecorded, WrappedOnce, SendersKnown
    <2> QED BY <2>6, <2>7, <2>8, <2>9, <2>10 DEF IInv
  <1> QED BY <1>1, <1>2

(* What inserting a wrapped row changes, when there is something to unwrap.*)
LEMMA UnwrappedRow ==
  ASSUME IInv, NEW w \in Worker, InsertWrapped(w),
         worker[w].level + 1 <= Depth[worker[w].tx]
  PROVE  \E row \in WrappedRow :
           /\ row.level = worker[w].level + 1
           /\ wrapped' = [wrapped EXCEPT ![worker[w].tx] = Append(@, row)]
           /\ lastId' = lastId + 1
           /\ worker' = [worker EXCEPT ![w].at = "wrappedContract",
                                       ![w].level = row.level, ![w].id = lastId']
  <1> DEFINE row == [id |-> lastId', level |-> worker[w].level + 1,
                     parent |-> worker[w].parent]
  <1>1. worker[w].level \in Nat /\ worker[w].tx \in Tx /\ Depth[worker[w].tx] \in Nat
    BY Busy, TransactionsAssumption DEF InsertWrapped, At
  <1>2. ~ (worker[w].level + 1 > Depth[worker[w].tx]) BY <1>1
  <1>3. /\ lastId' = lastId + 1
        /\ wrapped' = [wrapped EXCEPT ![worker[w].tx] = Append(@, row)]
        /\ worker' = [worker EXCEPT ![w].at = "wrappedContract",
                                    ![w].level = worker[w].level + 1, ![w].id = lastId']
    BY <1>2 DEF InsertWrapped
  <1>4. row \in WrappedRow
    BY <1>1, <1>3 DEF WrappedRow, IInv, TypeOK
  <1> QED BY <1>3, <1>4

LEMMA StepWrapped ==
  ASSUME IInv, NEW w \in Worker, InsertWrapped(w) PROVE IInv'
  <1> DEFINE t == worker[w].tx
             k == worker[w].level + 1
  <1>1. /\ worker[w].at = "unwrap" /\ t \in Tx /\ worker[w].level \in Nat
        /\ t \in transaction /\ Len(wrapped[t]) = worker[w].level
        /\ Target[t][worker[w].level] \in contract \cup {Null}
        /\ Depth[t] \in Nat
    BY Busy, TransactionsAssumption
       DEF InsertWrapped, At, WorkerInv, OwnerAtEnd, ContractsKnown, Owning, Step
  <1>2. /\ UNCHANGED <<contract, transaction, transactionInput, transactionParams,
                       wrappedInput, wrappedParams, routed, launched, faults>>
    BY DEF InsertWrapped, tables
  <1>3. CASE k > Depth[t]
    BY <1>3, <1>2, Returning DEF InsertWrapped, wrappedTables, IInv, TypeOK
  <1>4. CASE k <= Depth[t]
    <2>1. PICK row \in WrappedRow :
            /\ row.level = k
            /\ wrapped' = [wrapped EXCEPT ![t] = Append(@, row)]
            /\ lastId' = lastId + 1
            /\ worker' = [worker EXCEPT ![w].at = "wrappedContract",
                                        ![w].level = row.level, ![w].id = lastId']
      BY <1>4, UnwrappedRow
    <2>2. /\ wrapped[t] \in Seq(WrappedRow)
          /\ wrapped'[t] = Append(wrapped[t], row)
          /\ \A u \in Tx : u # t => wrapped'[u] = wrapped[u]
      BY <1>1, <2>1 DEF IInv, TypeOK
    <2>3. /\ Len(wrapped'[t]) = k
          /\ \A i \in 1..Len(wrapped[t]) : wrapped'[t][i] = wrapped[t][i]
          /\ wrapped'[t][k] = row
          /\ wrapped'[t] # <<>> /\ wrapped'[t] \in Seq(WrappedRow)
          /\ DOMAIN wrapped'[t] = 1..k /\ DOMAIN wrapped[t] = 1..(k - 1)
      BY <1>1, <2>2
    <2>4. /\ worker'[w] = [worker[w] EXCEPT !.at = "wrappedContract", !.level = k, !.id = lastId']
          /\ \A v \in Worker : v # w => worker'[v] = worker[v]
      BY <2>1 DEF IInv, TypeOK
    <2>5. /\ worker'[w].at = "wrappedContract" /\ worker'[w].tx = t
          /\ worker'[w].level = k
      BY <2>4 DEF IInv, TypeOK
    <2>6. TypeOK'
      <3>1. wrapped' \in [Tx -> Seq(WrappedRow)]
        BY <2>1, <2>3, <1>1 DEF IInv, TypeOK
      <3>2. worker'[w] \in [at : Step, tx : Tx \cup {Null}, level : Nat,
                            parent : Nat \cup {Null}, id : Nat]
        BY <1>1, <2>1, <2>4 DEF IInv, TypeOK, Step
      <3> QED BY <1>2, <2>1, <3>1, <3>2 DEF IInv, TypeOK
    <2>7. WorkerInv(w)'
      BY <1>1, <1>2, <1>4, <2>3, <2>5
         DEF WorkerInv, LevelExists, LevelFits, OwnerAtEnd, ContractsKnown, Owning, Step
    <2>8. ASSUME NEW v \in Worker PROVE WorkerInv(v)'
      <3>1. CASE v = w BY <2>7, <3>1
      <3>2. CASE v # w
        <4>1. worker[v].at \in Owning => worker[v].tx # t /\ worker[v].tx \in Tx
          BY <1>1, <3>2, Busy DEF IInv, OneOwner, Owning, Step
        <4>2. worker[v].at \in Owning => wrapped'[worker[v].tx] = wrapped[worker[v].tx]
          BY <2>2, <4>1
        <4>3. WorkerInv(v) BY DEF IInv
        <4> QED BY <1>2, <2>4, <3>2, <4>2, <4>3, Bystander
      <3> QED BY <3>1, <3>2
    <2>9. OneOwner'
      <3>1. \A v \in Worker : worker'[v].at \in Owning =>
                                worker[v].at \in Owning /\ worker'[v].tx = worker[v].tx
        BY <1>1, <2>4, <2>5 DEF Owning, Step
      <3> QED BY <3>1 DEF IInv, OneOwner
    <2>10. WrappedOfRecorded'
      BY <1>1, <1>2, <2>2 DEF IInv, WrappedOfRecorded
    <2>11. WrappedOnce'
      BY <1>1, <2>1, <2>2, <2>3 DEF IInv, WrappedOnce
    <2>12. SendersKnown'
      <3>1. ASSUME NEW u \in Tx PROVE u \in transaction' => Sender[u] \in contract'
        BY <1>2 DEF IInv, SendersKnown
      <3>2. ASSUME NEW u \in Tx, NEW i \in DOMAIN wrapped'[u]
            PROVE  Target[u][i - 1] \in contract' \cup {Null}
        <4>1. CASE u = t /\ i = k BY <1>1, <1>2, <4>1
        <4>2. CASE ~ (u = t /\ i = k)
          <5>1. i \in DOMAIN wrapped[u] BY <1>1, <2>2, <2>3, <3>2, <4>2
          <5> QED BY <1>2, <5>1 DEF IInv, SendersKnown
        <4> QED BY <4>1, <4>2
      <3> QED BY <3>1, <3>2 DEF SendersKnown
    <2> QED BY <2>6, <2>8, <2>9, <2>10, <2>11, <2>12 DEF IInv
  <1> QED BY <1>1, <1>3, <1>4

-----------------------------------------------------------------------------
(* Failures.                                                               *)

LEMMA StepCrash == ASSUME IInv, Crash PROVE IInv'
  <1>1. \A w \in Worker : worker'[w] = Idle BY DEF Crash
  <1>2. TypeOK'
    BY TransactionsAssumption
       DEF Crash, Fault, IInv, TypeOK, Idle, Step, tables, wrappedTables
  <1>3. (\A w \in Worker : WorkerInv(w)') /\ OneOwner'
    BY <1>1 DEF Idle, WorkerInv, LevelExists, LevelFits, OwnerAtEnd, ContractsKnown,
                OneOwner, Owning
  <1>4. WrappedOfRecorded' /\ WrappedOnce' /\ SendersKnown'
    BY DEF Crash, IInv, WrappedOfRecorded, WrappedOnce, SendersKnown, tables, wrappedTables
  <1> QED BY <1>2, <1>3, <1>4 DEF IInv

LEMMA StepPreserves == IInv /\ [Next]_vars => IInv'
  <1> SUFFICES ASSUME IInv, [Next]_vars PROVE IInv' OBVIOUS
  <1>1. CASE UNCHANGED vars
    <2>1. UNCHANGED <<contract, tables, wrappedTables, routed, worker, launched, faults>>
      BY <1>1 DEF vars
    <2>2. TypeOK' BY <2>1 DEF tables, wrappedTables, IInv, TypeOK
    <2>3. ASSUME NEW v \in Worker PROVE WorkerInv(v)'
      <3>1. WorkerInv(v) BY DEF IInv
      <3> QED BY <2>1, <3>1, Bystander DEF tables, wrappedTables
    <2>4. OneOwner' /\ WrappedOfRecorded' /\ WrappedOnce' /\ SendersKnown'
      BY <2>1 DEF tables, wrappedTables, IInv, OneOwner, WrappedOfRecorded, WrappedOnce,
                  SendersKnown
    <2> QED BY <2>2, <2>3, <2>4 DEF IInv
  <1>2. ASSUME NEW w \in Worker, WorkerFails(w) PROVE IInv'
    <2>1. transactionInput \subseteq Tx /\ faults \in 0..MaxFaults BY DEF IInv, TypeOK
    <2>2. faults' \in 0..MaxFaults
      BY <1>2, <2>1, TransactionsAssumption DEF WorkerFails, Fault
    <2>3. transactionInput' \subseteq Tx BY <1>2, <2>1 DEF WorkerFails, tables
    <2> QED BY <1>2, <2>2, <2>3, Returning DEF WorkerFails, tables
  <1>3. ASSUME NEW w \in Worker, Refuse(w) PROVE IInv'
    <2>1. transactionInput' \subseteq Tx /\ faults' \in 0..MaxFaults
      BY <1>3 DEF Refuse, tables, IInv, TypeOK
    <2> QED BY <1>3, <2>1, Returning DEF Refuse, tables
  <1> QED
    BY <1>1, <1>2, <1>3, StepBeforeRow, StepOfOwner, StepRow, StepWrapped, StepCrash
       DEF Next, WorkerSteps

LEMMA Invariance == Spec => []IInv
  BY InitEstablishes, StepPreserves, PTL DEF Spec

-----------------------------------------------------------------------------
(* Every variable keeps its type.                                          *)
THEOREM TypeCorrectness == Spec => []TypeOK
  <1>1. IInv => TypeOK BY DEF IInv
  <1> QED BY <1>1, Invariance, PTL

(* At most one worker is past the insert of a transaction's row, however   *)
(* many were handed the same transaction (transactions.service.ts:47-59).  *)
THEOREM SingleOwner == Spec => []OneOwner
  <1>1. IInv => OneOwner BY DEF IInv
  <1> QED BY <1>1, Invariance, PTL

(* The wrapped transactions of a transaction are recorded once each, outer *)
(* before inner, whatever failed (transactions.service.ts:168-195).        *)
THEOREM NoDuplicates == Spec => []WrappedOnce
  <1>1. IInv => WrappedOnce BY DEF IInv
  <1> QED BY <1>1, Invariance, PTL

(* The sender of a recorded transaction, and the contract that sent each   *)
(* of its wrapped ones, is in the table of contracts to identify.          *)
THEOREM SendersIdentified == Spec => []SendersKnown
  <1>1. IInv => SendersKnown BY DEF IInv
  <1> QED BY <1>1, Invariance, PTL

-----------------------------------------------------------------------------
(* Without faults, a row in the table is complete or being completed.      *)

Own(w) == worker[w].at \in Owning

(* What an owner has done by the step it is at: the rows of the levels     *)
(* above its own are complete, its own up to the step.                     *)
TopDone(w) ==
  /\ worker[w].at # "input" => worker[w].tx \in transactionInput \cap Decoded
  /\ worker[w].at \notin {"input", "params"} => worker[w].tx \in transactionParams
  /\ worker[w].at \in {"input", "params", "route"} => worker[w].level = 0

RowsDone(w) ==
  LET t == worker[w].tx
      k == worker[w].level IN
  /\ \A i \in DOMAIN wrapped[t] :
       i < k \/ worker[w].at \in {"unwrap", "wrappedRoute"} =>
         wrapped[t][i].id \in wrappedInput \cap wrappedParams
  /\ worker[w].at \in {"wrappedContract", "wrappedInput", "wrappedParams"} =>
       k \in DOMAIN wrapped[t] /\ wrapped[t][k].id = worker[w].id
  /\ worker[w].at = "wrappedParams" => worker[w].id \in wrappedInput

RoutedDone(w) ==
  \A k \in SetsData[worker[w].tx] :
    k < worker[w].level \/ (k = worker[w].level /\ worker[w].at = "unwrap") =>
      <<k, worker[w].tx>> \in routed

Progress(w) == Own(w) => TopDone(w) /\ RowsDone(w) /\ RoutedDone(w)

Accounted ==
  \A t \in transaction :
    Refused[t] = {} => Complete(t) \/ \E w \in Worker : worker[w].tx = t /\ Own(w)

Undisturbed == faults = 0 => Accounted /\ \A w \in Worker : Progress(w)

(* Rows, once written, stay.                                               *)
Grows ==
  /\ transaction \subseteq transaction' /\ routed \subseteq routed'
  /\ transactionInput \subseteq transactionInput'
  /\ transactionParams \subseteq transactionParams'
  /\ wrappedInput \subseteq wrappedInput' /\ wrappedParams \subseteq wrappedParams'

(* A step of worker w keeps all accounted for when w keeps its part, and   *)
(* lets go of a transaction only once it is complete or refused.           *)
LEMMA Accounting ==
  ASSUME IInv, Accounted, \A v \in Worker : Progress(v), NEW w \in Worker, Grows,
         \A v \in Worker : v # w => worker'[v] = worker[v],
         \A u \in Tx : wrapped'[u] = wrapped[u] \/ (Own(w) /\ worker[w].tx = u),
         \A u \in transaction' : u \in transaction \/ (Own(w)' /\ worker'[w].tx = u),
         \A u \in Tx : Own(w) /\ worker[w].tx = u =>
                         \/ Refused[u] # {} \/ Complete(u)'
                         \/ Own(w)' /\ worker'[w].tx = u,
         Progress(w)'
  PROVE  Undisturbed'
  <1>1. ASSUME NEW v \in Worker, v # w PROVE Progress(v)'
    <2>1. SUFFICES ASSUME Own(v) PROVE Progress(v)'
      BY <1>1 DEF Own, Progress
    <2>2. worker[v].tx \in Tx BY <2>1, Busy DEF Own, Owning, Step
    <2>3. wrapped'[worker[v].tx] = wrapped[worker[v].tx]
      BY <1>1, <2>1, <2>2 DEF IInv, OneOwner, Own
    <2>4. TopDone(v) /\ RowsDone(v) /\ RoutedDone(v) BY <2>1 DEF Progress
    <2>5. TopDone(v)' BY <1>1, <2>4 DEF TopDone, Grows
    <2>6. RowsDone(v)' BY <1>1, <2>3, <2>4 DEF RowsDone, Grows
    <2>7. RoutedDone(v)' BY <1>1, <2>4 DEF RoutedDone, Grows
    <2> QED BY <2>5, <2>6, <2>7 DEF Progress
  <1>2. ASSUME NEW u \in transaction', Refused[u] = {}
        PROVE  Complete(u)' \/ \E v \in Worker : worker'[v].tx = u /\ Own(v)'
    <2>1. CASE u \notin transaction BY <2>1, <1>2
    <2>2. CASE u \in transaction /\ Own(w) /\ worker[w].tx = u
      BY <1>2, <2>2 DEF IInv, TypeOK
    <2>3. CASE u \in transaction /\ ~ (Own(w) /\ worker[w].tx = u)
      <3>1. u \in Tx /\ wrapped'[u] = wrapped[u] BY <2>3 DEF IInv, TypeOK
      <3>2. CASE Complete(u) BY <3>1, <3>2 DEF Complete, Grows
      <3>3. CASE \E v \in Worker : worker[v].tx = u /\ Own(v)
        BY <2>3, <3>3 DEF Own
      <3> QED BY <1>2, <2>3, <3>2, <3>3 DEF Accounted
    <2> QED BY <2>1, <2>2, <2>3
  <1> QED BY <1>1, <1>2 DEF Undisturbed, Accounted

(* In particular, when w moves on to step s with what it owns.             *)
LEMMA OwnerGoesOn ==
  ASSUME IInv, Accounted, \A v \in Worker : Progress(v), NEW w \in Worker, NEW s \in Owning,
         Own(w), GoTo(w, s), Grows, UNCHANGED <<transaction, wrapped>>,
         TopDone(w)' /\ RowsDone(w)' /\ RoutedDone(w)'
  PROVE  Undisturbed'
  <1>1. /\ worker'[w] = [worker[w] EXCEPT !.at = s]
        /\ \A v \in Worker : v # w => worker'[v] = worker[v]
    BY DEF GoTo, IInv, TypeOK
  <1>2. worker'[w].at = s /\ worker'[w].tx = worker[w].tx
    BY <1>1 DEF IInv, TypeOK
  <1>3. Own(w)' /\ Progress(w)' BY <1>2 DEF Own, Progress
  <1> QED BY <1>1, <1>2, <1>3, Accounting

(* Until it inserts the row, a worker owes nothing.                        *)
LEMMA BeforeRow ==
  ASSUME IInv, Undisturbed, NEW w \in Worker, ~ Own(w), ~ Own(w)', faults = 0,
         \A v \in Worker : v # w => worker'[v] = worker[v],
         UNCHANGED <<tables, wrappedTables, routed>>
  PROVE  Undisturbed'
  <1>1. Grows /\ Progress(w)' BY DEF tables, wrappedTables, Grows, Progress
  <1> QED BY <1>1, Accounting DEF Undisturbed, tables, wrappedTables

LEMMA UndisturbedBeforeRow ==
  ASSUME IInv, Undisturbed, faults = 0, NEW w \in Worker,
         \/ \E t \in Tx : Launch(w, t)
         \/ CheckIndexed(w) \/ InsertFrom(w) \/ InsertTo(w)
         \/ InsertTransaction(w) /\ worker[w].tx \in transaction
  PROVE  Undisturbed'
  <1>1. ~ Own(w)
    BY DEF Own, Owning, Launch, CheckIndexed, InsertFrom, InsertTo, InsertTransaction, At
  <1>2. worker'[w].at \notin Owning /\ \A v \in Worker : v # w => worker'[v] = worker[v]
    <2>1. CASE \E t \in Tx : Launch(w, t)
      <3>1. PICK t \in Tx : Launch(w, t) BY <2>1
      <3>2. /\ worker'[w] = [Idle EXCEPT !.at = "check", !.tx = t]
            /\ \A v \in Worker : v # w => worker'[v] = worker[v]
        BY <3>1 DEF Launch, IInv, TypeOK
      <3>3. worker'[w].at = "check" BY <3>2 DEF Idle
      <3> QED BY <3>2, <3>3 DEF Owning
    <2>2. CASE CheckIndexed(w)
      BY <2>2 DEF CheckIndexed, GoTo, Return, Idle, Owning, IInv, TypeOK
    <2>3. CASE InsertFrom(w) \/ InsertTo(w)
      BY <2>3 DEF InsertFrom, InsertTo, GoTo, Owning, IInv, TypeOK
    <2>4. CASE InsertTransaction(w) /\ worker[w].tx \in transaction
      BY <2>4 DEF InsertTransaction, Return, Idle, Owning, IInv, TypeOK
    <2> QED BY <2>1, <2>2, <2>3, <2>4
  <1>3. UNCHANGED <<tables, wrappedTables, routed>>
    BY DEF Launch, CheckIndexed, InsertFrom, InsertTo, InsertTransaction, tables, wrappedTables
  <1> QED BY <1>1, <1>2, <1>3, BeforeRow DEF Own

LEMMA UndisturbedRow ==
  ASSUME IInv, Undisturbed, faults = 0, NEW w \in Worker,
         InsertTransaction(w), worker[w].tx \notin transaction
  PROVE  Undisturbed'
  <1>1. /\ worker[w].at = "row" /\ worker[w].tx \in Tx /\ worker[w].level = 0
        /\ Depth[worker[w].tx] \in Nat
    BY Busy, TransactionsAssumption DEF InsertTransaction, At, WorkerInv, LevelFits
  <1>2. /\ worker'[w] = [worker[w] EXCEPT !.at = "input"]
        /\ \A v \in Worker : v # w => worker'[v] = worker[v]
    BY DEF InsertTransaction, GoTo, IInv, TypeOK
  <1>3. worker'[w].at = "input" /\ worker'[w].tx = worker[w].tx /\ worker'[w].level = 0
    BY <1>1, <1>2 DEF IInv, TypeOK
  <1>4. transaction' = transaction \cup {worker[w].tx}
        /\ UNCHANGED <<transactionInput, transactionParams, wrappedTables, routed>>
    BY DEF InsertTransaction
  <1>5. wrapped'[worker[w].tx] = <<>>
    BY <1>1, <1>4 DEF IInv, WrappedOfRecorded, wrappedTables
  <1>6. \A k \in SetsData[worker[w].tx] : ~ (k < 0)
    BY <1>1, TransactionsAssumption
  <1>7. Own(w)' /\ ~ Own(w) BY <1>1, <1>3 DEF Own, Owning, Step
  <1>8. Progress(w)' BY <1>3, <1>5, <1>6 DEF Progress, TopDone, RowsDone, RoutedDone
  <1> QED
    BY <1>2, <1>3, <1>4, <1>7, <1>8, Accounting DEF Undisturbed, Grows, wrappedTables

(* Facts about an owner.                                                   *)
LEMMA OwnerFacts ==
  ASSUME IInv, Undisturbed, faults = 0, NEW w \in Worker, Own(w)
  PROVE  /\ worker[w].tx \in Tx /\ worker[w].tx \in transaction
         /\ worker[w].level \in Nat /\ worker[w].level <= Depth[worker[w].tx]
         /\ Depth[worker[w].tx] \in Nat
         /\ SetsData[worker[w].tx] \subseteq 0..Depth[worker[w].tx]
         /\ wrapped[worker[w].tx] \in Seq(WrappedRow)
         /\ Len(wrapped[worker[w].tx]) = worker[w].level
         /\ DOMAIN wrapped[worker[w].tx] = 1..worker[w].level
         /\ TopDone(w) /\ RowsDone(w) /\ RoutedDone(w)
         /\ Accounted /\ \A v \in Worker : Progress(v)
  <1>1. /\ worker[w].tx \in Tx /\ worker[w].level \in 0..Depth[worker[w].tx] /\ WorkerInv(w)
    BY Busy DEF Own, Owning
  <1>2. /\ worker[w].tx \in transaction /\ Len(wrapped[worker[w].tx]) = worker[w].level
        /\ wrapped[worker[w].tx] \in Seq(WrappedRow)
    BY <1>1 DEF Own, WorkerInv, OwnerAtEnd, IInv, TypeOK
  <1> QED
    BY <1>1, <1>2, TransactionsAssumption DEF Undisturbed, Progress

(* A worker that returns leaves its transaction complete.                  *)
LEMMA OwnerEnds ==
  ASSUME IInv, Undisturbed, faults = 0, NEW w \in Worker, Own(w), Return(w), Grows,
         UNCHANGED <<transaction, wrapped>>, NEW t \in Tx, t = worker[w].tx, Complete(t)'
  PROVE  Undisturbed'
  <1>1. worker'[w] = Idle /\ \A v \in Worker : v # w => worker'[v] = worker[v]
    BY DEF Return, IInv, TypeOK
  <1>2. Progress(w)' BY <1>1 DEF Progress, Own, Idle, Owning
  <1> QED BY <1>1, <1>2, Accounting, OwnerFacts

LEMMA UndisturbedTop ==
  ASSUME IInv, Undisturbed, faults = 0, NEW w \in Worker,
         InsertInput(w) \/ InsertParams(w) \/ RouteTransaction(w)
  PROVE  Undisturbed'
  <1> DEFINE t == worker[w].tx
  <1> USE DEF Owning, Step, At
  <1>1. Own(w) BY DEF Own, InsertInput, InsertParams, RouteTransaction, Route
  <1>2. worker[w].level = 0 /\ DOMAIN wrapped[t] = {} /\ Len(wrapped[t]) = 0
    BY <1>1, OwnerFacts DEF TopDone, InsertInput, InsertParams, RouteTransaction, Route
  <1>3. UNCHANGED <<transaction, wrapped, wrappedInput, wrappedParams>>
    BY DEF InsertInput, InsertParams, RouteTransaction, Route, tables, wrappedTables
  <1>4. Grows
    BY <1>3 DEF Grows, InsertInput, InsertParams, RouteTransaction, Route, tables, wrappedTables
  <1>5. \A k \in SetsData[t] : k \in Nat
    BY <1>1, OwnerFacts
  <1>6. ASSUME NEW s \in Owning, GoTo(w, s)
        PROVE  /\ worker'[w].at = s /\ worker'[w].tx = t /\ worker'[w].level = 0
               /\ worker'[w].id = worker[w].id
    BY <1>2, <1>6 DEF GoTo, IInv, TypeOK
  <1>7. CASE InsertInput(w)
    <2>1. transactionInput' = transactionInput \cup {t} BY <1>7 DEF InsertInput
    <2>2. CASE t \in Decoded
      <3>1. GoTo(w, "params") BY <1>7, <2>2 DEF InsertInput
      <3>2. worker'[w].at = "params" /\ worker'[w].tx = t /\ worker'[w].level = 0
        BY <1>6, <3>1
      <3>3. TopDone(w)' /\ RowsDone(w)' /\ RoutedDone(w)'
        BY <1>2, <1>3, <1>5, <2>1, <2>2, <3>2 DEF TopDone, RowsDone, RoutedDone
      <3> QED BY <1>1, <1>3, <1>4, <3>1, <3>3, OwnerGoesOn, OwnerFacts
    <2>3. CASE t \notin Decoded
      <3>1. Return(w) BY <1>7, <2>3 DEF InsertInput
      <3>2. PICK u \in Tx : u = t BY <1>1, OwnerFacts
      <3>3. Depth[u] = 0 /\ SetsData[u] = {} /\ u \in transaction
        BY <1>1, <2>3, <3>2, OwnerFacts, TransactionsAssumption
      <3>4. Complete(u)' BY <1>2, <1>3, <2>1, <2>3, <3>2, <3>3 DEF Complete
      <3> QED BY <1>1, <1>3, <1>4, <3>1, <3>2, <3>4, OwnerEnds
    <2> QED BY <2>2, <2>3
  <1>8. CASE InsertParams(w)
    <2>1. /\ worker[w].at = "params" /\ GoTo(w, "route")
          /\ transactionParams' = transactionParams \cup {t}
          /\ UNCHANGED <<transactionInput, routed>>
      BY <1>8 DEF InsertParams
    <2>2. worker'[w].at = "route" /\ worker'[w].tx = t /\ worker'[w].level = 0
      BY <1>6, <2>1
    <2>3. TopDone(w) BY <1>1, OwnerFacts
    <2>4. TopDone(w)' BY <2>1, <2>2, <2>3 DEF TopDone
    <2>5. RowsDone(w)' /\ RoutedDone(w)'
      BY <1>2, <1>3, <1>5, <2>2 DEF RowsDone, RoutedDone
    <2> QED BY <1>1, <1>3, <1>4, <2>1, <2>4, <2>5, OwnerGoesOn, OwnerFacts
  <1>9. CASE RouteTransaction(w)
    <2>1. /\ worker[w].at = "route" /\ GoTo(w, "unwrap")
          /\ routed' = routed \cup (({worker[w].level} \cap SetsData[t]) \X {t})
          /\ UNCHANGED <<transactionInput, transactionParams>>
      BY <1>9 DEF RouteTransaction, Route, tables
    <2>2. worker'[w].at = "unwrap" /\ worker'[w].tx = t /\ worker'[w].level = 0
      BY <1>6, <2>1
    <2>3. TopDone(w) BY <1>1, OwnerFacts
    <2>4. TopDone(w)' BY <2>1, <2>2, <2>3 DEF TopDone
    <2>5. RowsDone(w)' /\ RoutedDone(w)'
      BY <1>2, <1>3, <1>5, <2>1, <2>2 DEF RowsDone, RoutedDone
    <2> QED BY <1>1, <1>3, <1>4, <2>1, <2>4, <2>5, OwnerGoesOn, OwnerFacts
  <1> QED BY <1>7, <1>8, <1>9

LEMMA UndisturbedUnwrap ==
  ASSUME IInv, Undisturbed, faults = 0, NEW w \in Worker, InsertWrapped(w)
  PROVE  Undisturbed'
  <1> DEFINE t == worker[w].tx
             k == worker[w].level + 1
  <1>1. Own(w) /\ worker[w].at = "unwrap" BY DEF Own, Owning, Step, InsertWrapped, At
  <1>2. /\ t \in Tx /\ t \in transaction /\ worker[w].level \in Nat
        /\ worker[w].level <= Depth[t] /\ Depth[t] \in Nat
        /\ SetsData[t] \subseteq 0..Depth[t]
        /\ wrapped[t] \in Seq(WrappedRow) /\ Len(wrapped[t]) = worker[w].level
        /\ DOMAIN wrapped[t] = 1..worker[w].level
        /\ TopDone(w) /\ RowsDone(w) /\ RoutedDone(w)
    BY <1>1, OwnerFacts
  <1>3. /\ Grows
        /\ UNCHANGED <<transaction, transactionInput, transactionParams, wrappedInput,
                       wrappedParams, routed>>
    BY DEF InsertWrapped, tables, Grows
  <1>4. CASE k > Depth[t]
    <2>1. Return(w) /\ UNCHANGED wrapped BY <1>4 DEF InsertWrapped
    <2>2. worker[w].level = Depth[t] BY <1>2, <1>4
    <2>3. \A i \in DOMAIN wrapped[t] : wrapped[t][i].id \in wrappedInput \cap wrappedParams
      BY <1>1, <1>2 DEF RowsDone
    <2>4. \A l \in SetsData[t] : <<l, t>> \in routed
      BY <1>1, <1>2, <2>2 DEF RoutedDone
    <2>5. Complete(t) BY <1>1, <1>2, <2>2, <2>3, <2>4 DEF Complete, TopDone
    <2>6. PICK u \in Tx : u = t BY <1>2
    <2>7. Complete(u)' BY <1>3, <2>1, <2>5, <2>6 DEF Complete
    <2> QED BY <1>1, <1>3, <2>1, <2>6, <2>7, OwnerEnds
  <1>5. CASE k <= Depth[t]
    <2>1. /\ lastId' = lastId + 1
          /\ wrapped' = [wrapped EXCEPT ![t] =
               Append(@, [id |-> lastId', level |-> k, parent |-> worker[w].parent])]
          /\ worker' = [worker EXCEPT ![w].at = "wrappedContract",
                                      ![w].level = k, ![w].id = lastId']
      BY <1>2, <1>5 DEF InsertWrapped
    <2> DEFINE row == [id |-> lastId', level |-> k, parent |-> worker[w].parent]
    <2>2. /\ wrapped'[t] = Append(wrapped[t], row)
          /\ \A u \in Tx : u # t => wrapped'[u] = wrapped[u]
      BY <1>2, <2>1 DEF IInv, TypeOK
    <2>3. row \in WrappedRow
      BY <1>2, <2>1 DEF WrappedRow, IInv, TypeOK
    <2>4. row.id = lastId' OBVIOUS
    <2> HIDE DEF row
    <2>5. /\ DOMAIN wrapped'[t] = 1..k
          /\ \A i \in 1..worker[w].level : wrapped'[t][i] = wrapped[t][i]
          /\ wrapped'[t][k] = row
      BY <1>2, <2>2, <2>3
    <2>6. /\ worker'[w].at = "wrappedContract" /\ worker'[w].tx = t
          /\ worker'[w].level = k /\ worker'[w].id = lastId'
          /\ \A v \in Worker : v # w => worker'[v] = worker[v]
      BY <2>1 DEF IInv, TypeOK
    <2>7. TopDone(w)' BY <1>1, <1>2, <1>3, <2>6 DEF TopDone
    <2>8. RowsDone(w)'
      <3>1. \A i \in 1..worker[w].level :
              wrapped[t][i].id \in wrappedInput \cap wrappedParams
        BY <1>1, <1>2 DEF RowsDone
      <3>2. \A i \in 1..k : i < k => i \in 1..worker[w].level BY <1>2
      <3>3. k \in 1..k BY <1>2
      <3> QED BY <1>3, <2>4, <2>5, <2>6, <3>1, <3>2, <3>3 DEF RowsDone
    <2>9. RoutedDone(w)'
      <3>1. \A l \in SetsData[t] : l < k => <<l, t>> \in routed
        BY <1>1, <1>2 DEF RoutedDone
      <3> QED BY <1>3, <2>6, <3>1 DEF RoutedDone
    <2>10. Own(w)' /\ Progress(w)'
      BY <2>6, <2>7, <2>8, <2>9 DEF Progress, Own, Owning, Step
    <2> QED BY <1>1, <1>3, <2>2, <2>6, <2>10, Accounting, OwnerFacts
  <1> QED BY <1>2, <1>4, <1>5

LEMMA UndisturbedInside ==
  ASSUME IInv, Undisturbed, faults = 0, NEW w \in Worker,
         \/ InsertWrappedContract(w) \/ InsertWrappedInput(w)
         \/ InsertWrappedParams(w) \/ RouteWrapped(w)
  PROVE  Undisturbed'
  <1> DEFINE t == worker[w].tx
             k == worker[w].level
  <1> USE DEF Owning, Step, At
  <1>1. /\ Own(w)
        /\ worker[w].at \in {"wrappedContract", "wrappedInput", "wrappedParams", "wrappedRoute"}
    BY DEF Own, InsertWrappedContract, InsertWrappedInput, InsertWrappedParams, RouteWrapped, Route
  <1>2. /\ k \in Nat /\ SetsData[t] \subseteq 0..Depth[t] /\ Depth[t] \in Nat
        /\ DOMAIN wrapped[t] = 1..k
        /\ TopDone(w) /\ RowsDone(w) /\ RoutedDone(w)
        /\ Accounted /\ \A v \in Worker : Progress(v)
    BY <1>1, OwnerFacts
  <1>3. UNCHANGED <<transaction, wrapped, transactionInput, transactionParams>>
    BY DEF InsertWrappedContract, InsertWrappedInput, InsertWrappedParams, RouteWrapped, Route,
           tables, wrappedTables
  <1>4. Grows
    BY <1>3 DEF Grows, InsertWrappedContract, InsertWrappedInput, InsertWrappedParams,
                RouteWrapped, Route, tables, wrappedTables
  <1>5. PICK s \in {"wrappedInput", "wrappedParams", "wrappedRoute", "unwrap"} : GoTo(w, s)
    BY DEF InsertWrappedContract, InsertWrappedInput, InsertWrappedParams, RouteWrapped, Route
  <1>6. /\ worker'[w].at = s /\ worker'[w].tx = t /\ worker'[w].level = k
        /\ worker'[w].id = worker[w].id
    BY <1>5 DEF GoTo, IInv, TypeOK
  <1>7. TopDone(w)' BY <1>1, <1>2, <1>3, <1>5, <1>6 DEF TopDone
  <1>8. RowsDone(w)'
    <2>0. GoTo(w, s) /\ worker \in [Worker -> [at : Step, tx : Tx \cup {Null}, level : Nat,
                                             parent : Nat \cup {Null}, id : Nat]]
      BY <1>5 DEF IInv, TypeOK
    <2>1. CASE InsertWrappedContract(w)
      <3>1. s = "wrappedInput" /\ worker[w].at = "wrappedContract"
            /\ UNCHANGED <<wrappedInput, wrappedParams>>
        BY <2>0, <2>1, <1>6 DEF InsertWrappedContract, GoTo, wrappedTables
      <3> QED BY <1>2, <1>3, <1>6, <3>1 DEF RowsDone
    <2>2. CASE InsertWrappedInput(w)
      <3>1. s = "wrappedParams" /\ worker[w].at = "wrappedInput"
            /\ wrappedInput' = wrappedInput \cup {worker[w].id} /\ UNCHANGED wrappedParams
        BY <2>0, <2>2, <1>6 DEF InsertWrappedInput, GoTo
      <3> QED BY <1>2, <1>3, <1>6, <3>1 DEF RowsDone
    <2>3. CASE InsertWrappedParams(w)
      <3>1. s = "wrappedRoute" /\ worker[w].at = "wrappedParams"
            /\ wrappedParams' = wrappedParams \cup {worker[w].id} /\ UNCHANGED wrappedInput
        BY <2>0, <2>3, <1>6 DEF InsertWrappedParams, GoTo
      <3>2. wrapped[t][k].id \in wrappedInput' \cap wrappedParams'
        BY <1>2, <3>1 DEF RowsDone
      <3>3. \A i \in 1..k : i < k => wrapped[t][i].id \in wrappedInput' \cap wrappedParams'
        BY <1>2, <3>1 DEF RowsDone
      <3>4. \A i \in 1..k : i < k \/ i = k BY <1>2
      <3> QED BY <1>2, <1>3, <1>6, <3>1, <3>2, <3>3, <3>4 DEF RowsDone
    <2>4. CASE RouteWrapped(w)
      <3>1. s = "unwrap" /\ worker[w].at = "wrappedRoute"
            /\ UNCHANGED <<wrappedInput, wrappedParams>>
        BY <2>0, <2>4, <1>6 DEF RouteWrapped, Route, GoTo, wrappedTables
      <3> QED BY <1>2, <1>3, <1>6, <3>1 DEF RowsDone
    <2> QED BY <2>1, <2>2, <2>3, <2>4
  <1>9. RoutedDone(w)'
    <2>1. CASE RouteWrapped(w)
      <3>1. routed' = routed \cup (({k} \cap SetsData[t]) \X {t})
        BY <2>1 DEF RouteWrapped, Route
      <3> QED BY <1>1, <1>2, <1>6, <3>1 DEF RoutedDone
    <2>2. CASE ~ RouteWrapped(w)
      <3>1. UNCHANGED routed /\ worker'[w].at # "unwrap"
        BY <2>2, <1>6
           DEF InsertWrappedContract, InsertWrappedInput, InsertWrappedParams, GoTo, IInv, TypeOK
      <3> QED BY <1>1, <1>2, <1>6, <3>1 DEF RoutedDone
    <2> QED BY <2>1, <2>2
  <1> QED BY <1>1, <1>2, <1>3, <1>4, <1>5, <1>7, <1>8, <1>9, OwnerGoesOn

(* A worker gives up where a value is refused.                             *)
LEMMA UndisturbedRefusal ==
  ASSUME IInv, Undisturbed, faults = 0, NEW w \in Worker, Refuse(w)
  PROVE  Undisturbed'
  <1>1. /\ worker'[w] = Idle /\ \A v \in Worker : v # w => worker'[v] = worker[v]
        /\ UNCHANGED <<tables, wrappedTables, routed>>
    BY DEF Refuse, Return, IInv, TypeOK
  <1>2. Grows BY <1>1 DEF Grows, tables, wrappedTables
  <1>3. ~ Own(w)' /\ Progress(w)' BY <1>1 DEF Progress, Own, Idle, Owning
  <1>4. Refused[worker[w].tx] # {} BY DEF Refuse, Fits
  <1> QED
    BY <1>1, <1>2, <1>3, <1>4, Accounting DEF Undisturbed, tables, wrappedTables

LEMMA StepUndisturbed == ASSUME IInv, Undisturbed, [Next]_vars PROVE Undisturbed'
  <1>1. SUFFICES ASSUME faults' = 0 PROVE Undisturbed' BY DEF Undisturbed
  <1>2. ~ Fault
    BY <1>1, TransactionsAssumption DEF Fault, IInv, TypeOK
  <1>3. CASE UNCHANGED vars
    <2>1. UNCHANGED <<transaction, transactionInput, transactionParams, wrapped, wrappedInput,
                      wrappedParams, routed, worker, faults>>
      BY <1>3 DEF vars, tables, wrappedTables
    <2>2. Accounted' /\ \A w \in Worker : Progress(w)'
      BY <1>1, <2>1 DEF Undisturbed, Accounted, Complete, Own, Progress, TopDone, RowsDone,
                        RoutedDone
    <2> QED BY <2>2 DEF Undisturbed
  <1>4. ASSUME NEW w \in Worker, (\E t \in Tx : Launch(w, t)) \/ WorkerSteps(w)
        PROVE  Undisturbed'
    <2>1. faults = 0
      BY <1>1, <1>4 DEF WorkerSteps, Launch, CheckIndexed, InsertFrom, InsertTo,
         InsertTransaction, InsertInput, InsertParams, RouteTransaction, Route, InsertWrapped,
         InsertWrappedContract, InsertWrappedInput, InsertWrappedParams, RouteWrapped, Refuse
    <2> QED
      BY <1>4, <2>1, UndisturbedRefusal, UndisturbedBeforeRow, UndisturbedRow, UndisturbedTop, UndisturbedUnwrap,
         UndisturbedInside DEF WorkerSteps
  <1> QED BY <1>2, <1>3, <1>4 DEF Next, RouteFails, WorkerFails, Crash

(* Without faults a transaction in the table whose values fit their        *)
(* columns is complete or being completed, however many workers were       *)
(* handed it: isTransactionIndexed may take the row for the whole          *)
(* (transactions.service.ts:47).                                           *)
THEOREM RowsComplete == Spec => []RowMeansComplete
  <1>1. Init => Undisturbed
    BY DEF Init, Idle, Undisturbed, Accounted, Progress, Own, Owning
  <1>2. IInv /\ Undisturbed /\ [Next]_vars => Undisturbed' BY StepUndisturbed
  <1>3. Undisturbed => RowMeansComplete
    BY DEF Undisturbed, Accounted, Own, RowMeansComplete
  <1> QED BY <1>1, <1>2, <1>3, Invariance, PTL DEF Spec

-----------------------------------------------------------------------------
(* Refinement: a row inserted is Record, a wrapped row Expand, and every   *)
(* other step leaves both tables alone.                                    *)

LEMMA InitRefines == Init => Tables!Init
  BY DEF Init, Tables!Init

LEMMA StepRefines == IInv /\ [Next]_vars => [Tables!Next]_(Tables!vars)
  <1> SUFFICES ASSUME IInv, [Next]_vars PROVE [Tables!Next]_(Tables!vars) OBVIOUS
  <1>1. CASE UNCHANGED <<transaction, wrapped>>
    BY <1>1 DEF Tables!vars
  <1>2. ASSUME NEW w \in Worker, InsertTransaction(w), worker[w].tx \notin transaction
        PROVE  [Tables!Next]_(Tables!vars)
    <2>1. worker[w].tx \in Tx BY <1>2, Busy DEF InsertTransaction, At
    <2>2. transaction' = transaction \cup {worker[w].tx} /\ UNCHANGED wrapped
      BY <1>2 DEF InsertTransaction, wrappedTables
    <2>3. Tables!Record(worker[w].tx) BY <1>2, <2>2 DEF Tables!Record
    <2> QED BY <2>1, <2>3 DEF Tables!Next
  <1>3. ASSUME NEW w \in Worker, InsertWrapped(w),
               worker[w].level + 1 <= Depth[worker[w].tx]
        PROVE  [Tables!Next]_(Tables!vars)
    <2>0. PICK x \in Tx : x = worker[w].tx
      BY <1>3, Busy DEF InsertWrapped, At
    <2>1. /\ x \in Tx /\ x \in transaction /\ worker[w].level \in Nat
          /\ Len(wrapped[x]) = worker[w].level /\ Depth[x] \in Nat
      BY <1>3, <2>0, Busy, TransactionsAssumption
         DEF InsertWrapped, At, WorkerInv, OwnerAtEnd, Owning, Step
    <2>2. PICK row \in WrappedRow : wrapped' = [wrapped EXCEPT ![x] = Append(@, row)]
      BY <1>3, <2>0, UnwrappedRow
    <2>3. /\ wrapped[x] \in Seq(WrappedRow)
          /\ wrapped'[x] = Append(wrapped[x], row)
          /\ \A u \in Tx : u # x => wrapped'[u] = wrapped[u]
      BY <2>1, <2>2 DEF IInv, TypeOK
    <2>4. Len(wrapped'[x]) = Len(wrapped[x]) + 1 BY <2>3
    <2>5. [u \in Tx |-> Len(wrapped[u])]'
            = [[u \in Tx |-> Len(wrapped[u])] EXCEPT ![x] = @ + 1]
      BY <2>1, <2>3, <2>4
    <2>6. transaction' = transaction BY <1>3 DEF InsertWrapped, tables
    <2>7. Tables!Expand(x) BY <1>3, <2>0, <2>1, <2>5, <2>6 DEF Tables!Expand
    <2>8. Tables!Next BY <2>1, <2>7 DEF Tables!Next
    <2> QED BY <2>8
  <1>4. ASSUME NEW w \in Worker, InsertTransaction(w) \/ InsertWrapped(w)
        PROVE  [Tables!Next]_(Tables!vars)
    <2>1. worker[w].level \in Nat /\ Depth[worker[w].tx] \in Nat
      BY <1>4, Busy, TransactionsAssumption DEF InsertTransaction, InsertWrapped, At
    <2>2. CASE InsertTransaction(w) /\ worker[w].tx \in transaction
      BY <2>2, <1>1 DEF InsertTransaction, wrappedTables
    <2>3. CASE InsertWrapped(w) /\ worker[w].level + 1 > Depth[worker[w].tx]
      BY <2>3, <1>1 DEF InsertWrapped, tables
    <2> QED BY <1>2, <1>3, <1>4, <2>1, <2>2, <2>3
  <1>5. ASSUME NEW w \in Worker,
               \/ \E t \in Tx : Launch(w, t)
               \/ CheckIndexed(w) \/ InsertFrom(w) \/ InsertTo(w)
               \/ InsertInput(w) \/ InsertParams(w) \/ RouteTransaction(w)
               \/ InsertWrappedContract(w) \/ InsertWrappedInput(w)
               \/ InsertWrappedParams(w) \/ RouteWrapped(w) \/ Refuse(w)
               \/ RouteFails(w) \/ WorkerFails(w)
        PROVE  UNCHANGED <<transaction, wrapped>>
    BY <1>5 DEF Launch, CheckIndexed, InsertFrom, InsertTo, InsertInput, InsertParams,
                RouteTransaction, Route, InsertWrappedContract, InsertWrappedInput,
                InsertWrappedParams, RouteWrapped, Refuse, RouteFails, WorkerFails, tables,
                wrappedTables
  <1>6. CASE Crash BY <1>6, <1>1 DEF Crash, tables, wrappedTables
  <1>7. CASE UNCHANGED vars BY <1>7, <1>1 DEF vars, tables, wrappedTables
  <1> QED BY <1>1, <1>4, <1>5, <1>6, <1>7 DEF Next, WorkerSteps

(* The tables of transactions and wrapped transactions implement Expansion *)
(* for any number of workers, whatever fails.                              *)
THEOREM Refinement == Spec => TablesImplementExpansion
  <1>1. Spec => Tables!Spec
    BY Invariance, InitRefines, StepRefines, PTL DEF Spec, Tables!Spec
  <1> QED BY <1>1 DEF TablesImplementExpansion
=============================================================================
