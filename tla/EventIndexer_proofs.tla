-------------------------- MODULE EventIndexer_proofs --------------------------
(***************************************************************************)
(* For any chain, and any number of calls of indexEvent and indexToken: an *)
(* event's effects, requests are carried out by at most one call, its row stands for *)
(* the rest of it, a balance is stale by overlapping updates only, an      *)
(* owner is wrong by disorder only, and a change of the data of a          *)
(* collection reaches its tokens.                                          *)
(***************************************************************************)
EXTENDS EventIndexer, TLAPS

-----------------------------------------------------------------------------
(* What is used of the constants, and of the types.                        *)

LEMMA Constants == Null \notin Address /\ Null \notin Holder /\ Null \notin TokenId
                   /\ MaxLaunches \in Nat /\ MaxFaults \in Nat
  BY EventsAssumption

LEMMA Logs ==
  ASSUME TypeOK, NEW l \in Log
  PROVE  /\ l \in Nat \ {0}
         /\ chain[l].address \in Address /\ chain[l].block \in Nat
         /\ chain[l].from \in Holder /\ chain[l].to \in Holder
         /\ chain[l].token \in TokenId /\ chain[l].topic \in Topic
         /\ chain[l].key \in DataKey
<1>1. chain \in Seq(LogRecord)
  BY EventsAssumption DEF TypeOK
<1>2. chain[l] \in LogRecord /\ l \in 1..Len(chain)
  BY <1>1 DEF Log
<1>3. QED
  BY <1>2 DEF LogRecord

LEMMA NullIsNoRow == TypeOK => Null \notin TokenRow /\ Null \notin HolderRow
<1>1. Null \notin [address : Address, owner : Holder, decoded : BOOLEAN]
      /\ Null \notin [balance : SUBSET Nat, since : Nat]
  BY EventsAssumption
<1>2. TypeOK => Log \subseteq Nat
  BY Logs
<1>3. TypeOK => HolderRow \subseteq [balance : SUBSET Nat, since : Nat]
  BY <1>2 DEF HolderRow
<1>4. QED
  BY <1>1, <1>3 DEF TokenRow

LEMMA WorkerFields ==
  ASSUME TypeOK, NEW w \in Worker
  PROVE  /\ worker[w] \in WorkerType
         /\ worker[w].at \in Place /\ worker[w].log \in Log \cup {0}
         /\ worker[w].side \in {"from", "to"} /\ worker[w].balance \subseteq Log
<1>1. worker[w] \in WorkerType
  BY DEF TypeOK
<1>2. QED
  BY <1>1 DEF WorkerType

LEMMA IdleType == Idle \in WorkerType /\ NoJob \in JobType
  BY DEF Idle, WorkerType, Place, NoJob, JobType

(* A worker goes on, returns, or turns to the other side of a transfer.    *)
LEMMA GoToType ==
  ASSUME TypeOK, NEW w \in Worker, NEW step \in Place, GoTo(w, step)
  PROVE  /\ worker' \in [Worker -> WorkerType]
         /\ worker'[w].at = step /\ worker'[w].log = worker[w].log
         /\ worker'[w].side = worker[w].side /\ worker'[w].balance = worker[w].balance
         /\ \A v \in Worker \ {w} : worker'[v] = worker[v]
<1>1. worker \in [Worker -> WorkerType] /\ worker' = [worker EXCEPT ![w].at = step]
  BY DEF TypeOK, GoTo
<1>2. [worker[w] EXCEPT !.at = step] \in WorkerType
  BY <1>1 DEF WorkerType
<1>3. worker'[w] = [worker[w] EXCEPT !.at = step] /\ worker[w] \in WorkerType
  BY <1>1
<1>4. worker'[w].at = step /\ worker'[w].log = worker[w].log
      /\ worker'[w].side = worker[w].side /\ worker'[w].balance = worker[w].balance
  BY <1>3 DEF WorkerType
<1>5. QED
  BY <1>1, <1>2, <1>4

LEMMA ReturnType ==
  ASSUME TypeOK, NEW w \in Worker, Return(w)
  PROVE  /\ worker' \in [Worker -> WorkerType]
         /\ worker'[w] = Idle
         /\ \A v \in Worker \ {w} : worker'[v] = worker[v]
  BY IdleType DEF TypeOK, Return

LEMMA NextSideType ==
  ASSUME TypeOK, NEW w \in Worker, NextSide(w)
  PROVE  /\ worker' \in [Worker -> WorkerType]
         /\ \A v \in Worker \ {w} : worker'[v] = worker[v]
         /\ \/ /\ worker[w].side = "from"
               /\ worker'[w].at = "read" /\ worker'[w].side = "to"
               /\ worker'[w].log = worker[w].log /\ worker'[w].balance = {}
               /\ UNCHANGED applied
            \/ /\ worker[w].side = "to"
               /\ worker'[w] = Idle
               /\ applied' = applied \cup {worker[w].log}
<1>1. worker \in [Worker -> WorkerType] /\ worker[w].side \in {"from", "to"}
  BY WorkerFields DEF TypeOK
<1>2. CASE worker[w].side = "from"
  <2>1. worker' = [worker EXCEPT ![w].at = "read", ![w].side = "to", ![w].balance = {}]
        /\ UNCHANGED applied
    BY <1>2 DEF NextSide
  <2>2. worker[w] \in WorkerType
    BY <1>1
  <2>3. [worker[w] EXCEPT !.at = "read", !.side = "to", !.balance = {}] \in WorkerType
    BY <2>2 DEF WorkerType, Place
  <2>4. worker'[w] = [worker[w] EXCEPT !.at = "read", !.side = "to", !.balance = {}]
    BY <1>1, <2>1
  <2>5. worker'[w].at = "read" /\ worker'[w].side = "to" /\ worker'[w].log = worker[w].log
        /\ worker'[w].balance = {}
    BY <2>2, <2>4 DEF WorkerType
  <2>6. worker' \in [Worker -> WorkerType] /\ \A v \in Worker \ {w} : worker'[v] = worker[v]
    BY <1>1, <2>1, <2>3
  <2>7. QED
    BY <1>2, <2>1, <2>5, <2>6
<1>3. CASE worker[w].side = "to"
  BY <1>3, ReturnType DEF NextSide, Finish
<1>4. QED
  BY <1>1, <1>2, <1>3

-----------------------------------------------------------------------------
(* Who owns a log: whoever has inserted its row.                           *)

(* A worker that runs has a log of a block the node has.                   *)
HasLog == \A w \in Worker : ~At(w, "idle") => worker[w].log \in Log /\ LogOf(w).block <= head

(* An owner's log has its row and is not applied yet; it has one owner.    *)
Owns == \A w \in Worker : Owning(w) => worker[w].log \in event \ applied
OneOwner ==
  \A v, w \in Worker :
    Owning(v) /\ Owning(w) /\ worker[v].log = worker[w].log => v = w

Ownership == HasLog /\ Owns /\ OneOwner /\ applied \subseteq event

(* What a step of a worker may do to the rows of events.                   *)
Claims(w) ==
  /\ At(w, "row") /\ worker[w].log \notin event
  /\ event' = event \cup {worker[w].log} /\ UNCHANGED applied
  /\ worker'[w].log = worker[w].log /\ Owning(w)'
Applies(w) ==
  /\ Owning(w) /\ worker'[w] = Idle
  /\ applied' = applied \cup {worker[w].log} /\ UNCHANGED event
Leaves(w) == worker'[w] = Idle /\ UNCHANGED <<event, applied>>
Continues(w) ==
  /\ ~At(w, "idle") /\ worker'[w].at # "idle" /\ worker'[w].log = worker[w].log
  /\ (Owning(w)' <=> Owning(w)) /\ UNCHANGED <<event, applied>>

Moves(w) ==
  /\ UNCHANGED <<chain, head>>
  /\ \A v \in Worker \ {w} : worker'[v] = worker[v]
  /\ Claims(w) \/ Applies(w) \/ Leaves(w) \/ Continues(w)

LEMMA WorkerMoves ==
  ASSUME TypeOK, HasLog, NEW w \in Worker, Step(w) \/ WorkerFails(w)
  PROVE  worker' \in [Worker -> WorkerType] /\ Moves(w)
<1> USE DEF Moves, chainVars
<1>1. CASE CheckIndexed(w)
  <2>1. CASE Return(w)
    BY <1>1, <2>1, ReturnType DEF CheckIndexed, rows, history, Leaves
  <2>2. CASE GoTo(w, "row")
    BY <1>1, <2>2, GoToType DEF CheckIndexed, rows, history, Continues, At, Owning, Place
  <2>3. QED
    BY <1>1, <2>1, <2>2 DEF CheckIndexed
<1>2. CASE InsertEvent(w)
  <2>1. CASE worker[w].log \in event
    BY <1>2, <2>1, ReturnType DEF InsertEvent, history, Leaves
  <2>2. CASE worker[w].log \notin event
    BY <1>2, <2>2, GoToType DEF InsertEvent, history, Claims, Owning, Place
  <2>3. QED
    BY <2>1, <2>2
<1>3. CASE InsertContract(w)
  BY <1>3, GoToType DEF InsertContract, history, Continues, At, Owning, Place
<1>4. CASE InsertParameters(w)
  <2>1. CASE Return(w)
    BY <1>4, <2>1, ReturnType DEF InsertParameters, history, Leaves
  <2>2. CASE GoTo(w, "route")
    BY <1>4, <2>2, GoToType DEF InsertParameters, history, Continues, At, Owning, Place
  <2>3. QED
    BY <1>4, <2>1, <2>2 DEF InsertParameters
<1>5. CASE RouteEvent(w)
  <2>1. CASE LogOf(w).topic = "other"
    BY <1>5, <2>1, ReturnType DEF RouteEvent, Finish, rows, At, Owning, Applies
  <2>2. CASE LogOf(w).topic # "other"
    <3>1. worker[w].log \in Log
      BY <1>5 DEF RouteEvent, At, HasLog
    <3>2. LogOf(w).topic \in {"DataChanged", "LSP8", "LSP7"}
      BY <3>1, <2>2, Logs DEF LogOf, Topic
    <3>3. \E step \in {"read", "token", "data"} : GoTo(w, step)
      BY <1>5, <2>2, <3>2 DEF RouteEvent
    <3>4. QED
      BY <1>5, <2>2, <3>3, GoToType DEF RouteEvent, rows, Continues, At, Owning, Place
  <2>3. QED
    BY <2>1, <2>2
<1>6. CASE ReadBalance(w)
  <2>1. worker' = [worker EXCEPT ![w].at = "insert", ![w].balance = BalanceAt(PairOf(w), head)]
        /\ worker \in [Worker -> WorkerType] /\ BalanceAt(PairOf(w), head) \subseteq Log
    BY <1>6 DEF ReadBalance, TypeOK, BalanceAt
  <2>2. [worker[w] EXCEPT !.at = "insert", !.balance = BalanceAt(PairOf(w), head)] \in WorkerType
    BY <2>1 DEF WorkerType, Place
  <2>3. worker'[w] = [worker[w] EXCEPT !.at = "insert", !.balance = BalanceAt(PairOf(w), head)]
    BY <2>1
  <2>4. worker'[w].at = "insert" /\ worker'[w].log = worker[w].log
    BY <2>1, <2>3 DEF WorkerType
  <2>5. worker' \in [Worker -> WorkerType] /\ \A v \in Worker \ {w} : worker'[v] = worker[v]
    BY <2>1, <2>2
  <2>6. QED
    BY <1>6, <2>4, <2>5 DEF ReadBalance, rows, Continues, At, Owning
<1>7. CASE InsertHolder(w)
  <2>1. CASE NextSide(w)
    BY <1>7, <2>1, NextSideType DEF InsertHolder, rows, Continues, Applies, At, Owning
  <2>2. CASE GoTo(w, "update") /\ UNCHANGED applied
    BY <1>7, <2>2, GoToType DEF InsertHolder, rows, Continues, At, Owning, Place
  <2>3. QED
    BY <1>7, <2>1, <2>2 DEF InsertHolder, WriteBalance
<1>8. CASE UpdateHolder(w)
  BY <1>8, NextSideType DEF UpdateHolder, WriteBalance, rows, Continues, Applies, At, Owning
<1>9. CASE TokenTransfer(w)
  <2>1. CASE LogOf(w).address \in contract
    BY <1>9, <2>1, ReturnType DEF TokenTransfer, Finish, rows, At, Owning, Applies
  <2>2. CASE LogOf(w).address \notin contract
    BY <1>9, <2>2, ReturnType DEF TokenTransfer, rows, Leaves
  <2>3. QED
    BY <2>1, <2>2
<1>10. CASE InsertDataChanged(w)
  <2>1. CASE LogOf(w).key = "none"
    BY <1>10, <2>1, ReturnType DEF InsertDataChanged, Finish, rows, At, Owning, Applies
  <2>2. CASE LogOf(w).key # "none"
    <3>1. (\E step \in {"refresh", "select"} : GoTo(w, step)) /\ UNCHANGED applied
      BY <1>10, <2>2 DEF InsertDataChanged
    <3>2. QED
      BY <1>10, <3>1, GoToType DEF InsertDataChanged, rows, Continues, At, Owning, Place
  <2>3. QED
    BY <2>1, <2>2
<1>11. CASE SelectTokens(w)
  BY <1>11, ReturnType DEF SelectTokens, Finish, rows, At, Owning, Applies
<1>12. CASE RequestRefresh(w)
  BY <1>12, ReturnType DEF RequestRefresh, Finish, rows, At, Owning, Applies
<1>13. CASE WorkerFails(w)
  <2>1. CASE worker[w].at \in {"read", "insert", "update"}
    BY <1>13, <2>1, NextSideType DEF WorkerFails, rows, Continues, Applies, At, Owning
  <2>2. CASE worker[w].at \notin {"read", "insert", "update"}
    BY <1>13, <2>2, ReturnType DEF WorkerFails, rows, Leaves
  <2>3. QED
    BY <2>1, <2>2
<1>14. QED
  BY <1>1, <1>2, <1>3, <1>4, <1>5, <1>6, <1>7, <1>8, <1>9, <1>10, <1>11, <1>12, <1>13
     DEF Step

(* The steps that are no worker's.                                         *)
Elsewhere ==
  \/ Mine
  \/ \E l \in Log : \E t \in TokenId : Arrive(l, t)
  \/ \E j \in Job : \E t \in TokenId : IndexToken(j, t)
  \/ \E j \in Job : WriteDecoded(j) \/ RequestToken(j) \/ WriteRaw(j) \/ JobFails(j)

LEMMA ElsewhereKeeps ==
  ASSUME TypeOK, Elsewhere
  PROVE  UNCHANGED <<chain, worker, event, applied>> /\ head <= head' /\ head' \in Nat
<1>1. CASE Mine
  BY <1>1 DEF Mine, rows, history, TypeOK
<1>2. ASSUME NEW j \in Job, NEW t \in TokenId, IndexToken(j, t)
      PROVE  UNCHANGED <<chain, worker, event, applied>> /\ head <= head' /\ head' \in Nat
  BY <1>2 DEF IndexToken, chainVars, rows, history, TypeOK
<1>3. ASSUME NEW j \in Job, WriteDecoded(j) \/ RequestToken(j) \/ WriteRaw(j) \/ JobFails(j)
      PROVE  UNCHANGED <<chain, worker, event, applied>> /\ head <= head' /\ head' \in Nat
  <2>1. UNCHANGED <<chain, head, worker, event, applied>>
    BY <1>3 DEF WriteDecoded, RequestToken, WriteRaw, JobFails, chainVars, rows, history
  <2>2. QED
    BY <2>1 DEF TypeOK
<1>4. ASSUME NEW l \in Log, NEW t \in TokenId, Arrive(l, t)
      PROVE  UNCHANGED <<chain, worker, event, applied>> /\ head <= head' /\ head' \in Nat
  BY <1>4 DEF Arrive, chainVars, rows, history, TypeOK
<1>5. QED
  BY <1>1, <1>2, <1>3, <1>4 DEF Elsewhere

LEMMA LaunchKeeps ==
  ASSUME TypeOK, NEW w \in Worker, NEW l \in Log, Launch(w, l)
  PROVE  /\ UNCHANGED <<chain, head, event, applied>>
         /\ worker' \in [Worker -> WorkerType]
         /\ worker'[w].at = "check" /\ worker'[w].log = l /\ At(w, "idle")
         /\ chain[l].block <= head
         /\ \A v \in Worker \ {w} : worker'[v] = worker[v]
<1>1. [Idle EXCEPT !.at = "check", !.log = l] \in WorkerType
  BY IdleType DEF WorkerType, Place
<1>2. [Idle EXCEPT !.at = "check", !.log = l].at = "check"
      /\ [Idle EXCEPT !.at = "check", !.log = l].log = l
  BY DEF Idle
<1>3. QED
  BY <1>1, <1>2 DEF Launch, chainVars, rows, history, TypeOK

LEMMA OwnershipStep == ASSUME TypeOK, Ownership, Next PROVE Ownership'
<1> USE DEF Ownership
<1>0. \A w \in Worker : worker[w].log \in Log \cup {0}
  BY WorkerFields
<1>1. CASE Elsewhere
  <2>1. UNCHANGED <<chain, worker, event, applied>> /\ head <= head' /\ head' \in Nat /\ head \in Nat
    BY <1>1, ElsewhereKeeps DEF TypeOK
  <2>2. \A w \in Worker : ~At(w, "idle") => LogOf(w).block \in Nat
    BY Logs DEF HasLog, LogOf
  <2>3. HasLog'
    BY <2>1, <2>2 DEF HasLog, At, LogOf, Log
  <2>4. QED
    BY <2>1, <2>3 DEF Owns, OneOwner, Owning
<1>2. ASSUME NEW w \in Worker, NEW l \in Log, Launch(w, l) PROVE Ownership'
  <2>1. /\ UNCHANGED <<chain, head, event, applied>>
        /\ worker'[w].at = "check" /\ worker'[w].log = l /\ chain[l].block <= head
        /\ \A v \in Worker \ {w} : worker'[v] = worker[v]
    BY <1>2, LaunchKeeps
  <2>2. HasLog'
    BY <2>1 DEF HasLog, At, LogOf, Log
  <2>3. QED
    BY <2>1, <2>2 DEF Owns, OneOwner, Owning
<1>3. ASSUME NEW w \in Worker, Step(w) \/ WorkerFails(w) PROVE Ownership'
  <2>1. /\ UNCHANGED <<chain, head>>
        /\ \A v \in Worker \ {w} : worker'[v] = worker[v]
        /\ Claims(w) \/ Applies(w) \/ Leaves(w) \/ Continues(w)
    BY <1>3, WorkerMoves DEF Moves
  <2>2. HasLog'
    BY <2>1 DEF HasLog, At, LogOf, Log, Claims, Applies, Leaves, Continues, Idle
  <2>3. ~(\E v \in Worker : Owning(v) /\ worker[v].log \notin event)
    BY DEF Owns
  <2>4. Owns' /\ OneOwner' /\ (applied \subseteq event)'
    <3>1. CASE Claims(w)
      BY <2>1, <2>3, <3>1 DEF Claims, Owns, OneOwner, Owning, At
    <3>2. CASE Applies(w)
      BY <2>1, <3>2 DEF Applies, Owns, OneOwner, Owning, Idle
    <3>3. CASE Leaves(w)
      BY <2>1, <3>3 DEF Leaves, Owns, OneOwner, Owning, Idle
    <3>4. CASE Continues(w)
      BY <2>1, <3>4 DEF Continues, Owns, OneOwner, Owning
    <3>5. QED
      BY <2>1, <3>1, <3>2, <3>3, <3>4
  <2>5. QED
    BY <2>2, <2>4
<1>4. CASE Crash
  <2>1. worker' = [w \in Worker |-> Idle] /\ UNCHANGED <<chain, event, applied>>
    BY <1>4 DEF Crash, chainVars, rows
  <2>2. QED
    BY <2>1 DEF HasLog, Owns, OneOwner, Owning, At, Idle
<1>5. QED
  BY <1>1, <1>2, <1>3, <1>4 DEF Next, Elsewhere

-----------------------------------------------------------------------------
(* Type correctness.                                                       *)

(* A call of indexToken works on a row that is there.                      *)
TokenJobs ==
  \A j \in Job : job[j].at # "idle" =>
    job[j].token \in TokenId /\ job[j].owner \in Holder /\ token[job[j].token] # Null

(* Only a holder with a row has its balance updated.                       *)
Updatable == \A w \in Worker : At(w, "update") => holder[PairOf(w)] # Null

Tables ==
  /\ head \in Nat
  /\ event \subseteq Log /\ eventParameter \subseteq event
  /\ contract \subseteq Address
  /\ holder \in [Pair -> HolderRow \cup {Null}]
  /\ token \in [TokenId -> TokenRow \cup {Null}]
  /\ dataChanged \subseteq Log
  /\ requested \in [Asset -> Nat \cup {-1}]
  /\ sending \subseteq Log \X TokenId

LEMMA TypeParts ==
  TypeOK <=> /\ chain \in Chains /\ Tables
             /\ worker \in [Worker -> WorkerType] /\ job \in [Job -> JobType]
             /\ launched \in [Log -> Nat] /\ faults \in Nat
  BY DEF TypeOK, Tables

LEMMA TypePartsNext ==
  ASSUME UNCHANGED chain, chain \in Chains, Tables', worker' \in [Worker -> WorkerType],
         job' \in [Job -> JobType], launched' \in [Log -> Nat], faults' \in Nat
  PROVE  TypeOK'
<1>1. WorkerType' = WorkerType /\ Log' = Log
  BY DEF WorkerType, Log
<1>2. QED
  BY <1>1 DEF TypeOK, Tables

LEMMA TablesKept ==
  ASSUME Tables, UNCHANGED <<chain, head, rows, effects>> PROVE Tables'
  BY DEF Tables, rows, effects, requests, Log, HolderRow

LEMMA PairType ==
  ASSUME TypeOK, HasLog, NEW w \in Worker, ~At(w, "idle")
  PROVE  /\ worker[w].log \in Log /\ LogOf(w).block \in Nat
         /\ LogOf(w).address \in Address /\ LogOf(w).to \in Holder /\ LogOf(w).token \in TokenId
         /\ PairOf(w) \in Pair
<1>1. worker[w].log \in Log
  BY DEF HasLog
<1>2. LogOf(w).from \in Holder /\ LogOf(w).to \in Holder /\ LogOf(w).address \in Address
      /\ LogOf(w).block \in Nat /\ LogOf(w).token \in TokenId
  BY <1>1, Logs DEF LogOf
<1>3. QED
  BY <1>1, <1>2 DEF PairOf, Pair

(* What a worker does to the tables, by table.                             *)
LEMMA WorkerTables ==
  ASSUME TypeOK, Ownership, Updatable, NEW w \in Worker, Step(w) \/ WorkerFails(w)
  PROVE  Tables'
<1>a. Tables /\ UNCHANGED chain /\ head' = head /\ Log' = Log /\ HolderRow' = HolderRow
  BY TypeParts, WorkerMoves DEF Moves, Log, HolderRow, Ownership
<1>b. worker[w].log \in Log /\ PairOf(w) \in Pair /\ LogOf(w).address \in Address
      /\ LogOf(w).to \in Holder /\ LogOf(w).token \in TokenId /\ LogOf(w).block \in Nat
  <2>1. ~At(w, "idle")
    BY DEF Step, CheckIndexed, InsertEvent, InsertContract, InsertParameters, RouteEvent,
           ReadBalance, InsertHolder, UpdateHolder, TokenTransfer, InsertDataChanged,
           SelectTokens, RequestRefresh, WorkerFails, At
  <2>2. QED
    BY <2>1, PairType DEF Ownership
<1> USE <1>a, <1>b
<1>1. CASE CheckIndexed(w) \/ RouteEvent(w) \/ ReadBalance(w) \/ WorkerFails(w)
  BY <1>1, TablesKept DEF CheckIndexed, RouteEvent, ReadBalance, WorkerFails
<1>2. CASE InsertEvent(w)
  <2>1. event' \in {event, event \cup {worker[w].log}} /\ UNCHANGED <<eventParameter, contract, effects>>
    BY <1>2 DEF InsertEvent
  <2>2. QED
    BY <2>1 DEF Tables, effects, requests
<1>3. CASE InsertContract(w)
  <2>1. contract' = contract \cup {LogOf(w).address} /\ UNCHANGED <<event, eventParameter, effects>>
    BY <1>3 DEF InsertContract
  <2>2. QED
    BY <2>1 DEF Tables, effects, requests
<1>4. CASE InsertParameters(w)
  <2>1. eventParameter' \in {eventParameter, eventParameter \cup {worker[w].log}}
        /\ UNCHANGED <<event, contract, effects>>
    BY <1>4 DEF InsertParameters
  <2>2. worker[w].log \in event
    BY <1>4 DEF InsertParameters, At, Owning, Ownership, Owns
  <2>3. QED
    BY <2>1, <2>2 DEF Tables, effects, requests
<1>5. ASSUME NEW row \in HolderRow, WriteBalance(w, row),
             UNCHANGED <<rows, token, dataChanged, requests>>
      PROVE  Tables'
  BY <1>5 DEF WriteBalance, Tables, rows, requests
<1>6. CASE InsertHolder(w)
  <2>1. UNCHANGED <<rows, token, dataChanged, requests>>
    BY <1>6 DEF InsertHolder
  <2>2. CASE UNCHANGED holder
    BY <2>1, <2>2, TablesKept DEF effects, requests
  <2>3. CASE WriteBalance(w, [balance |-> worker[w].balance, since |-> LogOf(w).block])
    <3>1. [balance |-> worker[w].balance, since |-> LogOf(w).block] \in HolderRow
      BY WorkerFields DEF HolderRow
    <3>2. QED
      BY <2>1, <2>3, <3>1, <1>5
  <2>4. QED
    BY <1>6, <2>2, <2>3 DEF InsertHolder
<1>7. CASE UpdateHolder(w)
  <2>1. holder[PairOf(w)] \in HolderRow
    BY <1>7 DEF UpdateHolder, Updatable, Tables
  <2>2. [holder[PairOf(w)] EXCEPT !.balance = worker[w].balance] \in HolderRow
    BY <2>1, WorkerFields DEF HolderRow
  <2>3. QED
    BY <1>7, <2>2, <1>5 DEF UpdateHolder
<1>8. CASE TokenTransfer(w)
  <2>1. UNCHANGED <<rows, holder, dataChanged, requests>>
    BY <1>8 DEF TokenTransfer
  <2>2. token' \in [TokenId -> TokenRow \cup {Null}]
    <3> DEFINE t == LogOf(w).token
               row == IF token[t] = Null
                      THEN [address |-> LogOf(w).address, owner |-> LogOf(w).to, decoded |-> FALSE]
                      ELSE [token[t] EXCEPT !.owner = LogOf(w).to]
    <3>1. row \in TokenRow
      BY DEF Tables, TokenRow
    <3>2. token' \in {token, [token EXCEPT ![t] = row]}
      BY <1>8 DEF TokenTransfer, Tables
    <3>3. QED
      BY <3>1, <3>2 DEF Tables
  <2>3. QED
    BY <2>1, <2>2 DEF Tables, rows, requests
<1>9. CASE InsertDataChanged(w)
  <2>1. dataChanged' \in {dataChanged, dataChanged \cup {worker[w].log}}
        /\ UNCHANGED <<rows, holder, token, requests>>
    BY <1>9 DEF InsertDataChanged
  <2>2. QED
    BY <2>1 DEF Tables, rows, requests
<1>10. CASE RequestRefresh(w)
  <2>1. UNCHANGED <<rows, holder, token, dataChanged, sending>>
        /\ requested' = [requested EXCEPT ![<<LogOf(w).address, Null>>] = head]
    BY <1>10 DEF RequestRefresh
  <2>2. QED
    BY <2>1 DEF Tables, rows
<1>11. CASE SelectTokens(w)
  <2>1. UNCHANGED <<rows, holder, token, dataChanged, requested>>
        /\ sending' = sending \cup ({worker[w].log} \X TokensToRefresh(LogOf(w)))
    BY <1>11 DEF SelectTokens
  <2>2. TokensToRefresh(LogOf(w)) \subseteq TokenId
    BY DEF TokensToRefresh, TokensOf
  <2>3. sending' \subseteq Log \X TokenId
    BY <2>1, <2>2 DEF Tables
  <2>4. QED
    BY <2>1, <2>3 DEF Tables, rows
<1>12. QED
  BY <1>1, <1>2, <1>3, <1>4, <1>6, <1>7, <1>8, <1>9, <1>10, <1>11 DEF Step

(* A step of indexToken, and what it does to the row it works on.          *)
JobStep(j) == WriteDecoded(j) \/ RequestToken(j) \/ WriteRaw(j) \/ JobFails(j)

LEMMA JobFields ==
  ASSUME TypeOK, NEW j \in Job
  PROVE  job[j] \in JobType /\ job[j].at \in {"idle", "write", "request", "raw"}
<1>1. job[j] \in JobType
  BY DEF TypeOK
<1>2. QED
  BY <1>1 DEF JobType

LEMMA StepJobType ==
  ASSUME TypeOK, NEW j \in Job, NEW step \in {"raw", "request"}, StepJob(j, step)
  PROVE  /\ job' \in [Job -> JobType]
         /\ job'[j].at = step /\ job'[j].token = job[j].token /\ job'[j].owner = job[j].owner
         /\ \A i \in Job \ {j} : job'[i] = job[i]
<1>1. job \in [Job -> JobType] /\ job' = [job EXCEPT ![j].at = step] /\ job[j] \in JobType
  BY DEF TypeOK, StepJob
<1>2. [job[j] EXCEPT !.at = step] \in JobType
  BY <1>1 DEF JobType
<1>3. job'[j] = [job[j] EXCEPT !.at = step]
  BY <1>1
<1>4. job'[j].at = step /\ job'[j].token = job[j].token /\ job'[j].owner = job[j].owner
  BY <1>1, <1>3 DEF JobType
<1>5. QED
  BY <1>1, <1>2, <1>4

LEMMA EndJobType ==
  ASSUME TypeOK, NEW j \in Job, EndJob(j)
  PROVE  /\ job' \in [Job -> JobType]
         /\ job'[j] = NoJob
         /\ \A i \in Job \ {j} : job'[i] = job[i]
  BY IdleType DEF TypeOK, EndJob

LEMMA WriteBackType ==
  ASSUME TypeOK, TokenJobs, NEW j \in Job, job[j].at # "idle", NEW decoded \in BOOLEAN,
         WriteBack(j, decoded)
  PROVE  /\ token' \in [TokenId -> TokenRow \cup {Null}]
         /\ token'[job[j].token] # Null
         /\ token'[job[j].token].owner = job[j].owner
         /\ \A t \in TokenId : t # job[j].token => token'[t] = token[t]
<1> DEFINE t == job[j].token
           row == [token[t] EXCEPT !.owner = job[j].owner, !.decoded = @ \/ decoded]
<1>1. t \in TokenId /\ token[t] \in TokenRow /\ job[j].owner \in Holder
  BY DEF TokenJobs, TypeOK
<1>2. token' = [token EXCEPT ![t] = row] /\ token \in [TokenId -> TokenRow \cup {Null}]
  BY DEF WriteBack, TypeOK
<1>3. row \in TokenRow
  BY <1>1 DEF TokenRow
<1>4. row.owner = job[j].owner
  BY <1>1 DEF TokenRow
<1>5. Null \notin TokenRow
  BY NullIsNoRow
<1>6. QED
  BY <1>1, <1>2, <1>3, <1>4, <1>5

LEMMA JobTables ==
  ASSUME TypeOK, TokenJobs, NEW j \in Job, JobStep(j)
  PROVE  Tables' /\ job' \in [Job -> JobType]
<1>1. Tables
  BY TypeParts
<1>2. CASE WriteDecoded(j)
  <2>1. UNCHANGED <<chain, head, rows, holder, dataChanged, requests>>
        /\ token' \in [TokenId -> TokenRow \cup {Null}]
    BY <1>2, WriteBackType DEF WriteDecoded, chainVars
  <2>2. Tables'
    BY <1>1, <2>1 DEF Tables, rows, requests, Log, HolderRow
  <2>3. QED
    BY <1>2, <2>2, StepJobType DEF WriteDecoded
<1>3. CASE RequestToken(j)
  <2>1. UNCHANGED <<chain, head, rows, holder, token, dataChanged, sending>>
        /\ requested' = [requested EXCEPT ![<<token[job[j].token].address, job[j].token>>] = head]
    BY <1>3 DEF RequestToken, chainVars
  <2>2. Tables'
    BY <1>1, <2>1 DEF Tables, rows, Log, HolderRow
  <2>3. QED
    BY <1>3, <2>2, EndJobType DEF RequestToken
<1>4. CASE WriteRaw(j)
  <2>1. UNCHANGED <<chain, head, rows, holder, dataChanged, requests>>
        /\ token' \in [TokenId -> TokenRow \cup {Null}]
    BY <1>4, WriteBackType DEF WriteRaw, chainVars
  <2>2. Tables'
    BY <1>1, <2>1 DEF Tables, rows, requests, Log, HolderRow
  <2>3. QED
    BY <1>4, <2>2, EndJobType DEF WriteRaw
<1>5. CASE JobFails(j)
  <2>1. Tables'
    BY <1>1, <1>5, TablesKept DEF JobFails, chainVars
  <2>2. QED
    BY <1>5, <2>1, StepJobType, EndJobType DEF JobFails
<1>6. QED
  BY <1>2, <1>3, <1>4, <1>5 DEF JobStep

LEMMA TypeStep == ASSUME TypeOK, Ownership, Updatable, TokenJobs, Next PROVE TypeOK'
<1> USE TypeParts
<1>0. chain \in Chains /\ Tables /\ worker \in [Worker -> WorkerType] /\ job \in [Job -> JobType]
      /\ launched \in [Log -> Nat] /\ faults \in Nat
  OBVIOUS
<1>1. CASE Mine
  <2>1. UNCHANGED <<chain, rows, effects, worker, job, counters>> /\ head' = head + 1
    BY <1>1 DEF Mine
  <2>2. Tables'
    BY <1>0, <2>1 DEF Tables, rows, effects, requests, Log, HolderRow
  <2>3. QED
    BY <1>0, <2>1, <2>2, TypePartsNext DEF counters
<1>2. ASSUME NEW w \in Worker, NEW l \in Log, Launch(w, l) PROVE TypeOK'
  <2>1. UNCHANGED <<chain, head, rows, effects, job, faults>>
        /\ launched' = [launched EXCEPT ![l] = @ + 1]
    BY <1>2 DEF Launch, chainVars
  <2>2. Tables'
    BY <1>0, <2>1, TablesKept
  <2>3. launched' \in [Log -> Nat]
    BY <1>0, <2>1
  <2>4. QED
    BY <1>0, <1>2, <2>1, <2>2, <2>3, LaunchKeeps, TypePartsNext
<1>3. ASSUME NEW w \in Worker, Step(w) \/ WorkerFails(w) PROVE TypeOK'
  <2>1. UNCHANGED chain /\ worker' \in [Worker -> WorkerType]
    BY <1>3, WorkerMoves DEF Moves, Ownership
  <2>2. job' = job /\ launched' = launched /\ faults' \in {faults, faults + 1}
    BY <1>3
       DEF Step, CheckIndexed, InsertEvent, InsertContract, InsertParameters,
           RouteEvent,
           ReadBalance, InsertHolder, UpdateHolder, TokenTransfer, InsertDataChanged,
           SelectTokens, RequestRefresh, WorkerFails, counters
  <2>3. Tables'
    BY <1>3, WorkerTables
  <2>4. QED
    BY <1>0, <2>1, <2>2, <2>3, TypePartsNext
<1>4. ASSUME NEW j \in Job, NEW t \in TokenId, IndexToken(j, t) PROVE TypeOK'
  <2>1. UNCHANGED <<chain, head, rows, effects, worker, counters>>
        /\ job' = [job EXCEPT ![j] = [at |-> "write", token |-> t, owner |-> token[t].owner]]
    BY <1>4 DEF IndexToken, chainVars
  <2>2. token[t] \in TokenRow
    BY <1>0, <1>4 DEF IndexToken, Tables
  <2>3. [at |-> "write", token |-> t, owner |-> token[t].owner] \in JobType
    BY <2>2 DEF TokenRow, JobType
  <2>4. Tables'
    BY <1>0, <2>1, TablesKept
  <2>5. job' \in [Job -> JobType]
    BY <1>0, <2>1, <2>3
  <2>6. QED
    BY <1>0, <2>1, <2>4, <2>5, TypePartsNext DEF counters
<1>5. ASSUME NEW j \in Job, JobStep(j) PROVE TypeOK'
  <2>1. UNCHANGED <<chain, worker, launched>> /\ faults' \in {faults, faults + 1}
    BY <1>5 DEF JobStep, WriteDecoded, RequestToken, WriteRaw, JobFails, chainVars, counters
  <2>2. QED
    BY <1>0, <1>5, <2>1, JobTables, TypePartsNext
<1>6. CASE Crash
  <2>1. UNCHANGED <<chain, head, rows, holder, token, dataChanged, requested, launched>>
        /\ faults' = faults + 1 /\ sending' = {}
        /\ worker' = [w \in Worker |-> Idle] /\ job' = [j \in Job |-> NoJob]
    BY <1>6 DEF Crash, chainVars
  <2>2. Tables'
    BY <1>0, <2>1 DEF Tables, rows, Log, HolderRow
  <2>3. worker' \in [Worker -> WorkerType] /\ job' \in [Job -> JobType]
    BY <2>1, IdleType
  <2>4. QED
    BY <1>0, <2>1, <2>2, <2>3, TypePartsNext
<1>7. ASSUME NEW l \in Log, NEW t \in TokenId, Arrive(l, t) PROVE TypeOK'
  <2>1. UNCHANGED <<chain, head, rows, holder, token, dataChanged, worker, job, counters>>
        /\ sending' \subseteq sending
        /\ requested' = [requested EXCEPT ![<<chain[l].address, t>>] = head]
    BY <1>7 DEF Arrive, chainVars
  <2>2. Tables'
    BY <1>0, <2>1 DEF Tables, rows, Log, HolderRow
  <2>3. QED
    BY <1>0, <2>1, <2>2, TypePartsNext DEF counters
<1>8. QED
  BY <1>1, <1>2, <1>3, <1>4, <1>5, <1>6, <1>7 DEF Next, JobStep

-----------------------------------------------------------------------------
(* Balances.                                                               *)

(* A balance that was read has every transfer up to the block of the       *)
(* worker's log and of each log that wrote the holder before, and nobody   *)
(* else is about to write that holder, unless updates of it overlapped.    *)
Covers(l, p, balance) == BalanceAt(p, chain[l].block) \subseteq balance

Reading(w) ==
  LET p == PairOf(w) IN
  /\ \A v \in Worker : Carrying(v) /\ PairOf(v) = p => v = w
  /\ Covers(worker[w].log, p, worker[w].balance)
  /\ \A l \in Log : <<l, p>> \in written => Covers(l, p, worker[w].balance)

Readings == \A w \in Worker : Carrying(w) /\ PairOf(w) \notin overlapped => Reading(w)

WrittenAfterMined ==
  \A l \in Log, p \in Pair : <<l, p>> \in written => chain[l].block <= head /\ holder[p] # Null

Balances == Updatable /\ WrittenAfterMined /\ Readings /\ StaleBalanceOnlyByOverlap

(* A worker that is not carrying a balance afterwards, and did not write.  *)
LEMMA BalancesKept ==
  ASSUME TypeOK, Balances, UNCHANGED <<chain, holder, written, overlapped>>,
         head <= head', head \in Nat, head' \in Nat,
         \A w \in Worker : Carrying(w)' =>
           Carrying(w) /\ PairOf(w)' = PairOf(w)
           /\ worker'[w].balance = worker[w].balance /\ worker'[w].log = worker[w].log,
         \A w \in Worker : At(w, "update")' => holder[PairOf(w)'] # Null
  PROVE  Balances'
<1>1. Updatable'
  BY DEF Updatable, At
<1>2. WrittenAfterMined'
  BY Logs DEF Balances, WrittenAfterMined, Log
<1>3. Readings'
  BY DEF Balances, Readings, Reading, Covers, BalanceAt, Touches, Log
<1>4. StaleBalanceOnlyByOverlap'
  BY DEF Balances, StaleBalanceOnlyByOverlap, BalanceAt, Touches, Log
<1>5. QED
  BY <1>1, <1>2, <1>3, <1>4 DEF Balances

(* A balance that was read is written: nobody else carries one of that     *)
(* holder, and every log that wrote it before is covered.                  *)
LEMMA BalancesWritten ==
  ASSUME TypeOK, Ownership, Balances, NEW w \in Worker, Carrying(w),
         NEW row \in HolderRow, row.balance = worker[w].balance, WriteBalance(w, row),
         UNCHANGED <<chain, head, overlapped>>
  PROVE  Balances'
<1> DEFINE p == PairOf(w)
           k == worker[w].log
<1>1. p \in Pair /\ k \in Log /\ chain[k].block <= head
  BY PairType DEF Ownership, HasLog, Carrying, At, LogOf
<1>2. /\ holder' = [holder EXCEPT ![p] = row] /\ holder \in [Pair -> HolderRow \cup {Null}]
      /\ written' = written \cup {<<k, p>>}
  BY DEF WriteBalance, TypeOK
<1>3. /\ \A v \in Worker \ {w} : worker'[v] = worker[v]
      /\ worker'[w].at \in {"read", "idle"}
  BY NextSideType DEF WriteBalance, Idle
<1>4. holder'[p] = row /\ row # Null /\ \A q \in Pair : q # p => holder'[q] = holder[q]
  BY <1>1, <1>2, NullIsNoRow
<1>5. \A v \in Worker : Carrying(v)' => v # w /\ Carrying(v) /\ worker'[v] = worker[v] /\ PairOf(v)' = PairOf(v)
  BY <1>3 DEF Carrying, PairOf, LogOf
<1>6. Updatable'
  <2>1. SUFFICES ASSUME NEW v \in Worker, At(v, "update")' PROVE holder'[PairOf(v)'] # Null
    BY DEF Updatable
  <2>2. Carrying(v)' /\ At(v, "update") /\ ~At(v, "idle")
    BY <2>1, <1>3, <1>5 DEF Carrying, At
  <2>3. PairOf(v) \in Pair /\ PairOf(v)' = PairOf(v) /\ holder[PairOf(v)] # Null
    BY <2>2, <1>5, PairType DEF Balances, Updatable, Ownership
  <2>4. QED
    BY <2>3, <1>4
<1>7. WrittenAfterMined'
  BY <1>1, <1>2, <1>4 DEF Balances, WrittenAfterMined, Log
<1>8. Readings'
  <2>1. SUFFICES ASSUME NEW v \in Worker, Carrying(v)', PairOf(v)' \notin overlapped'
                 PROVE  Reading(v)'
    BY DEF Readings
  <2>2. /\ v # w /\ Carrying(v) /\ worker'[v] = worker[v] /\ PairOf(v)' = PairOf(v)
        /\ PairOf(v) \notin overlapped /\ Reading(v)
    BY <2>1, <1>5 DEF Balances, Readings
  <2>3. PairOf(v) # p
    BY <2>2 DEF Reading
  <2>4. \A l \in Log : <<l, PairOf(v)>> \in written' => <<l, PairOf(v)>> \in written
    BY <1>2, <2>3
  <2>5. \A u \in Worker : Carrying(u)' /\ PairOf(u)' = PairOf(v)' => u = v
    BY <1>5, <2>2 DEF Reading
  <2>6. \A l \in Log : Covers(l, PairOf(v), worker[v].balance)' <=> Covers(l, PairOf(v), worker[v].balance)
    BY <2>2 DEF Covers, BalanceAt, Touches, Log
  <2>7. Covers(worker[v].log, PairOf(v), worker[v].balance)' <=> Covers(worker[v].log, PairOf(v), worker[v].balance)
    BY <2>2 DEF Covers, BalanceAt, Touches, Log
  <2>8. QED
    BY <2>2, <2>4, <2>5, <2>6, <2>7 DEF Reading, Log
<1>9. StaleBalanceOnlyByOverlap'
  <2>1. SUFFICES ASSUME NEW l \in Log, NEW q \in Pair, <<l, q>> \in written', q \notin overlapped
                 PROVE  holder'[q] # Null /\ BalanceAt(q, chain[l].block) \subseteq holder'[q].balance
    BY DEF StaleBalanceOnlyByOverlap, BalanceAt, Touches, Log
  <2>2. CASE q = p
    <3>1. Reading(w)
      BY <2>1, <2>2 DEF Balances, Readings
    <3>2. Covers(l, p, worker[w].balance)
      BY <2>1, <2>2, <3>1, <1>2 DEF Reading
    <3>3. QED
      BY <2>2, <3>2, <1>4 DEF Covers
  <2>3. CASE q # p
    BY <2>1, <2>3, <1>2, <1>4 DEF Balances, StaleBalanceOnlyByOverlap
  <2>4. QED
    BY <2>2, <2>3
<1>10. QED
  BY <1>6, <1>7, <1>8, <1>9 DEF Balances

(* A balance is read: at the latest block, it has everything.              *)
LEMMA BalancesRead ==
  ASSUME TypeOK, Ownership, Balances, NEW w \in Worker, ReadBalance(w) PROVE Balances'
<1> DEFINE p == PairOf(w)
           k == worker[w].log
<1>1. p \in Pair /\ k \in Log /\ chain[k].block <= head /\ head \in Nat
  BY PairType DEF ReadBalance, Ownership, HasLog, At, LogOf, TypeOK
<1>2. /\ UNCHANGED <<chain, head, holder, written>> /\ overlapped \subseteq overlapped'
      /\ worker' = [worker EXCEPT ![w].at = "insert", ![w].balance = BalanceAt(p, head)]
      /\ (\E v \in Worker \ {w} : Carrying(v) /\ PairOf(v) = p) => p \in overlapped'
  BY DEF ReadBalance, chainVars, effects, requests
<1>3. worker \in [Worker -> WorkerType] /\ worker[w] \in WorkerType
  BY DEF TypeOK
<1>4. worker'[w] = [worker[w] EXCEPT !.at = "insert", !.balance = BalanceAt(p, head)]
      /\ \A v \in Worker \ {w} : worker'[v] = worker[v]
  BY <1>2, <1>3
<1>5. worker'[w].at = "insert" /\ worker'[w].log = k /\ worker'[w].side = worker[w].side
      /\ worker'[w].balance = BalanceAt(p, head)
  BY <1>3, <1>4 DEF WorkerType
<1>6. /\ PairOf(w)' = p
      /\ \A v \in Worker \ {w} : PairOf(v)' = PairOf(v) /\ (Carrying(v)' <=> Carrying(v))
  <2>1. UNCHANGED chain
    BY <1>2
  <2>2. PairOf(w)' = p
    BY <2>1, <1>5 DEF PairOf, LogOf
  <2>3. \A v \in Worker \ {w} : PairOf(v)' = PairOf(v) /\ (Carrying(v)' <=> Carrying(v))
    BY <2>1, <1>4 DEF PairOf, LogOf, Carrying
  <2>4. QED
    BY <2>2, <2>3
<1>7. Updatable'
  BY <1>2, <1>4, <1>5, <1>6 DEF Balances, Updatable, At
<1>8. WrittenAfterMined'
  BY <1>2 DEF Balances, WrittenAfterMined, Log
<1>9. \A l \in Log : chain[l].block <= head => Covers(l, p, BalanceAt(p, head))
  BY <1>1, Logs DEF Covers, BalanceAt
<1>10. Readings'
  <2>1. SUFFICES ASSUME NEW v \in Worker, Carrying(v)', PairOf(v)' \notin overlapped'
                 PROVE  Reading(v)'
    BY DEF Readings
  <2>2. CASE v = w
    <3>1. \A u \in Worker : Carrying(u)' /\ PairOf(u)' = p => u = w
      BY <1>2, <1>6, <2>1, <2>2
    <3>2. \A l \in Log : <<l, p>> \in written \/ l = k => Covers(l, p, BalanceAt(p, head))
      BY <1>1, <1>9 DEF Balances, WrittenAfterMined
    <3>3. \A l \in Log : <<l, p>> \in written \/ l = k =>
            BalanceAt(p, chain[l].block) \subseteq worker'[w].balance
      BY <1>5, <3>2 DEF Covers
    <3>4. chain' = chain /\ Log' = Log /\ written' = written /\ worker'[w].log = k /\ PairOf(w)' = p
      BY <1>2, <1>5, <1>6 DEF Log
    <3>5. QED
      BY <1>1, <2>2, <3>1, <3>3, <3>4 DEF Reading, Covers, BalanceAt, Touches
  <2>3. CASE v # w
    <3>1. Carrying(v) /\ PairOf(v) \notin overlapped /\ Reading(v) /\ PairOf(v) # p
      BY <1>2, <1>6, <2>1, <2>3 DEF Balances, Readings
    <3>2. \A u \in Worker : Carrying(u)' /\ PairOf(u)' = PairOf(v)' => u = v
      BY <1>6, <2>3, <3>1 DEF Reading
    <3>3. worker'[v] = worker[v] /\ PairOf(v)' = PairOf(v)
      BY <1>4, <1>6, <2>3
    <3>4. QED
      BY <1>2, <3>1, <3>2, <3>3 DEF Reading, Covers, BalanceAt, Touches, Log
  <2>4. QED
    BY <2>2, <2>3
<1>11. StaleBalanceOnlyByOverlap'
  BY <1>2 DEF Balances, StaleBalanceOnlyByOverlap, BalanceAt, Touches, Log
<1>12. QED
  BY <1>7, <1>8, <1>10, <1>11 DEF Balances

(* A worker that stops carrying a balance, or goes from INSERT to UPDATE.  *)
LEMMA BalancesOfOthers ==
  ASSUME TypeOK, Ownership, Balances, NEW w \in Worker,
         UNCHANGED <<chain, head, holder, written, overlapped>>,
         \A v \in Worker \ {w} : worker'[v] = worker[v],
         ~Carrying(w)' \/
           (/\ Carrying(w) /\ worker'[w].log = worker[w].log /\ worker'[w].side = worker[w].side
            /\ worker'[w].balance = worker[w].balance /\ holder[PairOf(w)] # Null)
  PROVE  Balances'
<1>1. \A v \in Worker : Carrying(v)' =>
           Carrying(v) /\ PairOf(v)' = PairOf(v)
           /\ worker'[v].balance = worker[v].balance /\ worker'[v].log = worker[v].log
  BY DEF Carrying, PairOf, LogOf
<1>2. \A v \in Worker : At(v, "update")' => holder[PairOf(v)'] # Null
  BY <1>1 DEF Carrying, At, Balances, Updatable
<1>3. QED
  BY <1>1, <1>2, BalancesKept DEF TypeOK

LEMMA BalancesStep == ASSUME TypeOK, Ownership, Balances, Next PROVE Balances'
<1>1. CASE Elsewhere
  <2>1. UNCHANGED <<chain, worker>> /\ head <= head' /\ head' \in Nat /\ head \in Nat
    BY <1>1, ElsewhereKeeps DEF TypeOK
  <2>2. UNCHANGED <<holder, written, overlapped>>
    BY <1>1 DEF Elsewhere, Mine, Arrive, IndexToken, WriteDecoded, RequestToken, WriteRaw, JobFails,
                effects, requests, history, balanceHistory
  <2>3. QED
    BY <2>1, <2>2, BalancesKept DEF Carrying, PairOf, LogOf, At, Balances, Updatable
<1>2. ASSUME NEW w \in Worker, NEW l \in Log, Launch(w, l) PROVE Balances'
  <2>1. UNCHANGED <<holder, written, overlapped>>
    BY <1>2 DEF Launch, effects, requests, history, balanceHistory
  <2>2. QED
    BY <1>2, <2>1, LaunchKeeps, BalancesOfOthers DEF Carrying
<1>3. ASSUME NEW w \in Worker, Step(w) \/ WorkerFails(w) PROVE Balances'
  <2>1. /\ UNCHANGED <<chain, head>>
        /\ \A v \in Worker \ {w} : worker'[v] = worker[v]
    BY <1>3, WorkerMoves DEF Moves, Ownership
  <2>2. CASE ReadBalance(w)
    BY <2>2, BalancesRead
  <2>3. CASE InsertHolder(w)
    <3>1. UNCHANGED overlapped /\ Carrying(w)
      BY <2>3 DEF InsertHolder, Carrying, At
    <3>2. CASE NextSide(w) /\ UNCHANGED <<holder, written>>
      <4>1. ~Carrying(w)'
        BY <3>2, NextSideType DEF Carrying, Idle
      <4>2. QED
        BY <2>1, <3>1, <3>2, <4>1, BalancesOfOthers
    <3>3. CASE WriteBalance(w, [balance |-> worker[w].balance, since |-> LogOf(w).block])
      <4>1. [balance |-> worker[w].balance, since |-> LogOf(w).block] \in HolderRow
        BY <3>1, WorkerFields, PairType DEF HolderRow, Ownership, Carrying, At
      <4>2. QED
        BY <2>1, <3>1, <3>3, <4>1, BalancesWritten
    <3>4. CASE GoTo(w, "update") /\ UNCHANGED <<holder, written>> /\ holder[PairOf(w)] # Null
      BY <2>1, <3>1, <3>4, GoToType, BalancesOfOthers DEF Place
    <3>5. QED
      BY <2>3, <3>2, <3>3, <3>4 DEF InsertHolder
  <2>4. CASE UpdateHolder(w)
    <3>1. UNCHANGED overlapped /\ Carrying(w)
      BY <2>4 DEF UpdateHolder, Carrying, At
    <3>2. holder[PairOf(w)] \in HolderRow
      BY <2>4, <3>1, PairType
         DEF UpdateHolder, Balances, Updatable, TypeOK, Ownership, Carrying, At
    <3>3. [holder[PairOf(w)] EXCEPT !.balance = worker[w].balance] \in HolderRow
          /\ [holder[PairOf(w)] EXCEPT !.balance = worker[w].balance].balance = worker[w].balance
      BY <3>2, WorkerFields DEF HolderRow
    <3>4. QED
      BY <2>1, <2>4, <3>1, <3>3, BalancesWritten DEF UpdateHolder
  <2>5. CASE WorkerFails(w)
    <3>1. UNCHANGED <<holder, written, overlapped>>
      BY <2>5 DEF WorkerFails, effects, requests, balanceHistory
    <3>2. ~Carrying(w)'
      BY <2>5, NextSideType, ReturnType DEF WorkerFails, Carrying, Idle
    <3>3. QED
      BY <2>1, <3>1, <3>2, BalancesOfOthers
  <2>6. CASE CheckIndexed(w) \/ InsertEvent(w) \/ InsertContract(w) \/ InsertParameters(w)
             \/ RouteEvent(w) \/ TokenTransfer(w) \/ InsertDataChanged(w) \/ SelectTokens(w)
             \/ RequestRefresh(w)
    <3>1. UNCHANGED <<holder, written, overlapped>>
      BY <2>6 DEF CheckIndexed, InsertEvent, InsertContract, InsertParameters, RouteEvent,
           TokenTransfer, InsertDataChanged, SelectTokens, RequestRefresh, effects, requests, history,
           balanceHistory
    <3>2. ~Carrying(w)'
      <4>1. CASE RouteEvent(w)
        <5>1. LogOf(w).topic \in Topic
          BY <4>1, Logs DEF RouteEvent, At, Ownership, HasLog, LogOf
        <5>2. (\E step \in {"read", "token", "data"} : GoTo(w, step)) \/ Return(w)
          BY <4>1, <5>1 DEF RouteEvent, Finish, Topic
        <5>3. QED
          BY <5>2, GoToType, ReturnType DEF Carrying, Place, Idle
      <4>2. CASE ~RouteEvent(w)
        <5>1. \/ \E step \in {"row", "contract", "params", "route", "select", "refresh"} : GoTo(w, step)
              \/ Return(w)
          BY <2>6, <4>2 DEF CheckIndexed, InsertEvent, InsertContract, InsertParameters,
               TokenTransfer, InsertDataChanged, RequestRefresh, SelectTokens, Finish
        <5>2. QED
          BY <5>1, GoToType, ReturnType DEF Carrying, Place, Idle
      <4>3. QED
        BY <4>1, <4>2
    <3>3. QED
      BY <2>1, <3>1, <3>2, BalancesOfOthers
  <2>7. QED
    BY <1>3, <2>2, <2>3, <2>4, <2>5, <2>6 DEF Step
<1>4. CASE Crash
  <2>1. worker' = [w \in Worker |-> Idle]
        /\ UNCHANGED <<chain, head, holder, written, overlapped>>
    BY <1>4 DEF Crash, chainVars, effects, requests, balanceHistory
  <2>2. \A w \in Worker : ~Carrying(w)' /\ ~At(w, "update")'
    BY <2>1 DEF Carrying, At, Idle
  <2>3. QED
    BY <2>1, <2>2, BalancesKept DEF TypeOK
<1>5. QED
  BY <1>1, <1>2, <1>3, <1>4 DEF Next, Elsewhere

-----------------------------------------------------------------------------
(* Owners of tokens.                                                       *)

(* What indexToken will write back is the owner of the row, unless the     *)
(* token was transferred meanwhile or its owner is out of order already.   *)
OwnersRead ==
  \A j \in Job : job[j].at # "idle" /\ j \notin overtaken /\ job[j].token \notin disordered =>
    job[j].owner = token[job[j].token].owner

Owners == TokenJobs /\ moved \subseteq Log /\ OwnersRead /\ WrongOwnerOnlyByDisorder

(* No owner changes but of a token that is out of order.                   *)
LEMMA OwnersKept ==
  ASSUME Owners, UNCHANGED <<chain, moved>>, disordered \subseteq disordered',
         \A t \in TokenId : token'[t] = Null <=> token[t] = Null,
         \A t \in TokenId \ disordered' : token[t] # Null => token'[t].owner = token[t].owner,
         \A j \in Job : job'[j].at # "idle" =>
           /\ job[j].at # "idle" /\ job'[j].token = job[j].token /\ job'[j].owner = job[j].owner
           /\ j \in overtaken => j \in overtaken'
  PROVE  Owners'
<1>1. TokenJobs'
  BY DEF Owners, TokenJobs
<1>2. OwnersRead'
  BY DEF Owners, TokenJobs, OwnersRead
<1>3. WrongOwnerOnlyByDisorder'
  BY DEF Owners, WrongOwnerOnlyByDisorder
<1>4. QED
  BY <1>1, <1>2, <1>3 DEF Owners, Log

LEMMA OwnersOfTransfer ==
  ASSUME TypeOK, Ownership, Owners, NEW w \in Worker, TokenTransfer(w),
         LogOf(w).address \in contract
  PROVE  Owners'
<1> DEFINE l == worker[w].log
           t == LogOf(w).token
           row == IF token[t] = Null
                  THEN [address |-> LogOf(w).address, owner |-> LogOf(w).to, decoded |-> FALSE]
                  ELSE [token[t] EXCEPT !.owner = LogOf(w).to]
<1>1. /\ UNCHANGED <<chain, job>> /\ moved' = moved \cup {l}
      /\ token' = [token EXCEPT ![t] = row]
      /\ disordered' = IF \E k \in moved : chain[k].token = t /\ k > l
                       THEN disordered \cup {t} ELSE disordered
      /\ overtaken' = overtaken \cup HoldersOf(t)
  BY DEF TokenTransfer, chainVars, TypeOK
<1>2. l \in Log /\ t \in TokenId /\ LogOf(w).address \in Address /\ LogOf(w).to \in Holder
  BY PairType DEF TokenTransfer, At, Ownership
<1>3. token \in [TokenId -> TokenRow \cup {Null}] /\ Null \notin TokenRow
  BY NullIsNoRow DEF TypeOK
<1>4. row \in TokenRow /\ row.owner = LogOf(w).to
  BY <1>2, <1>3 DEF TokenRow
<1>5. token'[t] = row /\ token'[t] # Null /\ \A u \in TokenId : u # t => token'[u] = token[u]
  BY <1>1, <1>2, <1>3, <1>4
<1>6. /\ t \notin disordered' => \A k \in moved : chain[k].token = t => ~(k > l)
      /\ \A j \in Job : j \notin overtaken' => j \notin overtaken /\ job[j].token # t
  BY <1>1 DEF HoldersOf
<1>7. \A u : u \notin disordered' => u \notin disordered
  BY <1>1
<1>8. TokenJobs'
  BY <1>1, <1>5 DEF Owners, TokenJobs
<1>9. OwnersRead'
  BY <1>1, <1>5, <1>6, <1>7 DEF Owners, OwnersRead, TokenJobs
<1>10. WrongOwnerOnlyByDisorder'
  <2>1. SUFFICES ASSUME NEW u \in TokenId, token'[u] # Null, u \notin disordered'
                 PROVE  \E m \in moved' : /\ chain[m].token = u
                                          /\ token'[u].owner = chain[m].to
                                          /\ \A k \in moved' : chain[k].token = u => k <= m
    BY <1>1 DEF WrongOwnerOnlyByDisorder
  <2>2. CASE u = t
    <3>1. \A k \in moved' : chain[k].token = t => k <= l
      BY <1>1, <1>2, <1>6, <2>1, <2>2, Logs DEF Owners
    <3>2. l \in moved' /\ chain[l].token = t /\ token'[t].owner = chain[l].to
      BY <1>1, <1>4, <1>5 DEF LogOf
    <3>3. QED
      BY <2>2, <3>1, <3>2
  <2>3. CASE u # t
    <3>1. chain[l].token = t
      BY DEF LogOf
    <3>2. PICK m \in moved : /\ chain[m].token = u /\ token[u].owner = chain[m].to
                             /\ \A k \in moved : chain[k].token = u => k <= m
      BY <1>5, <1>7, <2>1, <2>3 DEF Owners, WrongOwnerOnlyByDisorder
    <3>3. QED
      BY <1>1, <1>5, <2>3, <3>1, <3>2
  <2>4. QED
    BY <2>2, <2>3
<1>11. QED
  BY <1>1, <1>2, <1>8, <1>9, <1>10 DEF Owners, Log

LEMMA OwnersStep == ASSUME TypeOK, Ownership, Owners, Next PROVE Owners'
<1>1. CASE Mine
  BY <1>1, OwnersKept DEF Mine, effects, requests, history, tokenHistory
<1>2. ASSUME NEW w \in Worker, NEW l \in Log, Launch(w, l) PROVE Owners'
  BY <1>2, OwnersKept DEF Launch, chainVars, effects, requests, history, tokenHistory
<1>3. ASSUME NEW w \in Worker, Step(w) \/ WorkerFails(w) PROVE Owners'
  <2>1. CASE TokenTransfer(w) /\ LogOf(w).address \in contract
    BY <2>1, OwnersOfTransfer
  <2>2. CASE ~(TokenTransfer(w) /\ LogOf(w).address \in contract)
    <3>1. UNCHANGED <<chain, token, job, moved, disordered, overtaken>>
      BY <1>3, <2>2 DEF Step, CheckIndexed, InsertEvent, InsertContract, InsertParameters,
           RouteEvent, ReadBalance, InsertHolder, UpdateHolder, TokenTransfer,
           InsertDataChanged, SelectTokens, RequestRefresh, WorkerFails,
           chainVars, effects, requests, history, tokenHistory
    <3>2. QED
      BY <3>1, OwnersKept
  <2>3. QED
    BY <2>1, <2>2
<1>4. ASSUME NEW j \in Job, NEW t \in TokenId, IndexToken(j, t) PROVE Owners'
  <2>1. UNCHANGED <<chain, token, moved, disordered, overtaken>>
        /\ job' = [job EXCEPT ![j] = [at |-> "write", token |-> t, owner |-> token[t].owner]]
        /\ job \in [Job -> JobType]
    BY <1>4 DEF IndexToken, chainVars, effects, requests, history, tokenHistory, TypeOK
  <2>2. token[t] # Null /\ token[t].owner \in Holder
    BY <1>4 DEF IndexToken, TypeOK, TokenRow
  <2>3. job'[j] = [at |-> "write", token |-> t, owner |-> token[t].owner]
        /\ \A i \in Job \ {j} : job'[i] = job[i]
    BY <2>1
  <2>4. TokenJobs'
    BY <2>1, <2>2, <2>3 DEF Owners, TokenJobs
  <2>5. OwnersRead'
    BY <2>1, <2>3 DEF Owners, OwnersRead
  <2>6. QED
    BY <2>1, <2>4, <2>5 DEF Owners, WrongOwnerOnlyByDisorder, Log
<1>5. ASSUME NEW j \in Job, JobStep(j) PROVE Owners'
  <2>1. UNCHANGED <<chain, moved>> /\ disordered \subseteq disordered'
    BY <1>5
       DEF JobStep, WriteDecoded, RequestToken, WriteRaw, WriteBack, JobFails, chainVars,
           history, tokenHistory
  <2>2. /\ \A i \in Job \ {j} : job'[i] = job[i]
        /\ job'[j].at # "idle" => /\ job[j].at # "idle"
                                  /\ job'[j].token = job[j].token /\ job'[j].owner = job[j].owner
        /\ \A i \in Job : job'[i].at # "idle" /\ i \in overtaken => i \in overtaken'
    <3>1. CASE EndJob(j)
      BY <3>1, EndJobType DEF NoJob, EndJob
    <3>2. CASE UNCHANGED overtaken /\ job[j].at # "idle"
               /\ \E step \in {"raw", "request"} : StepJob(j, step)
      BY <3>2, StepJobType
    <3>3. QED
      BY <1>5, <3>1, <3>2
         DEF JobStep, WriteDecoded, RequestToken, WriteRaw, JobFails, history, tokenHistory
  <2>3. CASE UNCHANGED token
    BY <2>1, <2>2, <2>3, OwnersKept
  <2>4. CASE WriteDecoded(j) \/ WriteRaw(j)
    <3>1. job[j].at # "idle" /\ \E decoded \in BOOLEAN : WriteBack(j, decoded)
      BY <2>4 DEF WriteDecoded, WriteRaw
    <3>2. /\ token'[job[j].token] # Null /\ token'[job[j].token].owner = job[j].owner
          /\ \A t \in TokenId : t # job[j].token => token'[t] = token[t]
      BY <3>1, WriteBackType DEF Owners
    <3>3. job[j].token \notin disordered' => j \notin overtaken
      BY <3>1 DEF WriteBack
    <3>4. token[job[j].token] # Null
          /\ (job[j].token \notin disordered' => job[j].owner = token[job[j].token].owner)
      BY <2>1, <3>1, <3>3 DEF Owners, TokenJobs, OwnersRead
    <3>5. QED
      BY <2>1, <2>2, <3>2, <3>4, OwnersKept
  <2>5. QED
    BY <1>5, <2>3, <2>4 DEF JobStep, RequestToken, JobFails, effects
<1>6. CASE Crash
  <2>1. UNCHANGED <<chain, token, moved, disordered>> /\ job' = [j \in Job |-> NoJob]
    BY <1>6 DEF Crash, chainVars
  <2>2. QED
    BY <2>1, OwnersKept DEF NoJob
<1>7. ASSUME NEW l \in Log, NEW t \in TokenId, Arrive(l, t) PROVE Owners'
  BY <1>7, OwnersKept DEF Arrive, chainVars, history, tokenHistory
<1>8. QED
  BY <1>1, <1>2, <1>3, <1>4, <1>5, <1>6, <1>7 DEF Next, JobStep

-----------------------------------------------------------------------------
(* What a row in the table of events stands for.                           *)

HolderStored(l, h) ==
  \/ <<l, <<chain[l].address, h>>>> \in written
  \/ \E k \in Log : chain[k].wide /\ Touches(k, <<chain[l].address, h>>)

(* What the owner of a log has done by the time it is at its place.        *)
Done(w) ==
  /\ ~At(w, "contract") => LogOf(w).address \in contract
  /\ worker[w].at \notin {"contract", "params"} => worker[w].log \in eventParameter
  /\ worker[w].at \in {"read", "insert", "update"} =>
       /\ LogOf(w).topic = "LSP7"
       /\ worker[w].side = "to" => HolderStored(worker[w].log, LogOf(w).from)
  /\ Carrying(w) => \A k \in worker[w].balance : Touches(k, PairOf(w))
  /\ At(w, "token") => LogOf(w).topic = "LSP8"
  /\ worker[w].at \in {"data", "select", "refresh"} => LogOf(w).topic = "DataChanged"
  /\ worker[w].at \in {"select", "refresh"} =>
       \E k \in dataChanged : SameValueSlot(k, worker[w].log)
  /\ At(w, "refresh") => LogOf(w).key = "contract"
  /\ At(w, "select") => LogOf(w).key \in {"token", "tokens"}

AtFirst(w) ==
  worker[w].at \in {"check", "row", "contract", "params", "route"} => worker[w].side = "from"
FirstSide == \A w \in Worker : AtFirst(w)

Progress ==
  /\ FirstSide
  /\ \A w \in Worker : Owning(w) /\ worker[w].log \notin faulted => Done(w)

(* Nothing an event left in the tables goes away.                          *)
Grows ==
  /\ UNCHANGED chain
  /\ contract \subseteq contract' /\ eventParameter \subseteq eventParameter'
  /\ written \subseteq written' /\ dataChanged \subseteq dataChanged' /\ faulted \subseteq faulted'
  /\ \A t \in TokenId : token[t] # Null => token'[t] # Null

LEMMA Growing == ASSUME TypeOK, Ownership, Owners, Next PROVE Grows
<1>1. CASE Mine
  BY <1>1 DEF Mine, rows, effects, requests, history, balanceHistory, Grows
<1>2. ASSUME NEW w \in Worker, NEW l \in Log, Launch(w, l) PROVE Grows
  BY <1>2 DEF Launch, chainVars, rows, effects, requests, history, balanceHistory, Grows
<1>3. ASSUME NEW w \in Worker, Step(w) \/ WorkerFails(w) PROVE Grows
  <2>1. UNCHANGED chain
    BY <1>3, WorkerMoves DEF Moves, Ownership
  <2>2. /\ contract \subseteq contract' /\ eventParameter \subseteq eventParameter'
        /\ dataChanged \subseteq dataChanged' /\ faulted \subseteq faulted'
    BY <1>3
       DEF Step, CheckIndexed, InsertEvent, InsertContract, InsertParameters,
           RouteEvent,
         ReadBalance, InsertHolder, UpdateHolder, TokenTransfer, InsertDataChanged,
         SelectTokens, RequestRefresh, WorkerFails, rows, effects, requests, history
  <2>3. written \subseteq written'
    BY <1>3
       DEF Step, CheckIndexed, InsertEvent, InsertContract, InsertParameters,
           RouteEvent,
         ReadBalance, InsertHolder, UpdateHolder, WriteBalance, TokenTransfer,
         InsertDataChanged, SelectTokens, RequestRefresh, WorkerFails, history, balanceHistory
  <2>4. \A t \in TokenId : token[t] # Null => token'[t] # Null
    <3>1. CASE UNCHANGED token
      BY <3>1
    <3>2. CASE TokenTransfer(w) /\ ~UNCHANGED token
      <4> DEFINE t == LogOf(w).token
                 row == IF token[t] = Null
                        THEN [address |-> LogOf(w).address, owner |-> LogOf(w).to, decoded |-> FALSE]
                        ELSE [token[t] EXCEPT !.owner = LogOf(w).to]
      <4>1. t \in TokenId /\ LogOf(w).address \in Address /\ LogOf(w).to \in Holder
        BY <3>2, PairType DEF TokenTransfer, At, Ownership
      <4>2. token \in [TokenId -> TokenRow \cup {Null}] /\ Null \notin TokenRow
        BY NullIsNoRow DEF TypeOK
      <4>3. row \in TokenRow
        BY <4>1, <4>2 DEF TokenRow
      <4>4. token' = [token EXCEPT ![t] = row]
        BY <3>2, <4>2 DEF TokenTransfer
      <4>5. QED
        BY <4>1, <4>2, <4>3, <4>4
    <3>3. QED
      BY <1>3, <3>1, <3>2 DEF Step, CheckIndexed, InsertEvent, InsertContract,
         InsertParameters, RouteEvent, ReadBalance, InsertHolder, UpdateHolder,
         InsertDataChanged, SelectTokens, RequestRefresh, WorkerFails, effects, requests
  <2>5. QED
    BY <2>1, <2>2, <2>3, <2>4 DEF Grows
<1>4. ASSUME NEW j \in Job, NEW t \in TokenId, IndexToken(j, t) PROVE Grows
  BY <1>4 DEF IndexToken, chainVars, rows, effects, requests, history, balanceHistory, Grows
<1>5. ASSUME NEW j \in Job, JobStep(j) PROVE Grows
  <2>1. UNCHANGED <<chain, contract, eventParameter, written, dataChanged, faulted>>
    BY <1>5 DEF JobStep, WriteDecoded, RequestToken, WriteRaw, JobFails,
         chainVars, rows, effects, requests, history, balanceHistory
  <2>2. UNCHANGED token
        \/ (job[j].at # "idle" /\ \E decoded \in BOOLEAN : WriteBack(j, decoded))
    BY <1>5 DEF JobStep, WriteDecoded, RequestToken, WriteRaw, JobFails, effects
  <2>3. \A t \in TokenId : token[t] # Null => token'[t] # Null
    BY <2>2, WriteBackType DEF Owners
  <2>4. QED
    BY <2>1, <2>3 DEF Grows
<1>6. CASE Crash
  BY <1>6 DEF Crash, chainVars, rows, balanceHistory, Grows
<1>7. ASSUME NEW l \in Log, NEW t \in TokenId, Arrive(l, t) PROVE Grows
  BY <1>7 DEF Arrive, chainVars, rows, history, balanceHistory, Grows
<1>8. QED
  BY <1>1, <1>2, <1>3, <1>4, <1>5, <1>6, <1>7 DEF Next, JobStep

LEMMA StoredGrows ==
  ASSUME TypeOK, Grows, NEW l \in Log, Stored(l) PROVE Stored(l)'
<1>1. chain[l].topic \in Topic /\ chain[l].token \in TokenId
  BY Logs
<1>2. QED
  BY <1>1 DEF Stored, Grows, SameValueSlot, Touches, Log, Topic

LEMMA DoneKept ==
  ASSUME Grows, NEW w \in Worker, worker'[w] = worker[w], Done(w) PROVE Done(w)'
  BY DEF Done, Grows, HolderStored, At, LogOf, PairOf, Carrying, Touches, SameValueSlot, Log

(* A side of a transfer the worker is through with.                        *)
LEMMA SideStored ==
  ASSUME TypeOK, Ownership, NEW w \in Worker, Done(w), InsertHolder(w) \/ UpdateHolder(w),
         worker'[w].at # "update", NEW l, l = worker[w].log, NEW h, h = PairOf(w)[2]
  PROVE  /\ NextSide(w) /\ l \in Log /\ LogOf(w).topic = "LSP7"
         /\ HolderStored(l, h)'
<1>1. /\ l \in Log /\ worker[w].at \in {"insert", "update"} /\ UNCHANGED chain
      /\ LogOf(w).address \in contract /\ LogOf(w).topic = "LSP7"
      /\ \A k \in worker[w].balance : k \in Log /\ Touches(k, PairOf(w))
  BY WorkerFields
     DEF InsertHolder, UpdateHolder, At, Done, Carrying, Ownership, HasLog,
         chainVars
<1>2. PairOf(w) = <<chain[l].address, PairOf(w)[2]>> /\ PairOf(w)[1] = LogOf(w).address
  BY DEF PairOf, LogOf
<1>3. UpdateHolder(w) => NextSide(w) /\ <<l, PairOf(w)>> \in written'
  BY DEF UpdateHolder, WriteBalance
<1>4. InsertHolder(w) => /\ NextSide(w)
                         /\ TooWide(PairOf(w), worker[w].balance) \/ <<l, PairOf(w)>> \in written'
  BY <1>1, <1>2, GoToType DEF InsertHolder, WriteBalance, Place
<1>5. TooWide(PairOf(w), worker[w].balance) =>
        \E k \in Log : chain[k].wide /\ Touches(k, PairOf(w))
  BY <1>1 DEF TooWide
<1>6. PICK p : p = PairOf(w) /\ p = <<chain[l].address, h>>
  BY <1>2
<1>7. HolderStored(l, h)'
  BY <1>1, <1>3, <1>4, <1>5, <1>6 DEF HolderStored, Touches, Log
<1>8. QED
  BY <1>1, <1>3, <1>4, <1>7

(* A step of the owner of a log that leaves it at another place of its way.*)
LEMMA OwnerProgress ==
  ASSUME TypeOK, Ownership, Progress, Grows, NEW w \in Worker, Step(w), Owning(w)',
         worker[w].log \notin faulted
  PROVE  Done(w)'
<1> USE DEF At
<1>0. PICK l : l = worker[w].log
  OBVIOUS
<1>1. /\ UNCHANGED chain /\ Log' = Log /\ l \in Log /\ worker'[w].log = l
      /\ contract \subseteq contract' /\ eventParameter \subseteq eventParameter'
      /\ written \subseteq written' /\ dataChanged \subseteq dataChanged'
  <2>1. worker'[w].log = l /\ ~At(w, "idle")
    BY <1>0, WorkerMoves
       DEF Moves, Claims, Applies, Leaves, Continues, Owning, Idle, Ownership
  <2>2. QED
    BY <1>0, <2>1 DEF Grows, Log, Ownership, HasLog
<1>2. Owning(w) => Done(w)
  BY DEF Progress
<1>3. CASE InsertEvent(w) \/ CheckIndexed(w)
  <2>1. worker'[w].at = "contract"
    BY <1>3, GoToType, ReturnType DEF InsertEvent, CheckIndexed, Owning, Idle, Place
  <2>2. QED
    BY <2>1 DEF Done, Carrying
<1>4. CASE InsertContract(w)
  <2>1. worker'[w].at = "params" /\ chain[l].address \in contract'
    BY <1>0, <1>4, GoToType DEF InsertContract, LogOf, Place
  <2>2. QED
    BY <1>1, <2>1 DEF Done, Carrying, LogOf
<1>5. CASE InsertParameters(w)
  <2>1. worker'[w].at = "route" /\ l \in eventParameter'
    BY <1>0, <1>5, GoToType, ReturnType DEF InsertParameters, Owning, Idle, Place
  <2>2. chain[l].address \in contract'
    BY <1>0, <1>1, <1>2, <1>5 DEF InsertParameters, Owning, Done, LogOf
  <2>3. QED
    BY <1>1, <2>1, <2>2 DEF Done, Carrying, LogOf
<1>6. CASE RouteEvent(w)
  <2>1. worker[w].side = "from" /\ worker[w].at = "route"
    BY <1>6 DEF RouteEvent, Progress, FirstSide, AtFirst
  <2>2. chain[l].address \in contract' /\ l \in eventParameter'
    BY <1>0, <1>1, <1>2, <2>1 DEF Owning, Done, LogOf
  <2>3. LogOf(w).topic # "other" /\ chain[l].topic \in {"LSP7", "LSP8", "DataChanged"}
    BY <1>0, <1>1, <1>6, Logs, ReturnType DEF RouteEvent, Finish, Owning, Idle, LogOf, Topic
  <2>4. /\ chain[l].topic = "LSP7" => GoTo(w, "read")
        /\ chain[l].topic = "LSP8" => GoTo(w, "token")
        /\ chain[l].topic = "DataChanged" => GoTo(w, "data")
    BY <1>0, <1>6, <2>3 DEF RouteEvent, LogOf
  <2>5. /\ worker'[w].at = CASE chain[l].topic = "LSP7" -> "read"
                             [] chain[l].topic = "LSP8" -> "token"
                             [] chain[l].topic = "DataChanged" -> "data"
        /\ worker'[w].side = "from"
    BY <2>1, <2>3, <2>4, GoToType DEF Place
  <2>6. QED
    BY <1>1, <2>2, <2>3, <2>5 DEF Done, Carrying, LogOf
<1>7. CASE ReadBalance(w)
  <2> DEFINE balance == BalanceAt(PairOf(w), head)
  <2>1. worker' = [worker EXCEPT ![w].at = "insert", ![w].balance = balance]
        /\ worker[w].at = "read" /\ worker \in [Worker -> WorkerType] /\ worker[w] \in WorkerType
    BY <1>7 DEF ReadBalance, TypeOK
  <2>2. worker'[w] = [worker[w] EXCEPT !.at = "insert", !.balance = balance]
    BY <2>1
  <2>3. worker'[w].at = "insert" /\ worker'[w].side = worker[w].side /\ worker'[w].balance = balance
    BY <2>1, <2>2 DEF WorkerType
  <2>4. PairOf(w)' = PairOf(w)
    BY <1>0, <1>1, <2>3 DEF PairOf, LogOf
  <2>5. \A k \in worker'[w].balance : Touches(k, PairOf(w))'
    BY <1>1, <2>3, <2>4 DEF BalanceAt, Touches
  <2>6. Done(w) /\ Owning(w)
    BY <1>2, <2>1 DEF Owning
  <2>7. /\ chain[l].address \in contract' /\ l \in eventParameter' /\ chain[l].topic = "LSP7"
        /\ worker'[w].side = "to" => HolderStored(l, chain[l].from)
    BY <1>0, <1>1, <2>1, <2>3, <2>6 DEF Done, LogOf
  <2>8. worker'[w].side = "to" => HolderStored(l, chain[l].from)'
    BY <1>1, <2>7 DEF HolderStored, Touches
  <2>9. QED
    BY <1>1, <2>3, <2>5, <2>7, <2>8 DEF Done, Carrying, LogOf
<1>8. CASE InsertHolder(w) \/ UpdateHolder(w)
  <2>1. worker[w].at \in {"insert", "update"} /\ Owning(w) /\ Done(w)
    BY <1>2, <1>8 DEF InsertHolder, UpdateHolder, Owning
  <2>2. chain[l].address \in contract' /\ l \in eventParameter' /\ chain[l].topic = "LSP7"
    BY <1>0, <1>1, <2>1 DEF Done, LogOf
  <2>3. CASE worker'[w].at = "update"
    <3>1. GoTo(w, "update")
      BY <1>8, <2>3, NextSideType DEF InsertHolder, UpdateHolder, WriteBalance, Idle
    <3>2. worker'[w].side = worker[w].side /\ worker'[w].balance = worker[w].balance
      BY <3>1, GoToType DEF Place
    <3>3. PairOf(w)' = PairOf(w)
      BY <1>0, <1>1, <3>2 DEF PairOf, LogOf
    <3>4. \A k \in worker'[w].balance : Touches(k, PairOf(w))'
      BY <1>1, <2>1, <3>2, <3>3 DEF Done, Carrying, Touches
    <3>5. worker'[w].side = "to" => HolderStored(l, chain[l].from)'
      BY <1>0, <1>1, <2>1, <3>2 DEF Done, LogOf, HolderStored, Touches
    <3>6. QED
      BY <1>1, <2>2, <2>3, <3>4, <3>5 DEF Done, Carrying, LogOf
  <2>4. CASE worker'[w].at # "update"
    <3>1. PICK h : h = PairOf(w)[2]
      OBVIOUS
    <3>2. NextSide(w) /\ HolderStored(l, h)'
      BY <1>0, <1>8, <2>1, <2>4, <3>1, SideStored
    <3>3. worker[w].side = "from" /\ worker'[w].at = "read" /\ worker'[w].side = "to"
      BY <3>2, NextSideType DEF Owning, Idle
    <3>4. h = chain[l].from
      BY <1>0, <3>1, <3>3 DEF PairOf, LogOf
    <3>5. QED
      BY <1>1, <2>2, <3>2, <3>3, <3>4 DEF Done, Carrying, LogOf
  <2>5. QED
    BY <2>3, <2>4
<1>9. CASE TokenTransfer(w) \/ RequestRefresh(w) \/ SelectTokens(w)
  BY <1>9, ReturnType DEF TokenTransfer, RequestRefresh, SelectTokens, Finish, Owning, Idle
<1>10. CASE InsertDataChanged(w)
  <2>1. worker'[w].at \in {"select", "refresh"}
    BY <1>10, GoToType, ReturnType DEF InsertDataChanged, Finish, Owning, Idle, Place
  <2>2. chain[l].address \in contract' /\ l \in eventParameter' /\ chain[l].topic = "DataChanged"
    BY <1>0, <1>1, <1>2, <1>10 DEF InsertDataChanged, Owning, Done, LogOf
  <2>3. \E k \in dataChanged' : SameValueSlot(k, l)
    BY <1>0, <1>10 DEF InsertDataChanged, SameValueSlot
  <2>4. chain[l].key \in DataKey /\ chain[l].key # "none"
    BY <1>0, <1>1, <1>10, Logs, ReturnType DEF InsertDataChanged, Finish, Owning, Idle, LogOf
  <2>5. worker'[w].at = IF chain[l].key = "contract" THEN "refresh" ELSE "select"
    BY <1>0, <1>10, <2>4, GoToType DEF InsertDataChanged, LogOf, Place
  <2>6. QED
    BY <1>1, <2>1, <2>2, <2>3, <2>4, <2>5 DEF Done, Carrying, LogOf, SameValueSlot, DataKey
<1>11. QED
  BY <1>3, <1>4, <1>5, <1>6, <1>7, <1>8, <1>9, <1>10 DEF Step

(* The owner of a log that comes to its end has stored what it stands for. *)
LEMMA OwnerEnds ==
  ASSUME TypeOK, Ownership, Progress, Grows, NEW w \in Worker, Step(w), Owning(w), ~Owning(w)',
         NEW l, l = worker[w].log, l \notin faulted, chain[l].abi, chain[l].fits
  PROVE  l \in eventParameter' /\ Stored(l)'
<1> USE DEF At
<1>1. /\ UNCHANGED chain /\ Log' = Log /\ l \in Log /\ Done(w)
      /\ eventParameter \subseteq eventParameter' /\ written \subseteq written'
      /\ dataChanged \subseteq dataChanged'
  BY DEF Grows, Log, Ownership, HasLog, Progress, Owning
<1>2. CASE RouteEvent(w)
  <2>1. l \in eventParameter
    BY <1>1, <1>2 DEF RouteEvent, Done
  <2>2. chain[l].topic = "other"
    <3>1. SUFFICES ASSUME chain[l].topic # "other" PROVE FALSE
      OBVIOUS
    <3>2. chain[l].topic \in {"LSP7", "LSP8", "DataChanged"}
      BY <1>1, <3>1, Logs DEF Topic
    <3>3. \E step \in {"read", "token", "data"} : GoTo(w, step)
      BY <1>2, <3>1, <3>2 DEF RouteEvent, LogOf
    <3>4. QED
      BY <3>3, GoToType DEF Owning, Place
  <2>3. QED
    BY <1>1, <2>1, <2>2 DEF Stored
<1>3. CASE InsertHolder(w) \/ UpdateHolder(w)
  <2>1. worker'[w].at # "update" /\ worker[w].at \in {"insert", "update"}
    BY <1>3 DEF Owning, InsertHolder, UpdateHolder
  <2>2. PICK h : h = PairOf(w)[2]
    OBVIOUS
  <2>3. NextSide(w) /\ chain[l].topic = "LSP7" /\ HolderStored(l, h)'
    BY <1>1, <1>3, <2>1, <2>2, SideStored DEF LogOf
  <2>4. worker[w].side = "to"
    BY <2>3, NextSideType DEF Owning
  <2>5. l \in eventParameter /\ HolderStored(l, chain[l].from)
    BY <1>1, <2>1, <2>4 DEF Done, LogOf
  <2>6. HolderStored(l, chain[l].from)'
    BY <1>1, <2>5 DEF HolderStored, Touches
  <2>7. h = chain[l].to
    BY <2>2, <2>4 DEF PairOf, LogOf
  <2>8. QED
    BY <1>1, <2>3, <2>5, <2>6, <2>7 DEF Stored, HolderStored
<1>4. CASE TokenTransfer(w)
  <2>1. l \in eventParameter /\ LogOf(w).topic = "LSP8" /\ LogOf(w).address \in contract
    BY <1>1, <1>4 DEF TokenTransfer, Done
  <2> DEFINE t == LogOf(w).token
             row == IF token[t] = Null
                    THEN [address |-> LogOf(w).address, owner |-> LogOf(w).to, decoded |-> FALSE]
                    ELSE [token[t] EXCEPT !.owner = LogOf(w).to]
  <2>2. t \in TokenId /\ LogOf(w).address \in Address /\ LogOf(w).to \in Holder
    BY <1>4, PairType DEF TokenTransfer, Ownership
  <2>3. token \in [TokenId -> TokenRow \cup {Null}] /\ Null \notin TokenRow
    BY NullIsNoRow DEF TypeOK
  <2>4. row \in TokenRow
    BY <2>2, <2>3 DEF TokenRow
  <2>5. token' = [token EXCEPT ![t] = row]
    BY <1>4, <2>1, <2>3 DEF TokenTransfer
  <2>6. token'[chain[l].token] # Null
    BY <2>2, <2>3, <2>4, <2>5 DEF LogOf
  <2>7. QED
    BY <1>1, <2>1, <2>6 DEF Stored, LogOf
<1>5. CASE RequestRefresh(w) \/ SelectTokens(w) \/ InsertDataChanged(w)
  <2>1. l \in eventParameter /\ chain[l].topic = "DataChanged"
        /\ \E k \in dataChanged' : SameValueSlot(k, l)
    BY <1>1, <1>5 DEF RequestRefresh, SelectTokens, InsertDataChanged, SameValueSlot, Done, LogOf
  <2>2. QED
    BY <1>1, <2>1 DEF Stored, SameValueSlot
<1>6. CASE InsertParameters(w)
  <2>1. worker'[w].at = "route"
    BY <1>6, GoToType DEF InsertParameters, LogOf, Place
  <2>2. QED
    BY <2>1 DEF Owning
<1>7. CASE InsertContract(w)
  BY <1>7, GoToType DEF InsertContract, Owning, Place
<1>8. CASE ReadBalance(w)
  <2>1. worker \in [Worker -> WorkerType] /\ worker[w] \in WorkerType
    BY DEF TypeOK
  <2>2. worker'[w].at = "insert"
    BY <1>8, <2>1 DEF ReadBalance, WorkerType
  <2>3. QED
    BY <2>2 DEF Owning
<1>9. CASE CheckIndexed(w) \/ InsertEvent(w)
  BY <1>9 DEF CheckIndexed, InsertEvent, Owning
<1>10. QED
  BY <1>2, <1>3, <1>4, <1>5, <1>6, <1>7, <1>8, <1>9 DEF Step

LEMMA FirstSideStep == ASSUME TypeOK, Ownership, FirstSide, Next PROVE FirstSide'
<1>1. CASE Elsewhere
  BY <1>1, ElsewhereKeeps DEF FirstSide, AtFirst
<1>2. ASSUME NEW w \in Worker, NEW l \in Log, Launch(w, l) PROVE FirstSide'
  <2>1. worker' = [worker EXCEPT ![w] = [Idle EXCEPT !.at = "check", !.log = l]]
        /\ worker \in [Worker -> WorkerType]
    BY <1>2 DEF Launch, TypeOK
  <2>2. [Idle EXCEPT !.at = "check", !.log = l].side = "from"
    BY DEF Idle
  <2>3. QED
    BY <2>1, <2>2 DEF FirstSide, AtFirst
<1>3. ASSUME NEW w \in Worker, Step(w) \/ WorkerFails(w) PROVE FirstSide'
  <2>1. \A v \in Worker \ {w} : worker'[v] = worker[v]
    BY <1>3, WorkerMoves DEF Moves, Ownership
  <2>2. AtFirst(w)'
    <3>1. CASE CheckIndexed(w)
      BY <3>1, GoToType, ReturnType DEF CheckIndexed, FirstSide, AtFirst, At, Place, Idle
    <3>2. CASE InsertEvent(w)
      BY <3>2, GoToType, ReturnType DEF InsertEvent, FirstSide, AtFirst, At, Place, Idle
    <3>3. CASE InsertContract(w)
      BY <3>3, GoToType DEF InsertContract, FirstSide, AtFirst, At, Place
    <3>4. CASE InsertParameters(w)
      BY <3>4, GoToType, ReturnType
         DEF InsertParameters, FirstSide, AtFirst, At, Place, Idle
    <3>5. CASE RouteEvent(w)
      <4>1. LogOf(w).topic \in Topic
        BY <3>5, Logs DEF RouteEvent, At, Ownership, HasLog, LogOf
      <4>2. (\E step \in {"read", "token", "data"} : GoTo(w, step)) \/ Return(w)
        BY <3>5, <4>1 DEF RouteEvent, Finish, Topic
      <4>3. QED
        BY <4>2, GoToType, ReturnType DEF AtFirst, Place, Idle
    <3>6. CASE ReadBalance(w)
      <4>1. worker \in [Worker -> WorkerType] /\ worker[w] \in WorkerType
        BY DEF TypeOK
      <4>2. worker'[w].at = "insert"
        BY <3>6, <4>1 DEF ReadBalance, WorkerType
      <4>3. QED
        BY <4>2 DEF AtFirst
    <3>7. CASE InsertHolder(w) \/ UpdateHolder(w)
      BY <3>7, NextSideType, GoToType
         DEF InsertHolder, UpdateHolder, WriteBalance, Idle, Place, AtFirst
    <3>8. CASE TokenTransfer(w) \/ RequestRefresh(w) \/ SelectTokens(w)
      BY <3>8, ReturnType DEF TokenTransfer, RequestRefresh, SelectTokens, Finish, Idle, AtFirst
    <3>9. CASE InsertDataChanged(w)
      BY <3>9, GoToType, ReturnType DEF InsertDataChanged, Finish, Idle, Place, AtFirst
    <3>10. CASE WorkerFails(w)
      BY <3>10, NextSideType, ReturnType DEF WorkerFails, Idle, AtFirst
    <3>11. QED
      BY <1>3, <3>1, <3>2, <3>3, <3>4, <3>5, <3>6, <3>7, <3>8, <3>9, <3>10 DEF Step
  <2>3. QED
    BY <2>1, <2>2 DEF FirstSide, AtFirst
<1>4. CASE Crash
  BY <1>4 DEF Crash, FirstSide, AtFirst, Idle
<1>5. QED
  BY <1>1, <1>2, <1>3, <1>4 DEF Next, Elsewhere

(* No log but the one of a worker that moves is claimed or left.           *)
LEMMA RowsOfOthers ==
  ASSUME TypeOK, Grows, RowMeansStored,
         \A l \in event' : ~Owned(l)' /\ l \notin faulted' /\ chain[l].abi /\ chain[l].fits =>
           (l \in event /\ ~Owned(l)) \/ (l \in eventParameter' /\ Stored(l)')
  PROVE  RowMeansStored'
<1>1. SUFFICES ASSUME NEW l \in event', ~Owned(l)', l \notin faulted', chain'[l].abi, chain'[l].fits
               PROVE  l \in eventParameter' /\ Stored(l)'
  BY DEF RowMeansStored
<1>2. CASE l \in event /\ ~Owned(l)
  <2>1. l \in Log /\ l \notin faulted /\ chain[l].abi /\ chain[l].fits
    BY <1>1, <1>2 DEF Grows, TypeOK
  <2>2. l \in eventParameter /\ Stored(l)
    BY <1>2, <2>1 DEF RowMeansStored
  <2>3. QED
    BY <2>1, <2>2, StoredGrows DEF Grows
<1>3. QED
  BY <1>1, <1>2 DEF Grows

LEMMA ProgressStep ==
  ASSUME TypeOK, Ownership, Owners, Progress, RowMeansStored, Next
  PROVE  Progress' /\ RowMeansStored'
<1>0. Grows /\ FirstSide'
  BY Growing, FirstSideStep DEF Progress
<1>a. faulted \subseteq faulted'
  BY <1>0 DEF Grows
<1>1. CASE Elsewhere
  <2>1. UNCHANGED <<worker, event>>
    BY <1>1, ElsewhereKeeps
  <2>2. \A w \in Worker : Owning(w)' => Owning(w) /\ worker'[w] = worker[w]
    BY <2>1 DEF Owning
  <2>3. \A l : Owned(l)' <=> Owned(l)
    BY <2>1 DEF Owned, Owning
  <2>4. QED
    BY <1>0, <1>a, <2>1, <2>2, <2>3, DoneKept, RowsOfOthers DEF Progress
<1>2. ASSUME NEW w \in Worker, NEW l \in Log, Launch(w, l) PROVE Progress' /\ RowMeansStored'
  <2>1. /\ UNCHANGED event /\ worker'[w].at = "check" /\ worker[w].at = "idle"
        /\ \A v \in Worker \ {w} : worker'[v] = worker[v]
    BY <1>2, LaunchKeeps DEF At
  <2>2. \A v \in Worker : Owning(v)' => Owning(v) /\ worker'[v] = worker[v]
    BY <2>1 DEF Owning
  <2>3. \A k : Owned(k)' <=> Owned(k)
    BY <2>1 DEF Owned, Owning
  <2>4. QED
    BY <1>0, <1>a, <2>1, <2>2, <2>3, DoneKept, RowsOfOthers DEF Progress
<1>3. ASSUME NEW w \in Worker, Step(w) \/ WorkerFails(w) PROVE Progress' /\ RowMeansStored'
  <2>0. PICK k : k = worker[w].log
    OBVIOUS
  <2>1. /\ \A v \in Worker \ {w} : worker'[v] = worker[v]
        /\ Claims(w) \/ Applies(w) \/ Leaves(w) \/ Continues(w)
    BY <1>3, WorkerMoves DEF Moves, Ownership
  <2>2. Owning(w)' => worker'[w].log = k
    BY <2>0, <2>1 DEF Claims, Applies, Leaves, Continues, Owning, Idle
  <2>3. Step(w) => faulted' = faulted
    BY DEF Step, CheckIndexed, InsertEvent, InsertContract, InsertParameters, RouteEvent,
         ReadBalance, InsertHolder, UpdateHolder, TokenTransfer, InsertDataChanged,
         SelectTokens, RequestRefresh, history
  <2>4. WorkerFails(w) /\ Owning(w) => k \in faulted'
    BY <2>0 DEF WorkerFails
  <2>5. WorkerFails(w) => event' = event /\ (Owning(w)' => Owning(w))
    BY <2>1 DEF WorkerFails, rows, Claims, Applies, Leaves, Continues, Owning, Idle, At
  <2>6. Owning(w)' /\ k \notin faulted' => Done(w)'
    <3>1. SUFFICES ASSUME Owning(w)', k \notin faulted' PROVE Done(w)'
      OBVIOUS
    <3>2. Step(w) /\ k \notin faulted
      BY <1>3, <1>a, <2>4, <2>5, <3>1
    <3>3. QED
      BY <1>0, <2>0, <3>1, <3>2, OwnerProgress
  <2>7. Progress'
    <3>1. \A v \in Worker \ {w} : Owning(v)' => Owning(v) /\ worker'[v] = worker[v]
      BY <2>1 DEF Owning
    <3>2. \A v \in Worker \ {w} : Owning(v)' /\ worker'[v].log \notin faulted' => Done(v)'
      BY <1>0, <1>a, <3>1, DoneKept DEF Progress
    <3>3. QED
      BY <1>0, <2>2, <2>6, <3>2 DEF Progress
  <2>8. RowMeansStored'
    <3>1. SUFFICES ASSUME NEW l \in event', ~Owned(l)', l \notin faulted', chain[l].abi, chain[l].fits
                   PROVE  (l \in event /\ ~Owned(l)) \/ (l \in eventParameter' /\ Stored(l)')
      BY <1>0, RowsOfOthers
    <3>2. ~(Owning(w)' /\ worker'[w].log = l)
          /\ \A v \in Worker \ {w} : ~(Owning(v) /\ worker[v].log = l)
      BY <2>1, <3>1 DEF Owned, Owning
    <3>3. l \in event
      BY <2>0, <2>1, <2>2, <3>1, <3>2 DEF Claims, Applies, Leaves, Continues
    <3>4. CASE Owning(w) /\ k = l
      <4>1. Step(w) /\ l \notin faulted /\ ~Owning(w)'
        BY <1>3, <1>a, <2>2, <2>4, <3>1, <3>2, <3>4
      <4>2. QED
        BY <1>0, <2>0, <3>1, <3>4, <4>1, OwnerEnds
    <3>5. CASE ~(Owning(w) /\ k = l)
      BY <2>0, <3>2, <3>3, <3>5 DEF Owned
    <3>6. QED
      BY <3>4, <3>5
  <2>9. QED
    BY <2>7, <2>8
<1>4. CASE Crash
  <2>1. worker' = [w \in Worker |-> Idle] /\ UNCHANGED event
        /\ faulted' = faulted \cup {l \in Log : Owned(l)}
    BY <1>4 DEF Crash, rows
  <2>2. Progress'
    BY <1>0, <2>1 DEF Progress, Owning, Idle
  <2>3. event \subseteq Log
    BY DEF TypeOK
  <2>4. RowMeansStored'
    BY <1>0, <2>1, <2>3, RowsOfOthers
  <2>5. QED
    BY <2>2, <2>4
<1>5. QED
  BY <1>1, <1>2, <1>3, <1>4 DEF Next, Elsewhere

-----------------------------------------------------------------------------
(* Changes of the data of a collection, and the tokens they are for.       *)

(* A token whose id a call of indexToken has decoded, or given up.         *)
Owing(t) == \E j \in Job : job[j].at \in {"request", "raw"} /\ job[j].token = t

(* The change of log l is passed on to t: it was asked for, the request is *)
(* on its way or was lost there, or the job that decodes t still will ask  *)
(* or has given it up.                                                     *)
Reached(l, t) ==
  \/ requested[<<chain[l].address, t>>] >= chain[l].block
  \/ t # Null /\ (\/ <<l, t>> \in sending \cup dropped
                  \/ ~token[t].decoded \/ t \in undelivered \/ Owing(t))

(* A change that was handled is passed on to all it is for.                *)
Reaching ==
  \A l \in applied :
    /\ chain[l].block <= head
    /\ chain[l].topic = "DataChanged" /\ l \notin faulted => \A t \in Targets(l) : Reached(l, t)

(* A token keeps its address, and a new one is still to be decoded.        *)
LEMMA TokensStay ==
  ASSUME TypeOK, Ownership, Owners, Next, NEW t \in TokenId
  PROVE  /\ token[t] # Null => token'[t] # Null /\ token'[t].address = token[t].address
         /\ token[t] = Null /\ token'[t] # Null => ~token'[t].decoded
<1>0. token \in [TokenId -> TokenRow \cup {Null}] /\ Null \notin TokenRow
  BY NullIsNoRow DEF TypeOK
<1>1. CASE UNCHANGED token
  BY <1>1
<1>2. ASSUME NEW w \in Worker, TokenTransfer(w), ~UNCHANGED token
      PROVE  /\ token[t] # Null => token'[t] # Null /\ token'[t].address = token[t].address
             /\ token[t] = Null /\ token'[t] # Null => ~token'[t].decoded
  <2> DEFINE u == LogOf(w).token
             new == [address |-> LogOf(w).address, owner |-> LogOf(w).to, decoded |-> FALSE]
             passed == [token[u] EXCEPT !.owner = LogOf(w).to]
  <2>1. u \in TokenId /\ LogOf(w).address \in Address /\ LogOf(w).to \in Holder
    BY <1>2, PairType DEF TokenTransfer, At, Ownership
  <2>2. token' = [token EXCEPT ![u] = IF token[u] = Null THEN new ELSE passed]
    BY <1>0, <1>2 DEF TokenTransfer
  <2>3. CASE t # u
    BY <1>0, <2>2, <2>3
  <2>4. CASE t = u /\ token[u] = Null
    <3>1. token'[t] = new
      BY <1>0, <2>1, <2>2, <2>4
    <3>2. QED
      BY <2>4, <3>1
  <2>5. CASE t = u /\ token[u] # Null
    <3>1. token'[t] = passed /\ token[t] \in TokenRow
      BY <1>0, <2>1, <2>2, <2>5
    <3>2. passed \in TokenRow /\ passed.address = token[t].address
      BY <2>1, <2>5, <3>1 DEF TokenRow
    <3>3. QED
      BY <1>0, <2>5, <3>1, <3>2
  <2>6. QED
    BY <2>3, <2>4, <2>5
<1>3. ASSUME NEW j \in Job, NEW decoded \in BOOLEAN, job[j].at # "idle", WriteBack(j, decoded)
      PROVE  /\ token[t] # Null => token'[t] # Null /\ token'[t].address = token[t].address
             /\ token[t] = Null /\ token'[t] # Null => ~token'[t].decoded
  <2>1. CASE t # job[j].token
    BY <1>3, <2>1, WriteBackType DEF Owners
  <2>2. CASE t = job[j].token
    <3> DEFINE row == [token[t] EXCEPT !.owner = job[j].owner, !.decoded = @ \/ decoded]
    <3>1. token[t] # Null /\ token[t] \in TokenRow /\ token'[t] # Null
      BY <1>0, <1>3, <2>2, WriteBackType DEF Owners, TokenJobs
    <3>2. token'[t] = row
      BY <1>0, <1>3, <2>2 DEF WriteBack
    <3>3. row.address = token[t].address
      BY <3>1 DEF TokenRow
    <3>4. QED
      BY <3>1, <3>2, <3>3
  <2>3. QED
    BY <2>1, <2>2
<1>4. QED
  <2>1. \/ UNCHANGED token
        \/ \E w \in Worker : TokenTransfer(w)
        \/ \E j \in Job : job[j].at # "idle" /\ \E decoded \in BOOLEAN : WriteBack(j, decoded)
    <3>1. ASSUME NEW w \in Worker, Step(w) \/ WorkerFails(w)
          PROVE  UNCHANGED token \/ TokenTransfer(w)
      BY <3>1
         DEF Step, CheckIndexed, InsertEvent, InsertContract, InsertParameters,
             RouteEvent,
           ReadBalance, InsertHolder, UpdateHolder, InsertDataChanged, SelectTokens,
           RequestRefresh, WorkerFails, effects, requests
    <3>2. ASSUME NEW j \in Job, JobStep(j)
          PROVE  UNCHANGED token
                 \/ (job[j].at # "idle" /\ \E decoded \in BOOLEAN : WriteBack(j, decoded))
      BY <3>2 DEF JobStep, WriteDecoded, RequestToken, WriteRaw, JobFails, effects, requests
    <3>3. (\/ Mine \/ Crash \/ \E w \in Worker : \E l \in Log : Launch(w, l)
           \/ \E l \in Log : \E u \in TokenId : Arrive(l, u)
           \/ \E j \in Job : \E u \in TokenId : IndexToken(j, u)) => UNCHANGED token
      BY DEF Mine, Crash, Launch, Arrive, IndexToken, effects
    <3>4. QED
      BY <3>1, <3>2, <3>3 DEF Next, JobStep
  <2>2. QED
    BY <1>1, <1>2, <1>3, <2>1

(* What is asked for is asked for at the latest block.                     *)
LEMMA RequestsGrow ==
  ASSUME TypeOK, Ownership, Next, NEW a \in Asset
  PROVE  requested'[a] = requested[a] \/ requested'[a] = head
<1>0. requested \in [Asset -> Nat \cup {-1}]
  BY DEF TypeOK
<1>1. UNCHANGED requested \/ \E b : requested' = [requested EXCEPT ![b] = head]
  <2>1. ASSUME NEW w \in Worker, Step(w) \/ WorkerFails(w)
        PROVE  UNCHANGED requested \/ \E b : requested' = [requested EXCEPT ![b] = head]
    <3>1. RequestRefresh(w) => \E b : requested' = [requested EXCEPT ![b] = head]
      BY DEF RequestRefresh
    <3>2. ~RequestRefresh(w) => UNCHANGED requested
      BY <2>1 DEF Step, CheckIndexed, InsertEvent, InsertContract, InsertParameters,
           RouteEvent, ReadBalance, InsertHolder, UpdateHolder, TokenTransfer,
           InsertDataChanged, SelectTokens, WorkerFails, effects, requests
    <3>3. QED
      BY <3>1, <3>2
  <2>2. ASSUME NEW j \in Job, JobStep(j)
        PROVE  UNCHANGED requested \/ \E b : requested' = [requested EXCEPT ![b] = head]
    <3>1. RequestToken(j) => \E b : requested' = [requested EXCEPT ![b] = head]
      BY DEF RequestToken
    <3>2. ~RequestToken(j) => UNCHANGED requested
      BY <2>2 DEF JobStep, WriteDecoded, WriteRaw, JobFails, effects, requests
    <3>3. QED
      BY <3>1, <3>2
  <2>3. ASSUME NEW l \in Log, NEW t \in TokenId, Arrive(l, t)
        PROVE  \E b : requested' = [requested EXCEPT ![b] = head]
    BY <2>3 DEF Arrive
  <2>4. (\/ Mine \/ Crash \/ \E w \in Worker : \E l \in Log : Launch(w, l)
         \/ \E j \in Job : \E u \in TokenId : IndexToken(j, u)) => UNCHANGED requested
    BY DEF Mine, Crash, Launch, IndexToken, effects, requests
  <2>5. QED
    BY <2>1, <2>2, <2>3, <2>4 DEF Next, JobStep
<1>2. CASE UNCHANGED requested
  BY <1>2
<1>3. ASSUME NEW b, requested' = [requested EXCEPT ![b] = head]
      PROVE  requested'[a] = requested[a] \/ requested'[a] = head
  BY <1>0, <1>3
<1>4. QED
  BY <1>1, <1>2, <1>3

(* A request on its way arrives, or is lost with the process.              *)
LEMMA OnItsWay ==
  ASSUME TypeOK, Ownership, Next, NEW l \in Log, NEW t \in TokenId, <<l, t>> \in sending \cup dropped
  PROVE  <<l, t>> \in sending' \cup dropped' \/ requested'[<<chain[l].address, t>>] = head
<1>1. ASSUME NEW w \in Worker, Step(w) \/ WorkerFails(w)
      PROVE  sending \subseteq sending' /\ UNCHANGED dropped
  BY <1>1
     DEF Step, CheckIndexed, InsertEvent, InsertContract, InsertParameters, RouteEvent,
         ReadBalance, InsertHolder, UpdateHolder, TokenTransfer, InsertDataChanged,
         RequestRefresh, SelectTokens, WorkerFails, effects, requests, history, tokenHistory
<1>2. ASSUME NEW j \in Job, JobStep(j) PROVE UNCHANGED <<sending, dropped>>
  BY <1>2
     DEF JobStep, WriteDecoded, RequestToken, WriteRaw, JobFails, effects, requests, history,
         tokenHistory
<1>3. ASSUME NEW k \in Log, NEW u \in TokenId, Arrive(k, u)
      PROVE  <<l, t>> \in sending' \cup dropped' \/ requested'[<<chain[l].address, t>>] = head
  <2>1. sending' = sending \ {<<k, u>>} /\ UNCHANGED dropped
        /\ requested' = [requested EXCEPT ![<<chain[k].address, u>>] = head]
    BY <1>3 DEF Arrive, history, tokenHistory
  <2>2. PICK a \in Asset : a = <<chain[l].address, t>>
    BY Logs DEF Asset
  <2>3. CASE <<l, t>> = <<k, u>>
    <3>1. l = k /\ t = u
      BY <2>3
    <3>2. requested'[a] = head
      BY <2>1, <2>2, <3>1 DEF TypeOK
    <3>3. QED
      BY <2>2, <3>2
  <2>4. CASE <<l, t>> # <<k, u>>
    BY <2>1, <2>4
  <2>5. QED
    BY <2>3, <2>4
<1>4. (\/ Mine \/ \E w \in Worker : \E k \in Log : Launch(w, k)
       \/ \E j \in Job : \E u \in TokenId : IndexToken(j, u)) => UNCHANGED <<sending, dropped>>
  BY DEF Mine, Launch, IndexToken, effects, requests, history, tokenHistory
<1>5. CASE Crash
  BY <1>5 DEF Crash
<1>6. QED
  BY <1>1, <1>2, <1>3, <1>4, <1>5 DEF Next, JobStep

(* A token is decoded by a call that goes on to ask for its refresh, or    *)
(* that gives the refresh up.                                              *)
LEMMA DecodedOnTheWay ==
  ASSUME TypeOK, Ownership, Owners, Next, NEW t \in TokenId, token[t] # Null, ~token[t].decoded
  PROVE  \/ ~token'[t].decoded
         \/ t \in undelivered'
         \/ Owing(t)'
<1>0. token \in [TokenId -> TokenRow \cup {Null}] /\ Null \notin TokenRow
  BY NullIsNoRow DEF TypeOK
<1>1. ASSUME NEW j \in Job, WriteDecoded(j) \/ WriteRaw(j)
      PROVE  \/ ~token'[t].decoded
             \/ t \in undelivered'
             \/ Owing(t)'
  <2>1. CASE job[j].token # t
    <3>1. job[j].at # "idle" /\ \E decoded \in BOOLEAN : WriteBack(j, decoded)
      BY <1>1 DEF WriteDecoded, WriteRaw
    <3>2. token'[t] = token[t]
      BY <2>1, <3>1, WriteBackType DEF Owners
    <3>3. QED
      BY <3>2
  <2>2. CASE job[j].token = t
    BY <1>1, <2>2, StepJobType DEF WriteDecoded, WriteRaw, Owing
  <2>3. QED
    BY <2>1, <2>2
<1>2. ASSUME NEW w \in Worker, TokenTransfer(w) PROVE ~token'[t].decoded
  <2> DEFINE passed == [token[t] EXCEPT !.owner = LogOf(w).to]
  <2>1. token'[t] = token[t] \/ token'[t] = passed
    BY <1>0, <1>2 DEF TokenTransfer
  <2>2. ~passed.decoded
    BY <1>0 DEF TokenRow
  <2>3. QED
    BY <2>1, <2>2
<1>3. ASSUME NEW w \in Worker, Step(w) \/ WorkerFails(w), ~TokenTransfer(w) PROVE UNCHANGED token
  BY <1>3 DEF Step, CheckIndexed, InsertEvent, InsertContract, InsertParameters, RouteEvent,
       ReadBalance, InsertHolder, UpdateHolder, InsertDataChanged, SelectTokens,
       RequestRefresh, WorkerFails, effects, requests
<1>4. ASSUME NEW j \in Job, RequestToken(j) \/ JobFails(j) PROVE UNCHANGED token
  BY <1>4 DEF RequestToken, JobFails, effects, requests
<1>5. (\/ Mine \/ Crash \/ \E w \in Worker : \E l \in Log : Launch(w, l)
       \/ \E l \in Log : \E u \in TokenId : Arrive(l, u)
       \/ \E j \in Job : \E u \in TokenId : IndexToken(j, u)) => UNCHANGED token
  BY DEF Mine, Crash, Launch, Arrive, IndexToken, effects
<1>6. QED
  BY <1>1, <1>2, <1>3, <1>4, <1>5 DEF Next

(* A call that is about to ask for a refresh asks for it, or gives it up.  *)
LEMMA RequestOnTheWay ==
  ASSUME TypeOK, Ownership, Owners, Next, NEW t \in TokenId, token[t] # Null, token[t].decoded,
         Owing(t)
  PROVE  Owing(t)' \/ requested'[<<token[t].address, t>>] = head \/ t \in undelivered'
<1>0. PICK j \in Job : job[j].at \in {"request", "raw"} /\ job[j].token = t
  BY DEF Owing
<1>1. ASSUME NEW i \in Job, JobStep(i), i # j PROVE Owing(t)'
  <2>1. job'[j] = job[j]
    BY <1>1, StepJobType, EndJobType
       DEF JobStep, WriteDecoded, RequestToken, WriteRaw, JobFails
  <2>2. QED
    BY <1>0, <2>1 DEF Owing
<1>2. CASE RequestToken(j)
  <2>1. PICK a \in Asset : a = <<token[t].address, t>>
    BY DEF TypeOK, TokenRow, Asset
  <2>2. requested'[a] = head
    BY <1>0, <1>2, <2>1 DEF RequestToken, TypeOK
  <2>3. QED
    BY <2>1, <2>2
<1>3. CASE WriteRaw(j)
  BY <1>0, <1>3 DEF WriteRaw
<1>4. CASE JobFails(j)
  BY <1>0, <1>4, StepJobType DEF JobFails, Owing
<1>5. CASE WriteDecoded(j)
  BY <1>0, <1>5 DEF WriteDecoded
<1>6. ASSUME NEW i \in Job, NEW u \in TokenId, IndexToken(i, u) PROVE Owing(t)'
  <2>1. job'[j] = job[j]
    BY <1>0, <1>6 DEF IndexToken, TypeOK
  <2>2. QED
    BY <1>0, <2>1 DEF Owing
<1>7. CASE Crash
  BY <1>0, <1>7 DEF Crash, Owed
<1>8. ASSUME \/ Mine \/ \E l \in Log : \E u \in TokenId : Arrive(l, u)
             \/ \E w \in Worker : (\E l \in Log : Launch(w, l)) \/ Step(w) \/ WorkerFails(w)
      PROVE  Owing(t)'
  <2>1. UNCHANGED job
    BY <1>8
       DEF Mine, Arrive, Launch, Step, CheckIndexed, InsertEvent, InsertContract,
           InsertParameters, RouteEvent, ReadBalance, InsertHolder, UpdateHolder, TokenTransfer,
           InsertDataChanged, SelectTokens, RequestRefresh, WorkerFails
  <2>2. QED
    BY <2>1 DEF Owing
<1>9. QED
  BY <1>1, <1>2, <1>3, <1>4, <1>5, <1>6, <1>7, <1>8 DEF Next, JobStep

LEMMA UndeliveredGrows == Next => undelivered \subseteq undelivered'
<1>1. ASSUME NEW w \in Worker, Step(w) \/ WorkerFails(w) PROVE UNCHANGED undelivered
  BY <1>1 DEF Step, CheckIndexed, InsertEvent, InsertContract, InsertParameters, RouteEvent,
       ReadBalance, InsertHolder, UpdateHolder, TokenTransfer, InsertDataChanged, SelectTokens,
       RequestRefresh, WorkerFails, history, tokenHistory
<1>2. (\/ Mine \/ \E w \in Worker : \E l \in Log : Launch(w, l)
       \/ \E l \in Log : \E t \in TokenId : Arrive(l, t)
       \/ \E j \in Job : \E t \in TokenId : IndexToken(j, t)) => UNCHANGED undelivered
  BY DEF Mine, Launch, Arrive, IndexToken, history, tokenHistory
<1>3. ASSUME Crash \/ \E j \in Job : JobStep(j) PROVE undelivered \subseteq undelivered'
  BY <1>3
     DEF Crash, JobStep, WriteDecoded, RequestToken, WriteRaw, JobFails, history,
         tokenHistory
<1>4. QED
  BY <1>1, <1>2, <1>3 DEF Next, JobStep

LEMMA ReachedKept ==
  ASSUME TypeOK, Ownership, Owners, Next,
         NEW l \in Log, chain[l].block <= head, NEW t \in TokenId \cup {Null},
         t # Null => token[t] # Null /\ token[t].address = chain[l].address,
         Reached(l, t)
  PROVE  Reached(l, t)'
<1>0. /\ head \in Nat /\ requested \in [Asset -> Nat \cup {-1}] /\ UNCHANGED chain
      /\ chain[l].block \in Nat /\ <<chain[l].address, t>> \in Asset
  BY Logs, Growing DEF TypeOK, Asset, Grows
<1>1. requested'[<<chain[l].address, t>>] = head => Reached(l, t)'
  BY <1>0 DEF Reached
<1>2. CASE requested[<<chain[l].address, t>>] >= chain[l].block
  BY <1>0, <1>2, RequestsGrow DEF Reached
<1>3. CASE <<l, t>> \in sending \cup dropped /\ t # Null
  BY <1>0, <1>1, <1>3, OnItsWay DEF Reached
<1>4. CASE t # Null /\ ~token[t].decoded
  BY <1>4, DecodedOnTheWay DEF Reached
<1>5. CASE t # Null /\ t \in undelivered
  BY <1>5, UndeliveredGrows DEF Reached
<1>6. CASE t # Null /\ token[t].decoded /\ Owing(t)
  BY <1>1, <1>6, RequestOnTheWay DEF Reached
<1>7. QED
  BY <1>2, <1>3, <1>4, <1>5, <1>6 DEF Reached

(* What a change is for: the contract, or tokens of it that are known.     *)
LEMMA TargetsAre ==
  ASSUME TypeOK, NEW l \in Log, NEW t \in Targets(l)
  PROVE  /\ t \in TokenId \cup {Null}
         /\ t # Null => token[t] # Null /\ token[t].address = chain[l].address
<1>1. chain[l].key \in DataKey
  BY Logs
<1>2. QED
  BY <1>1 DEF Targets, TokensOf, DataKey

(* A target afterwards is one before, or a token that became known now.    *)
LEMMA TargetsGrow ==
  ASSUME TypeOK, Ownership, Owners, Next, NEW l \in Log, NEW t \in Targets(l)'
  PROVE  t \in Targets(l) \/ (t # Null /\ ~token'[t].decoded)
<1>0. chain' = chain /\ Null \notin TokenId /\ chain[l].key \in DataKey
  BY Constants, Growing, Logs DEF Grows
<1>1. CASE chain[l].key \in {"contract", "none"}
  BY <1>0, <1>1 DEF Targets
<1>2. CASE chain[l].key \in {"token", "tokens"}
  <2>1. t \in TokenId /\ token'[t] # Null /\ token'[t].address = chain[l].address
        /\ (chain[l].key = "token" => t = chain[l].token)
    BY <1>0, <1>2 DEF Targets, TokensOf
  <2>2. CASE token[t] = Null
    BY <1>0, <2>1, <2>2, TokensStay
  <2>3. CASE token[t] # Null
    BY <1>2, <2>1, <2>3, TokensStay DEF Targets, TokensOf
  <2>4. QED
    BY <2>2, <2>3
<1>3. QED
  BY <1>0, <1>1, <1>2 DEF DataKey

(* The worker of a change comes to its end by asking for its targets.      *)
LEMMA ChangeEnds ==
  ASSUME TypeOK, Ownership, Owners, Progress, Next,
         NEW w \in Worker, Step(w) \/ WorkerFails(w), Applies(w),
         NEW l \in Log, l = worker[w].log, chain[l].topic = "DataChanged", l \notin faulted',
         NEW t \in Targets(l)
  PROVE  Reached(l, t)'
<1>0. UNCHANGED chain /\ l \notin faulted
  BY Growing DEF Grows
<1>1. LogOf(w) = chain[l] /\ Done(w) /\ Step(w)
  BY <1>0 DEF LogOf, Progress, Applies, WorkerFails
<1>2. chain[l].key \in DataKey /\ chain[l].address \in Address /\ chain[l].block \in Nat
      /\ head \in Nat /\ chain[l].block <= head
  BY <1>1, Logs DEF Applies, Owning, Ownership, HasLog, At, TypeOK
<1>3. RequestRefresh(w) \/ SelectTokens(w) \/ InsertDataChanged(w)
  <2>1. ~Owning(w)' /\ Owning(w)
    BY DEF Applies, Owning, Idle
  <2>2. ~(RouteEvent(w) \/ ReadBalance(w) \/ InsertHolder(w) \/ UpdateHolder(w) \/ TokenTransfer(w))
    <3>1. RouteEvent(w) => GoTo(w, "data")
      BY <1>1 DEF RouteEvent
    <3>2. QED
      BY <1>1, <2>1, <3>1, GoToType
         DEF ReadBalance, InsertHolder, UpdateHolder, TokenTransfer,
           At, Done, Owning, Place
  <2>3. ~(CheckIndexed(w) \/ InsertEvent(w))
    BY <2>1 DEF CheckIndexed, InsertEvent, Owning, At
  <2>4. ~InsertContract(w)
    BY <2>1, GoToType DEF InsertContract, Owning, Place
  <2>5. ~InsertParameters(w)
    BY DEF InsertParameters, Applies, history, Ownership, Owns
  <2>6. QED
    BY <1>1, <2>2, <2>3, <2>4, <2>5 DEF Step
<1>4. CASE InsertDataChanged(w)
  <2>1. chain[l].key = "none"
    BY <1>1, <1>4, GoToType DEF InsertDataChanged, Applies, Idle, Place
  <2>2. QED
    BY <2>1 DEF Targets
<1>5. CASE RequestRefresh(w)
  <2>1. chain[l].key = "contract"
    BY <1>1, <1>5 DEF RequestRefresh, Done, At, LogOf
  <2>2. t = Null
    BY <2>1 DEF Targets
  <2>3. PICK a \in Asset : a = <<chain[l].address, t>>
    BY <1>2, <2>2 DEF Asset
  <2>4. requested'[a] = head
    BY <1>1, <1>5, <2>2, <2>3 DEF RequestRefresh, TypeOK
  <2>5. QED
    BY <1>0, <1>2, <2>3, <2>4 DEF Reached
<1>6. CASE SelectTokens(w)
  <2>1. chain[l].key \in {"token", "tokens"}
    BY <1>1, <1>6 DEF SelectTokens, Done, At, LogOf
  <2>2. t \in TokensToRefresh(LogOf(w))
    BY <1>1, <2>1 DEF Targets, TokensToRefresh
  <2>3. <<l, t>> \in sending' /\ t # Null
    BY <1>6, <2>2, Constants DEF SelectTokens, TokensToRefresh, TokensOf
  <2>4. QED
    BY <2>3 DEF Reached
<1>7. QED
  BY <1>3, <1>4, <1>5, <1>6

LEMMA ReachingStep ==
  ASSUME TypeOK, Ownership, Owners, Progress, Reaching, Next PROVE Reaching'
<1>0. UNCHANGED chain /\ Log' = Log /\ faulted \subseteq faulted'
  BY Growing DEF Grows, Log
<1>1. head \in Nat /\ head' \in Nat /\ head <= head'
  <2>1. head \in Nat /\ (Elsewhere => head' \in Nat /\ head <= head')
    BY ElsewhereKeeps DEF TypeOK
  <2>2. ASSUME NEW w \in Worker, Step(w) \/ WorkerFails(w) PROVE UNCHANGED head
    BY <2>2, WorkerMoves DEF Moves, Ownership
  <2>3. Crash \/ (\E w \in Worker : \E l \in Log : Launch(w, l)) => UNCHANGED head
    BY DEF Crash, Launch, chainVars
  <2>4. QED
    BY <2>1, <2>2, <2>3 DEF Next, Elsewhere
<1>2. ASSUME NEW l \in Log, chain[l].block <= head, NEW t \in Targets(l)',
             t \in Targets(l) => Reached(l, t) \/ Reached(l, t)'
      PROVE  Reached(l, t)'
  <2>1. CASE t # Null /\ ~token'[t].decoded
    BY <2>1 DEF Reached
  <2>2. CASE t \in Targets(l) /\ Reached(l, t)
    BY <1>2, <2>2, TargetsAre, ReachedKept
  <2>3. QED
    BY <1>2, <2>1, <2>2, TargetsGrow
<1>3. ASSUME NEW l \in applied
      PROVE  /\ chain[l].block <= head'
             /\ chain[l].topic = "DataChanged" /\ l \notin faulted' =>
                  \A t \in Targets(l)' : Reached(l, t)'
  <2>1. l \in Log /\ chain[l].block \in Nat /\ chain[l].block <= head
    BY <1>3, Logs DEF Ownership, TypeOK, Reaching
  <2>2. chain[l].topic = "DataChanged" /\ l \notin faulted' => \A t \in Targets(l) : Reached(l, t)
    BY <1>0, <1>3 DEF Reaching
  <2>3. QED
    BY <1>1, <1>2, <2>1, <2>2
<1>4. \/ applied' = applied
      \/ \E w \in Worker : (Step(w) \/ WorkerFails(w)) /\ Applies(w)
  <2>1. Elsewhere \/ Crash \/ (\E w \in Worker : \E l \in Log : Launch(w, l)) => UNCHANGED applied
    BY ElsewhereKeeps, LaunchKeeps DEF Crash
  <2>2. ASSUME NEW w \in Worker, Step(w) \/ WorkerFails(w)
        PROVE  UNCHANGED applied \/ Applies(w)
    BY <2>2, WorkerMoves DEF Moves, Ownership, Claims, Leaves, Continues
  <2>3. QED
    BY <2>1, <2>2 DEF Next, Elsewhere
<1>5. ASSUME NEW w \in Worker, Step(w) \/ WorkerFails(w), Applies(w) PROVE Reaching'
  <2>1. PICK l \in Log : l = worker[w].log /\ chain[l].block <= head
    BY <1>5 DEF Applies, Ownership, HasLog, Owning, At, LogOf
  <2>2. applied' = applied \cup {l} /\ chain[l].block \in Nat
    BY <1>5, <2>1, Logs DEF Applies
  <2>3. chain[l].topic = "DataChanged" /\ l \notin faulted' => \A t \in Targets(l) : Reached(l, t)'
    BY <1>5, <2>1, ChangeEnds
  <2>4. chain[l].topic = "DataChanged" /\ l \notin faulted' => \A t \in Targets(l)' : Reached(l, t)'
    BY <1>2, <2>1, <2>3
  <2>5. QED
    BY <1>0, <1>1, <1>3, <2>1, <2>2, <2>4 DEF Reaching
<1>6. CASE applied' = applied
  BY <1>0, <1>3, <1>6 DEF Reaching
<1>7. QED
  BY <1>4, <1>5, <1>6

-----------------------------------------------------------------------------
(* The inductive invariant.                                                *)

IInv ==
  /\ TypeOK /\ Ownership /\ Balances /\ Owners /\ Progress /\ RowMeansStored
  /\ Reaching

LEMMA InitIInv == Init => IInv
<1> SUFFICES ASSUME Init PROVE IInv
  OBVIOUS
<1>1. TypeOK
  <2>1. Log \subseteq Nat
    BY EventsAssumption DEF Init, Log
  <2>2. worker \in [Worker -> WorkerType] /\ job \in [Job -> JobType]
    BY IdleType DEF Init
  <2>3. QED
    BY <2>2 DEF Init, TypeOK
<1>2. Ownership
  BY DEF Init, Ownership, HasLog, Owns, OneOwner, Owning, At, Idle
<1>3. Balances
  BY DEF Init, Balances, Updatable, WrittenAfterMined, Readings, Carrying, At, Idle,
         StaleBalanceOnlyByOverlap
<1>4. Owners
  BY DEF Init, Owners, TokenJobs, OwnersRead, NoJob, WrongOwnerOnlyByDisorder
<1>5. Progress /\ RowMeansStored
  BY DEF Init, Progress, FirstSide, AtFirst, Owning, Idle, RowMeansStored
<1>6. Reaching
  BY DEF Init, Reaching
<1>7. QED
  BY <1>1, <1>2, <1>3, <1>4, <1>5, <1>6 DEF IInv

LEMMA NextIInv == IInv /\ Next => IInv'
  BY TypeStep, OwnershipStep, BalancesStep, OwnersStep, ProgressStep, ReachingStep
     DEF IInv, Balances, Owners

LEMMA StutterIInv == IInv /\ UNCHANGED vars => IInv'
<1> SUFFICES ASSUME IInv, UNCHANGED vars PROVE IInv'
  OBVIOUS
<1>0. UNCHANGED <<chain, head, event, eventParameter, contract, holder, token, dataChanged,
                  requested, sending, worker, job, launched, faults, applied, faulted, written,
                  overlapped, moved, disordered, overtaken, undelivered, dropped>>
  BY DEF vars, chainVars, rows, effects, requests, counters, history, balanceHistory, tokenHistory
<1>1. TypeOK'
  BY <1>0 DEF IInv, TypeOK, Log, HolderRow, WorkerType
<1>2. Ownership'
  BY <1>0 DEF IInv, Ownership, HasLog, Owns, OneOwner, Owning, At, LogOf, Log
<1>3. Balances'
  BY <1>0, BalancesKept DEF IInv, TypeOK, Carrying, PairOf, LogOf, At, Balances, Updatable
<1>4. Owners'
  BY <1>0, OwnersKept DEF IInv
<1>5. Grows /\ FirstSide' /\ \A w \in Worker : Owning(w)' => Owning(w) /\ worker'[w] = worker[w]
  BY <1>0 DEF IInv, Grows, Progress, FirstSide, AtFirst, Owning
<1>6. Progress'
  BY <1>0, <1>5, DoneKept DEF IInv, Progress
<1>7. \A l : Owned(l)' <=> Owned(l)
  BY <1>0 DEF Owned, Owning
<1>8. RowMeansStored'
  BY <1>0, <1>5, <1>7, RowsOfOthers DEF IInv
<1>9. Reaching'
  <2>1. \A l : Targets(l)' = Targets(l)
    BY <1>0 DEF Targets, TokensOf
  <2>2. \A l, t : Reached(l, t)' <=> Reached(l, t)
    BY <1>0 DEF Reached, Owing
  <2>3. QED
    BY <1>0, <2>1, <2>2 DEF IInv, Reaching
<1>10. QED
  BY <1>1, <1>2, <1>3, <1>4, <1>6, <1>8, <1>9 DEF IInv

THEOREM Invariance == Spec => []IInv
  BY InitIInv, NextIInv, StutterIInv, PTL DEF Spec

(* The tables and the local variables hold what their columns and the code *)
(* can put there.                                                          *)
THEOREM TypeCorrectness == Spec => []TypeOK
<1>1. IInv => TypeOK
  BY DEF IInv
<1>2. QED
  BY <1>1, Invariance, PTL

(* A balance that does not have a transfer up to the block of an event     *)
(* that wrote it is one whose updates overlapped.                          *)
THEOREM BalancesFresh == Spec => []StaleBalanceOnlyByOverlap
<1>1. IInv => StaleBalanceOnlyByOverlap
  BY DEF IInv, Balances
<1>2. QED
  BY <1>1, Invariance, PTL

(* The owner of a token is the recipient of the last transfer handled,     *)
(* unless its transfers were written out of order or across indexToken.    *)
THEOREM OwnersFollow == Spec => []WrongOwnerOnlyByDisorder
<1>1. IInv => WrongOwnerOnlyByDisorder
  BY DEF IInv, Owners
<1>2. QED
  BY <1>1, Invariance, PTL

(* The row of an event means that the rest of it is stored, once the call  *)
(* that wrote the row is over and unless a call of its own failed.         *)
THEOREM RowStandsForEvent == Spec => []RowMeansStored
<1>1. IInv => RowMeansStored
  BY DEF IInv
<1>2. QED
  BY <1>1, Invariance, PTL

(* A token is asked to be refreshed at the block of a change of its        *)
(* collection or later, by the change or by the job that decodes its id,   *)
(* whenever the token became known.                                        *)
THEOREM ChangesDelivered == Spec => []ChangesReachTheirTokens
<1>1. IInv => ChangesReachTheirTokens
  BY DEF IInv, Reaching, ChangesReachTheirTokens, Reached, Owing
<1>2. QED
  BY <1>1, Invariance, PTL

-----------------------------------------------------------------------------
(* The refinement of OncePerEvent.                                         *)

Stages == [l \in Log |-> Stage(l)]

(* A log whose stage is unchanged by a step.                               *)
LEMMA StageKept ==
  ASSUME UNCHANGED <<event, applied>>, NEW l, Owned(l)' <=> Owned(l) PROVE Stage(l)' = Stage(l)
  BY DEF Stage

LEMMA OwnedMoves ==
  ASSUME NEW w \in Worker, \A v \in Worker \ {w} : worker'[v] = worker[v]
  PROVE  \A l : (Owned(l)' <=> \/ Owning(w)' /\ worker'[w].log = l
                               \/ \E v \in Worker \ {w} : Owning(v) /\ worker[v].log = l)
  BY DEF Owned, Owning

LEMMA RefinementInit == Init => Promise!Init
  BY DEF Init, Promise!Init, Stage, Owned, Owning, Idle

LEMMA WorkerRefines ==
  ASSUME TypeOK, Ownership, NEW w \in Worker, Moves(w)
  PROVE  Promise!Next \/ UNCHANGED Stages
<1>0. PICK l : l = worker[w].log
  OBVIOUS
<1>1. UNCHANGED <<chain, head>> /\ Log' = Log /\ \A v \in Worker \ {w} : worker'[v] = worker[v]
  BY DEF Moves, Log
<1>2. \A k : Owned(k) <=> \/ Owning(w) /\ worker[w].log = k
                          \/ \E v \in Worker \ {w} : Owning(v) /\ worker[v].log = k
  BY DEF Owned
<1>3. \A k : (Owned(k)' <=> \/ Owning(w)' /\ worker'[w].log = k
                            \/ \E v \in Worker \ {w} : Owning(v) /\ worker[v].log = k)
  BY <1>1, OwnedMoves
<1>4. \A k : Owned(k) => k \in event \ applied
  BY DEF Ownership, Owns, Owned
<1>5. CASE Claims(w)
  <2>1. l \in Log /\ l \notin event /\ l \notin applied
    BY <1>0, <1>5 DEF Claims, Ownership, HasLog, At
  <2>2. Stage(l) = "absent" /\ Stage(l)' = "claimed"
    BY <1>0, <1>3, <1>4, <1>5, <2>1 DEF Stage, Claims
  <2>3. \A k \in Log : k # l => Stage(k)' = Stage(k)
    BY <1>0, <1>2, <1>3, <1>5 DEF Stage, Claims, Owning, At
  <2>4. Promise!Claim(l)
    BY <1>1, <2>1, <2>2, <2>3 DEF Promise!Claim
  <2>5. QED
    BY <2>1, <2>4 DEF Promise!Next
<1>6. CASE Applies(w)
  <2>1. l \in event \ applied /\ l \in Log /\ ~Owning(w)'
    BY <1>0, <1>6 DEF Applies, Ownership, Owns, TypeOK, Owning, Idle
  <2>2. ~(\E v \in Worker \ {w} : Owning(v) /\ worker[v].log = l)
    BY <1>0, <1>6 DEF Applies, Ownership, OneOwner
  <2>3. Stage(l) = "claimed" /\ Stage(l)' = "applied"
    BY <1>0, <1>2, <1>3, <1>6, <2>1, <2>2 DEF Stage, Applies
  <2>4. \A k \in Log : k # l => Stage(k)' = Stage(k)
    BY <1>0, <1>2, <1>3, <1>6, <2>1 DEF Stage, Applies
  <2>5. Promise!Apply(l)
    BY <1>1, <2>1, <2>3, <2>4 DEF Promise!Apply
  <2>6. QED
    BY <2>1, <2>5 DEF Promise!Next
<1>7. CASE Leaves(w)
  <2>1. ~Owning(w)' /\ UNCHANGED <<event, applied>>
    BY <1>7 DEF Leaves, Owning, Idle
  <2>2. CASE Owning(w)
    <3>1. l \in event \ applied /\ l \in Log
      BY <1>0, <2>2 DEF Ownership, Owns, TypeOK
    <3>2. ~(\E v \in Worker \ {w} : Owning(v) /\ worker[v].log = l)
      BY <1>0, <2>2 DEF Ownership, OneOwner
    <3>3. Stage(l) = "claimed" /\ Stage(l)' = "lost"
      BY <1>0, <1>2, <1>3, <2>1, <2>2, <3>1, <3>2 DEF Stage
    <3>4. \A k \in Log : k # l => Stage(k)' = Stage(k)
      BY <1>0, <1>2, <1>3, <2>1 DEF Stage
    <3>5. Promise!Lose({l})
      BY <1>1, <3>1, <3>3, <3>4 DEF Promise!Lose
    <3>6. QED
      BY <3>1, <3>5 DEF Promise!Next
  <2>3. CASE ~Owning(w)
    BY <1>1, <1>2, <1>3, <2>1, <2>3 DEF Stage, Stages
  <2>4. QED
    BY <2>2, <2>3
<1>8. CASE Continues(w)
  BY <1>1, <1>2, <1>3, <1>8 DEF Continues, Stage, Stages
<1>9. QED
  BY <1>5, <1>6, <1>7, <1>8 DEF Moves

LEMMA RefinementStep == ASSUME TypeOK, Ownership, Next PROVE Promise!Next \/ UNCHANGED Stages
<1>1. CASE Elsewhere
  BY <1>1, ElsewhereKeeps DEF Stages, Stage, Owned, Owning, Log
<1>2. ASSUME NEW w \in Worker, NEW l \in Log, Launch(w, l) PROVE UNCHANGED Stages
  <2>1. /\ UNCHANGED <<chain, event, applied>> /\ Log' = Log
        /\ worker'[w].at = "check" /\ worker[w].at = "idle"
        /\ \A v \in Worker \ {w} : worker'[v] = worker[v]
    BY <1>2, LaunchKeeps DEF At, Log
  <2>2. \A k : Owned(k)' <=> Owned(k)
    BY <2>1 DEF Owned, Owning
  <2>3. QED
    BY <2>1, <2>2 DEF Stages, Stage
<1>3. ASSUME NEW w \in Worker, Step(w) \/ WorkerFails(w) PROVE Promise!Next \/ UNCHANGED Stages
  BY <1>3, WorkerMoves, WorkerRefines DEF Ownership
<1>4. CASE Crash
  <2> DEFINE lost == {l \in Log : Owned(l)}
  <2>1. worker' = [w \in Worker |-> Idle] /\ UNCHANGED <<chain, event, applied>> /\ Log' = Log
    BY <1>4 DEF Crash, chainVars, rows, Log
  <2>2. \A l : ~Owned(l)'
    BY <2>1 DEF Owned, Owning, Idle
  <2>3. \A l \in Log : Owned(l) => l \in event \ applied
    BY DEF Owned, Ownership, Owns
  <2>4. \A l \in Log : Stage(l)' = IF l \in lost THEN "lost" ELSE Stage(l)
    BY <2>1, <2>2, <2>3 DEF Stage
  <2>5. \A l \in lost : Stage(l) = "claimed"
    BY DEF Stage
  <2>6. Promise!Lose(lost)
    BY <2>1, <2>4, <2>5 DEF Promise!Lose
  <2>7. QED
    BY <2>6 DEF Promise!Next
<1>5. QED
  BY <1>1, <1>2, <1>3, <1>4 DEF Next, Elsewhere

(* However often and with however many calls at once a log is handed out,  *)
(* its effects, requests are carried out at most once.                               *)
THEOREM AppliedAtMostOnce == Spec => AppliedOnce
<1>1. IInv /\ [Next]_vars => Promise!Next \/ UNCHANGED Stages
  <2>1. UNCHANGED vars => UNCHANGED Stages
    BY DEF vars, chainVars, rows, history, Stages, Stage, Owned, Owning, Log
  <2>2. QED
    BY <2>1, RefinementStep DEF IInv
<1>2. UNCHANGED Stages => UNCHANGED [l \in Log |-> Stage(l)]
  BY DEF Stages
<1>3. QED
  BY RefinementInit, <1>1, <1>2, Invariance, PTL DEF Spec, AppliedOnce, Promise!Spec
===============================================================================
