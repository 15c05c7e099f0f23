------------------------------ MODULE Updates ------------------------------
(***************************************************************************)
(* How a method interface that becomes known late reaches the rows that    *)
(* are there already:                                                      *)
(*  - the admin process uploads an ABI (libs/database/lukso-structure/     *)
(*    utils/generate-method-interfaces.ts);                                *)
(*  - the indexer reads the interface of a log or a transaction, and       *)
(*    inserts its row by a later statement (events.service.ts,             *)
(*    transactions.service.ts);                                            *)
(*  - a daily job updates the rows of the interfaces created since the     *)
(*    watermark (update/update.service.ts).  promiseAllSettledPLimit does  *)
(*    not wait for what it is given, so the watermark is written while the *)
(*    updates are under way.                                               *)
(* A row stands for an event or a transaction; a parameter for its         *)
(* position.  Nothing orders the three processes.                          *)
(***************************************************************************)
EXTENDS Integers, FiniteSets

CONSTANTS
  Method, Row, Upload,
  MethodOf,     \* MethodOf[r]: the method id of a row
  IsEvent,      \* IsEvent[r]: an event, otherwise a transaction
  Uploads,      \* Uploads[u]: the method of the ABI that upload u brings
  Arity,        \* Arity[m]: number of parameters
  Null,
  MaxTime,      \* bound: ticks of the clock
  MaxFaults     \* bound: failures and restarts

ASSUME UpdatesAssumption ==
  /\ MethodOf \in [Row -> Method] /\ IsEvent \in [Row -> BOOLEAN]
  /\ Uploads \in [Upload -> Method]
  /\ Arity \in [Method -> Nat]
  /\ MaxTime \in Nat /\ MaxFaults \in Nat
  /\ Null \notin Nat

VARIABLES
  clock,
  methodInterface,  \* table method_interface: createdAt, by method id
  methodParameter,  \* table method_parameter: positions, by method id
  upload,       \* the local variables of generateAndPersistMethodInterfaces
  pool,         \* the connections of that module: "open", or "ended" for good
  row,          \* tables event and transaction, and the workers that fill them
  watermark,    \* LATEST_UPDATE_DATE, Null while the key is missing
  updater,      \* the local variables of updateTransactionsAndEvents
  matching,     \* methods whose rows an update is about to select
  updating,     \* rows an update is about to write
  faults,
  stale,        \* history: rows inserted after their interface, read as unknown
  late,         \* history: methods committed after a selection dated later
  failed,       \* history: rows whose update failed or was lost
  updated,      \* history: rows an update went through
  uploaded      \* history: methods whose upload ended without a restart

structure == <<methodInterface, methodParameter>>
admin == <<upload, pool>>
job == <<watermark, updater, matching, updating>>
history == <<stale, late, failed, updated, uploaded>>
vars == <<clock, structure, admin, row, job, faults, history>>

NoRow == [at |-> "absent", found |-> FALSE, named |-> FALSE, params |-> {}]
NoRound == [at |-> "idle", since |-> 0, now |-> 0]
NoUpload == [at |-> "new", created |-> 0, n |-> 0]

Known(m) == methodInterface[m] # Null
Passed(t) == watermark # Null /\ t <= watermark   \* by the finished rounds

(* getEventByMethodId; getTransactionsWithInputByMethodId joins the input. *)
Visible(r) == row[r].at = "done" \/ (row[r].at = "row" /\ IsEvent[r])

(* redis.reset sets the watermark, when the indexer was started with       *)
(* DROP_DB_ON_START; on any other first start the key is missing.          *)
Init ==
  /\ clock = 1
  /\ methodInterface = [m \in Method |-> Null]
  /\ methodParameter = [m \in Method |-> {}]
  /\ upload = [u \in Upload |-> NoUpload]
  /\ pool = "open"
  /\ row = [r \in Row |-> NoRow]
  /\ watermark \in {Null, 0}
  /\ updater = NoRound
  /\ matching = {} /\ updating = {}
  /\ faults = 0
  /\ stale = {} /\ late = {} /\ failed = {} /\ updated = {} /\ uploaded = {}

Tick ==
  /\ clock < MaxTime
  /\ clock' = clock + 1
  /\ UNCHANGED <<structure, admin, row, job, faults, history>>

-----------------------------------------------------------------------------
(* The admin process.                                                      *)

(* INSERT INTO method_interface is sent: createdAt is the time it starts.  *)
SendInterface(u) ==
  /\ upload[u].at = "new"
  /\ upload' = [upload EXCEPT ![u].at = "sent", ![u].created = clock]
  /\ UNCHANGED <<clock, structure, pool, row, job, faults, history>>

(* It commits.  A duplicate id, or a pool that was ended, is swallowed by  *)
(* tryExecuting.  late: a selection that did not see it was dated after.   *)
CommitInterface(u) ==
  LET m == Uploads[u] IN
  /\ upload[u].at = "sent"
  /\ upload' = [upload EXCEPT ![u].at = "params"]
  /\ IF pool = "open" /\ ~Known(m)
     THEN /\ methodInterface' = [methodInterface EXCEPT ![m] = upload[u].created]
          /\ late' = IF \/ Passed(upload[u].created)
                        \/ updater.at = "set" /\ upload[u].created <= updater.now
                     THEN late \cup {m} ELSE late
     ELSE UNCHANGED <<methodInterface, late>>
  /\ UNCHANGED <<clock, methodParameter, pool, row, job, faults,
                 stale, failed, updated, uploaded>>

(* A regression: the position counted up before the insert.                *)
InsertParameterFromOne(u) ==
  LET m == Uploads[u] IN
  /\ upload[u].at = "params"
  /\ upload[u].n < Arity[m]
  /\ upload' = [upload EXCEPT ![u].n = @ + 1]
  /\ methodParameter' = IF pool = "open" /\ Known(m)
       THEN [methodParameter EXCEPT ![m] = @ \cup {upload[u].n + 1}]
       ELSE methodParameter
  /\ UNCHANGED <<clock, methodInterface, pool, row, job, faults, history>>

InsertParameter(u) ==
  LET m == Uploads[u] IN
  /\ upload[u].at = "params"
  /\ upload[u].n < Arity[m]
  /\ upload' = [upload EXCEPT ![u].n = @ + 1]
  /\ methodParameter' = IF pool = "open" /\ Known(m)
       THEN [methodParameter EXCEPT ![m] = @ \cup {upload[u].n}]
       ELSE methodParameter
  /\ UNCHANGED <<clock, methodInterface, pool, row, job, faults, history>>

(* disconnectFromDatabase, and the answer to the request.                  *)
EndUpload(u) ==
  /\ upload[u].at = "params"
  /\ upload[u].n = Arity[Uploads[u]]
  /\ upload' = [upload EXCEPT ![u].at = "done"]
  /\ pool' = "ended"
  /\ uploaded' = uploaded \cup {Uploads[u]}
  /\ UNCHANGED <<clock, structure, row, job, faults, stale, late, failed, updated>>

(* The admin process ends and starts again, with a new pool.               *)
RestartAdmin ==
  /\ faults < MaxFaults
  /\ faults' = faults + 1
  /\ upload' = [u \in Upload |-> IF upload[u].at = "new" THEN upload[u]
                                 ELSE [upload[u] EXCEPT !.at = "done"]]
  /\ pool' = "open"
  /\ UNCHANGED <<clock, structure, row, job, history>>

-----------------------------------------------------------------------------
(* A worker of the indexer and its row.                                    *)

(* getMethodInterfaceById; a transaction reads its parameters as well.     *)
ReadInterface(r) ==
  LET m == MethodOf[r] IN
  /\ row[r].at = "absent"
  /\ row' = [row EXCEPT ![r] =
       [at |-> "read", found |-> Known(m), named |-> FALSE,
        params |-> IF Known(m) /\ ~IsEvent[r] THEN methodParameter[m] ELSE {}]]
  /\ UNCHANGED <<clock, structure, admin, job, faults, history>>

(* insertEvent, insertTransaction, with the name that was read.            *)
InsertRow(r) ==
  /\ row[r].at = "read"
  /\ row' = [row EXCEPT ![r].at = "row", ![r].named = row[r].found]
  /\ stale' = IF IsEvent[r] /\ ~row[r].found /\ Known(MethodOf[r])
              THEN stale \cup {r} ELSE stale
  /\ UNCHANGED <<clock, structure, admin, job, faults, late, failed, updated, uploaded>>

(* An event: its parameters are read and stored.                           *)
IndexEventParameters(r) ==
  /\ IsEvent[r]
  /\ row[r].at = "row"
  /\ row' = [row EXCEPT ![r].at = "done", ![r].params = @ \cup methodParameter[MethodOf[r]]]
  /\ UNCHANGED <<clock, structure, admin, job, faults, history>>

(* A transaction: its input is stored, with the parameters read before.    *)
IndexTransactionInput(r) ==
  /\ ~IsEvent[r]
  /\ row[r].at = "row"
  /\ row' = [row EXCEPT ![r].at = "done"]
  /\ stale' = IF ~row[r].found /\ Known(MethodOf[r]) THEN stale \cup {r} ELSE stale
  /\ UNCHANGED <<clock, structure, admin, job, faults, late, failed, updated, uploaded>>

-----------------------------------------------------------------------------
(* updateTransactionsAndEvents.                                            *)

(* The watermark and the date are read.  Without a watermark               *)
(* getLatestUpdateDate throws, and the round ends having changed nothing.  *)
StartRound ==
  /\ updater.at = "idle"
  /\ watermark # Null
  /\ updater' = [at |-> "select", since |-> watermark, now |-> clock]
  /\ UNCHANGED <<clock, structure, admin, row, watermark, matching, updating, faults, history>>

(* getMethodInterfaceCreatedAfter; every update is launched.               *)
SelectInterfaces ==
  /\ updater.at = "select"
  /\ matching' = matching \cup {m \in Method : Known(m) /\ methodInterface[m] > updater.since}
  /\ updater' = [updater EXCEPT !.at = "set"]
  /\ UNCHANGED <<clock, structure, admin, row, watermark, updating, faults, history>>

(* A regression: the watermark is dated when it is written.                *)
SetWatermarkAtEnd ==
  /\ updater.at = "set"
  /\ watermark' = clock
  /\ updater' = NoRound
  /\ UNCHANGED <<clock, structure, admin, row, matching, updating, faults, history>>

(* A regression: a round without new interfaces does not come to its end.  *)
SetWatermarkIfMatching ==
  /\ updater.at = "set"
  /\ matching # {}
  /\ watermark' = updater.now
  /\ updater' = NoRound
  /\ UNCHANGED <<clock, structure, admin, row, matching, updating, faults, history>>

SetWatermark ==
  /\ updater.at = "set"
  /\ watermark' = updater.now
  /\ updater' = NoRound
  /\ UNCHANGED <<clock, structure, admin, row, matching, updating, faults, history>>

(* updateWithNewMethodInterface: the rows of the method are selected.      *)
SelectRows(m) ==
  /\ m \in matching
  /\ matching' = matching \ {m}
  /\ updating' = updating \cup {r \in Row : MethodOf[r] = m /\ Visible(r)}
  /\ UNCHANGED <<clock, structure, admin, row, watermark, updater, faults, history>>

(* decodeAndUpdateEvent, decodeAndUpdateTx.  The parameters handed down    *)
(* are those of type 'event' or 'function'; the type of a parameter is an  *)
(* ABI type, so none are, and nothing is decoded.  An error of decoding    *)
(* leaves the name as it is known.                                         *)
UpdateRow(r) ==
  /\ r \in updating
  /\ updating' = updating \ {r}
  /\ row' = [row EXCEPT ![r].named = TRUE]
  /\ updated' = updated \cup {r}
  /\ UNCHANGED <<clock, structure, admin, watermark, updater, matching, faults,
                 stale, late, failed, uploaded>>

-----------------------------------------------------------------------------
(* Faults of the indexer.                                                  *)

(* A call of a worker fails.  Before its insert the row is tried again     *)
(* with its block; after it the row is never completed.                    *)
WorkerFails(r) ==
  /\ row[r].at \in {"read", "row"}
  /\ faults < MaxFaults
  /\ faults' = faults + 1
  /\ row' = [row EXCEPT ![r] =
       IF row[r].at = "read" THEN NoRow
       ELSE [row[r] EXCEPT !.at = IF IsEvent[r] THEN "done" ELSE "lost", !.params = {}]]
  /\ UNCHANGED <<clock, structure, admin, job, history>>

(* The rows of one kind cannot be selected; Promise.allSettled goes on     *)
(* with the other.                                                         *)
SelectRowsFails(m) ==
  /\ m \in matching
  /\ faults < MaxFaults
  /\ faults' = faults + 1
  /\ matching' = matching \ {m}
  /\ \E events \in BOOLEAN :
       LET rows == {r \in Row : MethodOf[r] = m /\ Visible(r)}
           lost == {r \in rows : IsEvent[r] = events}
       IN updating' = updating \cup (rows \ lost) /\ failed' = failed \cup lost
  /\ UNCHANGED <<clock, structure, admin, row, watermark, updater,
                 stale, late, updated, uploaded>>

(* The indexer's process ends and starts again: any other failure of an    *)
(* update does that, being the rejection of a promise no one waits for.    *)
RestartIndexer ==
  LET lost == updating \cup {r \in Row : MethodOf[r] \in matching} IN
  /\ faults < MaxFaults
  /\ faults' = faults + 1
  /\ updater' = NoRound
  /\ matching' = {} /\ updating' = {}
  /\ row' = [r \in Row |->
       CASE row[r].at = "read" -> NoRow
         [] row[r].at = "row" -> [row[r] EXCEPT !.at = IF IsEvent[r] THEN "done" ELSE "lost",
                                                !.params = {}]
         [] OTHER -> row[r]]
  /\ failed' = failed \cup lost
  /\ UNCHANGED <<clock, structure, admin, watermark, stale, late, updated, uploaded>>

-----------------------------------------------------------------------------
AdminStep(u) ==
  SendInterface(u) \/ CommitInterface(u) \/ InsertParameter(u) \/ EndUpload(u)
RowStep(r) ==
  ReadInterface(r) \/ InsertRow(r) \/ IndexEventParameters(r) \/ IndexTransactionInput(r)
Round == StartRound \/ SelectInterfaces \/ SetWatermark

Next ==
  \/ Tick
  \/ \E u \in Upload : AdminStep(u)
  \/ RestartAdmin
  \/ \E r \in Row : RowStep(r) \/ UpdateRow(r) \/ WorkerFails(r)
  \/ Round
  \/ \E m \in Method : SelectRows(m) \/ SelectRowsFails(m)
  \/ RestartIndexer

(* The clock runs, cron starts the daily job and the process gets to every *)
(* update that was launched.  Nobody has to upload anything, and a worker  *)
(* may never be started.                                                   *)
Fairness ==
  /\ WF_vars(Tick) /\ WF_vars(Round)
  /\ \A m \in Method : WF_vars(SelectRows(m))
  /\ \A r \in Row : WF_vars(UpdateRow(r))

Spec == Init /\ [][Next]_vars
FairSpec == Spec /\ Fairness

-----------------------------------------------------------------------------
(* Properties.                                                             *)

UploadType == [at : {"new", "sent", "params", "done"}, created : Nat, n : Nat]
RowType ==
  [at : {"absent", "read", "row", "done", "lost"}, found : BOOLEAN, named : BOOLEAN,
   params : SUBSET Nat]

(* The tables, the uploads and the updates hold what the code can put      *)
(* there; a parameter's position is one of its method's.                   *)
TypeOK ==
  /\ clock \in 1..MaxTime + 1
  /\ methodInterface \in [Method -> Nat \cup {Null}]
  /\ methodParameter \in [Method -> SUBSET Nat]
  /\ \A m \in Method : methodParameter[m] \subseteq IF Known(m) THEN 0..Arity[m] - 1 ELSE {}
  /\ upload \in [Upload -> UploadType]
  /\ pool \in {"open", "ended"}
  /\ row \in [Row -> RowType]
  /\ watermark \in Nat \cup {Null}
  /\ updater \in [at : {"idle", "select", "set"}, since : Nat, now : Nat]
  /\ matching \subseteq Method /\ updating \subseteq Row

Missed(r) == r \in stale \cup failed \/ MethodOf[r] \in late

(* The watermark says that the rows of every interface created before it   *)
(* are dealt with, and is written before they are.  A row that has no name *)
(* although its interface is older is about to be updated, unless it is a  *)
(* row whose worker had read that there is none, the interface became      *)
(* visible after a selection of a later date, or its update failed.        *)
UnnamedOnlyByRace ==
  \A r \in Row :
    LET m == MethodOf[r] IN
    Visible(r) /\ ~row[r].named /\ Known(m) /\ Passed(methodInterface[m])
      => m \in matching \/ r \in updating \/ Missed(r)

(* A row that is there when its interface becomes known gets its name, in  *)
(* a round of the job, whatever is indexed and uploaded meanwhile, once    *)
(* the watermark is set.                                                   *)
NamesCatchUp ==
  \A r \in Row :
    Visible(r) /\ Known(MethodOf[r]) /\ watermark # Null ~> row[r].named \/ Missed(r)

(* update.service.ts:53-54, "Based on the latest interfaces added to the   *)
(* structure database, try to decode & update past transactions and        *)
(* events": so they do on any start.  TLC refutes it: a missing watermark  *)
(* ends every round before it sets one.                                    *)
NamesAlwaysCatchUp ==
  \A r \in Row : Visible(r) /\ Known(MethodOf[r]) ~> row[r].named \/ Missed(r)

(* update.service.ts:53-54, "try to decode & update past transactions and  *)
(* events that match the new interfaces": a row an update went through has *)
(* the parameters of its method.  TLC refutes it: none is decoded.         *)
UpdatesDecode ==
  \A r \in updated : row[r].at = "done" => row[r].params # {} \/ Arity[MethodOf[r]] = 0

(* generate-method-interfaces.ts:18, "It also persists the method          *)
(* interfaces and their parameters in the database": an upload that was    *)
(* answered has its interface in the table.                                *)
UploadsPersist == \A m \in uploaded : Known(m)
=============================================================================
