------------------------------ MODULE Metadata ------------------------------
(***************************************************************************)
(* How the metadata of a contract or a token is fetched and stored:        *)
(* apps/indexer/src/metadata/metadata.service.ts, the standards it reads   *)
(* from (ethers/contracts) and the tables metadata, metadata_image,        *)
(* metadata_tag, metadata_link and metadata_asset.                         *)
(*                                                                         *)
(* A request has a key: the asset and the interface it was made with, if   *)
(* any.  Of the stream of requests (RefreshStream) this module keeps where *)
(* the message of each key is.  The run that reads a message starts its    *)
(* task and removes the message without waiting for it, so tasks of one    *)
(* asset may overlap.  A step of a task is the code up to the next await.  *)
(*                                                                         *)
(* The chain's and IPFS's data of an asset are numbered by their changes;  *)
(* 0 stands for data that is missing or could not be had.                  *)
(***************************************************************************)
EXTENDS Integers, Sequences, FiniteSets

CONSTANTS
  Address, Token, Null,
  Standards,    \* the interfaces of the contracts considered; "other": none known
  Profiled,     \* the interfaces of contracts that may set an LSP3 profile
  Task,         \* bound: metadata tasks under way
  Parts,        \* the tables of items, in the order they are filled
  Changing,     \* bound: the assets whose data changes
  MaxVersion,   \* bound: the number of the last change
  MaxFaults     \* bound: failures, malformed documents and crashes

ASSUME MetadataAssumption ==
  /\ Standards \subseteq {"LSP0", "LSP7", "LSP8", "ERC20", "other"}
  /\ Null \notin Token \cup [name : Nat, items : Nat]
  /\ Parts \in Seq(STRING) /\ Len(Parts) > 0
  /\ MaxVersion \in Nat \ {0} /\ MaxFaults \in Nat

VARIABLES
  standard,   \* the interface of each contract
  version,    \* the number of the last change of each asset's data
  announced,  \* the number of the last change that was asked to be fetched
  queued,     \* keys with a message that waits for its task
  handed,     \* keys with a message that has been handed to a task
  task,       \* the local variables of each task
  metadata,   \* table metadata: the numbers of name and description, by asset
  items,      \* the four tables: the numbers of an asset's items, by table
  faults,
  raced,      \* history: assets with a request skipped while one was answered
  overlapped, \* history: assets that two tasks worked on at once
  erased,     \* history: contracts whose row a task of a token wrote
  failed      \* history: assets with a task that failed, was lost or had no answer

stream == <<queued, handed>>
tables == <<metadata, items>>
history == <<raced, overlapped, erased, failed>>
vars == <<standard, version, announced, stream, task, tables, faults, history>>

Asset == Address \X (Token \cup {Null})
Part == {Parts[n] : n \in DOMAIN Parts}

Code == {"LSP0", "LSP7", "LSP8", "ERC20"}
Key == Asset \X (Code \cup {"unknown", Null})

(* A contract is asked for with its interface or without, and as LSP0 when *)
(* it sets a profile, whatever it is; a token as LSP8, or with the         *)
(* interface in the contract's row: none yet, or 'unknown'.  Contracts of  *)
(* other standards do not send an LSP8's transfers.                        *)
CodesOf(a) ==
  ({standard[a]} \cap Code) \cup {Null} \cup (IF standard[a] \in Profiled THEN {"LSP0"} ELSE {})

KeysOf(x) ==
  IF x[2] = Null THEN {x} \X CodesOf(x[1])
  ELSE IF standard[x[1]] \in {"LSP8", "other"} THEN {x} \X {"LSP8", "unknown", Null}
  ELSE {}

NoTask ==
  [at |-> "idle", key |-> Null, code |-> Null, target |-> Null,
   name |-> 0, items |-> 0, part |-> 1]

At(s, step) == task[s].at = step
AssetOf(s) == task[s].key[1]
IsToken(s) == AssetOf(s)[2] # Null
TasksOf(x) == {s \in Task : ~At(s, "idle") /\ AssetOf(s) = x}
GoTo(s, step) == task' = [task EXCEPT ![s].at = step]

-----------------------------------------------------------------------------
Init ==
  /\ standard \in [Address -> Standards]
  /\ version = [x \in Asset |-> 1]
  /\ announced = [x \in Asset |-> 0]
  /\ queued = {} /\ handed = {}
  /\ task = [s \in Task |-> NoTask]
  /\ metadata = [x \in Asset |-> Null]
  /\ items = [x \in Asset |-> [p \in Part |-> {}]]
  /\ faults = 0
  /\ raced = {} /\ overlapped = {} /\ erased = {} /\ failed = {}

(* The data of an asset changes on the chain.                              *)
Change(x) ==
  /\ x \in Changing
  /\ version[x] < MaxVersion
  /\ version' = [version EXCEPT ![x] = @ + 1]
  /\ UNCHANGED <<standard, announced, stream, task, tables, faults, history>>

-----------------------------------------------------------------------------
(* The stream.                                                             *)

(* A regression: a key that is there already does not keep the message out.*)
RequestAgain(k) ==
  LET x == k[1] IN
  /\ k \in KeysOf(x)
  /\ announced[x] < version[x]
  /\ announced' = [announced EXCEPT ![x] = @ + 1]
  /\ queued' = queued \cup {k}
  /\ UNCHANGED <<standard, version, handed, task, tables, faults, history>>

(* addAssetToRefreshDataStream, for a new asset or a change of its data: a *)
(* key that has a message already is skipped.                              *)
Request(k) ==
  LET x == k[1] IN
  /\ k \in KeysOf(x)
  /\ announced[x] < version[x]
  /\ announced' = [announced EXCEPT ![x] = @ + 1]
  /\ queued' = IF k \in handed THEN queued ELSE queued \cup {k}
  /\ raced' = IF k \in handed THEN raced \cup {x} ELSE raced
  /\ UNCHANGED <<standard, version, handed, task, tables, faults, overlapped, erased, failed>>

(* indexMetadata reads the message and starts its task.                    *)
HandOut(k, s) ==
  /\ k \in queued
  /\ At(s, "idle")
  /\ queued' = queued \ {k}
  /\ handed' = handed \cup {k}
  /\ task' = [task EXCEPT ![s] = [NoTask EXCEPT !.at = "identify", !.key = k, !.target = k[1]]]
  /\ overlapped' = IF TasksOf(k[1]) # {} THEN overlapped \cup {k[1]} ELSE overlapped
  /\ UNCHANGED <<standard, version, announced, tables, faults, raced, erased, failed>>

(* markMessagesAsProcessed removes the message and its key.                *)
Release(k) ==
  /\ k \in handed
  /\ handed' = handed \ {k}
  /\ UNCHANGED <<standard, version, announced, queued, task, tables, faults, history>>

-----------------------------------------------------------------------------
(* fetchContractMetadata, fetchContractTokenMetadata.                      *)

(* The answer is null: defaultMetadata, which is for the contract's row    *)
(* whatever it was to be for, is stored.                                   *)
Default(s) ==
  [task[s] EXCEPT !.at = "row", !.target = <<AssetOf(s)[1], Null>>,
                  !.name = 0, !.items = 0]

(* The interface of the key, or identifyContractInterface, and the         *)
(* standard it selects.                                                    *)
Identify(s) ==
  LET code == IF task[s].key[2] = Null THEN standard[AssetOf(s)[1]] ELSE task[s].key[2]
      supported == IF IsToken(s) THEN {"LSP8"} ELSE {"LSP0", "LSP7", "LSP8", "ERC20"}
  IN
  /\ At(s, "identify")
  /\ task' = [task EXCEPT ![s] =
       IF code \notin supported THEN Default(s)
       ELSE [@ EXCEPT !.code = code,
                      !.at = IF IsToken(s) \/ code = "LSP0" THEN "document" ELSE "name"]]
  /\ failed' = IF code \notin supported /\ IsToken(s) THEN failed \cup {AssetOf(s)} ELSE failed
  /\ UNCHANGED <<standard, version, announced, stream, tables, faults,
                 raced, overlapped, erased>>

(* What the task holds now is read of the asset, and it goes on.           *)
Read(s, fields, next) ==
  /\ task' = [task EXCEPT
       ![s].name = IF "name" \in fields THEN version[AssetOf(s)] ELSE @,
       ![s].items = IF "items" \in fields THEN version[AssetOf(s)] ELSE @,
       ![s].at = next]
  /\ UNCHANGED <<standard, version, announced, stream, tables, faults, history>>

(* ERC20.fetchData has the name and the symbol of the contract only.       *)
ReadERC20(s) ==
  /\ At(s, "name") /\ task[s].code = "ERC20"
  /\ Read(s, {"name"}, "row")

(* LSP4.fetchData, for LSP7 and LSP8: the name and the symbol first, then  *)
(* the document the contract points to.                                    *)
ReadName(s) ==
  /\ At(s, "name") /\ task[s].code # "ERC20"
  /\ Read(s, {"name"}, "document")

ReadAsset(s) ==
  /\ At(s, "document") /\ ~IsToken(s) /\ task[s].code # "LSP0"
  /\ Read(s, {"items"}, IF task[s].code = "LSP7" THEN "nft" ELSE "row")

(* LSP7.fetchData asks for the decimals after LSP4's data.                 *)
ReadNFT(s) ==
  /\ At(s, "nft")
  /\ Read(s, {}, "row")

(* LSP0.fetchData: everything is in the profile.                           *)
ReadProfile(s) ==
  /\ At(s, "document") /\ ~IsToken(s) /\ task[s].code = "LSP0"
  /\ Read(s, {"name", "items"}, "row")

(* LSP8.fetchTokenData: everything is in the document below the base URI   *)
(* of the collection or, when there is none, in the token's own.           *)
ReadTokenData(s) ==
  /\ At(s, "document") /\ IsToken(s)
  /\ Read(s, {"name", "items"}, "row")

-----------------------------------------------------------------------------
(* insertMetadata: the row, and for each of the four tables a DELETE of    *)
(* the items of the row and an INSERT of the new ones.                     *)

(* A regression: the row is inserted ON CONFLICT DO NOTHING.               *)
WriteRowOnce(s) ==
  LET x == task[s].target IN
  /\ At(s, "row")
  /\ metadata' = IF metadata[x] # Null THEN metadata
                 ELSE [metadata EXCEPT ![x] = [name |-> task[s].name, items |-> task[s].items]]
  /\ GoTo(s, "delete")
  /\ erased' = IF x # AssetOf(s) THEN erased \cup {x} ELSE erased
  /\ UNCHANGED <<standard, version, announced, stream, items, faults,
                 raced, overlapped, failed>>

WriteRow(s) ==
  LET x == task[s].target IN
  /\ At(s, "row")
  /\ metadata' = [metadata EXCEPT ![x] = [name |-> task[s].name, items |-> task[s].items]]
  /\ GoTo(s, "delete")
  /\ erased' = IF x # AssetOf(s) THEN erased \cup {x} ELSE erased
  /\ UNCHANGED <<standard, version, announced, stream, items, faults,
                 raced, overlapped, failed>>

(* A regression: the items inserted without deleting the old ones.         *)
KeepItems(s) ==
  /\ At(s, "delete")
  /\ GoTo(s, "insert")
  /\ UNCHANGED <<standard, version, announced, stream, tables, faults, history>>

DeleteItems(s) ==
  /\ At(s, "delete")
  /\ items' = [items EXCEPT ![task[s].target][Parts[task[s].part]] = {}]
  /\ GoTo(s, "insert")
  /\ UNCHANGED <<standard, version, announced, stream, metadata, faults, history>>

InsertItems(s) ==
  /\ At(s, "insert")
  /\ items' = [items EXCEPT ![task[s].target][Parts[task[s].part]] = @ \cup ({task[s].items} \ {0})]
  /\ task' = [task EXCEPT ![s] =
       IF @.part = Len(Parts) THEN NoTask
       ELSE [@ EXCEPT !.at = "delete", !.part = task[s].part + 1]]
  /\ UNCHANGED <<standard, version, announced, stream, metadata, faults, history>>

-----------------------------------------------------------------------------
(* Faults.                                                                 *)

Fault == faults < MaxFaults /\ faults' = faults + 1

(* The run ends before it has removed a message: the next one reads it.    *)
RunFails(k) ==
  /\ k \in handed
  /\ Fault
  /\ handed' = handed \ {k}
  /\ queued' = queued \cup {k}
  /\ UNCHANGED <<standard, version, announced, task, tables, history>>

(* A read fails, and the handlers turn it into missing data: a name, or a  *)
(* document that no gateway has; of the interface, the decimals or a       *)
(* token's data on the chain, the whole answer.                            *)
ReadFails(s) ==
  /\ task[s].at \in {"identify", "name", "document", "nft"}
  /\ Fault
  /\ \/ /\ task[s].at \in {"identify", "nft"} \/ (At(s, "document") /\ IsToken(s))
        /\ task' = [task EXCEPT ![s] = Default(s)]
     \/ /\ At(s, "name")
        /\ GoTo(s, IF task[s].code = "ERC20" THEN "row" ELSE "document")
     \/ /\ At(s, "document")
        /\ GoTo(s, IF ~IsToken(s) /\ task[s].code = "LSP7" THEN "nft" ELSE "row")
  /\ failed' = failed \cup {AssetOf(s)}
  /\ UNCHANGED <<standard, version, announced, stream, tables, raced, overlapped, erased>>

(* Any document may be malformed: asset.verification.data of an asset that *)
(* has none throws outside the handlers of the reads, and the answer is    *)
(* null, the name that was read before with it.  LSP7.fetchData goes on    *)
(* without LSP4's data.                                                    *)
ReadMalformed(s) ==
  /\ At(s, "document") /\ task[s].code # "LSP0"
  /\ Fault
  /\ task' = [task EXCEPT ![s] =
       IF task[s].code = "LSP7" THEN [@ EXCEPT !.name = 0, !.at = "nft"] ELSE Default(s)]
  /\ failed' = failed \cup {AssetOf(s)}
  /\ UNCHANGED <<standard, version, announced, stream, tables, raced, overlapped, erased>>

(* A statement fails, and the handler of insertMetadata ends the task.     *)
WriteFails(s) ==
  /\ task[s].at \in {"row", "delete", "insert"}
  /\ Fault
  /\ task' = [task EXCEPT ![s] = NoTask]
  /\ failed' = failed \cup {AssetOf(s), task[s].target}
  /\ UNCHANGED <<standard, version, announced, stream, tables, raced, overlapped, erased>>

(* The indexer's process ends; the messages that were not removed are      *)
(* handed out again.                                                       *)
Crash ==
  /\ Fault
  /\ queued' = queued \cup handed
  /\ handed' = {}
  /\ task' = [s \in Task |-> NoTask]
  /\ failed' = failed \cup UNION {{AssetOf(s), task[s].target} : s \in {r \in Task : ~At(r, "idle")}}
  /\ UNCHANGED <<standard, version, announced, tables, raced, overlapped, erased>>

-----------------------------------------------------------------------------
Step(s) ==
  \/ Identify(s) \/ ReadERC20(s) \/ ReadName(s) \/ ReadAsset(s) \/ ReadNFT(s)
  \/ ReadProfile(s) \/ ReadTokenData(s)
  \/ WriteRow(s) \/ DeleteItems(s) \/ InsertItems(s)

Next ==
  \/ \E x \in Asset : Change(x)
  \/ \E k \in Key : Request(k) \/ Release(k) \/ RunFails(k)
  \/ \E k \in Key, s \in Task : HandOut(k, s)
  \/ \E s \in Task : Step(s) \/ ReadFails(s) \/ ReadMalformed(s) \/ WriteFails(s)
  \/ Crash

Spec == Init /\ [][Next]_vars

-----------------------------------------------------------------------------
(* Properties.                                                             *)

TaskType ==
  [at : {"idle", "identify", "name", "document", "nft", "row", "delete", "insert"},
   key : Key \cup {Null}, code : Code \cup {Null}, target : Asset \cup {Null},
   name : 0..MaxVersion, items : 0..MaxVersion, part : DOMAIN Parts]

(* The stream, the tables and the local variables hold what the code can   *)
(* put there; a message is in one place, and items have a row.             *)
TypeOK ==
  /\ standard \in [Address -> Standards]
  /\ version \in [Asset -> 1..MaxVersion]
  /\ announced \in [Asset -> 0..MaxVersion]
  /\ queued \subseteq Key /\ handed \subseteq Key \ queued
  /\ task \in [Task -> TaskType]
  /\ metadata \in [Asset -> [name : 0..MaxVersion, items : 0..MaxVersion] \cup {Null}]
  /\ items \in [Asset -> [Part -> SUBSET (1..MaxVersion)]]
  /\ \A x \in Asset : metadata[x] = Null => \A p \in Part : items[x][p] = {}
  /\ faults \in 0..MaxFaults

Disturbed(x) == x \in overlapped \cup erased \cup failed

(* The row and the four tables are written by nine statements.  Between    *)
(* tasks they all hold one and the same answer, unless two tasks of the    *)
(* asset overlapped, one failed, or a token's wrote to the contract's row. *)
PartsAgree ==
  \A x \in Asset : metadata[x] # Null /\ TasksOf(x) = {} /\ ~Disturbed(x) =>
    \A p \in Part : items[x][p] = {metadata[x].items} \ {0}

(* Requests are dropped when the key of the asset has a message, and every *)
(* change is answered all the same: an asset with no message and no task   *)
(* has a row with every change that was announced, unless a request was    *)
(* dropped for a message that had been handed to its task already, or the  *)
(* asset was disturbed.                                                    *)
RowFollowsRequests ==
  \A x \in Asset :
    /\ announced[x] > 0
    /\ KeysOf(x) \cap (queued \cup handed) = {}
    /\ TasksOf(x) = {}
    /\ x \notin raced /\ ~Disturbed(x)
    /\ standard[x[1]] # "other"
    => /\ metadata[x] # Null
       /\ metadata[x].name >= announced[x]
       /\ standard[x[1]] # "ERC20" => metadata[x].items >= announced[x]
=============================================================================
